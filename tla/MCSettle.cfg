CONSTANTS
    a1 = a1
    a2 = a2
    ws1 = ws1
    ws2 = ws2
    p1 = p1
    k1 = k1
    c1 = c1
    w1 = w1
    w2 = w2
    key = key
    nokey = nokey
    lane = lane
    task = task
    Agents = {a1, a2}
    Home <- MCHome
    Approvers = {p1}
    MaxPerTurn = 1
    MaxPerDay = 1
    MaxSearches = 2
    MaxTurns = 2
    MaxEdits = 0
    MaxMishaps = 0
    Tickets = {k1}
    Conns = {c1}
    MaxDials = 2
    MaxBreaks = 1
    Viewers = {w1, w2}
    Buffer = 1
    MaxScroll = 1
    MaxPrinted = 1
    MaxShells = 2
    MaxVisits = 2
    Schedules = {1, 2}
    Operators = {}
    Kinds = {"every"}
    Period = 1
    Batch = 1
    LastInstant = 3
    MaxClockFaults = 0
    Workers = {w1, w2}
    Chats = {c1}
    Lanes = {lane}
    Keys = {key}
    NoKey = nokey
    Jobs = {task}
    MaxUnits = 2
    MaxTime = 1
    MaxFaults = 0
SPECIFICATION SettleSpec
CHECK_DEADLOCK FALSE
PROPERTIES
    SearchEnds
    RunEndCuts
    LeftAloneItEnds
    DueIsDealtWith
    EveryUnitSettles
