CONSTANTS
    r1 = r1
    r2 = r2
    r3 = r3
    r4 = r4
    r5 = r5
    w1 = w1
    w2 = w2
    c1 = c1
    ws = ws
    key = key
    nokey = nokey
    Requests = {r1, r2, r3, r4, r5}
    Workers = {w1, w2}
    Chats = {}
    Lanes <- MCLanes
    Keys <- MCKeys
    Jobs <- MCJobs
    NoKey = nokey
    WS = ws
    KeyOf <- PairedKeys
    Listeners = {r3}
    MaxUnits = 3
    MaxTime = 0
    MaxFaults = 0
    QueueMax = 2
    CallbackAttempts = 2
    Crashes = TRUE
    Panics = FALSE
SPECIFICATION PartsSpec
CHECK_DEADLOCK FALSE
SYMMETRY PartsSymmetry
INVARIANTS
    AnnouncedOnce
    RowsAreCarried
    OneAnswerPerKey
