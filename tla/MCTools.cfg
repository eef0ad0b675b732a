CONSTANTS
    o1 = o1
    r1 = r1
    k1 = k1
    m1 = m1
    m2 = m2
    ws1 = ws1
    peer1 = peer1
    peer2 = peer2
    Helpers = {"a1"}
    Models = {"m1"}
    Gears = {"g1"}
    Docs = {"d1"}
    Clocks = {"c1"}
    Clerks = {o1}
    MaxRows = 1
    MaxVersions = 3
    MaxRevisions = 1
    MaxLapses = 1
    Admins = {peer1, peer2}
    Runners = {r1}
    MaxForgings = 2
    MaxRulings = 2
    MaxCalls = 1
    MaxSlips = 1
    Tickets = {k1}
    Conns = {peer1, peer2}
    MaxDials = 2
    MaxBreaks = 1
    Commands = {m1, m2}
    Spaces = {ws1}
    Callers = {peer1, peer2}
    Keepers = {o1}
    MaxOpened = 3
    MaxDecisions = 3
    MaxTaken = 3
    MaxPoolFaults = 1
    Viewers = {peer1, peer2}
    Buffer = 1
    MaxScroll = 1
    MaxPrinted = 2
    MaxShells = 2
    MaxVisits = 3
    Schedules = {1}
    Operators = {o1}
    Kinds = {"every", "grid", "last"}
    Period = 2
    Batch = 1
    LastInstant = 4
    MaxClockFaults = 1
SPECIFICATION ToolsSpec
SYMMETRY MCSymmetry
CHECK_DEADLOCK FALSE
INVARIANTS
    ToolsTypeOK
    PoolIsSound
PROPERTIES
    VersionsHold
    GearsAreDecided
    ConnectsAsLogged
    ShellIsFollowed
    FiringsAreRight
