CONSTANTS
    r1 = r1
    r2 = r2
    w1 = w1
    w2 = w2
    c1 = c1
    ws = ws
    key = key
    nokey = nokey
    Requests = {r1}
    Workers = {w1}
    Chats = {}
    Lanes <- MCLanes
    Keys <- MCKeys
    Jobs <- MCJobs
    NoKey = nokey
    WS = ws
    KeyOf <- OneKeyed
    Listeners = {}
    MaxUnits = 1
    MaxTime = 0
    MaxFaults = 0
    QueueMax = 2
    CallbackAttempts = 1
    Crashes = TRUE
    Panics = FALSE
SPECIFICATION PSpec
CHECK_DEADLOCK FALSE
PROPERTY ReconcileHitsTheDeadOnly
