CONSTANTS
    r1 = r1
    r2 = r2
    w1 = w1
    w2 = w2
    c1 = c1
    ws = ws
    key = key
    nokey = nokey
    Requests = {r1, r2}
    Workers = {w1}
    Chats = {}
    Lanes <- MCLanes
    Keys <- MCKeys
    Jobs <- MCJobs
    NoKey = nokey
    WS = ws
    KeyOf <- SameKey
    Listeners = {}
    MaxUnits = 2
    MaxTime = 0
    MaxFaults = 0
    QueueMax = 2
    CallbackAttempts = 1
    Crashes = FALSE
    Panics = FALSE
SPECIFICATION PFairSpec
CHECK_DEADLOCK FALSE
PROPERTY EverybodyIsAnswered
