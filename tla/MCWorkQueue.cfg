CONSTANTS
    w1 = w1
    w2 = w2
    c1 = c1
    laneA = laneA
    laneB = laneB
    key = key
    nokey = nokey
    job = job
    Workers <- MCWorkers
    Chats = {c1}
    Lanes = {laneA, laneB}
    Keys = {}
    NoKey = nokey
    Jobs = {job}
    MaxUnits = 3
    MaxTime = 1
    MaxFaults = 1
SPECIFICATION Spec
SYMMETRY MCSymmetry
INVARIANTS
    LaneExclusive
    HandsAreRight
PROPERTIES
    SettledStays
    ImplementsLaneQueue
