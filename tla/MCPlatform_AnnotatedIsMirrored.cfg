CONSTANTS
    Plugins = {"a", "b"}
    Bundles <- MCBundles
    MaxShelved = 4
    MaxUnpacks = 2
    Layers = {1, 2, 3}
    HostNames = {1}
    SlotNames = {2}
    OwnNames = {3, 4}
    BodyKinds <- MCBodies
    Calls = {"c1", "c2", "c3"}
    MaxHostCalls = 2
    MaxChildren = 2
    MaxNoises = 1
    MaxVersion = 3
    GearRuns = {"r1", "r2"}
    PoolSize = 1
    WarmRuns = 2
    MaxBoxes = 3
    MaxBoxFaults = 2
    MaxTimers = 2
    Lookers = {"l1"}
    MaxAnswers = 4
    MaxLoops = 3
    MaxReboots = 2
    Permissions = {"read", "write"}
    Challenges <- MCChallenges
    Supported = {"read"}
    AuthLists <- MCAuthLists
    SignIns = {1}
    Returns = {"b1", "b2"}
    Connects = {"c1", "c2"}
    MaxWrites = 3
    MaxSpent = 1
    MaxSealKeys = 2
    Callers = {"k1", "k2"}
    Kinds = {"stdio", "stream", "legacy"}
    PipeRoom = 1
    MaxIds = 3
    MaxPosts <- MCMaxPosts
    MaxLines = 2
SPECIFICATION PlatformSpec
CHECK_DEADLOCK FALSE
INVARIANT AnnotatedIsMirrored
