CONSTANTS
    a1 = a1
    a2 = a2
    a3 = a3
    ws1 = ws1
    ws2 = ws2
    o1 = o1
    m1 = m1
    p1 = p1
    Window = 6
    MaxIterations = 2
    MaxCallsEach = 2
    MaxRowsSaid = 8
    MaxSays = 2
    MaxForgotten = 1
    Places = {"workspace", "worker"}
    Movers = {m1}
    MaxSteps = 2
    MaxBindings = 1
    MaxCycles = 1
    MaxMoves = 3
    Agents = {a1, a2}
    Home <- MCHome
    Approvers = {o1}
    MaxPerTurn = 2
    MaxPerDay = 1
    MaxSearches = 2
    MaxTurns = 2
    MaxEdits = 1
    MaxMishaps = 1
    Crew = {a1, a2, a3}
    Orchestrator = a3
    Papers = {p1}
    Reading <- MCReading
    Planned = {a1, a2}
    MaxDepth = 2
    MaxTools = 2
    Ceiling = 1
    MaxCost = 1
    MaxAsked = 1
    MaxNoted = 2
    MaxTouches = 2
SPECIFICATION AgentsSpec
SYMMETRY MCSymmetry
CHECK_DEADLOCK FALSE
INVARIANTS
    AgentsTypeOK
    HistoryIsSound
    SearchesAreAsked
    LogIsTrue
    TreeIsOneRun
PROPERTY PlanIsFollowed
