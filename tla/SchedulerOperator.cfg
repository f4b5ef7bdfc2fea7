SPECIFICATION Spec
CONSTANTS
    a = a
    b = b
    c = c
    d = d
    NoUnit = NoUnit
    Units <- Pair
    Deps <- Chain
    PlanOrder <- Position
    Rank <- ByPriority
    Policy <- NeverRetry
    Timed = {a}
    Exclusive = {}
    Memory <- NoMemory
    MemoryBudget = 0
    MaxWorkers = 1
    Answers = {"OK", "TRANSIENT"}
    MaxRuns = 2
    MayCrash = TRUE
    CancelEvents = TRUE
    Commands = {"cancel", "retry"}
    MaxCommands = 2
CHECK_DEADLOCK FALSE
INVARIANTS
    DepsSucceeded
PROPERTIES
    CompletedMeansDone
    ImplementsContract
