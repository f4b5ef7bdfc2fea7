SPECIFICATION FairSpec
CONSTANTS
    a = a
    b = b
    c = c
    d = d
    NoUnit = NoUnit
    Units <- Three
    Deps <- Independent
    PlanOrder <- Position
    Rank <- ByPriority
    Policy <- NeverRetry
    Timed = {a}
    Exclusive = {}
    Memory <- NoMemory
    MemoryBudget = 0
    MaxWorkers = 1
    Answers = {"OK", "TRANSIENT"}
    MaxRuns = 1
    MayCrash = FALSE
    CancelEvents = FALSE
    Commands = {}
    MaxCommands = 0
CHECK_DEADLOCK FALSE
PROPERTIES
    EveryRunEnds
