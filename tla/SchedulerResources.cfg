SPECIFICATION FairSpec
CONSTANTS
    a = a
    b = b
    c = c
    d = d
    NoUnit = NoUnit
    Units <- Four
    Deps <- Independent
    PlanOrder <- Position
    Rank <- ByPriority
    Policy <- RetryTimeout
    Timed = {a, b, c, d}
    Exclusive = {d}
    Memory <- SomeMemory
    MemoryBudget = 4
    MaxWorkers = 2
    Answers = {"OK", "TRANSIENT"}
    MaxRuns = 1
    MayCrash = FALSE
    CancelEvents = FALSE
    Commands = {}
    MaxCommands = 0
CHECK_DEADLOCK FALSE
INVARIANTS
    ResourcesRespected
    WorkConserving
    NoStrandedUnit
    OneAnswerPerDispatch
PROPERTIES
    EveryRunEnds
