SPECIFICATION Spec
CONSTANTS
    a = a
    b = b
    c = c
    d = d
    NoUnit = NoUnit
    Units <- Three
    Deps <- Join
    PlanOrder <- Position
    Rank <- ByPriority
    Policy <- RetryFirst
    Timed = {a}
    Exclusive = {}
    Memory <- NoMemory
    MemoryBudget = 0
    MaxWorkers = 2
    Answers = {"OK", "TRANSIENT"}
    MaxRuns = 1
    MayCrash = FALSE
    CancelEvents = FALSE
    Commands = {"cancel"}
    MaxCommands = 1
CHECK_DEADLOCK FALSE
INVARIANTS
    AuditChain
