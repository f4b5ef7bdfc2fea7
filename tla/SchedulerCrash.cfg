SPECIFICATION Spec
CONSTANTS
    a = a
    b = b
    c = c
    d = d
    NoUnit = NoUnit
    Units <- Three
    Deps <- Join
    PlanOrder <- Position
    Rank <- ByPriority
    Policy <- RetryFirst
    Timed = {a}
    Exclusive = {}
    Memory <- NoMemory
    MemoryBudget = 0
    MaxWorkers = 2
    Answers = {"OK", "TRANSIENT"}
    MaxRuns = 3
    MayCrash = TRUE
    CancelEvents = FALSE
    Commands = {}
    MaxCommands = 0
CHECK_DEADLOCK FALSE
INVARIANTS
    EvidenceBeforeSuccess
    RetryBudget
    SuccessRedoneOnlyAfterCrash
    AuditChain
