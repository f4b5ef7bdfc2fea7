SPECIFICATION ExecSpec
CONSTANTS
    t1 = t1
    t2 = t2
    P = P
    Q = Q
    Processes = {P, Q}
    Threads = {t1, t2}
    Home <- OneEach
    Pids = {1, 2}
    Paths = {"out"}
    Contents = {"v1", "v2"}
    LockTimeouts = TRUE
    MaxRuns = 2
    MaxRecords = 1
CHECK_DEADLOCK FALSE
INVARIANTS
    InFlightUntouched
    OutcomeTellsAll
    CompletedIntact
PROPERTIES
    ImplementsRunContract
