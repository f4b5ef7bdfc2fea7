SPECIFICATION Spec
SYMMETRY SameProcesses
CONSTANTS
    r1 = r1
    r2 = r2
    b1 = b1
    b2 = b2
    p = p
    q = q
    bp = bp
    bq = bq
    m1 = m1
    m2 = m2
    a1 = a1
    a2 = a2
    x1 = x1
    x2 = x2
    Results = {r1, r2}
    Matching = {r1, r2}
    Covered = {r1}
    ReplayOutcomes = {"EQUAL", "DIFFERENT"}
    Submitters = {"submitter"}
    Reproducers = {p, q}
    Builders = {bp, bq}
    RulesInUse <- CoverageOrEvidence
    MaxAttempts <- TwoForFirst
    MaxSnapshots = 1
    Modes = {m1, m2}
    MeetsCandidate = {m1}
    MeetsSupported = {m1}
    Callers = {p, q}
    Notes = {"note"}
    RunsToReplay <- TwoEach
    MinPassPercent = 50
    MaxReproductions <- FirstTwice
    Analyses = {a1, a2}
    Structure <- OneStructure
    TreatmentRuns <- OwnRuns
    Contrast <- Contrasts
    Supporting = {a1, a2}
    Tolerances <- LooseAndTight
    Reviewers = {p, q}
    Baselines = {b1, b2}
    Labs = {p, q}
    Trials = 3
    MaxFailed = 1
    Openers = {p, q}
    Latest = 3
    Rewriting = {2, 3}
    StartVersions = {0, 1, 2}
    Records = {x1, x2}
    Needs <- SecondNeedsFirst
    MaxDepth = 2
CHECK_DEADLOCK FALSE
INVARIANTS
    EvidenceSupportsSnapshot
    MissingOnlyByItsBuilder
    ConfirmedOnEvidence
    ReproducedIndependently
    EndedExperimentIsWhole
PROPERTIES
    ImplementsEvidenceLog
    EveryMoveOnRecord
    AllOrNothing
