SPECIFICATION Spec
CONSTANTS
    n1 = n1
    n2 = n2
    n3 = n3
    d1 = d1
    d2 = d2
    p = p
    q = q
    Nodes = {n1, n2, n3}
    Edges = {1, 2, 3}
    Graphs <- AllGraphs
    Queries <- FromFirst
    Documents = {d1, d2}
    Fingerprints = d1
    Kinds <- OnePerClass
    N = 4
    Inputs <- FourSignals
    LinkThreshold = 5
    LowestThreshold = 3
    MaxComparisons = 4
    Runners = {p, q}
    Grids <- TwoGrids
    Cells <- OneCell
    Excluded = {}
    Stages <- OneInteraction
    Requires <- AllThree
    TrialMixes <- WholeOrNot
    MaxBaselines = 2
    Keys = {1, 2, 3, 4}
    KeyRank <- Alphabetical
    Priorities = {0, 1}
    Requesters = {p, q}
    Engines <- AllEngines
    MaxContent = 1
    ShiftSpecs <- DeclaredOrRolling
    SampleKeys <- DenseOrSparse
    MAX_WINDOWS = 4
    s1 = s1
    s2 = s2
    b1 = b1
    b2 = b2
    RunsInScope = {r1}
    AnalysesInScope = {a1}
    AttemptsInScope = {p1}
    Statistics = {s1, s2}
    Foreign = {x1}
    ResultHash <- Disagree
    Templates <- TwoTemplates
    Reporters = {rep}
    Builders = {b1, b2}
    Archivists = {arc}
    Recorded = {r1, a1, s1, s2, x1}
    Changing = {r1}
    Samples = 5
    Specs <- OneOfEach
    ThreadSafe = TRUE
    Resolution = 1
    MinTrials = 1
    MaxElapsed = 3
    Plans <- SomePlans
    Whole = 2
    MAX_TRIALS = 5
    MaxPoints = 2
    Missing = Missing
    Infinite = Infinite
    Word = Word
    None = None
    Columns = 2
    Checks <- EveryCheck
    Profiles <- SomeProfiles
    NaN = NaN
    Text = Text
    Unset = Unset
    Evaluations <- SomeEvaluations
CHECK_DEADLOCK FALSE
INVARIANTS
    TraversalHonest
    PathRuledOut
    OutcomeSupported
    ClustersAreComponents
    CompleteIsEarned
    ExpansionSound
    RequestSound
    WindowsSound
    NothingHidden
    MeasurementHonest
    StressAccounted
    QualityHonest
    ProfileSupported
    EvaluationAccounted
    ExitTells
    StatusTells
