----------------------------- MODULE MCAnalyses -----------------------------
(***************************************************************************)
(* Instances for TLC of the modules about analyses and what is made of     *)
(* them: graph traversal, the verdict of a replay, the clustering of       *)
(* failure signals, a benchmark run, the plan of a schedule, requests for  *)
(* analyses, the windows of a drift analysis, reports and dossiers, timed  *)
(* passes, stress experiments, the checks of a data quality analysis, the  *)
(* reliability profile, the evaluation of a model, the command line and    *)
(* the HTTP API.  As in MCRecords a behaviour picks one part and the       *)
(* others stand still; a part that stands still has one initial state.     *)
(***************************************************************************)
EXTENDS GraphTraversal, ReplayVerdict, FailureClustering, BenchmarkRun, PlanExpansion, AnalysisRequest,
        ShiftWindows, EvidenceDossier, ResourceMeasurement, StressExperiment, QualityChecks,
        ReliabilityProfile, MCEvaluation, CommandLine, HttpApi, TLC

CONSTANTS n1, n2, n3,   \* nodes of a graph
          d1, d2,       \* documents
          p, q,         \* processes that run the benchmark or ask for an analysis
          s1, s2,       \* statistical analyses
          b1, b2        \* processes that build the dossier

AllGraphs == [Edges -> [from : Nodes, to : Nodes]]

\* Every bound and direction, with and without a node or an edge left out.
FromFirst ==
    {x \in [start : {n1}, goal : {n3, NoGoal}, direction : Direction, max_depth : 1..2, max_visited : 1..3,
            nodes : {Nodes, {n1, n3}}, edges : {Edges, Edges \ {1}}] :
        (x.nodes = Nodes \/ x.edges = Edges) /\ (x.max_depth = 2 \/ x.max_visited = 3)}

\* Kinds that differ in what an unreadable document means, what is compared exactly, what else is compared, and
\* whether sources have a fingerprint; those left out combine the same differences.
OnePerClass == {"SCHEDULE", "RESOURCE_ANALYSIS", "DRIFT_ANALYSIS", "RELIABILITY_PROFILE", "GRAPH_SNAPSHOT"}

\* A tolerance is used only where the mode compares within it.
ToleranceIfUsed ==
    [kind : Kinds, mode : ReproductionMode, tolerated : {{}}]
    \cup [kind : Kinds, mode : TOLERANCE_MODES, tolerated : {{"tiny"}, {"tiny", "near"}}]

\* Signals 0..3: how they fall into blocks, and which signatures are equal.
Numbered(x) == [s \in Signals |-> x[s + 1]]
FourSignals ==
    [block : {Numbered(x) : x \in {<<1, 1, 1, 1>>, <<1, 2, 1, 2>>, <<2, 1, 1, 1>>}},
     signature : {Numbered(x) : x \in {<<1, 2, 3, 4>>, <<1, 2, 1, 3>>, <<1, 2, 2, 1>>}},
     score : [Pairs -> {0, 3, 5}]]

TwoGrids == <<"g", "h">>
OneCell == <<"gh">>
OneInteraction == <<"interaction">>
AllThree == [s \in {"interaction"} |-> {"g", "h", "gh"}]
WholeOrNot == {{"COMPLETED"}, {"COMPLETED", "FAILED"}}

\* Units 1..4 of a schedule, numbered in the order of (-priority, key): any other plan is one of these renamed.
Alphabetical == [key \in Keys |-> key]
Descending == {x \in [Keys -> Priorities] : \A i, j \in Keys : i < j => x[i] >= x[j]}

\* Windows that touch, overlap, are empty or a point, and every small rolling plan.
Bounds == {0, 2, 4}
Windows == [start : Bounds, end : Bounds, start_inclusive : BOOLEAN, end_inclusive : BOOLEAN]
Declared ==
    [reference : Windows, comparisons : {{w} : w \in Windows} \cup {{HalfOpen(0, 2), w} : w \in Windows},
     rolling : {NoPlan}]
Rolling ==
    [reference : {NoWindow, HalfOpen(0, 2), [HalfOpen(0, 2) EXCEPT !.end_inclusive = TRUE], HalfOpen(6, 8)},
     comparisons : {{}},
     rolling : [start : {0, 2}, stop : {2, 5, 6}, width : 0..4, step : 0..4,
                reference : {"FIXED", "PREVIOUS", "EXPANDING"}]]
DeclaredOrRolling == Declared \cup Rolling
DenseOrSparse == {0..6, {0, 1, 3}, {2, 4}, {1, 5}, {6}}

Disagree == (s1 :> 1) @@ (s2 :> 2)
TwoTemplates == {{"analysis"}, {"run", "reproduction_attempt"}}

\* Samples 0..4: a subset, a pool with and without a timeout, a bound, a timer too coarse, no member.
Measure(w, t, b, n, m, u, r) ==
    [workers |-> w, timeout |-> t, batch_size |-> b, n_samples |-> n, members |-> m, warmups |-> u, repeats |-> r]
SomeMeasurement == Measure(1, 0, 2, 3, {1, 4}, 1, 2)
OneOfEach ==
    {Measure(1, 2, 2, 0, {0, 1, 3, 4}, 1, 1), Measure(2, 2, 2, 0, 0..4, 0, 1), Measure(2, 0, 2, 3, 0..4, 1, 1),
     SomeMeasurement, Measure(1, 1, 2, 3, {1}, 1, 1), Measure(1, 0, 2, 3, {}, 1, 1)}

\* Stress plans on two units of a family's parameter, and plans that are refused.
Stressed(f, v) == [family |-> f, value |-> v, seed |-> 0]
Design(c, sw, sd) ==
    [components |-> c, sweep |-> sw, seeds |-> sd, factorial |-> FALSE, discover |-> FALSE, given |-> TRUE]
Sweep(c, v) == [component |-> c, values |-> v]
Scaling == <<Stressed("FEATURE_SCALING", 1)>>
Noise == <<Stressed("FEATURE_NOISE", 1)>>
Threshold == <<Stressed("THRESHOLD", 1)>>
Weights == <<Stressed("PARAMETER_NOISE", 1)>>
Factorial == [Design(Scaling \o Noise, NoSweep, <<0>>) EXCEPT !.factorial = TRUE, !.discover = TRUE, !.given = FALSE]
MostPlans ==
    {Factorial, Design(Scaling, Sweep(1, <<1, 2>>), <<0, 1>>), Design(Noise, Sweep(1, <<1, 2, 3>>), <<0>>),
     [Design(Weights \o Threshold, Sweep(2, <<1, 2>>), <<3, 4>>) EXCEPT !.discover = TRUE],
     Design(<<Stressed("REPEATED_EXECUTION", 3)>>, NoSweep, <<0>>)}
RefusedPlans ==
    {Design(<<Stressed("BATCH_SIZE", 1)>>, NoSweep, <<0, 1>>), Design(Threshold \o Weights, NoSweep, <<0>>),
     Design(<<[Scaling[1] EXCEPT !.seed = 1]>>, Sweep(1, <<1, 2>>), <<0>>), Design(Noise \o Threshold, NoSweep, <<0>>),
     [Factorial EXCEPT !.components = Noise \o Noise], Design(Noise, Sweep(1, <<1, 2, 3>>), <<0, 1>>)}
SomePlans == MostPlans \cup RefusedPlans

\* Three rows of two columns, every kind of cell among them; limits that some tables meet and others do not.
Served(ids, x, y, labels) ==
    [ids |-> ids, rows |-> [r \in DOMAIN x |-> <<x[r], y[r]>>], labels |-> labels, declared |-> 3]
Xs == {<<0, 1, 9>>, <<4, 4, 4>>, <<0, Infinite, Word>>, <<Missing, Infinite, Infinite>>, <<1, 0, 1>>, <<Word, 5, 5>>}
Ys == {<<Word, Word, 1>>, <<Missing, 0, 0>>, <<Infinite, 5, 7>>}
Labels == {<<0, 1, 2>>, <<0, 0, 1>>, <<Missing, Word, 0>>, <<Infinite, Infinite, Infinite>>, <<0, 1>>, None}
FewRows == {Served(<<1, 2, 3>>, x, <<Missing, 0, 0>>, l) : x \in Xs, l \in Labels}
SomeRows ==
    {Served(<<1, 2, 3>>, x, y, l) : x \in Xs, y \in Ys, l \in Labels}
    \cup {Served(<<1, 2, 2>>, x, <<Infinite, 5, 7>>, l) : x \in Xs, l \in Labels}
ShortRow == [Served(<<1, 2, 3>>, <<0, 0, 1>>, <<7, 7, 8>>, None) EXCEPT !.rows[2] = <<0>>]
SharedShort == [Served(<<1, 2, 3>>, <<7, 7, 8>>, <<0, 0, 1>>, None) EXCEPT !.rows[2] = <<7>>]
NoRow == Served(<<>>, <<>>, <<>>, <<>>)
FourRows == Served(<<1, 2, 3, 4>>, <<0, 0, 0, 9>>, <<Word, Word, Word, 5>>, <<0, 0, 0, 1>>)
Limits ==
    [features |-> {}, required |-> {1, 3}, allow_extra |-> FALSE, min |-> 2, max |-> 3, expected |-> None,
     max_feature_rate |-> 30, max_row_rate |-> None, include_target |-> FALSE, max_duplicate_rate |-> None,
     max_conflicting_rate |-> 50, column |-> 2, unique_ratio |-> 98, min_samples |-> 2, require_unique |-> TRUE,
     low |-> 0, high |-> 8, near_constant |-> 60, min_variance |-> 1, method |-> "iqr", k |-> 3, max_outlier_rate |-> 0,
     allowed |-> {0, Word}, max_cardinality |-> 1, max_abs_skew |-> 1, max_modal_fraction |-> 60, min_unique |-> 2,
     min_class_count |-> 2, min_class_share |-> None, max_missing_rate |-> 50, max_abs_correlation |-> 99,
     min_purity |-> 99, min_rows |-> 2, max_overlap |-> 1, ordering |-> 1, allow_ties |-> TRUE,
     windows |-> <<None, None>>, same_split |-> FALSE, aspects |-> {"categories"}]
Other ==
    [Limits EXCEPT !.features = {1, 2}, !.required = {}, !.max = 2, !.expected = 4, !.min_variance = None, !.max_outlier_rate = None,
                   !.low = None, !.max_row_rate = 60, !.include_target = TRUE,
     !.max_duplicate_rate = 20, !.max_conflicting_rate = None, !.column = 1, !.require_unique = FALSE, !.method = "mad",
     !.min_class_count = None, !.min_class_share = 40, !.max_missing_rate = 20, !.allow_ties = FALSE, !.max_overlap = None]
Asks(what, limits, kinds, task, tables) ==
    [check : {what}, config : {limits}, kinds : {kinds}, task : {task}, tables : tables, min_members : {2},
     slice : IF what \in SLICEABLE THEN {None, [readable |-> TRUE, ids |-> {1, 3}], [readable |-> TRUE, ids |-> {2}]}
             ELSE {None}]
Mixed == <<"NUMERIC", "CATEGORICAL">>
OneTable(tables) == {<<t>> : t \in tables}
OnRows ==
    {"schema", "sample_count", "missingness", "duplicates", "identifiers", "numeric", "categorical", "target",
     "distribution", "target_leakage"}
OnSplit ==
    {Asks(c, Limits, Mixed, "CLASSIFICATION", OneTable(SomeRows \cup {ShortRow, NoRow, FourRows})) : c \in OnRows}
    \cup {Asks(c, Other, Mixed, "CLASSIFICATION", OneTable(FewRows \cup {SharedShort, FourRows})) : c \in OnRows}
    \cup {Asks(c, Limits, Mixed, "REGRESSION", OneTable(SomeRows)) : c \in {"target", "target_leakage"}}
    \cup {Asks("schema", [Limits EXCEPT !.required = {}], [j \in {1, 3} |-> "NUMERIC"], None, OneTable({ShortRow}))}
    \cup {{[a EXCEPT !.slice = [readable |-> FALSE, ids |-> {1}]] : a \in Asks("numeric", Limits, Mixed, None, {<<ShortRow>>})}}
TwoSplits ==
    LET R == {Served(i, x, <<Word, Word, 1>>, <<0, 1, 2>>) : i \in {<<1, 2, 3>>, <<1, 2, 2>>, <<4, 5, 6>>}, x \in Xs}
             \cup {Served(<<1, 2, 3>>, <<0, 1, 9>>, <<Word, 0, 1>>, l) : l \in {<<2, 1, 2>>, None}}
        Windowed(at) == [Limits EXCEPT !.windows = <<<<0, 2>>, <<at, 9>>>>, !.same_split = TRUE]
    IN  {Asks(c, l, Mixed, None, R \X R) :
             c \in {"split_overlap", "temporal_order"}, l \in {Limits, [Other EXCEPT !.ordering = None]}}
        \cup {Asks("group_comparison", Limits, Mixed, None, R \X R)}
        \cup {Asks("group_comparison", Windowed(at), Mixed, None, {<<t, t>> : t \in R}) : at \in {1, 2}}
NoCheck ==
    [check |-> "schema", config |-> [features |-> {}, required |-> {}, allow_extra |-> TRUE], kinds |-> <<>>, task |-> None,
     tables |-> <<NoRow>>, slice |-> None, min_members |-> 0]
EveryCheck == {{NoCheck}} \cup OnSplit \cup TwoSplits

\* Profiles over a mode and an interaction, over all other kinds, and over a source of each kind that differs or is lost.
Sourced(i, kind, differs) ==
    [id |-> i, kind |-> kind, readable |-> TRUE, differs |-> differs, enough |-> TRUE, classes |-> FALSE, thin |-> FALSE,
     elsewhere |-> FALSE, interval |-> FALSE]
Anchor ==
    [registered |-> TRUE, completed |-> TRUE, faulted |-> FALSE, readable |-> TRUE, calibrated |-> TRUE, timed |-> FALSE,
     sliced |-> FALSE, interval |-> FALSE]
Ask(scope, sources) == [scope |-> scope, baseline |-> Anchor, sources |-> sources]
SettledOnes ==
    {[Sourced(1, "FAULT_EXPERIMENT", {"split"}) EXCEPT !.thin = TRUE, !.elsewhere = TRUE], Sourced(2, "SLICE_ANALYSIS", {}),
     Sourced(3, "STRESS_ANALYSIS", {}), [Sourced(4, "CALIBRATION_ANALYSIS", {}) EXCEPT !.enough = FALSE],
     Sourced(5, "RESOURCE_ANALYSIS", {}), Sourced(6, "DRIFT_ANALYSIS", {})}
LivingOnes == {Sourced(7, "FAILURE_MODE", {}), Sourced(8, "INTERACTION", {"split"})}
SomeProfiles ==
    {Ask(s, LivingOnes) : s \in Scope}
    \cup {Ask("MODEL_DATASET_EVALUATION", {Sourced(7, "FAILURE_MODE", {}), Sourced(9, "FAILURE_MODE", {"split"})}),
          Ask("MODEL_DATASET", SettledOnes), Ask("MODEL_DATASET", {}),
          [Ask("MODEL_DATASET", {[Sourced(8, "INTERACTION", {}) EXCEPT !.classes = TRUE, !.interval = TRUE]})
               EXCEPT !.baseline.timed = TRUE]}
    \cup {Ask(s, {Sourced(1, y, {l})}) : s \in Scope, y \in Kind, l \in {"dataset", "split", "configuration", "baseline run"}}
    \cup {Ask("MODEL_DATASET", {Sourced(1, y, {"model", "baseline run"})}) : y \in Kind}
    \cup {Ask("MODEL_DATASET", {[Sourced(1, y, {}) EXCEPT !.readable = FALSE]}) : y \in Kind}
    \cup {[Ask("MODEL_DATASET", {}) EXCEPT !.baseline = b] :
              b \in {[Anchor EXCEPT !.registered = FALSE], [Anchor EXCEPT !.completed = FALSE],
                     [Anchor EXCEPT !.faulted = TRUE], [Anchor EXCEPT !.readable = FALSE]}}

VARIABLE part

analyses == <<traversalVars, verdictVars, clusteringVars, benchmarkVars, planVars, requestVars, shiftVars, dossierVars,
              resourceVars, stressVars, qualityVars, profileVars, evaluationVars>>
vars == <<analyses, invocation, exchange, part>>

SomeRequest == [kind |-> "SCHEDULE", mode |-> "EXACT", tolerated |-> {}]
SomeWorld ==
    [original |-> [d \in Documents |-> "stored"], distance |-> [d \in Documents |-> "same"],
     resource_keys |-> {}, completed |-> TRUE, provenance |-> TRUE, sources_changed |-> FALSE, others |-> TRUE]
SomeInput == [block |-> Numbered(<<1, 1, 1, 1>>), signature |-> Numbered(<<1, 2, 3, 4>>), score |-> [x \in Pairs |-> 0]]
SomeShift == [reference |-> HalfOpen(0, 2), comparisons |-> {HalfOpen(2, 4)}, rolling |-> NoPlan]
SomeInvocation == Invoked(Cmd("info", <<>>, "nothing"), FALSE, NotThere)
SomeExchange == Sent(1, 1, [place \in 1..3 |-> "known"], FALSE)

Init ==
    /\ part \in {"traversal", "verdict", "clustering", "benchmark", "plan", "request", "windows", "dossier", "resources",
                "stress", "quality", "profile", "evaluation", "cli", "api"}
    /\ IF part = "traversal" THEN TRUE
       ELSE graph = [e \in Edges |-> [from |-> n1, to |-> n1]] /\ query = CHOOSE x \in FromFirst : TRUE
    /\ IF part = "verdict" THEN request \in ToleranceIfUsed ELSE request = SomeRequest /\ world = SomeWorld
    /\ IF part = "clustering" THEN TRUE ELSE input = SomeInput
    /\ IF part = "plan" THEN priority \in Descending ELSE deps = [key \in Keys |-> {}] /\ priority = [key \in Keys |-> 0]
    /\ IF part = "request" THEN TRUE ELSE engine = SpecEngine
    /\ IF part = "windows" THEN TRUE ELSE shift = SomeShift /\ order = 0..6
    /\ IF part = "resources" THEN TRUE ELSE measurement = SomeMeasurement
    /\ IF part = "stress" THEN TRUE ELSE plan = Factorial
    /\ IF part = "quality" THEN TRUE ELSE quality = NoCheck
    /\ IF part = "profile" THEN TRUE ELSE profile = Ask("MODEL_DATASET", {})
    /\ IF part = "evaluation" THEN TRUE ELSE evaluation = SomeEvaluation
    /\ IF part = "cli" THEN CommandInit ELSE invocation = SomeInvocation
    /\ IF part = "api" THEN ApiInit ELSE exchange = SomeExchange
    /\ QualityInit /\ ProfileInit /\ EvaluationInit /\ PlanInit /\ RequestInit /\ ShiftInit /\ DossierInit /\ ResourceInit /\ StressInit
    /\ BenchmarkInit /\ ClusteringInit /\ VerdictInit /\ TraversalInit

Next ==
    /\ UNCHANGED part
    /\ \/ /\ part = "traversal" /\ TraversalNext
          /\ UNCHANGED <<verdictVars, clusteringVars, benchmarkVars, planVars, requestVars, shiftVars,
                        dossierVars, resourceVars, stressVars, qualityVars, profileVars, evaluationVars, invocation, exchange>>
       \/ /\ part = "verdict" /\ VerdictNext
          /\ UNCHANGED <<traversalVars, clusteringVars, benchmarkVars, planVars, requestVars, shiftVars,
                        dossierVars, resourceVars, stressVars, qualityVars, profileVars, evaluationVars, invocation, exchange>>
       \/ /\ part = "clustering" /\ ClusteringNext
          /\ UNCHANGED <<traversalVars, verdictVars, benchmarkVars, planVars, requestVars, shiftVars,
                        dossierVars, resourceVars, stressVars, qualityVars, profileVars, evaluationVars, invocation, exchange>>
       \/ /\ part = "benchmark" /\ BenchmarkNext
          /\ UNCHANGED <<traversalVars, verdictVars, clusteringVars, planVars, requestVars, shiftVars,
                        dossierVars, resourceVars, stressVars, qualityVars, profileVars, evaluationVars, invocation, exchange>>
       \/ /\ part = "plan" /\ PlanNext
          /\ UNCHANGED <<traversalVars, verdictVars, clusteringVars, benchmarkVars, requestVars, shiftVars,
                        dossierVars, resourceVars, stressVars, qualityVars, profileVars, evaluationVars, invocation, exchange>>
       \/ /\ part = "request" /\ RequestNext
          /\ UNCHANGED <<traversalVars, verdictVars, clusteringVars, benchmarkVars, planVars, shiftVars,
                        dossierVars, resourceVars, stressVars, qualityVars, profileVars, evaluationVars, invocation, exchange>>
       \/ /\ part = "windows" /\ ShiftNext
          /\ UNCHANGED <<traversalVars, verdictVars, clusteringVars, benchmarkVars, planVars, requestVars,
                        dossierVars, resourceVars, stressVars, qualityVars, profileVars, evaluationVars, invocation, exchange>>
       \/ /\ part = "dossier" /\ DossierNext
          /\ UNCHANGED <<traversalVars, verdictVars, clusteringVars, benchmarkVars, planVars, requestVars,
                        shiftVars, resourceVars, stressVars, qualityVars, profileVars, evaluationVars, invocation, exchange>>
       \/ /\ part = "resources" /\ ResourceNext
          /\ UNCHANGED <<traversalVars, verdictVars, clusteringVars, benchmarkVars, planVars, requestVars,
                        shiftVars, dossierVars, stressVars, qualityVars, profileVars, evaluationVars, invocation, exchange>>
       \/ /\ part = "stress" /\ StressNext
          /\ UNCHANGED <<traversalVars, verdictVars, clusteringVars, benchmarkVars, planVars, requestVars,
                        shiftVars, dossierVars, resourceVars, qualityVars, profileVars, evaluationVars, invocation, exchange>>
       \/ /\ part = "quality" /\ QualityNext
          /\ UNCHANGED <<traversalVars, verdictVars, clusteringVars, benchmarkVars, planVars, requestVars,
                        shiftVars, dossierVars, resourceVars, stressVars, profileVars, evaluationVars, invocation, exchange>>
       \/ /\ part = "profile" /\ ProfileNext
          /\ UNCHANGED <<traversalVars, verdictVars, clusteringVars, benchmarkVars, planVars, requestVars,
                        shiftVars, dossierVars, resourceVars, stressVars, qualityVars, evaluationVars, invocation, exchange>>
       \/ /\ part = "evaluation" /\ EvaluationNext
          /\ UNCHANGED <<traversalVars, verdictVars, clusteringVars, benchmarkVars, planVars, requestVars,
                        shiftVars, dossierVars, resourceVars, stressVars, qualityVars, profileVars, invocation, exchange>>
       \/ part = "cli" /\ CommandNext /\ UNCHANGED <<analyses, exchange>>
       \/ part = "api" /\ ApiNext /\ UNCHANGED <<analyses, invocation>>

Spec == Init /\ [][Next]_vars
=============================================================================
