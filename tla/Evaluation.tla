------------------------------ MODULE Evaluation ------------------------------
(***************************************************************************)
(* The evaluation of a model on a dataset (evaluation/engine.py with       *)
(* findings.py, analysis.py, calibration.py): checks, a pass over the      *)
(* samples that leaves out what cannot be used, measurements over the rest,*)
(* rules that turn them into findings, and their record: files first, then *)
(* observations, then a claim with its evidence for each finding.          *)
(*                                                                         *)
(* Numbers are integers and rates are percentages; a comparison of two     *)
(* quotients is one of products.  Metrics whose availability is that of    *)
(* another (f1 of accuracy, rmse of mae, ...) and intervals are left out.  *)
(***************************************************************************)
EXTENDS Integers, Sequences, FiniteSets

CONSTANTS
    Evaluations,    \* requests: the configuration, what model and dataset are, and the samples
    NaN,            \* a number that is not finite
    Text,           \* a value that is no number
    Unset           \* no task, no classes, no bound

ASSUME EvaluationAssumption == \A e \in Evaluations : Len(e.samples) \in Nat

VARIABLES
    evaluation,     \* the request
    progress,          \* where the engine is
    kept,           \* indices: the samples measured; y_true, y_pred and the slice columns go with them
    scored,         \* the samples whose row of probabilities is in scores
    excluded,       \* the samples left out
    files,          \* artifacts registered, in order
    observed,       \* names of the observations recorded
    claims          \* [finding, evidence] in order

evaluationVars == <<evaluation, progress, kept, scored, excluded, files, observed, claims>>

EvaluationInit ==
    /\ evaluation \in Evaluations
    /\ progress = "request" /\ kept = <<>> /\ scored = <<>> /\ excluded = <<>>
    /\ files = <<>> /\ observed = {} /\ claims = <<>>

-----------------------------------------------------------------------------
\* What is checked before the first sample is read.

Task ==
    IF evaluation.task # Unset THEN evaluation.task
    ELSE IF evaluation.model_task # "UNKNOWN" THEN evaluation.model_task ELSE evaluation.data_task
TasksAgree == {evaluation.model_task, evaluation.data_task} \subseteq {Task, "UNKNOWN"}
Classifies == Task = "CLASSIFICATION"

MetricTask == [accuracy |-> "CLASSIFICATION", confusion_matrix |-> "CLASSIFICATION", roc_auc |-> "CLASSIFICATION",
               log_loss |-> "CLASSIFICATION", mae |-> "REGRESSION", r2 |-> "REGRESSION"]
Structural == {"confusion_matrix"}
Evaluated ==
    IF evaluation.metrics = {} THEN {m \in DOMAIN MetricTask : MetricTask[m] = Task} ELSE evaluation.metrics

NSamples == Len(evaluation.samples)

Acceptable ==
    /\ TasksAgree /\ Task \in {"CLASSIFICATION", "REGRESSION"}
    /\ \A m \in evaluation.metrics : m \in DOMAIN MetricTask /\ MetricTask[m] = Task
    /\ evaluation.interval_metrics \subseteq Evaluated \ Structural
    /\ evaluation.split_known /\ evaluation.labels
    /\ NSamples # 0 /\ NSamples <= evaluation.max_samples
    /\ \A s \in evaluation.slices : s.column_known

Begin ==
    /\ progress = "request"
    /\ progress' = IF Acceptable THEN "reading" ELSE "failed"
    /\ UNCHANGED <<evaluation, kept, scored, excluded, files, observed, claims>>

-----------------------------------------------------------------------------
\* The pass over the samples.

UsesProbabilities ==
    /\ Classifies /\ evaluation.score_source \in {"AUTO", "PREDICT_PROBA"}
    /\ evaluation.predicts_proba /\ evaluation.classes # Unset
UsesLogits == Classifies /\ evaluation.score_source = "SOFTMAX_LOGITS"

Taken == Len(kept) + Len(excluded)
Sample(i) == evaluation.samples[i]

\* A value of a regression must be a number; a class may be anything that can be told apart.
Excludes(s) ==
    IF Classifies
    THEN (s.vector /\ s.output = NaN) \/ (UsesProbabilities /\ s.confidence = NaN)
    ELSE {s.target, s.output} \cap {NaN, Text} # {}

HasRow(s) == UsesProbabilities \/ (UsesLogits /\ s.vector)

\* A sample is written to predictions.jsonl as it is kept, and JSON has no NaN.
NoJson(s) == NaN \in {s.target, s.output}
CannotUse(s) == IF Classifies THEN evaluation.retain /\ ~Excludes(s) /\ NoJson(s) ELSE s.vector

\* The row of a sample is appended before its probabilities are found not to be finite.
TakeRowFirst ==
    /\ progress = "reading" /\ Taken < NSamples
    /\ LET i == Taken + 1
           s == Sample(i)
       IN IF CannotUse(s) THEN progress' = "failed" /\ UNCHANGED <<kept, scored, excluded>>
          ELSE /\ UNCHANGED progress
               /\ scored' = IF HasRow(s) THEN Append(scored, i) ELSE scored
               /\ IF Excludes(s)
                  THEN excluded' = Append(excluded, i) /\ UNCHANGED kept
                  ELSE kept' = Append(kept, i) /\ UNCHANGED excluded
    /\ UNCHANGED <<evaluation, files, observed, claims>>

TakeSample ==
    /\ progress = "reading" /\ Taken < NSamples
    /\ LET i == Taken + 1
           s == Sample(i)
       IN IF CannotUse(s) THEN progress' = "failed" /\ UNCHANGED <<kept, scored, excluded>>
          ELSE /\ UNCHANGED progress
               /\ IF Excludes(s)
                  THEN excluded' = Append(excluded, i) /\ UNCHANGED <<kept, scored>>
                  ELSE /\ kept' = Append(kept, i) /\ UNCHANGED excluded
                       /\ scored' = IF HasRow(s) THEN Append(scored, i) ELSE scored
    /\ UNCHANGED <<evaluation, files, observed, claims>>

EndReading ==
    /\ progress = "reading" /\ Taken = NSamples
    /\ progress' = IF kept = <<>> THEN "failed" ELSE "files"
    /\ UNCHANGED <<evaluation, kept, scored, excluded, files, observed, claims>>

-----------------------------------------------------------------------------
\* Measurements.  A row j is a position in kept; its confidence is that of row j of scores.

Rows == DOMAIN kept
HaveScores == Len(scored) = Len(kept) /\ kept # <<>>
TargetOf(j) == Sample(kept[j]).target
OutputOf(j) == Sample(kept[j]).output
ConfidenceOf(j) == Sample(scored[j]).confidence

ClassLabels ==
    IF evaluation.classes = Unset /\ scored # <<>> THEN 0..(evaluation.width - 1) ELSE evaluation.classes

HitsIn(R) == {j \in R : TargetOf(j) = OutputOf(j)}
Targets == {TargetOf(j) : j \in Rows}
Support(c) == Cardinality({j \in Rows : TargetOf(j) = c})
PredictedAs(c) == Cardinality({j \in Rows : OutputOf(j) = c})

\* The sum of x[j] over the rows j of R, where x has a number for each row.
Sum(x, R) ==
    LET upTo[j \in 0..Len(x)] == IF j = 0 THEN 0 ELSE upTo[j - 1] + (IF j \in R THEN x[j] ELSE 0)
    IN upTo[Len(x)]
TargetValues == [j \in Rows |-> TargetOf(j)]
Confidences == [j \in Rows |-> ConfidenceOf(j)]
Residuals == [j \in Rows |-> OutputOf(j) - TargetOf(j)]
AbsoluteErrors == [j \in Rows |-> IF Residuals[j] < 0 THEN 0 - Residuals[j] ELSE Residuals[j]]
Squares(x) == [j \in DOMAIN x |-> x[j] * x[j]]

\* Len(kept) times the squared deviations of the targets from their mean.
Spread == Len(kept) * Sum(Squares(TargetValues), Rows) - Sum(TargetValues, Rows) * Sum(TargetValues, Rows)

\* compute_metric over the rows of a slice or over all of them.
MetricStatus(m, R) ==
    CASE R = {} -> "UNDEFINED"
      [] m \in {"roc_auc", "log_loss"} /\ (~HaveScores \/ ClassLabels = Unset) -> "UNSUPPORTED"
      [] m = "roc_auc" /\ HaveScores /\ ClassLabels # Unset ->
            IF Cardinality(ClassLabels) > 1 /\ ClassLabels \subseteq {TargetOf(j) : j \in R} THEN "COMPUTED" ELSE "UNDEFINED"
      [] m = "log_loss" /\ HaveScores /\ ClassLabels # Unset ->
            IF \A j \in R : TargetOf(j) \in ClassLabels /\ ConfidenceOf(j) <= 100 THEN "COMPUTED" ELSE "INVALID"
      [] m = "r2" /\ R # {} -> IF \A j, l \in R : TargetOf(j) = TargetOf(l) THEN "UNDEFINED" ELSE "COMPUTED"
      [] m \in {"accuracy", "confusion_matrix", "mae"} /\ R # {} -> "COMPUTED"
Computed(m, R) == m \in Evaluated /\ MetricStatus(m, R) = "COMPUTED"

\* Fewer than five batches are not judged; a time that is no number makes all of them invalid.
BatchTimes == evaluation.seconds
TimesValid == \A b \in DOMAIN BatchTimes : BatchTimes[b] # NaN
Kth(n) == CHOOSE t \in {BatchTimes[b] : b \in DOMAIN BatchTimes} :
            /\ Cardinality({b \in DOMAIN BatchTimes : BatchTimes[b] < t}) < n
            /\ Cardinality({b \in DOMAIN BatchTimes : BatchTimes[b] <= t}) >= n
TwiceMedianTime == LET n == Len(BatchTimes) IN Kth((n + 1) \div 2) + Kth(n \div 2 + 1)
SlowestTime == Kth(Len(BatchTimes))

ConfidencesValid == \A j \in Rows : ConfidenceOf(j) \in 0..100
ConfidenceComputed == Classifies /\ HaveScores /\ ConfidencesValid
CalibrationComputed ==
    /\ Classifies /\ evaluation.calibrates /\ HaveScores /\ ClassLabels # Unset /\ ConfidencesValid
    /\ Targets \subseteq ClassLabels

\* Top-label calibration: the rows of each equal-width bin, and Len(kept) times the weighted gap.
Bin(j) ==
    LET b == (ConfidenceOf(j) * evaluation.bins) \div 100 IN IF b < evaluation.bins THEN b ELSE evaluation.bins - 1
TotalGap ==
    LET gap(b) == LET R == {j \in Rows : Bin(j) = b}
                      d == 100 * Cardinality(HitsIn(R)) - Sum(Confidences, R)
                  IN IF d < 0 THEN 0 - d ELSE d
        upTo[b \in 0..evaluation.bins] == IF b = 0 THEN 0 ELSE upTo[b - 1] + gap(b - 1)
    IN upTo[evaluation.bins]

ConfidentErrors == {j \in Rows : TargetOf(j) # OutputOf(j) /\ ConfidenceOf(j) >= evaluation.high_confidence}

Meets(c, j) ==
    CASE c.kind = "TARGET_EQUALS" -> TargetOf(j) = c.value
      [] c.kind = "PREDICTED_EQUALS" -> OutputOf(j) = c.value
      [] c.kind = "FEATURE_EQUALS" -> Sample(kept[j]).feature = c.value
      [] c.kind = "FEATURE_RANGE" -> /\ c.low = Unset \/ Sample(kept[j]).feature >= c.low
                                     /\ c.high = Unset \/ Sample(kept[j]).feature < c.high
SliceRows(s) == {j \in Rows : \A c \in s.conditions : Meets(c, j)}

-----------------------------------------------------------------------------
\* derive_findings: what each rule looks at, and the observations and files it names.

Limit == evaluation.thresholds
FindingOf(rule, affected, names, paths) == [rule |-> rule, affected |-> affected, names |-> names, paths |-> paths]
Only(condition, finding) == IF condition THEN {finding} ELSE {}

\* Of the least frequent classes the code takes the last in alphabetical order.
Minority == CHOOSE c \in Targets : \A d \in Targets : Support(c) <= Support(d)
Majority == CHOOSE c \in Targets : \A d \in Targets : Support(c) >= Support(d)
Imbalance ==
    Only(Classifies /\ 100 * Support(Majority) >= Limit.imbalance_ratio_min * Support(Minority),
         FindingOf("class-imbalance", "overall", {<<"imbalance.ratio">>}, {"confusion"}))
MinorityRecall ==
    Only(/\ Classifies /\ Cardinality(Targets) > 1
         /\ LET hits == HitsIn({j \in Rows : TargetOf(j) = Minority})
            IN 100 * Cardinality(hits) < Limit.minority_recall_max * Support(Minority),
         FindingOf("minority-recall", Minority, {<<"recall", Minority>>}, {"confusion"}))
CalibrationError ==
    Only(CalibrationComputed /\ TotalGap > Limit.ece_max * Len(kept),
         FindingOf("ece-threshold", "overall", {<<"calibration.ece">>}, {"calibration"}))
HighConfidenceErrors ==
    Only(ConfidenceComputed /\ 100 * Cardinality(ConfidentErrors) > Limit.high_confidence_error_rate_max * Len(kept),
         FindingOf("high-confidence-errors", "overall", {<<"confidence.high_confidence_error_rate">>},
                 {"calibration", "errors"}))
ResidualVariance ==
    Only(Computed("r2", Rows) /\ 100 * (Spread - Len(kept) * Sum(Squares(Residuals), Rows)) < Limit.r2_min * Spread,
         FindingOf("r2-floor", "overall", {<<"metric", "r2">>}, {"metrics"}))
LatencyOutlier ==
    Only(/\ TimesValid /\ Len(BatchTimes) >= 5 /\ TwiceMedianTime # 0
         /\ 200 * SlowestTime > Limit.latency_outlier_factor * TwiceMedianTime,
         FindingOf("latency-outlier", "overall", {<<"latency.max_batch_seconds">>, <<"latency.median_batch_seconds">>},
                 {"latency"}))
Degraded(rule, s, m) ==
    FindingOf(rule, s.name, {<<"slice", s.name, m>>, <<"metric", m>>}, {"slices"})
SliceDrop(s) ==
    LET R == SliceRows(s)
        drop == Cardinality(HitsIn(Rows)) * Cardinality(R) - Cardinality(HitsIn(R)) * Len(kept)
    IN Only(/\ Computed("accuracy", Rows) /\ Computed("accuracy", R)
            /\ 100 * drop > Limit.slice_accuracy_drop_max * Len(kept) * Cardinality(R),
            Degraded("slice-accuracy-drop", s, "accuracy"))
SliceIncrease(s) ==
    LET R == SliceRows(s)
        base == Sum(AbsoluteErrors, Rows) * Cardinality(R)
    IN Only(/\ Computed("mae", Rows) /\ Computed("mae", R) /\ base > 0
            /\ 100 * (Sum(AbsoluteErrors, R) * Len(kept) - base) > Limit.slice_error_increase_max * base,
            Degraded("slice-error-increase", s, "mae"))

Findings ==
    Imbalance \cup MinorityRecall \cup CalibrationError \cup HighConfidenceErrors \cup ResidualVariance
    \cup LatencyOutlier \cup UNION {SliceDrop(s) \cup SliceIncrease(s) : s \in evaluation.slices}

-----------------------------------------------------------------------------
\* What is recorded: files, observations, claims with their evidence, and three more files.

OnlyFile(condition, f) == IF condition THEN <<f>> ELSE <<>>
FirstFiles ==
    OnlyFile(evaluation.retain, "predictions") \o OnlyFile(evaluation.record_errors, "errors") \o <<"metrics">>
    \o OnlyFile(Classifies, "confusion") \o <<"calibration", "bootstrap", "slices", "latency">>
LastFiles == <<"findings", "profile", "evaluation">>

\* The labels of a confusion matrix and of error records are written as they are.
NamesLabels(f) == f \in {"errors", "confusion"} \/ (f = "metrics" /\ "confusion_matrix" \in Evaluated)
Writable(f) == Classifies /\ NamesLabels(f) => \A j \in Rows : ~NoJson(Sample(kept[j]))

RegisterNext(all, then) ==
    /\ Len(files) < Len(all)
    /\ LET f == all[Len(files) + 1]
       IN IF Writable(f)
          THEN files' = Append(files, f) /\ progress' = IF Len(files) + 1 = Len(all) THEN then ELSE progress
          ELSE progress' = "failed" /\ UNCHANGED files
    /\ UNCHANGED <<evaluation, kept, scored, excluded, observed, claims>>

RegisterFile == progress = "files" /\ RegisterNext(FirstFiles, "observations")

\* Only what was computed becomes an observation; names that are to others what mse is to mae are left out.
MeasuredNames ==
    {<<"metric", m>> : m \in {x \in Evaluated \ Structural : Computed(x, Rows)}}
ImbalanceNames == IF Classifies THEN {<<"imbalance.ratio">>} ELSE {}
CalibrationNames ==
    IF CalibrationComputed
    THEN {<<"calibration.ece">>, <<"calibration.mce">>, <<"calibration.brier_score">>} ELSE {}
ConfidenceNames ==
    IF ConfidenceComputed
    THEN {<<"confidence.high_confidence_error_rate">>}
         \cup (IF HitsIn(Rows) # {} THEN {<<"confidence.mean_correct">>} ELSE {})
         \cup (IF HitsIn(Rows) # Rows THEN {<<"confidence.mean_incorrect">>} ELSE {})
    ELSE {}
LatencyNames ==
    IF TimesValid THEN {<<"latency.max_batch_seconds">>, <<"latency.median_batch_seconds">>} ELSE {}
ClassNames ==
    IF Classifies
    THEN {<<"recall", c>> : c \in Targets}
         \cup {<<"precision", c>> : c \in {d \in Targets : PredictedAs(d) > 0}}
    ELSE {}
SliceNames ==
    UNION {{<<"slice", s.name, "n_samples">>}
           \cup {<<"slice", s.name, m>> : m \in {x \in Evaluated \ Structural : Computed(x, SliceRows(s))}} :
           s \in evaluation.slices}
ErrorNames ==
    {<<"errors", k>> : k \in IF Classifies
                             THEN {"FALSE_POSITIVE", "FALSE_NEGATIVE", "INCORRECT_CLASS", "LOW_CONFIDENCE_CORRECT",
                                   "HIGH_CONFIDENCE_INCORRECT"}
                             ELSE {"RESIDUAL"}}
ObservedNames ==
    {<<"n_samples">>, <<"excluded_samples">>} \cup MeasuredNames \cup ImbalanceNames \cup CalibrationNames
    \cup ConfidenceNames \cup ErrorNames \cup LatencyNames \cup ClassNames \cup SliceNames

RecordObservations ==
    /\ progress = "observations" /\ progress' = "claims"
    /\ observed' = ObservedNames
    /\ UNCHANGED <<evaluation, kept, scored, excluded, files, claims>>

Evidence(finding) ==
    {<<"OBSERVATION", o>> : o \in finding.names \cap observed}
    \cup {<<"ARTIFACT", f>> : f \in {g \in finding.paths : \E n \in DOMAIN files : files[n] = g}}
    \cup {<<"RUN">>}

Latest == claims[Len(claims)]
LinkedUp == claims # <<>> => Latest.evidence = Evidence(Latest.finding)

Unclaimed == Findings \ {claims[n].finding : n \in DOMAIN claims}

\* Findings come rule by rule, and slice by slice for the last two; evidence kind by kind.
RuleOrder ==
    <<{"class-imbalance"}, {"minority-recall"}, {"ece-threshold"}, {"high-confidence-errors"}, {"r2-floor"},
      {"latency-outlier"}, {"slice-accuracy-drop", "slice-error-increase"}>>
Precedes(one, other) ==
    \E n, m \in DOMAIN RuleOrder : n < m /\ one.rule \in RuleOrder[n] /\ other.rule \in RuleOrder[m]
EvidenceOrder == [OBSERVATION |-> 1, ARTIFACT |-> 2, RUN |-> 3]

\* The claim is SUPPORTED from the start; its evidence follows in transactions of its own.
AssertClaim(finding) ==
    /\ progress = "claims" /\ LinkedUp
    /\ finding \in Unclaimed /\ \A other \in Unclaimed : ~Precedes(other, finding)
    /\ claims' = Append(claims, [finding |-> finding, evidence |-> {}])
    /\ UNCHANGED <<evaluation, progress, kept, scored, excluded, files, observed>>

AddEvidence ==
    /\ progress = "claims" /\ ~LinkedUp
    /\ \E e \in Evidence(Latest.finding) \ Latest.evidence :
          /\ \A d \in Evidence(Latest.finding) \ Latest.evidence : EvidenceOrder[e[1]] <= EvidenceOrder[d[1]]
          /\ claims' = [claims EXCEPT ![Len(claims)].evidence = @ \cup {e}]
    /\ UNCHANGED <<evaluation, progress, kept, scored, excluded, files, observed>>

EndClaims ==
    /\ progress = "claims" /\ LinkedUp /\ Unclaimed = {}
    /\ progress' = "results"
    /\ UNCHANGED <<evaluation, kept, scored, excluded, files, observed, claims>>

RegisterResult == progress = "results" /\ RegisterNext(FirstFiles \o LastFiles, "recorded")

\* A model, a dataset, the disk or the registry raises, or the process dies: the engine undoes nothing.
EvaluationFails ==
    /\ progress \notin {"request", "recorded", "failed"} /\ progress' = "failed"
    /\ UNCHANGED <<evaluation, kept, scored, excluded, files, observed, claims>>

EvaluationNext ==
    \/ Begin \/ TakeSample \/ EndReading \/ RegisterFile \/ RecordObservations
    \/ (\E finding \in Findings : AssertClaim(finding)) \/ AddEvidence \/ EndClaims \/ RegisterResult \/ EvaluationFails

EvaluationSpec == EvaluationInit /\ [][EvaluationNext]_evaluationVars

-----------------------------------------------------------------------------
\* An evaluation accounts for its samples and its claims.  Every sample of the split that was read is
\* either measured or excluded, in its order, and an excluded one has a value that cannot be used.
EverySampleOnce ==
    /\ \A i \in 1..Taken : (\E j \in DOMAIN kept : kept[j] = i) <=> ~(\E j \in DOMAIN excluded : excluded[j] = i)
    /\ \A j, l \in DOMAIN kept : j < l => kept[j] < kept[l]
    /\ \A j, l \in DOMAIN excluded : j < l => excluded[j] < excluded[l]
    /\ progress \notin {"request", "reading", "failed"} => Taken = NSamples
    /\ \A j \in DOMAIN excluded : LET s == Sample(excluded[j]) IN
          NaN \in {s.target, s.output, s.confidence} \/ (~Classifies /\ Text \in {s.target, s.output})

\* Row j of the scores is that of sample j, or scores are not used at all: no claim is made about
\* confidence unless every measured sample has a row of its own.
ScoresBelong ==
    /\ HaveScores => scored = kept
    /\ (\E n \in DOMAIN claims : claims[n].finding.rule \in {"ece-threshold", "high-confidence-errors"}) =>
          \A j \in Rows : HasRow(Sample(kept[j]))

\* A claim is linked to an observation of everything it names, to a file and to the run, before the next one is
\* made; so of an evaluation that ends badly at most the last claim lacks evidence.
ClaimsBacked ==
    \A n \in DOMAIN claims :
       n < Len(claims) \/ progress \in {"results", "recorded"} =>
          /\ \A o \in claims[n].finding.names : o \in observed /\ <<"OBSERVATION", o>> \in claims[n].evidence
          /\ \E f \in claims[n].finding.paths : <<"ARTIFACT", f>> \in claims[n].evidence
          /\ <<"RUN">> \in claims[n].evidence

\* Each rule that fires is claimed once, and evaluation.json is the last file of all.
AllClaimed ==
    /\ \A n, m \in DOMAIN claims : claims[n].finding = claims[m].finding => n = m
    /\ (\E i \in DOMAIN files : files[i] = "evaluation") =>
          /\ {claims[n].finding : n \in DOMAIN claims} = Findings
          /\ files = FirstFiles \o LastFiles

EvaluationAccounted == EverySampleOnce /\ ScoresBelong /\ ClaimsBacked /\ AllClaimed
=============================================================================
