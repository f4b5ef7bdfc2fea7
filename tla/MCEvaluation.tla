---------------------------- MODULE MCEvaluation ----------------------------
(***************************************************************************)
(* Instances for TLC of Evaluation: requests with two, three or five       *)
(* samples that mix values of every kind.                                  *)
(***************************************************************************)
EXTENDS Evaluation

\* Samples of a classification and of a regression, in batches of one; requests that differ from these two in a
\* respect or two.
Seen(target, output, vector, confidence, feature) ==
    [target |-> target, output |-> output, vector |-> vector, confidence |-> confidence, feature |-> feature]
Where(kind, value) == [kind |-> kind, value |-> value, low |-> Unset, high |-> 2]
Slice(name, conditions) == [name |-> name, conditions |-> conditions, column_known |-> TRUE]
Classification ==
    [task |-> Unset, model_task |-> "CLASSIFICATION", data_task |-> "UNKNOWN", metrics |-> {}, interval_metrics |-> {},
     split_known |-> TRUE, labels |-> TRUE, max_samples |-> 6, score_source |-> "AUTO", predicts_proba |-> TRUE,
     classes |-> {0, 1}, width |-> 2, retain |-> FALSE, record_errors |-> FALSE, calibrates |-> TRUE, bins |-> 2,
     high_confidence |-> 90, seconds |-> <<>>, samples |-> <<>>,
     slices |-> {Slice("zeros", {Where("TARGET_EQUALS", 0)}),
                 Slice("low ones", {Where("FEATURE_RANGE", 0), Where("PREDICTED_EQUALS", 1)})},
     thresholds |-> [imbalance_ratio_min |-> 200, minority_recall_max |-> 50, ece_max |-> 10, r2_min |-> 50,
                     high_confidence_error_rate_max |-> 5, latency_outlier_factor |-> 300,
                     slice_accuracy_drop_max |-> 10, slice_error_increase_max |-> 25]]
FromLogits == [Classification EXCEPT !.score_source = "SOFTMAX_LOGITS", !.classes = Unset, !.predicts_proba = FALSE]
Regression ==
    [Classification EXCEPT !.model_task = "REGRESSION", !.classes = Unset,
                           !.slices = {Slice("high", {Where("TARGET_EQUALS", 3), Where("FEATURE_EQUALS", 2)})}]
Evaluating(e, S) == {[e EXCEPT !.samples = x, !.seconds = [b \in DOMAIN x |-> 1]] : x \in S}
Triples(S) == S \X S \X S
Right == Seen(0, 0, TRUE, 60, 1)
Wrong == Seen(0, 1, TRUE, 95, 1)
OfClasses ==
    Triples({Right, Wrong, Seen(1, 1, FALSE, 95, 2), Seen(0, NaN, TRUE, 50, 1), Seen(1, 0, TRUE, NaN, 1)})
OfLogits == Triples({Right, Seen(1, 0, TRUE, 95, 2), Seen(0, 0, FALSE, 95, 2), Seen(0, NaN, TRUE, 50, 1)})
OfNumbers ==
    Triples({Seen(0, 0, FALSE, 0, 1), Seen(3, 1, FALSE, 0, 2), Seen(NaN, 0, FALSE, 0, 1), Seen(2, Text, FALSE, 0, 1)})
OfLabels ==
    {Right, Seen(NaN, 0, TRUE, 60, 1), Seen(0, NaN, FALSE, 95, 1)} \X {Wrong, Seen(2, 1, TRUE, 120, 1)}
Five == [b \in 1..5 |-> Seen(b, 1, FALSE, 0, 2)]
SomeEvaluations ==
    Evaluating(Classification, OfClasses) \cup Evaluating(FromLogits, OfLogits) \cup Evaluating(Regression, OfNumbers)
    \cup Evaluating([Classification EXCEPT !.retain = TRUE, !.record_errors = TRUE], OfLabels)
    \cup Evaluating([Classification EXCEPT !.metrics = {"accuracy"}, !.slices = {}], OfLabels)
    \cup {[Regression EXCEPT !.samples = Five, !.seconds = <<1, 2, 1, t, 1>>] : t \in {9, NaN}}
    \cup UNION {Evaluating(r, {<<Right, Wrong>>}) :
            r \in {[Classification EXCEPT !.score_source = "NONE"], [Classification EXCEPT !.calibrates = FALSE],
                   [Classification EXCEPT !.data_task = "REGRESSION"], [Classification EXCEPT !.task = "REGRESSION"],
                   [Classification EXCEPT !.model_task = "UNKNOWN"], [Classification EXCEPT !.metrics = {"mae"}],
                   [Classification EXCEPT !.interval_metrics = {"confusion_matrix"}],
                   [Classification EXCEPT !.split_known = FALSE], [Classification EXCEPT !.labels = FALSE],
                   [Classification EXCEPT !.max_samples = 1], Regression}}

SomeEvaluation == [Regression EXCEPT !.samples = Five, !.seconds = <<1, 2, 1, 9, 1>>]
=============================================================================
