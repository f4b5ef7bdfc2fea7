----------------------------- MODULE EngineProofs -----------------------------
(***************************************************************************)
(* Theorems about the analysis engines, for any requests: an evaluation    *)
(* accounts for its samples and its claims, what a caller is told of an    *)
(* analysis is on record, and a profile says what its evidence supports.   *)
(***************************************************************************)
EXTENDS Evaluation, AnalysisRequest, ReliabilityProfile,
        FiniteSetTheorems, SequenceTheorems, WellFoundedInduction, TLAPS

(***************************************************************************)
(* Evaluation.  Claims rest on files and observations, those on samples    *)
(* that were measured with their own rows; each stage finds what the one   *)
(* before it promised, however many evaluations ended in between.          *)
(***************************************************************************)

AllFiles == FirstFiles \o LastFiles
FileName ==
    {"predictions", "errors", "metrics", "confusion", "calibration", "bootstrap", "slices", "latency", "findings",
     "profile", "evaluation"}

\* Where the engine is, and what it has not touched yet.
ProgressInv ==
    /\ evaluation \in Evaluations
    /\ progress \in {"request", "reading", "files", "observations", "claims", "results", "recorded", "failed"}
    /\ progress = "request" => kept = <<>> /\ scored = <<>> /\ excluded = <<>>
    /\ progress \in {"request", "reading", "files", "observations"} => claims = <<>>
    /\ progress \in {"claims", "results", "recorded"} => observed = ObservedNames

SamplesInv ==
    /\ kept \in Seq(Nat) /\ excluded \in Seq(Nat)
    /\ Taken <= NSamples
    /\ \A j \in DOMAIN kept : kept[j] \in 1..Taken
    /\ \A j \in DOMAIN excluded : excluded[j] \in 1..Taken /\ Excludes(Sample(excluded[j]))
    /\ \A i \in 1..Taken : (\E j \in DOMAIN kept : kept[j] = i) <=> ~(\E j \in DOMAIN excluded : excluded[j] = i)
    /\ \A j, l \in DOMAIN kept : j < l => kept[j] < kept[l]
    /\ \A j, l \in DOMAIN excluded : j < l => excluded[j] < excluded[l]
    /\ progress \notin {"request", "reading", "failed"} => Taken = NSamples

\* A sample that is kept without a row leaves the rows too few for good.
RowsInv ==
    /\ scored \in Seq(Nat) /\ Len(scored) <= Len(kept)
    /\ HaveScores => scored = kept
    /\ \A j \in DOMAIN scored : HasRow(Sample(scored[j]))

\* The files registered are the first of those to be, as many as the stage allows.
FilesInv ==
    /\ files \in Seq(FileName) /\ Len(files) <= Len(AllFiles)
    /\ \A i \in DOMAIN files : files[i] = AllFiles[i]
    /\ progress \in {"request", "reading"} => files = <<>>
    /\ progress = "files" => Len(files) < Len(FirstFiles)
    /\ progress \in {"observations", "claims"} => Len(files) = Len(FirstFiles)
    /\ progress = "results" => Len(files) >= Len(FirstFiles)
    /\ IF progress = "recorded" THEN Len(files) = Len(AllFiles) ELSE Len(files) < Len(AllFiles)

AnyEvidence ==
    {<<"OBSERVATION", o>> : o \in ObservedNames} \cup {<<"ARTIFACT", f>> : f \in {AllFiles[i] : i \in DOMAIN AllFiles}} \cup {<<"RUN">>}

BackedClaim(c) ==
    /\ \A o \in c.finding.names : o \in observed /\ <<"OBSERVATION", o>> \in c.evidence
    /\ \E f \in c.finding.paths : <<"ARTIFACT", f>> \in c.evidence
    /\ <<"RUN">> \in c.evidence

ClaimsInv ==
    /\ claims \in Seq([finding : Findings, evidence : SUBSET AnyEvidence])
    /\ \A n \in DOMAIN claims : n < Len(claims) \/ progress \in {"results", "recorded"} => BackedClaim(claims[n])
    /\ \A n, m \in DOMAIN claims : claims[n].finding = claims[m].finding => n = m
    /\ progress \in {"results", "recorded"} => Unclaimed = {}

EvaluationInv == ProgressInv /\ SamplesInv /\ RowsInv /\ FilesInv /\ ClaimsInv

\* What is measured depends on the request, the samples kept and their rows alone.
LEMMA SameMeasured ==
    ASSUME evaluation' = evaluation, kept' = kept, scored' = scored
    PROVE  /\ Findings' = Findings /\ ObservedNames' = ObservedNames
           /\ HaveScores' = HaveScores /\ FirstFiles' = FirstFiles /\ NSamples' = NSamples
<1>1. Findings' = Findings
  BY DEF Findings, Imbalance, MinorityRecall, CalibrationError, HighConfidenceErrors, ResidualVariance, LatencyOutlier,
     SliceDrop, SliceIncrease, Only, FindingOf, Degraded, Limit, Minority, Majority, Targets, Support, Rows, TargetOf,
     OutputOf, ConfidenceOf, Sample, Classifies, Task, HitsIn, CalibrationComputed, HaveScores, ClassLabels,
     ConfidencesValid, ConfidenceComputed, ConfidentErrors, TotalGap, Bin, Confidences, Computed, MetricStatus, Evaluated,
     Spread, TargetValues, Residuals, AbsoluteErrors, SliceRows, Meets, BatchTimes, TimesValid, TwiceMedianTime,
     SlowestTime, Kth
<1>2. ObservedNames' = ObservedNames
  BY DEF ObservedNames, MeasuredNames, ImbalanceNames, CalibrationNames, ConfidenceNames, LatencyNames, ClassNames,
     SliceNames, ErrorNames, Targets, PredictedAs, Rows, TargetOf, OutputOf, ConfidenceOf, Sample, Classifies, Task, HitsIn,
     CalibrationComputed, HaveScores, ClassLabels, ConfidencesValid, ConfidenceComputed, Computed, MetricStatus,
     Evaluated, SliceRows, Meets, BatchTimes, TimesValid
<1>3. HaveScores' = HaveScores /\ FirstFiles' = FirstFiles /\ NSamples' = NSamples
  BY DEF HaveScores, FirstFiles, OnlyFile, Classifies, Task, NSamples
<1> QED
  BY <1>1, <1>2, <1>3

Holds(s, f) == \E i \in DOMAIN s : s[i] = f

LEMMA HoldsConcat ==
    ASSUME NEW S, NEW s \in Seq(S), NEW t \in Seq(S), NEW f
    PROVE  Holds(s \o t, f) <=> Holds(s, f) \/ Holds(t, f)
<1>1. /\ s \o t \in Seq(S) /\ Len(s \o t) = Len(s) + Len(t)
      /\ Len(s) \in Nat /\ Len(t) \in Nat
      /\ DOMAIN s = 1..Len(s) /\ DOMAIN t = 1..Len(t) /\ DOMAIN (s \o t) = 1..Len(s \o t)
      /\ \A i \in 1..(Len(s) + Len(t)) : (s \o t)[i] = IF i <= Len(s) THEN s[i] ELSE t[i - Len(s)]
  OBVIOUS
<1>2. ASSUME NEW i \in DOMAIN t, t[i] = f PROVE Holds(s \o t, f)
  <2>1. Len(s) + i \in 1..(Len(s) + Len(t)) /\ (Len(s) + i) - Len(s) = i /\ ~(Len(s) + i <= Len(s))
    BY <1>1
  <2>2. (s \o t)[Len(s) + i] = f
    BY <2>1, <1>1, <1>2
  <2> QED
    BY <2>1, <2>2, <1>1 DEF Holds
<1>3. ASSUME NEW i \in DOMAIN s, s[i] = f PROVE Holds(s \o t, f)
  <2>1. i \in 1..(Len(s) + Len(t)) /\ i <= Len(s)
    BY <1>1
  <2>2. (s \o t)[i] = f
    BY <2>1, <1>1, <1>3
  <2> QED
    BY <2>1, <2>2, <1>1 DEF Holds
<1>4. ASSUME NEW i \in DOMAIN (s \o t), (s \o t)[i] = f PROVE Holds(s, f) \/ Holds(t, f)
  <2>1. i \in 1..(Len(s) + Len(t)) /\ i \in Int
    BY <1>1
  <2>2. CASE i <= Len(s)
    BY <2>1, <2>2, <1>1, <1>4 DEF Holds
  <2>3. CASE ~(i <= Len(s))
    <3>1. i - Len(s) \in 1..Len(t)
      BY <2>1, <2>3, <1>1
    <3> QED
      BY <3>1, <2>1, <2>3, <1>1, <1>4 DEF Holds
  <2> QED
    BY <2>2, <2>3
<1> QED
  BY <1>2, <1>3, <1>4 DEF Holds

LEMMA OnlyFileIsSeq ==
    ASSUME NEW condition, NEW S, NEW f \in S
    PROVE  OnlyFile(condition, f) \in Seq(S)
<1>1. CASE condition
  BY <1>1 DEF OnlyFile
<1>2. CASE ~condition
  BY <1>2 DEF OnlyFile
<1> QED
  BY <1>1, <1>2

\* Files before the last three: those a finding may name are among them.
LEMMA TheFiles ==
    /\ FirstFiles \in Seq(FileName) /\ LastFiles \in Seq(FileName) /\ Len(LastFiles) = 3
    /\ AllFiles \in Seq(FileName) /\ Len(AllFiles) = Len(FirstFiles) + 3
    /\ \A i \in 1..Len(FirstFiles) : AllFiles[i] = FirstFiles[i]
    /\ \A i \in DOMAIN AllFiles : AllFiles[i] = "evaluation" => i = Len(AllFiles)
    /\ Len(FirstFiles) > 0
    /\ \A f \in {"metrics", "calibration", "slices", "latency"} : Holds(FirstFiles, f)
    /\ Classifies => Holds(FirstFiles, "confusion")
<1> DEFINE S == FileName \ {"evaluation"}
           a == OnlyFile(evaluation.retain, "predictions")
           b == OnlyFile(evaluation.record_errors, "errors")
           m == <<"metrics">>
           c == OnlyFile(Classifies, "confusion")
           d == <<"calibration", "bootstrap", "slices", "latency">>
           ab == a \o b
           abm == ab \o m
           abmc == abm \o c
<1>1. a \in Seq(S) /\ b \in Seq(S) /\ m \in Seq(S) /\ c \in Seq(S) /\ d \in Seq(S)
  <2>1. {"predictions", "errors", "metrics", "confusion", "calibration", "bootstrap", "slices", "latency"} \subseteq S
    BY DEF FileName
  <2>2. a \in Seq(S) /\ b \in Seq(S) /\ c \in Seq(S)
    <3> HIDE DEF S
    <3> QED
      BY <2>1, OnlyFileIsSeq
  <2>3. m \in Seq(S) /\ d \in Seq(S)
    <3> HIDE DEF S
    <3> QED
      BY <2>1
  <2> QED
    BY <2>2, <2>3
<1>3. FirstFiles = abmc \o d
  BY DEF FirstFiles
<1>4. \A x \in S : x \in FileName /\ x # "evaluation"
  OBVIOUS
<1>5. Holds(m, "metrics") /\ (\A f \in {"calibration", "slices", "latency"} : Holds(d, f))
  <2>1. 1 \in DOMAIN m /\ m[1] = "metrics"
    OBVIOUS
  <2>2. 1 \in DOMAIN d /\ d[1] = "calibration" /\ 3 \in DOMAIN d /\ d[3] = "slices" /\ 4 \in DOMAIN d /\ d[4] = "latency"
    OBVIOUS
  <2> QED
    BY <2>1, <2>2 DEF Holds
<1>6. Classifies => Holds(c, "confusion")
  <2> SUFFICES ASSUME Classifies PROVE Holds(c, "confusion")
    OBVIOUS
  <2>1. c = <<"confusion">>
    BY DEF OnlyFile
  <2>2. 1 \in DOMAIN <<"confusion">> /\ <<"confusion">>[1] = "confusion"
    OBVIOUS
  <2> QED
    BY <2>1, <2>2 DEF Holds
<1> HIDE DEF S, a, b, c, d, m
<1>7. ab \in Seq(S) /\ (\A f : Holds(ab, f) <=> Holds(a, f) \/ Holds(b, f))
  BY <1>1, HoldsConcat
<1> HIDE DEF ab
<1>8. abm \in Seq(S) /\ (\A f : Holds(abm, f) <=> Holds(ab, f) \/ Holds(m, f))
  BY <1>1, <1>7, HoldsConcat
<1> HIDE DEF abm
<1>9. abmc \in Seq(S) /\ (\A f : Holds(abmc, f) <=> Holds(abm, f) \/ Holds(c, f))
  BY <1>1, <1>8, HoldsConcat
<1> HIDE DEF abmc
<1>10. FirstFiles \in Seq(S) /\ (\A f : Holds(FirstFiles, f) <=> Holds(abmc, f) \/ Holds(d, f))
  BY <1>1, <1>3, <1>9, HoldsConcat
<1>11. FirstFiles \in Seq(FileName)
  BY <1>4, <1>10
<1>12. LastFiles \in Seq(FileName) /\ Len(LastFiles) = 3 /\ LastFiles = <<"findings", "profile", "evaluation">>
  BY DEF LastFiles, FileName
<1>13. /\ AllFiles \in Seq(FileName) /\ Len(AllFiles) = Len(FirstFiles) + 3
       /\ Len(FirstFiles) \in Nat
       /\ \A i \in 1..Len(FirstFiles) : AllFiles[i] = FirstFiles[i]
       /\ \A i \in 1..Len(AllFiles) : ~(i <= Len(FirstFiles)) => AllFiles[i] = LastFiles[i - Len(FirstFiles)]
  BY <1>11, <1>12 DEF AllFiles
<1>14. ASSUME NEW i \in DOMAIN AllFiles, AllFiles[i] = "evaluation" PROVE i = Len(AllFiles)
  <2>1. i \in 1..Len(AllFiles)
    BY <1>13
  <2>2. CASE i <= Len(FirstFiles)
    <3>1. FirstFiles[i] = "evaluation" /\ i \in 1..Len(FirstFiles)
      BY <2>1, <2>2, <1>13, <1>14
    <3>2. FirstFiles[i] \in S
      BY <3>1, <1>10
    <3> QED
      BY <3>1, <3>2, <1>4
  <2>3. CASE ~(i <= Len(FirstFiles))
    <3>1. i - Len(FirstFiles) \in 1..3 /\ LastFiles[i - Len(FirstFiles)] = "evaluation"
      BY <2>1, <2>3, <1>13, <1>14
    <3>2. i - Len(FirstFiles) = 3
      BY <3>1, <1>12
    <3> QED
      BY <3>2, <2>1, <1>13
  <2> QED
    BY <2>2, <2>3
<1>15. \A f \in {"metrics", "calibration", "slices", "latency"} : Holds(FirstFiles, f)
  BY <1>5, <1>8, <1>9, <1>10
<1>16. Len(FirstFiles) > 0
  <2>1. DOMAIN FirstFiles = 1..Len(FirstFiles) /\ Holds(FirstFiles, "metrics")
    BY <1>11, <1>15
  <2> QED
    BY <2>1, <1>13 DEF Holds
<1>17. Classifies => Holds(FirstFiles, "confusion")
  BY <1>6, <1>9, <1>10
<1> QED
  BY <1>11, <1>12, <1>13, <1>14, <1>15, <1>16, <1>17

\* The least frequent class is a class when there is one.
LEMMA MinorityIsTarget ==
    ASSUME kept \in Seq(Nat), Targets # {}
    PROVE  Minority \in Targets
<1> DEFINE sizes == {Support(c) : c \in Targets}
           R == OpToRel(<, Nat)
<1>1. \A c \in Targets : Support(c) \in Nat
  <2> TAKE c \in Targets
  <2>1. IsFiniteSet(Rows)
    <3>1. Rows = 1..Len(kept) /\ Len(kept) \in Nat
      BY DEF Rows
    <3> QED
      BY <3>1, FS_Interval
  <2>2. {j \in Rows : TargetOf(j) = c} \in SUBSET Rows
    OBVIOUS
  <2> QED
    BY <2>1, <2>2, FS_Subset, FS_CardinalityType DEF Support
<1>2. sizes \subseteq Nat /\ sizes # {}
  BY <1>1
<1>3. \E x \in sizes : \A y \in sizes : ~(<<y, x>> \in R)
  <2>1. IsWellFoundedOn(R, Nat)
    BY NatLessThanWellFounded
  <2> HIDE DEF sizes, R
  <2> QED
    BY <1>2, <2>1, WFMin
<1>6. PICK n \in sizes : \A m \in sizes : ~(m < n)
  BY <1>2, <1>3 DEF OpToRel
<1>4. PICK c \in Targets : Support(c) = n
  OBVIOUS
<1>5. ASSUME NEW d \in Targets PROVE Support(c) <= Support(d)
  <2>1. Support(d) \in Nat /\ Support(c) \in Nat
    BY <1>1
  <2>2. ~(Support(d) < Support(c))
    BY <1>4, <1>6
  <2> QED
    BY <2>1, <2>2
<1> QED
  BY <1>4, <1>5 DEF Minority

\* What a finding says is recorded: its observations are, one of its files is, and what it says of confidence
\* is said of rows of scores.
Recorded(f) ==
    /\ f.names \subseteq ObservedNames
    /\ \E path \in f.paths : Holds(FirstFiles, path)
    /\ f.rule \in {"ece-threshold", "high-confidence-errors"} => HaveScores

LEMMA FindingsAreRecorded ==
    ASSUME kept \in Seq(Nat), NEW f \in Findings
    PROVE  Recorded(f)
<1>1. CASE f \in Imbalance
  <2>1. Classifies /\ f = FindingOf("class-imbalance", "overall", {<<"imbalance.ratio">>}, {"confusion"})
    BY <1>1 DEF Imbalance, Only
  <2>2. <<"imbalance.ratio">> \in ObservedNames
    BY <2>1 DEF ObservedNames, ImbalanceNames
  <2> QED
    BY <2>1, <2>2, TheFiles DEF Recorded, FindingOf
<1>2. CASE f \in MinorityRecall
  <2>1. /\ Classifies /\ Cardinality(Targets) > 1
        /\ f = FindingOf("minority-recall", Minority, {<<"recall", Minority>>}, {"confusion"})
    BY <1>2 DEF MinorityRecall, Only
  <2>2. Targets # {}
    <3>1. Cardinality({}) = 0 /\ ~(0 > 1)
      BY FS_EmptySet
    <3> QED
      BY <2>1, <3>1
  <2>3. <<"recall", Minority>> \in ObservedNames
    BY <2>1, <2>2, MinorityIsTarget DEF ObservedNames, ClassNames
  <2> QED
    BY <2>1, <2>3, TheFiles DEF Recorded, FindingOf
<1>3. CASE f \in CalibrationError
  <2>1. CalibrationComputed /\ f = FindingOf("ece-threshold", "overall", {<<"calibration.ece">>}, {"calibration"})
    BY <1>3 DEF CalibrationError, Only
  <2>2. <<"calibration.ece">> \in ObservedNames
    BY <2>1 DEF ObservedNames, CalibrationNames
  <2>3. HaveScores
    BY <2>1 DEF CalibrationComputed
  <2> QED
    BY <2>1, <2>2, <2>3, TheFiles DEF Recorded, FindingOf
<1>4. CASE f \in HighConfidenceErrors
  <2>1. /\ ConfidenceComputed
        /\ f = FindingOf("high-confidence-errors", "overall", {<<"confidence.high_confidence_error_rate">>},
                         {"calibration", "errors"})
    BY <1>4 DEF HighConfidenceErrors, Only
  <2>2. <<"confidence.high_confidence_error_rate">> \in ObservedNames
    BY <2>1 DEF ObservedNames, ConfidenceNames
  <2>3. HaveScores
    BY <2>1 DEF ConfidenceComputed
  <2> QED
    BY <2>1, <2>2, <2>3, TheFiles DEF Recorded, FindingOf
<1>5. CASE f \in ResidualVariance
  <2>1. Computed("r2", Rows) /\ f = FindingOf("r2-floor", "overall", {<<"metric", "r2">>}, {"metrics"})
    BY <1>5 DEF ResidualVariance, Only
  <2>2. <<"metric", "r2">> \in ObservedNames
    BY <2>1 DEF ObservedNames, MeasuredNames, Computed, Structural
  <2> QED
    BY <2>1, <2>2, TheFiles DEF Recorded, FindingOf
<1>6. CASE f \in LatencyOutlier
  <2>1. /\ TimesValid
        /\ f = FindingOf("latency-outlier", "overall",
                         {<<"latency.max_batch_seconds">>, <<"latency.median_batch_seconds">>}, {"latency"})
    BY <1>6 DEF LatencyOutlier, Only
  <2>2. {<<"latency.max_batch_seconds">>, <<"latency.median_batch_seconds">>} \subseteq ObservedNames
    BY <2>1 DEF ObservedNames, LatencyNames
  <2> QED
    BY <2>1, <2>2, TheFiles DEF Recorded, FindingOf
<1>7. ASSUME NEW s \in evaluation.slices, NEW rule \in {"slice-accuracy-drop", "slice-error-increase"},
             NEW m \in {"accuracy", "mae"}, Computed(m, Rows), Computed(m, SliceRows(s)), f = Degraded(rule, s, m)
      PROVE  Recorded(f)
  <2>1. m \in Evaluated \ Structural
    BY <1>7 DEF Computed, Structural
  <2>2. <<"metric", m>> \in ObservedNames
    BY <2>1, <1>7 DEF ObservedNames, MeasuredNames
  <2>3. <<"slice", s.name, m>> \in SliceNames
    BY <2>1, <1>7 DEF SliceNames
  <2>4. <<"slice", s.name, m>> \in ObservedNames
    BY <2>3 DEF ObservedNames
  <2>5. f.rule = rule /\ f.names = {<<"slice", s.name, m>>, <<"metric", m>>} /\ f.paths = {"slices"}
    BY <1>7 DEF Degraded, FindingOf
  <2>6. \E path \in f.paths : Holds(FirstFiles, path)
    BY <2>5, TheFiles
  <2>7. f.names \subseteq ObservedNames
    BY <2>2, <2>4, <2>5
  <2>8. f.rule \notin {"ece-threshold", "high-confidence-errors"}
    BY <2>5
  <2> QED
    BY <2>6, <2>7, <2>8 DEF Recorded
<1>8. ASSUME NEW s \in evaluation.slices, f \in SliceDrop(s) \cup SliceIncrease(s) PROVE Recorded(f)
  <2>1. CASE f \in SliceDrop(s)
    <3>1. Computed("accuracy", Rows) /\ Computed("accuracy", SliceRows(s)) /\ f = Degraded("slice-accuracy-drop", s, "accuracy")
      BY <2>1 DEF SliceDrop, Only
    <3> QED
      BY <3>1, <1>7
  <2>2. CASE f \in SliceIncrease(s)
    <3>1. Computed("mae", Rows) /\ Computed("mae", SliceRows(s)) /\ f = Degraded("slice-error-increase", s, "mae")
      BY <2>2 DEF SliceIncrease, Only
    <3> QED
      BY <3>1, <1>7
  <2> QED
    BY <1>8, <2>1, <2>2
<1>9. \/ f \in Imbalance \/ f \in MinorityRecall \/ f \in CalibrationError \/ f \in HighConfidenceErrors
      \/ f \in ResidualVariance \/ f \in LatencyOutlier
      \/ \E s \in evaluation.slices : f \in SliceDrop(s) \cup SliceIncrease(s)
  BY DEF Findings
<1> QED
  BY <1>1, <1>2, <1>3, <1>4, <1>5, <1>6, <1>8, <1>9


LEMMA EvaluationStarts == EvaluationInit => EvaluationInv
<1> SUFFICES ASSUME EvaluationInit PROVE EvaluationInv
  OBVIOUS
<1>1. Len(evaluation.samples) \in Nat
  BY EvaluationAssumption DEF EvaluationInit
<1>2. /\ evaluation \in Evaluations /\ progress = "request" /\ kept = <<>> /\ scored = <<>> /\ excluded = <<>>
      /\ files = <<>> /\ claims = <<>>
  BY DEF EvaluationInit
<1>3. Taken = 0 /\ NSamples \in Nat
  BY <1>1, <1>2 DEF Taken, NSamples
<1>4. ProgressInv
  BY <1>2 DEF ProgressInv
<1>5. SamplesInv
  BY <1>2, <1>3 DEF SamplesInv
<1>6. RowsInv
  BY <1>2 DEF RowsInv, HaveScores
<1>7. FilesInv
  <2>1. Len(files) = 0 /\ files \in Seq(FileName) /\ DOMAIN files = {}
    BY <1>2
  <2>2. Len(FirstFiles) \in Nat /\ Len(AllFiles) = Len(FirstFiles) + 3
    BY TheFiles
  <2> QED
    BY <1>2, <2>1, <2>2 DEF FilesInv
<1>8. ClaimsInv
  BY <1>2 DEF ClaimsInv
<1> QED
  BY <1>4, <1>5, <1>6, <1>7, <1>8 DEF EvaluationInv

\* Reading: a sample goes to one of the two lists, at its end.
LEMMA SampleTaken ==
    ASSUME EvaluationInv, TakeSample
    PROVE  SamplesInv'
<1> DEFINE i == Taken + 1
           s == Sample(i)
<1>1. /\ kept \in Seq(Nat) /\ excluded \in Seq(Nat) /\ Len(kept) \in Nat /\ Len(excluded) \in Nat
      /\ DOMAIN kept = 1..Len(kept) /\ DOMAIN excluded = 1..Len(excluded)
      /\ \A j \in DOMAIN kept : kept[j] \in 1..Taken
      /\ \A j \in DOMAIN excluded : excluded[j] \in 1..Taken /\ Excludes(Sample(excluded[j]))
      /\ \A n \in 1..Taken : (\E j \in DOMAIN kept : kept[j] = n) <=> ~(\E j \in DOMAIN excluded : excluded[j] = n)
      /\ \A j, l \in DOMAIN kept : j < l => kept[j] < kept[l]
      /\ \A j, l \in DOMAIN excluded : j < l => excluded[j] < excluded[l]
  BY DEF EvaluationInv, SamplesInv
<1>2. Taken \in Nat /\ i \in Nat /\ Taken < NSamples /\ progress = "reading" /\ evaluation' = evaluation
  BY <1>1 DEF TakeSample, Taken
<1>3. NSamples \in Nat /\ NSamples' = NSamples
  BY <1>2, EvaluationAssumption DEF EvaluationInv, ProgressInv, NSamples
<1>4. \A x : Excludes(x)' <=> Excludes(x)
  BY <1>2 DEF Excludes, Classifies, Task, UsesProbabilities
<1>5. \A n : Sample(n)' = Sample(n)
  BY <1>2 DEF Sample
<1>6. progress' \in {"reading", "failed"}
  BY <1>2 DEF TakeSample
<1>7. CASE UNCHANGED <<kept, excluded>>
  <2>1. Taken' = Taken
    BY <1>7 DEF Taken
  <2> QED
    BY <1>7, <2>1, <1>1, <1>2, <1>3, <1>4, <1>5, <1>6 DEF SamplesInv
<1>8. CASE kept' = Append(kept, i) /\ excluded' = excluded
  <2>1. /\ kept' \in Seq(Nat) /\ Len(kept') = Len(kept) + 1 /\ DOMAIN kept' = 1..(Len(kept) + 1)
        /\ kept'[Len(kept) + 1] = i /\ \A j \in 1..Len(kept) : kept'[j] = kept[j]
    BY <1>1, <1>2, <1>8
  <2>2. Taken' = Taken + 1
    BY <2>1, <1>1, <1>8 DEF Taken
  <2>3. Taken' <= NSamples'
    BY <2>2, <1>2, <1>3
  <2>4. \A j \in DOMAIN kept' : kept'[j] \in 1..Taken'
    <3> TAKE j \in DOMAIN kept'
    <3>1. CASE j \in 1..Len(kept)
      BY <3>1, <2>1, <2>2, <1>1, <1>2
    <3>2. CASE j = Len(kept) + 1
      BY <3>2, <2>1, <2>2, <1>2
    <3> QED
      BY <3>1, <3>2, <2>1, <1>1
  <2>5. \A j \in DOMAIN excluded' : excluded'[j] \in 1..Taken' /\ Excludes(Sample(excluded[j]))
    BY <2>2, <1>1, <1>2, <1>8
  <2>6. \A n \in 1..Taken' :
           (\E j \in DOMAIN kept' : kept'[j] = n) <=> ~(\E j \in DOMAIN excluded' : excluded'[j] = n)
    <3> TAKE n \in 1..Taken'
    <3>1. CASE n \in 1..Taken
      <4>1. n # i
        BY <3>1, <1>2
      <4>2. ASSUME NEW j \in DOMAIN kept', kept'[j] = n PROVE j \in DOMAIN kept /\ kept[j] = n
        <5>1. j # Len(kept) + 1
          BY <4>1, <4>2, <2>1
        <5>2. j \in 1..Len(kept)
          BY <5>1, <2>1, <1>1
        <5> QED
          BY <5>2, <4>2, <2>1, <1>1
      <4>3. ASSUME NEW j \in DOMAIN kept, kept[j] = n PROVE j \in DOMAIN kept' /\ kept'[j] = n
        BY <4>3, <2>1, <1>1
      <4> QED
        BY <3>1, <4>2, <4>3, <1>1, <1>8
    <3>2. CASE n = i
      <4>1. \E j \in DOMAIN kept' : kept'[j] = n
        <5>1. Len(kept) + 1 \in DOMAIN kept'
          BY <2>1, <1>1
        <5> QED
          BY <5>1, <3>2, <2>1
      <4>2. \A j \in DOMAIN excluded : excluded[j] # n
        BY <3>2, <1>1, <1>2
      <4> QED
        BY <4>1, <4>2, <1>8
    <3> QED
      BY <3>1, <3>2, <2>2, <1>2
  <2>7. \A j, l \in DOMAIN kept' : j < l => kept'[j] < kept'[l]
    <3> SUFFICES ASSUME NEW j \in DOMAIN kept', NEW l \in DOMAIN kept', j < l PROVE kept'[j] < kept'[l]
      OBVIOUS
    <3>1. j \in 1..Len(kept) /\ kept'[j] = kept[j]
      BY <2>1, <1>1
    <3>2. CASE l \in 1..Len(kept)
      BY <3>1, <3>2, <2>1, <1>1
    <3>3. CASE l = Len(kept) + 1
      BY <3>1, <3>3, <2>1, <1>1, <1>2
    <3> QED
      BY <3>2, <3>3, <2>1, <1>1
  <2>8. SamplesInv'
    BY <1>1, <1>4, <1>5, <1>6, <1>8, <2>1, <2>3, <2>4, <2>5, <2>6, <2>7 DEF SamplesInv
  <2> QED
    BY <2>8
<1>9. CASE excluded' = Append(excluded, i) /\ kept' = kept /\ Excludes(s)
  <2>1. /\ excluded' \in Seq(Nat) /\ Len(excluded') = Len(excluded) + 1 /\ DOMAIN excluded' = 1..(Len(excluded) + 1)
        /\ excluded'[Len(excluded) + 1] = i /\ \A j \in 1..Len(excluded) : excluded'[j] = excluded[j]
    BY <1>1, <1>2, <1>9
  <2>2. Taken' = Taken + 1
    BY <2>1, <1>1, <1>9 DEF Taken
  <2>3. Taken' <= NSamples'
    BY <2>2, <1>2, <1>3
  <2>4. \A j \in DOMAIN kept' : kept'[j] \in 1..Taken'
    BY <2>2, <1>1, <1>2, <1>9
  <2>5. \A j \in DOMAIN excluded' : excluded'[j] \in 1..Taken' /\ Excludes(Sample(excluded'[j]))
    <3> TAKE j \in DOMAIN excluded'
    <3>1. CASE j \in 1..Len(excluded)
      BY <3>1, <2>1, <2>2, <1>1, <1>2
    <3>2. CASE j = Len(excluded) + 1
      BY <3>2, <2>1, <2>2, <1>2, <1>9
    <3> QED
      BY <3>1, <3>2, <2>1, <1>1
  <2>6. \A n \in 1..Taken' :
           (\E j \in DOMAIN kept' : kept'[j] = n) <=> ~(\E j \in DOMAIN excluded' : excluded'[j] = n)
    <3> TAKE n \in 1..Taken'
    <3>1. CASE n \in 1..Taken
      <4>1. n # i
        BY <3>1, <1>2
      <4>2. ASSUME NEW j \in DOMAIN excluded', excluded'[j] = n PROVE j \in DOMAIN excluded /\ excluded[j] = n
        <5>1. j # Len(excluded) + 1
          BY <4>1, <4>2, <2>1
        <5>2. j \in 1..Len(excluded)
          BY <5>1, <2>1, <1>1
        <5> QED
          BY <5>2, <4>2, <2>1, <1>1
      <4>3. ASSUME NEW j \in DOMAIN excluded, excluded[j] = n PROVE j \in DOMAIN excluded' /\ excluded'[j] = n
        BY <4>3, <2>1, <1>1
      <4> QED
        BY <3>1, <4>2, <4>3, <1>1, <1>9
    <3>2. CASE n = i
      <4>1. \E j \in DOMAIN excluded' : excluded'[j] = n
        <5>1. Len(excluded) + 1 \in DOMAIN excluded'
          BY <2>1, <1>1
        <5> QED
          BY <5>1, <3>2, <2>1
      <4>2. \A j \in DOMAIN kept : kept[j] # n
        BY <3>2, <1>1, <1>2
      <4> QED
        BY <4>1, <4>2, <1>9
    <3> QED
      BY <3>1, <3>2, <2>2, <1>2
  <2>7. \A j, l \in DOMAIN excluded' : j < l => excluded'[j] < excluded'[l]
    <3> SUFFICES ASSUME NEW j \in DOMAIN excluded', NEW l \in DOMAIN excluded', j < l PROVE excluded'[j] < excluded'[l]
      OBVIOUS
    <3>1. j \in 1..Len(excluded) /\ excluded'[j] = excluded[j]
      BY <2>1, <1>1
    <3>2. CASE l \in 1..Len(excluded)
      BY <3>1, <3>2, <2>1, <1>1
    <3>3. CASE l = Len(excluded) + 1
      BY <3>1, <3>3, <2>1, <1>1, <1>2
    <3> QED
      BY <3>2, <3>3, <2>1, <1>1
  <2> QED
    BY <1>1, <1>4, <1>5, <1>6, <1>9, <2>1, <2>3, <2>4, <2>5, <2>6, <2>7 DEF SamplesInv
<1> QED
  BY <1>7, <1>8, <1>9 DEF TakeSample


LEMMA RowTaken ==
    ASSUME EvaluationInv, TakeSample
    PROVE  RowsInv'
<1> DEFINE i == Taken + 1
           s == Sample(i)
<1>1. /\ kept \in Seq(Nat) /\ scored \in Seq(Nat) /\ Len(kept) \in Nat /\ Len(scored) \in Nat /\ Len(scored) <= Len(kept)
      /\ DOMAIN scored = 1..Len(scored) /\ i \in Nat
      /\ HaveScores => scored = kept
      /\ \A j \in DOMAIN scored : HasRow(Sample(scored[j]))
  BY DEF EvaluationInv, SamplesInv, RowsInv, Taken
<1>2. evaluation' = evaluation
  BY DEF TakeSample
<1>3. /\ \A x : HasRow(x)' <=> HasRow(x)
      /\ \A n : Sample(n)' = Sample(n)
  BY <1>2 DEF HasRow, UsesProbabilities, UsesLogits, Classifies, Task, Sample
<1>4. Len(scored) = Len(kept) => scored = kept
  <2>1. CASE kept = <<>>
    BY <2>1, <1>1
  <2>2. CASE kept # <<>>
    BY <2>2, <1>1 DEF HaveScores
  <2> QED
    BY <2>1, <2>2
<1>5. CASE UNCHANGED <<kept, scored>>
  BY <1>1, <1>3, <1>5 DEF RowsInv, HaveScores
<1>6. CASE kept' = Append(kept, i) /\ scored' = scored
  <2>1. Len(kept') = Len(kept) + 1 /\ Len(scored') = Len(scored)
    BY <1>1, <1>6
  <2>2. ~HaveScores'
    <3>1. Len(scored') # Len(kept')
      BY <2>1, <1>1
    <3> QED
      BY <3>1 DEF HaveScores
  <2>3. Len(scored') <= Len(kept')
    BY <2>1, <1>1, <1>6
  <2> QED
    BY <2>2, <2>3, <1>1, <1>3, <1>6 DEF RowsInv
<1>7. CASE kept' = Append(kept, i) /\ scored' = Append(scored, i) /\ HasRow(s)
  <2>1. /\ Len(kept') = Len(kept) + 1 /\ Len(scored') = Len(scored) + 1 /\ scored' \in Seq(Nat)
        /\ DOMAIN scored' = 1..(Len(scored) + 1)
        /\ scored'[Len(scored) + 1] = i /\ \A j \in 1..Len(scored) : scored'[j] = scored[j]
    BY <1>1, <1>7
  <2>2. HaveScores' => scored' = kept'
    <3> SUFFICES ASSUME HaveScores' PROVE scored' = kept'
      OBVIOUS
    <3>1. Len(scored) = Len(kept)
      BY <2>1, <1>1 DEF HaveScores
    <3> QED
      BY <3>1, <1>4, <1>7
  <2>3. Len(scored') <= Len(kept')
    BY <2>1, <1>1
  <2>4. \A j \in DOMAIN scored' : HasRow(Sample(scored'[j]))
    <3> TAKE j \in DOMAIN scored'
    <3>1. CASE j \in 1..Len(scored)
      BY <3>1, <2>1, <1>1
    <3>2. CASE j = Len(scored) + 1
      BY <3>2, <2>1, <1>7
    <3> QED
      BY <3>1, <3>2, <2>1, <1>1
  <2> QED
    BY <2>1, <2>2, <2>3, <2>4, <1>3 DEF RowsInv
<1> QED
  BY <1>5, <1>6, <1>7 DEF TakeSample

\* A step that leaves the samples alone, and is not the first to need all of them read.
LEMMA SamplesStand ==
    ASSUME EvaluationInv, UNCHANGED <<evaluation, kept, scored, excluded>>,
           progress' \in {"request", "reading", "failed"} \/ Taken = NSamples
    PROVE  SamplesInv' /\ RowsInv'
<1>1. /\ \A x : HasRow(x)' <=> HasRow(x)
      /\ \A n : Sample(n)' = Sample(n)
      /\ \A x : Excludes(x)' <=> Excludes(x)
  BY DEF HasRow, UsesProbabilities, UsesLogits, Classifies, Task, Sample, Excludes
<1>2. Taken' = Taken /\ NSamples' = NSamples /\ HaveScores' = HaveScores
  BY DEF Taken, NSamples, HaveScores
<1>3. SamplesInv'
  BY <1>1, <1>2 DEF EvaluationInv, SamplesInv
<1>4. RowsInv'
  BY <1>1, <1>2 DEF EvaluationInv, RowsInv
<1> QED
  BY <1>3, <1>4

\* A step that leaves the claims alone, and what they name.
LEMMA ClaimsStand ==
    ASSUME EvaluationInv, UNCHANGED <<evaluation, kept, scored, claims>>, observed' = observed \/ claims = <<>>,
           progress' \in {"results", "recorded"} =>
              Unclaimed = {} /\ \A n \in DOMAIN claims : BackedClaim(claims[n])
    PROVE  ClaimsInv'
<1>1. Findings' = Findings /\ ObservedNames' = ObservedNames /\ FirstFiles' = FirstFiles
  BY SameMeasured
<1>2. AnyEvidence' = AnyEvidence /\ Unclaimed' = Unclaimed
  BY <1>1 DEF AnyEvidence, AllFiles, Unclaimed, LastFiles
<1>3. \A n \in DOMAIN claims' : BackedClaim(claims[n]) => BackedClaim(claims[n])'
  <2>1. CASE observed' = observed
    BY <2>1 DEF BackedClaim
  <2>2. CASE claims = <<>>
    BY <2>2
  <2> QED
    BY <2>1, <2>2
<1>4. \A n \in DOMAIN claims' : n < Len(claims') \/ progress' \in {"results", "recorded"} => BackedClaim(claims[n])'
  BY <1>3 DEF EvaluationInv, ClaimsInv
<1> QED
  BY <1>1, <1>2, <1>4 DEF EvaluationInv, ClaimsInv

\* The file registered next is the next of them all.
LEMMA NextFile ==
    ASSUME EvaluationInv, evaluation' = evaluation, Len(files) < Len(AllFiles),
           files' = Append(files, AllFiles[Len(files) + 1])
    PROVE  /\ files' \in Seq(FileName) /\ Len(files') = Len(files) + 1
           /\ AllFiles' = AllFiles /\ FirstFiles' = FirstFiles
           /\ \A i \in DOMAIN files' : files'[i] = AllFiles[i]
<1>1. /\ files \in Seq(FileName) /\ Len(files) \in Nat /\ DOMAIN files = 1..Len(files)
      /\ \A i \in DOMAIN files : files[i] = AllFiles[i]
  BY DEF EvaluationInv, FilesInv
<1>2. AllFiles \in Seq(FileName) /\ Len(AllFiles) \in Nat /\ DOMAIN AllFiles = 1..Len(AllFiles)
  BY TheFiles
<1>3. AllFiles[Len(files) + 1] \in FileName
  BY <1>1, <1>2
<1>4. /\ files' \in Seq(FileName) /\ Len(files') = Len(files) + 1 /\ DOMAIN files' = 1..(Len(files) + 1)
      /\ files'[Len(files) + 1] = AllFiles[Len(files) + 1] /\ \A i \in 1..Len(files) : files'[i] = files[i]
  BY <1>1, <1>3
<1>5. \A i \in DOMAIN files' : files'[i] = AllFiles[i]
  <2> TAKE i \in DOMAIN files'
  <2>1. i \in 1..Len(files) \/ i = Len(files) + 1
    BY <1>1, <1>4
  <2> QED
    BY <2>1, <1>1, <1>4
<1>6. AllFiles' = AllFiles /\ FirstFiles' = FirstFiles
  BY DEF AllFiles, FirstFiles, LastFiles, OnlyFile, Classifies, Task
<1> QED
  BY <1>4, <1>5, <1>6

\* A step that registers no file, at a stage that allows those there are.
LEMMA FilesStand ==
    ASSUME EvaluationInv, UNCHANGED <<evaluation, files>>, progress # "recorded", progress' # "recorded",
           progress' \in {"request", "reading"} => files = <<>>,
           progress' = "files" => Len(files) < Len(FirstFiles),
           progress' \in {"observations", "claims"} => Len(files) = Len(FirstFiles),
           progress' = "results" => Len(files) >= Len(FirstFiles)
    PROVE  FilesInv'
<1>1. AllFiles' = AllFiles /\ FirstFiles' = FirstFiles
  BY DEF AllFiles, FirstFiles, LastFiles, OnlyFile, Classifies, Task
<1> QED
  BY <1>1 DEF EvaluationInv, FilesInv


LEMMA FileStep ==
    ASSUME EvaluationInv, RegisterFile \/ RegisterResult
    PROVE  EvaluationInv'
<1>1. /\ evaluation' = evaluation /\ kept' = kept /\ scored' = scored /\ excluded' = excluded
      /\ observed' = observed /\ claims' = claims
      /\ progress \in {"files", "results"}
  BY DEF RegisterFile, RegisterResult, RegisterNext
<1>2. /\ Taken = NSamples /\ Len(files) \in Nat /\ Len(FirstFiles) \in Nat /\ Len(AllFiles) = Len(FirstFiles) + 3
      /\ \A i \in 1..Len(FirstFiles) : AllFiles[i] = FirstFiles[i]
      /\ Len(files) < Len(AllFiles)
  BY <1>1, TheFiles DEF EvaluationInv, SamplesInv, FilesInv
<1>3. ObservedNames' = ObservedNames
  BY <1>1, SameMeasured
<1>4. CASE files' = files
  <2>1. progress' = "failed"
    <3>1. Append(files, AllFiles[Len(files) + 1]) # files
      BY <1>2 DEF EvaluationInv, FilesInv
    <3>2. Append(files, FirstFiles[Len(files) + 1]) # files
      BY <1>2 DEF EvaluationInv, FilesInv
    <3> QED
      BY <1>4, <3>1, <3>2 DEF RegisterFile, RegisterResult, RegisterNext, AllFiles
  <2>2. ProgressInv'
    BY <1>1, <2>1, <1>3 DEF EvaluationInv, ProgressInv
  <2>3. SamplesInv' /\ RowsInv'
    BY <1>1, <2>1, SamplesStand
  <2>4. FilesInv'
    BY <1>1, <1>4, <2>1, FilesStand
  <2>5. ClaimsInv'
    BY <1>1, <2>1, ClaimsStand
  <2> QED
    BY <2>2, <2>3, <2>4, <2>5 DEF EvaluationInv
<1>5. CASE files' # files /\ RegisterFile
  <2>1. /\ progress = "files" /\ Len(files) < Len(FirstFiles) /\ files' = Append(files, FirstFiles[Len(files) + 1])
        /\ progress' = IF Len(files) + 1 = Len(FirstFiles) THEN "observations" ELSE progress
    BY <1>5 DEF RegisterFile, RegisterNext
  <2>2. Len(files) + 1 \in 1..Len(FirstFiles)
    BY <2>1, <1>2
  <2>3. files' = Append(files, AllFiles[Len(files) + 1])
    BY <2>1, <2>2, <1>2
  <2>4. /\ files' \in Seq(FileName) /\ Len(files') = Len(files) + 1
        /\ AllFiles' = AllFiles /\ FirstFiles' = FirstFiles
        /\ \A i \in DOMAIN files' : files'[i] = AllFiles[i]
    BY <2>3, <1>1, <1>2, NextFile
  <2>5. Len(files') <= Len(FirstFiles) /\ Len(files') < Len(AllFiles) /\ Len(files') \in Nat
    BY <2>1, <2>4, <1>2
  <2>6. CASE progress' = "observations"
    <3>1. Len(files') = Len(FirstFiles)
      <4>1. progress' # "files"
        BY <2>6
      <4>2. Len(files) + 1 = Len(FirstFiles)
        BY <2>1, <4>1
      <4> QED
        BY <4>2, <2>4
    <3>2. FilesInv'
      <4>1. /\ Len(files') <= Len(AllFiles) /\ Len(files') < Len(AllFiles)
            /\ progress' # "recorded" /\ progress' \notin {"request", "reading", "files", "results"}
        BY <2>5, <2>6, <1>2
      <4> QED
        BY <4>1, <3>1, <2>4 DEF FilesInv
    <3>3. ProgressInv'
      BY <1>1, <2>1, <2>6 DEF EvaluationInv, ProgressInv
    <3>4. SamplesInv' /\ RowsInv'
      BY <1>1, <1>2, SamplesStand
    <3>5. ClaimsInv'
      BY <1>1, <2>6, ClaimsStand
    <3> QED
      BY <3>2, <3>3, <3>4, <3>5 DEF EvaluationInv
  <2>7. CASE progress' = "files"
    <3>1. Len(files') # Len(FirstFiles)
      BY <2>1, <2>4, <2>7
    <3>2. Len(files') < Len(FirstFiles)
      BY <3>1, <2>5, <1>2
    <3>3. FilesInv'
      BY <3>2, <2>4, <2>5, <2>7 DEF FilesInv
    <3>4. ProgressInv'
      BY <1>1, <2>1, <2>7 DEF EvaluationInv, ProgressInv
    <3>5. SamplesInv' /\ RowsInv'
      BY <1>1, <1>2, SamplesStand
    <3>6. ClaimsInv'
      BY <1>1, <2>7, ClaimsStand
    <3> QED
      BY <3>3, <3>4, <3>5, <3>6 DEF EvaluationInv
  <2> QED
    BY <2>1, <2>6, <2>7
<1>6. CASE files' # files /\ RegisterResult
  <2>1. /\ progress = "results" /\ files' = Append(files, AllFiles[Len(files) + 1])
        /\ progress' = IF Len(files) + 1 = Len(AllFiles) THEN "recorded" ELSE progress
    BY <1>6 DEF RegisterResult, RegisterNext, AllFiles
  <2>2. /\ files' \in Seq(FileName) /\ Len(files') = Len(files) + 1
        /\ AllFiles' = AllFiles /\ FirstFiles' = FirstFiles
        /\ \A i \in DOMAIN files' : files'[i] = AllFiles[i]
    BY <2>1, <1>1, <1>2, NextFile
  <2>3. Len(files) >= Len(FirstFiles) /\ Unclaimed = {} /\ \A n \in DOMAIN claims : BackedClaim(claims[n])
    BY <2>1 DEF EvaluationInv, FilesInv, ClaimsInv
  <2>4. Len(files') >= Len(FirstFiles) /\ Len(files') <= Len(AllFiles) /\ Len(files') \in Nat
    BY <2>2, <2>3, <1>2
  <2>5. progress' \in {"results", "recorded"}
    BY <2>1
  <2>6. IF progress' = "recorded" THEN Len(files') = Len(AllFiles) ELSE Len(files') < Len(AllFiles)
    <3>1. CASE Len(files) + 1 = Len(AllFiles)
      BY <3>1, <2>1, <2>2
    <3>2. CASE Len(files) + 1 # Len(AllFiles)
      <4>1. progress' = "results" /\ Len(files') < Len(AllFiles)
        BY <3>2, <2>1, <2>2, <2>4, <1>2
      <4> QED
        BY <4>1
    <3> QED
      BY <3>1, <3>2
  <2>7. FilesInv'
    BY <2>2, <2>4, <2>5, <2>6 DEF FilesInv
  <2>8. ProgressInv'
    BY <1>1, <1>3, <2>1, <2>5 DEF EvaluationInv, ProgressInv
  <2>9. SamplesInv' /\ RowsInv'
    BY <1>1, <1>2, SamplesStand
  <2>10. ClaimsInv'
    BY <1>1, <2>3, ClaimsStand
  <2> QED
    BY <2>7, <2>8, <2>9, <2>10 DEF EvaluationInv
<1> QED
  BY <1>4, <1>5, <1>6

\* The steps of the engine before its files, and what ends it.
LEMMA EarlyStep ==
    ASSUME EvaluationInv, Begin \/ EndReading \/ RecordObservations \/ EvaluationFails
    PROVE  EvaluationInv'
<1>1. /\ evaluation' = evaluation /\ kept' = kept /\ scored' = scored /\ excluded' = excluded
      /\ files' = files /\ claims' = claims
  BY DEF Begin, EndReading, RecordObservations, EvaluationFails
<1>2. ObservedNames' = ObservedNames
  BY <1>1, SameMeasured
<1>3. /\ progress # "recorded"
      /\ \/ progress' = "failed" /\ observed' = observed
         \/ progress = "request" /\ progress' = "reading" /\ observed' = observed
         \/ progress = "reading" /\ progress' = "files" /\ Taken = NSamples /\ observed' = observed
         \/ progress = "observations" /\ progress' = "claims" /\ observed' = ObservedNames
  BY DEF Begin, EndReading, RecordObservations, EvaluationFails
<1>4. ProgressInv'
  BY <1>1, <1>2, <1>3 DEF EvaluationInv, ProgressInv
<1>5. progress' \in {"request", "reading", "failed"} \/ Taken = NSamples
  BY <1>3 DEF EvaluationInv, SamplesInv
<1>6. SamplesInv' /\ RowsInv'
  BY <1>1, <1>5, SamplesStand
<1>7. progress' = "files" => Len(files) < Len(FirstFiles)
  <2> SUFFICES ASSUME progress' = "files" PROVE Len(files) < Len(FirstFiles)
    OBVIOUS
  <2>1. files = <<>>
    BY <1>3 DEF EvaluationInv, FilesInv
  <2>2. Len(files) = 0
    BY <2>1
  <2> QED
    BY <2>2, TheFiles
<1>8. progress' \in {"request", "reading"} => files = <<>>
  BY <1>3 DEF EvaluationInv, FilesInv
<1>9. progress' \in {"observations", "claims"} => Len(files) = Len(FirstFiles)
  BY <1>3 DEF EvaluationInv, FilesInv
<1>10. progress' # "results" /\ progress' # "recorded"
  BY <1>3
<1>11. FilesInv'
  BY <1>1, <1>3, <1>7, <1>8, <1>9, <1>10, FilesStand
<1>12. observed' = observed \/ claims = <<>>
  BY <1>3 DEF EvaluationInv, ProgressInv
<1>13. ClaimsInv'
  BY <1>1, <1>10, <1>12, ClaimsStand
<1> QED
  BY <1>4, <1>6, <1>11, <1>13 DEF EvaluationInv

LEMMA SampleStep ==
    ASSUME EvaluationInv, TakeSample
    PROVE  EvaluationInv'
<1>1. /\ evaluation' = evaluation /\ files' = files /\ claims' = claims
      /\ progress = "reading" /\ progress' \in {"reading", "failed"}
  BY DEF TakeSample
<1>2. files = <<>> /\ claims = <<>>
  BY <1>1 DEF EvaluationInv, FilesInv, ProgressInv
<1>3. ProgressInv'
  BY <1>1, <1>2 DEF EvaluationInv, ProgressInv
<1>4. FilesInv'
  BY <1>1, <1>2, FilesStand
<1>5. ClaimsInv'
  BY <1>1, <1>2 DEF ClaimsInv
<1> QED
  BY <1>3, <1>4, <1>5, SampleTaken, RowTaken DEF EvaluationInv


\* Evidence of a finding links everything it names.
LEMMA EvidenceIsEnough ==
    ASSUME EvaluationInv, progress \in {"claims", "results", "recorded"}, Len(files) >= Len(FirstFiles),
           NEW c, c.finding \in Findings, c.evidence = Evidence(c.finding)
    PROVE  BackedClaim(c)
<1>1. Recorded(c.finding)
  BY FindingsAreRecorded DEF EvaluationInv, SamplesInv
<1>2. observed = ObservedNames
  BY DEF EvaluationInv, ProgressInv
<1>3. /\ Len(files) \in Nat /\ DOMAIN files = 1..Len(files)
      /\ Len(FirstFiles) \in Nat /\ DOMAIN FirstFiles = 1..Len(FirstFiles)
      /\ \A i \in 1..Len(FirstFiles) : AllFiles[i] = FirstFiles[i]
      /\ \A i \in DOMAIN files : files[i] = AllFiles[i]
  BY TheFiles DEF EvaluationInv, FilesInv
<1>4. \A f : Holds(FirstFiles, f) => \E n \in DOMAIN files : files[n] = f
  <2> SUFFICES ASSUME NEW f, Holds(FirstFiles, f) PROVE \E n \in DOMAIN files : files[n] = f
    OBVIOUS
  <2>1. PICK i \in DOMAIN FirstFiles : FirstFiles[i] = f
    BY DEF Holds
  <2>2. i \in 1..Len(FirstFiles) /\ i \in 1..Len(files)
    BY <1>3
  <2>3. files[i] = f
    BY <2>1, <2>2, <1>3
  <2> QED
    BY <2>2, <2>3, <1>3
<1>5. \A o \in c.finding.names : o \in observed /\ <<"OBSERVATION", o>> \in c.evidence
  BY <1>1, <1>2 DEF Recorded, Evidence
<1>6. \E f \in c.finding.paths : <<"ARTIFACT", f>> \in c.evidence
  <2>1. PICK f \in c.finding.paths : Holds(FirstFiles, f)
    BY <1>1 DEF Recorded
  <2>2. <<"ARTIFACT", f>> \in c.evidence
    BY <2>1, <1>4 DEF Evidence
  <2> QED
    BY <2>2
<1>7. <<"RUN">> \in c.evidence
  BY DEF Evidence
<1> QED
  BY <1>5, <1>6, <1>7 DEF BackedClaim

\* When the last claim has all its evidence, so have all.
LEMMA LinkedUpIsBacked ==
    ASSUME EvaluationInv, progress = "claims", LinkedUp
    PROVE  \A n \in DOMAIN claims : BackedClaim(claims[n])
<1> SUFFICES ASSUME NEW n \in DOMAIN claims PROVE BackedClaim(claims[n])
  OBVIOUS
<1>1. /\ claims \in Seq([finding : Findings, evidence : SUBSET AnyEvidence])
      /\ DOMAIN claims = 1..Len(claims) /\ Len(claims) \in Nat
      /\ n < Len(claims) => BackedClaim(claims[n])
  BY DEF EvaluationInv, ClaimsInv
<1>2. CASE n = Len(claims)
  <2>1. claims # <<>> /\ claims[n] = Latest
    BY <1>1, <1>2 DEF Latest
  <2>2. claims[n].evidence = Evidence(claims[n].finding)
    BY <2>1 DEF LinkedUp
  <2>3. claims[n].finding \in Findings
    <3> DEFINE R == [finding : Findings, evidence : SUBSET AnyEvidence]
    <3>1. claims \in Seq(R) /\ n \in 1..Len(claims)
      BY <1>1
    <3>2. claims[n] \in R
      <4> HIDE DEF R
      <4> QED
        BY <3>1
    <3> QED
      BY <3>2
  <2>4. Len(files) = Len(FirstFiles) /\ Len(FirstFiles) \in Nat
    BY TheFiles DEF EvaluationInv, FilesInv
  <2> QED
    BY <2>2, <2>3, <2>4, EvidenceIsEnough
<1> QED
  BY <1>1, <1>2

LEMMA ClaimMade ==
    ASSUME EvaluationInv, NEW finding \in Findings, AssertClaim(finding)
    PROVE  ClaimsInv'
<1> DEFINE c == [finding |-> finding, evidence |-> {}]
<1>1. /\ evaluation' = evaluation /\ kept' = kept /\ scored' = scored /\ observed' = observed
      /\ progress' = progress /\ progress = "claims" /\ LinkedUp /\ finding \in Unclaimed
      /\ claims' = Append(claims, c)
  BY DEF AssertClaim
<1>2. Findings' = Findings /\ ObservedNames' = ObservedNames /\ FirstFiles' = FirstFiles
  BY <1>1, SameMeasured
<1>3. AnyEvidence' = AnyEvidence
  BY <1>2 DEF AnyEvidence, AllFiles, LastFiles
<1>4. /\ claims \in Seq([finding : Findings, evidence : SUBSET AnyEvidence])
      /\ Len(claims) \in Nat /\ DOMAIN claims = 1..Len(claims)
      /\ \A n, m \in DOMAIN claims : claims[n].finding = claims[m].finding => n = m
  BY DEF EvaluationInv, ClaimsInv
<1>5. c \in [finding : Findings, evidence : SUBSET AnyEvidence]
  OBVIOUS
<1>6. /\ claims' \in Seq([finding : Findings, evidence : SUBSET AnyEvidence])
      /\ Len(claims') = Len(claims) + 1 /\ DOMAIN claims' = 1..(Len(claims) + 1)
      /\ claims'[Len(claims) + 1] = c /\ \A n \in 1..Len(claims) : claims'[n] = claims[n]
  <2> HIDE DEF c
  <2> QED
    BY <1>1, <1>4, <1>5
<1>7. \A n \in DOMAIN claims : claims[n].finding # finding
  BY <1>1 DEF Unclaimed
<1>8. ASSUME NEW n \in DOMAIN claims', NEW m \in DOMAIN claims', claims'[n].finding = claims'[m].finding
      PROVE  n = m
  <2>1. c.finding = finding
    OBVIOUS
  <2>2. n \in 1..Len(claims) \/ n = Len(claims) + 1
    BY <1>4, <1>6
  <2>3. m \in 1..Len(claims) \/ m = Len(claims) + 1
    BY <1>4, <1>6
  <2> HIDE DEF c
  <2>4. n \in 1..Len(claims) => claims'[n] = claims[n] /\ claims'[n].finding # finding
    BY <1>4, <1>6, <1>7
  <2>5. m \in 1..Len(claims) => claims'[m] = claims[m] /\ claims'[m].finding # finding
    BY <1>4, <1>6, <1>7
  <2> QED
    BY <2>1, <2>2, <2>3, <2>4, <2>5, <1>4, <1>6, <1>8
<1>9. ASSUME NEW n \in DOMAIN claims', n < Len(claims') PROVE BackedClaim(claims[n])'
  <2>1. n \in 1..Len(claims)
    BY <1>4, <1>6, <1>9
  <2>2. BackedClaim(claims[n]) /\ claims'[n] = claims[n]
    BY <2>1, <1>1, <1>4, <1>6, LinkedUpIsBacked
  <2> QED
    BY <2>2, <1>1 DEF BackedClaim
<1> QED
  BY <1>1, <1>2, <1>3, <1>6, <1>8, <1>9 DEF ClaimsInv


LEMMA EvidenceAdded ==
    ASSUME EvaluationInv, AddEvidence
    PROVE  ClaimsInv'
<1> DEFINE R == [finding : Findings, evidence : SUBSET AnyEvidence]
           k == Len(claims)
<1>1. /\ evaluation' = evaluation /\ kept' = kept /\ scored' = scored /\ observed' = observed
      /\ progress' = progress /\ progress = "claims" /\ claims # <<>>
  BY DEF AddEvidence, LinkedUp
<1>2. Findings' = Findings /\ ObservedNames' = ObservedNames /\ FirstFiles' = FirstFiles
  BY <1>1, SameMeasured
<1>3. AnyEvidence' = AnyEvidence
  BY <1>2 DEF AnyEvidence, AllFiles, LastFiles
<1>4. /\ claims \in Seq(R) /\ k \in Nat /\ DOMAIN claims = 1..k
      /\ \A n, m \in DOMAIN claims : claims[n].finding = claims[m].finding => n = m
      /\ \A n \in DOMAIN claims : n < k => BackedClaim(claims[n])
  BY DEF EvaluationInv, ClaimsInv
<1>5. k \in 1..k
  <2> HIDE DEF R
  <2> QED
    BY <1>1, <1>4
<1>6. claims[k] \in R
  <2> HIDE DEF R
  <2> QED
    BY <1>4, <1>5
<1>7. PICK e \in Evidence(claims[k].finding) : claims' = [claims EXCEPT ![k].evidence = @ \cup {e}]
  BY DEF AddEvidence, Latest
<1>8. Evidence(claims[k].finding) \subseteq AnyEvidence
  <2>1. observed = ObservedNames
    BY <1>1 DEF EvaluationInv, ProgressInv
  <2>2. \A n \in DOMAIN files : files[n] = AllFiles[n] /\ n \in DOMAIN AllFiles
    <3>1. /\ DOMAIN files = 1..Len(files) /\ Len(files) \in Nat /\ Len(files) <= Len(AllFiles)
          /\ \A n \in DOMAIN files : files[n] = AllFiles[n]
      BY DEF EvaluationInv, FilesInv
    <3>2. DOMAIN AllFiles = 1..Len(AllFiles) /\ Len(AllFiles) \in Nat
      BY TheFiles
    <3> QED
      BY <3>1, <3>2
  <2>3. \A f : (\E n \in DOMAIN files : files[n] = f) => f \in {AllFiles[i] : i \in DOMAIN AllFiles}
    BY <2>2
  <2> QED
    BY <2>1, <2>3 DEF Evidence, AnyEvidence
<1> DEFINE c == [claims[k] EXCEPT !.evidence = @ \cup {e}]
<1>9. c \in R /\ c.finding = claims[k].finding
  BY <1>6, <1>7, <1>8
<1>10. claims' = [claims EXCEPT ![k] = c]
  BY <1>7
<1>11. /\ claims' \in Seq(R) /\ Len(claims') = k /\ DOMAIN claims' = DOMAIN claims
       /\ claims'[k] = c /\ \A n \in DOMAIN claims : n # k => claims'[n] = claims[n]
  <2> HIDE DEF c, R
  <2> QED
    BY <1>4, <1>5, <1>9, <1>10
<1>12. \A n \in DOMAIN claims : claims'[n].finding = claims[n].finding
  <2> HIDE DEF c, R
  <2> QED
    BY <1>9, <1>11
<1>13. \A n, m \in DOMAIN claims' : claims'[n].finding = claims'[m].finding => n = m
  BY <1>4, <1>11, <1>12
<1>14. ASSUME NEW n \in DOMAIN claims', n < Len(claims') PROVE BackedClaim(claims[n])'
  <2>1. n # k /\ n < k /\ n \in DOMAIN claims
    BY <1>4, <1>11, <1>14
  <2>2. BackedClaim(claims[n]) /\ claims'[n] = claims[n]
    BY <2>1, <1>4, <1>11
  <2> QED
    BY <2>2, <1>1 DEF BackedClaim
<1> QED
  BY <1>1, <1>2, <1>3, <1>11, <1>13, <1>14 DEF ClaimsInv

LEMMA ClaimStep ==
    ASSUME EvaluationInv, (\E finding \in Findings : AssertClaim(finding)) \/ AddEvidence \/ EndClaims
    PROVE  EvaluationInv'
<1>1. /\ evaluation' = evaluation /\ kept' = kept /\ scored' = scored /\ excluded' = excluded
      /\ files' = files /\ observed' = observed /\ progress = "claims" /\ progress' \in {"claims", "results"}
  BY DEF AssertClaim, AddEvidence, EndClaims
<1>2. ObservedNames' = ObservedNames
  BY <1>1, SameMeasured
<1>3. ProgressInv'
  BY <1>1, <1>2 DEF EvaluationInv, ProgressInv
<1>4. SamplesInv' /\ RowsInv'
  <2>1. Taken = NSamples
    BY <1>1 DEF EvaluationInv, SamplesInv
  <2> QED
    BY <1>1, <2>1, SamplesStand
<1>5. FilesInv'
  <2>1. Len(files) = Len(FirstFiles) /\ Len(FirstFiles) \in Nat
    BY <1>1, TheFiles DEF EvaluationInv, FilesInv
  <2>2. Len(files) >= Len(FirstFiles)
    BY <2>1
  <2> QED
    BY <1>1, <2>1, <2>2, FilesStand
<1>6. ClaimsInv'
  <2>1. CASE \E finding \in Findings : AssertClaim(finding)
    BY <2>1, ClaimMade
  <2>2. CASE AddEvidence
    BY <2>2, EvidenceAdded
  <2>3. CASE EndClaims
    <3>1. claims' = claims /\ LinkedUp /\ Unclaimed = {}
      BY <2>3 DEF EndClaims
    <3>2. \A n \in DOMAIN claims : BackedClaim(claims[n])
      BY <3>1, <1>1, LinkedUpIsBacked
    <3> QED
      BY <3>1, <3>2, <1>1, ClaimsStand
  <2> QED
    BY <2>1, <2>2, <2>3
<1> QED
  BY <1>3, <1>4, <1>5, <1>6 DEF EvaluationInv

LEMMA NothingHappens ==
    ASSUME EvaluationInv, UNCHANGED evaluationVars
    PROVE  EvaluationInv'
<1>1. /\ evaluation' = evaluation /\ kept' = kept /\ scored' = scored /\ excluded' = excluded
      /\ files' = files /\ observed' = observed /\ progress' = progress /\ claims' = claims
  BY DEF evaluationVars
<1>2. Findings' = Findings /\ ObservedNames' = ObservedNames /\ FirstFiles' = FirstFiles
  BY <1>1, SameMeasured
<1>3. AnyEvidence' = AnyEvidence /\ AllFiles' = AllFiles /\ Unclaimed' = Unclaimed
  BY <1>1, <1>2 DEF AnyEvidence, AllFiles, LastFiles, Unclaimed
<1>4. ProgressInv'
  BY <1>1, <1>2 DEF EvaluationInv, ProgressInv
<1>5. SamplesInv' /\ RowsInv'
  BY <1>1, SamplesStand DEF EvaluationInv, SamplesInv
<1>6. FilesInv'
  BY <1>1, <1>2, <1>3 DEF EvaluationInv, FilesInv
<1>7. \A c : BackedClaim(c)' <=> BackedClaim(c)
  BY <1>1 DEF BackedClaim
<1>8. ClaimsInv'
  BY <1>1, <1>2, <1>3, <1>7 DEF EvaluationInv, ClaimsInv
<1> QED
  BY <1>4, <1>5, <1>6, <1>8 DEF EvaluationInv

\* The samples, rows, files and claims of an evaluation are at every stage what that stage is about to use: what
\* the pass over the samples, the registration of files and the linking of evidence in evaluation/engine.py keep.
THEOREM EvaluationInductive == EvaluationSpec => []EvaluationInv
<1>1. EvaluationInit => EvaluationInv
  BY EvaluationStarts
<1>2. EvaluationInv /\ [EvaluationNext]_evaluationVars => EvaluationInv'
  <2> SUFFICES ASSUME EvaluationInv, [EvaluationNext]_evaluationVars PROVE EvaluationInv'
    OBVIOUS
  <2>1. CASE Begin \/ EndReading \/ RecordObservations \/ EvaluationFails
    BY <2>1, EarlyStep
  <2>2. CASE TakeSample
    BY <2>2, SampleStep
  <2>3. CASE RegisterFile \/ RegisterResult
    BY <2>3, FileStep
  <2>4. CASE (\E finding \in Findings : AssertClaim(finding)) \/ AddEvidence \/ EndClaims
    BY <2>4, ClaimStep
  <2>5. CASE UNCHANGED evaluationVars
    BY <2>5, NothingHappens
  <2> QED
    BY <2>1, <2>2, <2>3, <2>4, <2>5 DEF EvaluationNext
<1> QED
  BY <1>1, <1>2, PTL DEF EvaluationSpec

LEMMA InvariantAccounts == EvaluationInv => EvaluationAccounted
<1> SUFFICES ASSUME EvaluationInv PROVE EvaluationAccounted
  OBVIOUS
<1>1. EverySampleOnce
  <2>1. ASSUME NEW j \in DOMAIN excluded
        PROVE  LET s == Sample(excluded[j]) IN
                 NaN \in {s.target, s.output, s.confidence} \/ (~Classifies /\ Text \in {s.target, s.output})
    <3>1. Excludes(Sample(excluded[j]))
      BY <2>1 DEF EvaluationInv, SamplesInv
    <3> QED
      BY <3>1 DEF Excludes
  <2> QED
    BY <2>1 DEF EverySampleOnce, EvaluationInv, SamplesInv
<1>2. ScoresBelong
  <2>1. HaveScores => scored = kept
    BY DEF EvaluationInv, RowsInv
  <2>2. ASSUME NEW n \in DOMAIN claims, claims[n].finding.rule \in {"ece-threshold", "high-confidence-errors"},
               NEW j \in Rows
        PROVE  HasRow(Sample(kept[j]))
    <3> DEFINE R == [finding : Findings, evidence : SUBSET AnyEvidence]
    <3>1. claims \in Seq(R) /\ n \in 1..Len(claims)
      BY DEF EvaluationInv, ClaimsInv
    <3>2. claims[n] \in R
      <4> HIDE DEF R
      <4> QED
        BY <3>1
    <3>3. claims[n].finding \in Findings
      BY <3>2
    <3>4. HaveScores
      BY <3>3, <2>2, FindingsAreRecorded DEF EvaluationInv, SamplesInv, Recorded
    <3>5. j \in DOMAIN scored /\ scored[j] = kept[j]
      BY <3>4, <2>1 DEF Rows
    <3> QED
      BY <3>5 DEF EvaluationInv, RowsInv
  <2> QED
    BY <2>1, <2>2 DEF ScoresBelong
<1>3. ClaimsBacked
  BY DEF ClaimsBacked, EvaluationInv, ClaimsInv, BackedClaim
<1>4. AllClaimed
  <2>1. \A n, m \in DOMAIN claims : claims[n].finding = claims[m].finding => n = m
    BY DEF EvaluationInv, ClaimsInv
  <2>2. ASSUME NEW i \in DOMAIN files, files[i] = "evaluation"
        PROVE  {claims[n].finding : n \in DOMAIN claims} = Findings /\ files = FirstFiles \o LastFiles
    <3>1. /\ files \in Seq(FileName) /\ DOMAIN files = 1..Len(files) /\ Len(files) \in Nat /\ Len(files) <= Len(AllFiles)
          /\ \A n \in DOMAIN files : files[n] = AllFiles[n]
          /\ IF progress = "recorded" THEN Len(files) = Len(AllFiles) ELSE Len(files) < Len(AllFiles)
      BY DEF EvaluationInv, FilesInv
    <3>2. /\ AllFiles \in Seq(FileName) /\ DOMAIN AllFiles = 1..Len(AllFiles) /\ Len(AllFiles) \in Nat
          /\ \A n \in DOMAIN AllFiles : AllFiles[n] = "evaluation" => n = Len(AllFiles)
      BY TheFiles
    <3> DEFINE n1 == Len(files)
               n2 == Len(AllFiles)
    <3>0. n1 \in Nat /\ n2 \in Nat /\ n1 <= n2 /\ i \in 1..n1
      BY <3>1, <3>2
    <3>9. i \in 1..n2 /\ (i = n2 => ~(n1 < n2))
      <4> HIDE DEF n1, n2
      <4> QED
        BY <3>0
    <3>3. i = Len(AllFiles)
      <4>1. i \in 1..Len(files) /\ AllFiles[i] = "evaluation"
        BY <3>1, <2>2
      <4>2. i \in 1..Len(AllFiles)
        BY <3>9
      <4> QED
        BY <4>1, <4>2, <3>2
    <3>4. progress = "recorded" /\ Len(files) = Len(AllFiles)
      <4>1. ~(Len(files) < Len(AllFiles))
        BY <3>3, <3>9
      <4> QED
        BY <4>1, <3>1
    <3>5. files = AllFiles
      BY <3>1, <3>2, <3>4
    <3>6. Unclaimed = {} /\ claims \in Seq([finding : Findings, evidence : SUBSET AnyEvidence])
      BY <3>4 DEF EvaluationInv, ClaimsInv
    <3>7. \A n \in DOMAIN claims : claims[n].finding \in Findings
      <4> DEFINE R == [finding : Findings, evidence : SUBSET AnyEvidence]
      <4>1. \A n \in DOMAIN claims : claims[n] \in R
        <5>1. claims \in Seq(R)
          BY <3>6
        <5> HIDE DEF R
        <5> QED
          BY <5>1
      <4> QED
        BY <4>1
    <3>8. {claims[n].finding : n \in DOMAIN claims} = Findings
      BY <3>6, <3>7 DEF Unclaimed
    <3> QED
      BY <3>5, <3>8 DEF AllFiles
  <2> QED
    BY <2>1, <2>2 DEF AllClaimed
<1> QED
  BY <1>1, <1>2, <1>3, <1>4 DEF EvaluationAccounted

\* Every sample that was read is measured or excluded for a value that cannot be used; rows of probabilities
\* belong to the samples they are measured with; claims are backed, and each rule that fires is claimed once, for
\* any request and samples and wherever the engine fails.
THEOREM EvaluationsAccounted == EvaluationSpec => []EvaluationAccounted
BY EvaluationInductive, InvariantAccounts, PTL

(***************************************************************************)
(* Requests.  A record is added at one step of a procedure, under what was *)
(* read before it; that step done, it is there for good, and says whose it *)
(* is to whoever looks.                                                    *)
(***************************************************************************)

Reached(n, names) == \E i \in DOMAIN engine.procedure : i <= n /\ engine.procedure[i] \in names
WritesUpTo(n) == {i \in DOMAIN engine.procedure : i <= n /\ engine.procedure[i] = "write"}
AddsRecord == {"add", "keep"}

Places ==
    {"ask", "existing", "look configuration", "add configuration", "look experiment", "add experiment", "make ready",
     "execute", "run", "answer"} \cup Ended
Job ==
    [at : Places, step : Nat, asked : Nat, read : Nat, seen : BOOLEAN, new : BOOLEAN,
     run : {"none", "RUNNING", "FAILED", "COMPLETED"}, written : Nat, claimed : BOOLEAN, already : BOOLEAN,
     answer : Requesters \cup {Nobody}]

RequestTypes ==
    /\ engine \in Engines /\ content \in Nat /\ experiment \in {"none", "DRAFT", "READY"}
    /\ requester \in [Requesters -> Job]

OneOfAKey ==
    /\ \A x \in records : x.run \in Requesters
    /\ \A x, y \in records : x.key = y.key => x = y

\* What the steps done have left behind.
WorkInv(r) ==
    LET me == requester[r] IN
    /\ me.step <= Len(engine.procedure)
    /\ me.written = Cardinality(WritesUpTo(me.step))
    /\ me.claimed <=> Reached(me.step, {"claim"})
    /\ me.seen => Reached(me.step, {"look"}) /\ OnRecord(OwnKey(r))
    /\ Reached(me.step, AddsRecord) => OnRecord(OwnKey(r))
    /\ \A x \in records : x.run = r => me.new /\ x.key = OwnKey(r) /\ Reached(me.step, AddsRecord)
    /\ me.new => \E x \in records : x.run = r

\* What being somewhere says of the experiment and of the run.
PlaceInv(r) ==
    LET me == requester[r] IN
    /\ me.at = "execute" => experiment # "none"
    /\ me.at \in {"run", "answer", "COMPLETED", "FAILED"} /\ ~me.already => experiment = "READY"
    /\ me.at = "run" => me.run = "RUNNING"
    /\ me.at = "answer" => me.run \in {"FAILED", "COMPLETED"}
    /\ me.at = "COMPLETED" /\ ~me.already => me.run = "COMPLETED"
    /\ me.already => me.at = "COMPLETED"
    /\ me.run = "COMPLETED" => me.step = Len(engine.procedure)

\* Whose record the caller was given.
AnswerInv(r) ==
    LET me == requester[r] IN
    /\ me.answer # Nobody => \E x \in records : x.run = me.answer
    /\ me.at = "COMPLETED" /\ ~me.already /\ engine.answers \in {"request", "run"} =>
          \E x \in records : x.key = OwnKey(r) /\ x.run = me.answer

RequestInv == RequestTypes /\ OneOfAKey /\ \A r \in Requesters : WorkInv(r) /\ PlaceInv(r) /\ AnswerInv(r)

-----------------------------------------------------------------------------
\* The procedure of an engine, whichever is asked.
LEMMA TheProcedure ==
    ASSUME engine \in Engines
    PROVE  /\ engine.procedure \in Seq(Steps) /\ Len(engine.procedure) \in Nat
           /\ DOMAIN engine.procedure = 1..Len(engine.procedure)
           /\ \E k \in DOMAIN engine.procedure :
                 \A i \in DOMAIN engine.procedure : engine.procedure[i] \in AddsRecord <=> i = k
           /\ \A i, j \in DOMAIN engine.procedure :
                 i < j /\ engine.procedure[i] \in {"look", "add", "keep"} => engine.procedure[j] # "read"
           /\ engine.answers \in {"request", "run"} => engine.key \in {"request", "run"}
<1>1. WellFormed(engine)
  BY RequestAssumption
<1>2. engine.procedure \in Seq(Steps)
  BY <1>1 DEF WellFormed
<1> QED
  BY <1>1, <1>2 DEF WellFormed, AddsRecord

\* A step further, one more step is reached.
LEMMA OneStepFurther ==
    ASSUME engine \in Engines, NEW n \in Nat, n < Len(engine.procedure), NEW names
    PROVE  /\ Reached(n + 1, names) <=> Reached(n, names) \/ engine.procedure[n + 1] \in names
           /\ n + 1 \in DOMAIN engine.procedure
<1>1. Len(engine.procedure) \in Nat /\ DOMAIN engine.procedure = 1..Len(engine.procedure)
  BY TheProcedure
<1>2. n + 1 \in DOMAIN engine.procedure
  BY <1>1
<1>3. \A i \in DOMAIN engine.procedure : i <= n + 1 <=> i <= n \/ i = n + 1
  BY <1>1
<1> QED
  BY <1>2, <1>3 DEF Reached

LEMMA OneDocumentFurther ==
    ASSUME engine \in Engines, NEW n \in Nat, n < Len(engine.procedure)
    PROVE  /\ Cardinality(WritesUpTo(n)) \in Nat
           /\ Cardinality(WritesUpTo(n + 1)) =
                 Cardinality(WritesUpTo(n)) + IF engine.procedure[n + 1] = "write" THEN 1 ELSE 0
<1>1. Len(engine.procedure) \in Nat /\ DOMAIN engine.procedure = 1..Len(engine.procedure)
  BY TheProcedure
<1>2. IsFiniteSet(WritesUpTo(n))
  <2>1. WritesUpTo(n) \in SUBSET (1..Len(engine.procedure))
    BY <1>1 DEF WritesUpTo
  <2>2. IsFiniteSet(1..Len(engine.procedure))
    BY <1>1, FS_Interval
  <2> QED
    BY <2>1, <2>2, FS_Subset
<1>3. n + 1 \in DOMAIN engine.procedure /\ ~(n + 1 <= n)
  BY <1>1
<1>4. \A i \in DOMAIN engine.procedure : i <= n + 1 <=> i <= n \/ i = n + 1
  BY <1>1
<1>5. CASE engine.procedure[n + 1] = "write"
  <2>1. WritesUpTo(n + 1) = WritesUpTo(n) \cup {n + 1} /\ n + 1 \notin WritesUpTo(n)
    BY <1>3, <1>4, <1>5 DEF WritesUpTo
  <2> QED
    BY <2>1, <1>2, <1>5, FS_AddElement, FS_CardinalityType
<1>6. CASE engine.procedure[n + 1] # "write"
  <2>1. WritesUpTo(n + 1) = WritesUpTo(n)
    BY <1>3, <1>4, <1>6 DEF WritesUpTo
  <2> QED
    BY <2>1, <1>2, <1>6, FS_CardinalityType
<1> QED
  BY <1>5, <1>6

\* What has looked or added does not read again.
LEMMA NoMoreReading ==
    ASSUME engine \in Engines, NEW n \in Nat, n < Len(engine.procedure), engine.procedure[n + 1] = "read"
    PROVE  ~Reached(n, {"look"}) /\ ~Reached(n, AddsRecord)
<1>1. Len(engine.procedure) \in Nat /\ DOMAIN engine.procedure = 1..Len(engine.procedure)
  BY TheProcedure
<1>2. n + 1 \in DOMAIN engine.procedure
  BY <1>1
<1>3. \A i \in DOMAIN engine.procedure : i <= n => i < n + 1
  BY <1>1
<1>4. \A i \in DOMAIN engine.procedure : i <= n => engine.procedure[i] \notin {"look", "add", "keep"}
  BY <1>2, <1>3, TheProcedure
<1> QED
  BY <1>4 DEF Reached, AddsRecord

\* The record is added once.
LEMMA AddedOnce ==
    ASSUME engine \in Engines, NEW n \in Nat, n < Len(engine.procedure), engine.procedure[n + 1] \in AddsRecord
    PROVE  ~Reached(n, AddsRecord)
<1>1. Len(engine.procedure) \in Nat /\ DOMAIN engine.procedure = 1..Len(engine.procedure)
  BY TheProcedure
<1>2. n + 1 \in DOMAIN engine.procedure /\ ~(n + 1 <= n)
  BY <1>1
<1>3. PICK k \in DOMAIN engine.procedure :
         \A i \in DOMAIN engine.procedure : engine.procedure[i] \in AddsRecord <=> i = k
  BY TheProcedure
<1> QED
  BY <1>2, <1>3 DEF Reached

\* The last step done, a record was added or found.
LEMMA AllReached ==
    ASSUME engine \in Engines
    PROVE  Reached(Len(engine.procedure), AddsRecord)
<1>1. Len(engine.procedure) \in Nat /\ DOMAIN engine.procedure = 1..Len(engine.procedure)
  BY TheProcedure
<1>2. PICK k \in DOMAIN engine.procedure : engine.procedure[k] \in AddsRecord
  BY TheProcedure
<1> QED
  BY <1>1, <1>2 DEF Reached

\* A key depends on the engine, the process and what it read; where answers are found by request or run, not on that.
LEMMA SameKey ==
    ASSUME engine' = engine, NEW r, requester'[r].read = requester[r].read
    PROVE  OwnKey(r)' = OwnKey(r)
BY DEF OwnKey, Key

LEMMA KeyIsOwn ==
    ASSUME engine.key \in {"request", "run"}, NEW r, NEW v, NEW w
    PROVE  Key(r, v) = Key(r, w)
BY DEF Key

LEMMA RecordIsThere ==
    ASSUME NEW key, OnRecord(key)
    PROVE  RecordOf(key) \in records /\ RecordOf(key).key = key
BY DEF OnRecord, RecordOf

-----------------------------------------------------------------------------
\* Whoever takes no step of its procedure keeps what its steps left, as long as nobody adds a record in its name.
LEMMA WorkStays ==
    ASSUME RequestTypes, NEW s \in Requesters, WorkInv(s), OneOfAKey', engine' = engine,
           records \subseteq records', \A x \in records' \ records : x.run # s,
           requester'[s].step = requester[s].step, requester'[s].read = requester[s].read,
           requester'[s].seen = requester[s].seen, requester'[s].new = requester[s].new,
           requester'[s].written = requester[s].written, requester'[s].claimed = requester[s].claimed
    PROVE  WorkInv(s)'
<1>1. OwnKey(s)' = OwnKey(s)
  BY SameKey
<1>2. OnRecord(OwnKey(s)) => OnRecord(OwnKey(s))'
  BY <1>1 DEF OnRecord
<1>3. \A n, names : Reached(n, names)' <=> Reached(n, names)
  BY DEF Reached
<1>4. \A n : WritesUpTo(n)' = WritesUpTo(n)
  BY DEF WritesUpTo
<1>5. \A x \in records' : x.run = s => x \in records
  OBVIOUS
<1> QED
  BY <1>1, <1>2, <1>3, <1>4, <1>5 DEF WorkInv

\* Whoever stays where it is keeps what follows from being there.
LEMMA PlaceStays ==
    ASSUME NEW s \in Requesters, PlaceInv(s), AnswerInv(s), engine' = engine, records \subseteq records',
           experiment # "none" => experiment' # "none", experiment = "READY" => experiment' = "READY",
           requester'[s] = requester[s]
    PROVE  PlaceInv(s)' /\ AnswerInv(s)'
<1>1. OwnKey(s)' = OwnKey(s)
  BY SameKey
<1> QED
  BY <1>1 DEF PlaceInv, AnswerInv

\* A step of one process that changes no record, and how its own place follows.
LEMMA OneMoves ==
    ASSUME RequestInv, NEW r \in Requesters, NEW job \in Job, engine' = engine, content' = content,
           requester' = [requester EXCEPT ![r] = job],
           experiment' \in {"none", "DRAFT", "READY"},
           experiment # "none" => experiment' # "none", experiment = "READY" => experiment' = "READY",
           records \subseteq records', OneOfAKey', \A x \in records' \ records : x.run = r,
           WorkInv(r)', PlaceInv(r)', AnswerInv(r)'
    PROVE  RequestInv'
<1>1. RequestTypes'
  BY DEF RequestInv, RequestTypes
<1>2. ASSUME NEW s \in Requesters, s # r PROVE WorkInv(s)' /\ PlaceInv(s)' /\ AnswerInv(s)'
  <2>1. requester'[s] = requester[s]
    BY <1>2 DEF RequestInv, RequestTypes
  <2>2. \A x \in records' \ records : x.run # s
    BY <1>2
  <2>3. WorkInv(s)'
    BY <2>1, <2>2, WorkStays DEF RequestInv
  <2>4. PlaceInv(s)' /\ AnswerInv(s)'
    BY <2>1, PlaceStays DEF RequestInv
  <2> QED
    BY <2>3, <2>4
<1> QED
  BY <1>1, <1>2 DEF RequestInv

\* The same when the step is none of the procedure.
LEMMA OneGoes ==
    ASSUME RequestInv, NEW r \in Requesters, NEW job \in Job, engine' = engine, content' = content, records' = records,
           requester' = [requester EXCEPT ![r] = job],
           job.step = requester[r].step, job.read = requester[r].read, job.seen = requester[r].seen,
           job.new = requester[r].new, job.written = requester[r].written, job.claimed = requester[r].claimed,
           experiment' \in {"none", "DRAFT", "READY"},
           experiment # "none" => experiment' # "none", experiment = "READY" => experiment' = "READY",
           PlaceInv(r)', AnswerInv(r)'
    PROVE  RequestInv'
<1>1. requester'[r] = job
  BY DEF RequestInv, RequestTypes
<1>2. OneOfAKey'
  BY DEF RequestInv, OneOfAKey
<1>3. WorkInv(r)'
  BY <1>1, <1>2, WorkStays DEF RequestInv
<1> QED
  BY <1>2, <1>3, OneMoves

\* As long as the caller is not answered yet.
LEMMA AnswerStays ==
    ASSUME NEW r \in Requesters, AnswerInv(r), records' = records, requester'[r].answer = requester[r].answer,
           requester'[r].at # "COMPLETED"
    PROVE  AnswerInv(r)'
BY DEF AnswerInv

\* And when it is a step that adds no record.
LEMMA OneWorks ==
    ASSUME RequestInv, NEW r \in Requesters, NEW name, AtStep(r, name), NEW job \in Job,
           engine' = engine, content' = content, experiment' = experiment, records' = records,
           Step(r, job), job.at = "run", job.run = requester[r].run, job.already = requester[r].already,
           job.answer = requester[r].answer, job.step = requester[r].step, WorkInv(r)'
    PROVE  RequestInv'
<1> DEFINE done == [job EXCEPT !.step = @ + 1]
<1>1. done \in Job
  BY DEF Job
<1>2. requester' = [requester EXCEPT ![r] = done] /\ requester'[r] = done
  BY DEF Step, RequestInv, RequestTypes
<1>3. done.at = "run" /\ done.run = job.run /\ done.already = job.already /\ done.answer = job.answer
  BY DEF Job
<1>4. requester[r].at = "run"
  BY DEF AtStep, At
<1> HIDE DEF done
<1>5. PlaceInv(r)'
  BY <1>2, <1>3, <1>4 DEF PlaceInv, RequestInv, AtStep
<1>7. AnswerInv(r)'
  BY <1>2, <1>3, AnswerStays DEF RequestInv
<1>6. OneOfAKey'
  BY DEF RequestInv, OneOfAKey
<1> QED
  BY <1>1, <1>2, <1>5, <1>6, <1>7, OneMoves DEF RequestInv, RequestTypes

\* The answer is the run of a record, or nobody.
LEMMA FoundOnRecord ==
    ASSUME OneOfAKey, NEW r \in Requesters
    PROVE  /\ Found(r) \in Requesters \cup {Nobody}
           /\ Found(r) # Nobody => \E x \in records : x.run = Found(r)
           /\ engine.answers \in {"request", "run"} /\ OnRecord(Key(r, 0)) =>
                 \E x \in records : x.key = Key(r, 0) /\ x.run = Found(r)
<1> DEFINE key == IF engine.answers = "content" THEN Key(r, requester[r].asked) ELSE Key(r, 0)
<1>1. CASE engine.answers # "nothing" /\ OnRecord(key)
  <2>1. Found(r) = RecordOf(key).run
    BY <1>1 DEF Found
  <2>2. RecordOf(key) \in records /\ RecordOf(key).key = key
    BY <1>1, RecordIsThere
  <2>3. engine.answers \in {"request", "run"} => key = Key(r, 0)
    OBVIOUS
  <2> QED
    BY <2>1, <2>2, <2>3 DEF OneOfAKey
<1>2. CASE ~(engine.answers # "nothing" /\ OnRecord(key))
  BY <1>2 DEF Found
<1> QED
  BY <1>1, <1>2

\* Who only goes elsewhere before its run starts, or drops out, keeps what it has.
LEMMA GoingKeeps ==
    ASSUME RequestInv, NEW r \in Requesters, NEW place \in Places \ {"run", "answer", "COMPLETED", "FAILED"},
           Go(r, place), requester[r].at \notin {"COMPLETED", "FAILED"}, place = "execute" => experiment' # "none",
           engine' = engine, content' = content, records' = records,
           experiment' \in {"none", "DRAFT", "READY"},
           experiment # "none" => experiment' # "none", experiment = "READY" => experiment' = "READY"
    PROVE  RequestInv'
<1> DEFINE job == [requester[r] EXCEPT !.at = place]
<1>1. /\ requester[r] \in Job /\ PlaceInv(r) /\ AnswerInv(r) /\ WorkInv(r)
  BY DEF RequestInv, RequestTypes
<1>2. job \in Job
  BY <1>1 DEF Job
<1>3. requester' = [requester EXCEPT ![r] = job] /\ requester'[r] = job
  BY DEF Go, RequestInv, RequestTypes
<1>4. /\ job.at = place /\ job.step = requester[r].step /\ job.read = requester[r].read /\ job.seen = requester[r].seen
      /\ job.new = requester[r].new /\ job.run = requester[r].run /\ job.written = requester[r].written
      /\ job.claimed = requester[r].claimed /\ job.already = requester[r].already /\ job.answer = requester[r].answer
  BY <1>1 DEF Job
<1> HIDE DEF job
<1>5. PlaceInv(r)'
  BY <1>1, <1>3, <1>4 DEF PlaceInv
<1>6. AnswerInv(r)'
  BY <1>1, <1>3, <1>4, AnswerStays
<1> QED
  BY <1>1, <1>2, <1>3, <1>4, <1>5, <1>6, OneGoes

LEMMA BeforeTheRunKeeps ==
    ASSUME RequestInv, NEW r \in Requesters,
           \/ RefuseRequest(r) \/ LookConfiguration(r) \/ AddConfiguration(r) \/ LookExperiment(r) \/ AddExperiment(r)
           \/ MakeReady(r) \/ Die(r)
    PROVE  RequestInv'
<1>0. experiment \in {"none", "DRAFT", "READY"}
  BY DEF RequestInv, RequestTypes
<1>1. CASE RefuseRequest(r)
  <2> DEFINE place == "ERROR"
  <2>1. Go(r, place) /\ place \in Places \ {"run", "answer", "COMPLETED", "FAILED"}
    BY <1>1 DEF RefuseRequest, Raise, Go, Places, Ended
  <2>2. requester[r].at \notin {"COMPLETED", "FAILED"}
    BY <1>1 DEF RefuseRequest, At, Ended
  <2> QED
    BY <1>0, <1>1, <2>1, <2>2, GoingKeeps DEF RefuseRequest
<1>2. CASE LookConfiguration(r)
  <2> DEFINE place == IF configuration THEN "look experiment" ELSE "add configuration"
  <2>1. Go(r, place) /\ place \in Places \ {"run", "answer", "COMPLETED", "FAILED"}
    BY <1>2 DEF LookConfiguration, Raise, Go, Places, Ended
  <2>2. requester[r].at \notin {"COMPLETED", "FAILED"}
    BY <1>2 DEF LookConfiguration, At, Ended
  <2> QED
    BY <1>0, <1>2, <2>1, <2>2, GoingKeeps DEF LookConfiguration
<1>3. CASE AddConfiguration(r)
  <2> DEFINE place == IF configuration THEN "ERROR" ELSE "look experiment"
  <2>1. Go(r, place) /\ place \in Places \ {"run", "answer", "COMPLETED", "FAILED"}
    BY <1>3 DEF AddConfiguration, Raise, Go, Places, Ended
  <2>2. requester[r].at \notin {"COMPLETED", "FAILED"}
    BY <1>3 DEF AddConfiguration, At, Ended
  <2> QED
    BY <1>0, <1>3, <2>1, <2>2, GoingKeeps DEF AddConfiguration
<1>4. CASE LookExperiment(r)
  <2> DEFINE place == IF experiment = "none" THEN "add experiment" ELSE "execute"
  <2>1. Go(r, place) /\ place \in Places \ {"run", "answer", "COMPLETED", "FAILED"}
    BY <1>4 DEF LookExperiment, Raise, Go, Places, Ended
  <2>2. requester[r].at \notin {"COMPLETED", "FAILED"}
    BY <1>4 DEF LookExperiment, At, Ended
  <2> QED
    BY <1>0, <1>4, <2>1, <2>2, GoingKeeps DEF LookExperiment
<1>5. CASE AddExperiment(r)
  <2> DEFINE place == IF experiment = "none" THEN "make ready" ELSE "ERROR"
  <2>1. Go(r, place) /\ place \in Places \ {"run", "answer", "COMPLETED", "FAILED"}
    BY <1>5 DEF AddExperiment, Raise, Go, Places, Ended
  <2>2. requester[r].at \notin {"COMPLETED", "FAILED"}
    BY <1>5 DEF AddExperiment, At, Ended
  <2> QED
    BY <1>0, <1>5, <2>1, <2>2, GoingKeeps DEF AddExperiment
<1>6. CASE MakeReady(r)
  <2> DEFINE place == "execute"
  <2>1. Go(r, place) /\ place \in Places \ {"run", "answer", "COMPLETED", "FAILED"}
    BY <1>6 DEF MakeReady, Raise, Go, Places, Ended
  <2>2. requester[r].at \notin {"COMPLETED", "FAILED"}
    BY <1>6 DEF MakeReady, At, Ended
  <2> QED
    BY <1>0, <1>6, <2>1, <2>2, GoingKeeps DEF MakeReady
<1>7. CASE Die(r)
  <2> DEFINE place == "DIED"
  <2>1. Go(r, place) /\ place \in Places \ {"run", "answer", "COMPLETED", "FAILED"}
    BY <1>7 DEF Die, Raise, Go, Places, Ended
  <2>2. requester[r].at \notin {"COMPLETED", "FAILED"}
    BY <1>7 DEF Die, At, Ended
  <2> QED
    BY <1>0, <1>7, <2>1, <2>2, GoingKeeps DEF Die
<1> QED
  BY <1>1, <1>2, <1>3, <1>4, <1>5, <1>6, <1>7

LEMMA AcceptKeeps ==
    ASSUME RequestInv, NEW r \in Requesters, Accept(r)
    PROVE  RequestInv'
<1> DEFINE job == [requester[r] EXCEPT !.asked = content,
                                      !.at = IF engine.asks THEN "existing" ELSE "look configuration"]
<1>1. /\ requester[r] \in Job /\ PlaceInv(r) /\ AnswerInv(r) /\ WorkInv(r) /\ OneOfAKey
      /\ content \in Nat /\ experiment \in {"none", "DRAFT", "READY"} /\ requester[r].at = "ask"
  BY DEF RequestInv, RequestTypes, Accept, At
<1>2. job \in Job
  BY <1>1 DEF Job, Places, Ended
<1>3. requester' = [requester EXCEPT ![r] = job] /\ requester'[r] = job
  BY DEF Accept, RunFails, RequestInv, RequestTypes
<1>4. /\ job.step = requester[r].step /\ job.read = requester[r].read /\ job.seen = requester[r].seen
      /\ job.new = requester[r].new
      /\ job.run = requester[r].run /\ job.written = requester[r].written /\ job.claimed = requester[r].claimed
      /\ job.already = requester[r].already /\ job.answer = requester[r].answer
      /\ job.at = IF engine.asks THEN "existing" ELSE "look configuration"
  BY <1>1 DEF Job
<1> HIDE DEF job
<1>5. PlaceInv(r)'
  BY <1>1, <1>3, <1>4 DEF PlaceInv, Accept
<1>6. AnswerInv(r)'
  BY <1>1, <1>3, <1>4, AnswerStays DEF Accept
<1> QED
  BY <1>1, <1>2, <1>3, <1>4, <1>5, <1>6, OneGoes DEF Accept

LEMMA ExistingKeeps ==
    ASSUME RequestInv, NEW r \in Requesters, Existing(r)
    PROVE  RequestInv'
<1> DEFINE job == [requester[r] EXCEPT !.at = IF Found(r) = Nobody THEN "look configuration" ELSE "COMPLETED",
                                     !.answer = Found(r), !.already = Found(r) # Nobody]
<1>1. /\ requester[r] \in Job /\ PlaceInv(r) /\ AnswerInv(r) /\ WorkInv(r) /\ OneOfAKey
      /\ content \in Nat /\ experiment \in {"none", "DRAFT", "READY"} /\ requester[r].at = "existing"
  BY DEF RequestInv, RequestTypes, Existing, At
<1>2. job \in Job
  BY <1>1, FoundOnRecord DEF Job, Places, Ended
<1>3. requester' = [requester EXCEPT ![r] = job] /\ requester'[r] = job
  BY DEF Existing, RunFails, RequestInv, RequestTypes
<1>4. /\ job.step = requester[r].step /\ job.read = requester[r].read /\ job.seen = requester[r].seen
      /\ job.new = requester[r].new
      /\ job.run = requester[r].run /\ job.written = requester[r].written /\ job.claimed = requester[r].claimed
      /\ job.already = (Found(r) # Nobody) /\ job.answer = Found(r)
      /\ job.at = IF Found(r) = Nobody THEN "look configuration" ELSE "COMPLETED"
  BY <1>1 DEF Job
<1> HIDE DEF job
<1>5. PlaceInv(r)'
  BY <1>1, <1>3, <1>4 DEF PlaceInv, Existing
<1>6. AnswerInv(r)'
  <2>1. Found(r) # Nobody => \E x \in records : x.run = Found(r)
    BY <1>1, FoundOnRecord
  <2>2. records' = records /\ ~(job.at = "COMPLETED" /\ ~job.already)
    BY <1>4 DEF Existing
  <2> QED
    BY <1>3, <1>4, <2>1, <2>2 DEF AnswerInv
<1> QED
  BY <1>1, <1>2, <1>3, <1>4, <1>5, <1>6, OneGoes DEF Existing

LEMMA ProcedureRaisesKeeps ==
    ASSUME RequestInv, NEW r \in Requesters, ProcedureRaises(r)
    PROVE  RequestInv'
<1> DEFINE job == [requester[r] EXCEPT !.run = "FAILED", !.at = "answer"]
<1>1. /\ requester[r] \in Job /\ PlaceInv(r) /\ AnswerInv(r) /\ WorkInv(r) /\ OneOfAKey
      /\ content \in Nat /\ experiment \in {"none", "DRAFT", "READY"} /\ requester[r].at = "run"
  BY DEF RequestInv, RequestTypes, ProcedureRaises, At
<1>2. job \in Job
  BY <1>1 DEF Job, Places, Ended
<1>3. requester' = [requester EXCEPT ![r] = job] /\ requester'[r] = job
  BY DEF ProcedureRaises, RunFails, RequestInv, RequestTypes
<1>4. /\ job.step = requester[r].step /\ job.read = requester[r].read /\ job.seen = requester[r].seen
      /\ job.new = requester[r].new
      /\ job.written = requester[r].written /\ job.claimed = requester[r].claimed
      /\ job.already = requester[r].already /\ job.answer = requester[r].answer
      /\ job.run = "FAILED" /\ job.at = "answer"
  BY <1>1 DEF Job
<1> HIDE DEF job
<1>5. PlaceInv(r)'
  BY <1>1, <1>3, <1>4 DEF PlaceInv, ProcedureRaises
<1>6. AnswerInv(r)'
  BY <1>1, <1>3, <1>4, AnswerStays DEF ProcedureRaises
<1> QED
  BY <1>1, <1>2, <1>3, <1>4, <1>5, <1>6, OneGoes DEF ProcedureRaises

LEMMA ProcedureReturnsKeeps ==
    ASSUME RequestInv, NEW r \in Requesters, ProcedureReturns(r)
    PROVE  RequestInv'
<1> DEFINE job == [requester[r] EXCEPT !.run = "COMPLETED", !.at = "answer"]
<1>1. /\ requester[r] \in Job /\ PlaceInv(r) /\ AnswerInv(r) /\ WorkInv(r) /\ OneOfAKey
      /\ content \in Nat /\ experiment \in {"none", "DRAFT", "READY"} /\ requester[r].at = "run"
  BY DEF RequestInv, RequestTypes, ProcedureReturns, At
<1>2. job \in Job
  BY <1>1 DEF Job, Places, Ended
<1>3. requester' = [requester EXCEPT ![r] = job] /\ requester'[r] = job
  BY DEF ProcedureReturns, RunFails, RequestInv, RequestTypes
<1>4. /\ job.step = requester[r].step /\ job.read = requester[r].read /\ job.seen = requester[r].seen
      /\ job.new = requester[r].new
      /\ job.written = requester[r].written /\ job.claimed = requester[r].claimed
      /\ job.already = requester[r].already /\ job.answer = requester[r].answer
      /\ job.run = "COMPLETED" /\ job.at = "answer"
  BY <1>1 DEF Job
<1> HIDE DEF job
<1>5. PlaceInv(r)'
  BY <1>1, <1>3, <1>4 DEF PlaceInv, ProcedureReturns
<1>6. AnswerInv(r)'
  BY <1>1, <1>3, <1>4, AnswerStays DEF ProcedureReturns
<1> QED
  BY <1>1, <1>2, <1>3, <1>4, <1>5, <1>6, OneGoes DEF ProcedureReturns

LEMMA AnswerKeeps ==
    ASSUME RequestInv, NEW r \in Requesters, Answer(r)
    PROVE  RequestInv'
<1> DEFINE job == [requester[r] EXCEPT !.at = requester[r].run, !.answer = Found(r)]
<1>1. /\ requester[r] \in Job /\ PlaceInv(r) /\ AnswerInv(r) /\ WorkInv(r) /\ OneOfAKey
      /\ content \in Nat /\ experiment \in {"none", "DRAFT", "READY"} /\ requester[r].at = "answer"
  BY DEF RequestInv, RequestTypes, Answer, At
<1>2. job \in Job
  BY <1>1, FoundOnRecord DEF Job, Places, Ended, PlaceInv
<1>3. requester' = [requester EXCEPT ![r] = job] /\ requester'[r] = job
  BY DEF Answer, RunFails, RequestInv, RequestTypes
<1>4. /\ job.step = requester[r].step /\ job.read = requester[r].read /\ job.seen = requester[r].seen
      /\ job.new = requester[r].new
      /\ job.run = requester[r].run /\ job.written = requester[r].written /\ job.claimed = requester[r].claimed
      /\ job.already = requester[r].already
      /\ job.answer = Found(r) /\ job.at = requester[r].run
  BY <1>1 DEF Job
<1> HIDE DEF job
<1>5. PlaceInv(r)'
  BY <1>1, <1>3, <1>4 DEF PlaceInv, Answer
<1>6. AnswerInv(r)'
  <2>1. /\ Found(r) # Nobody => \E x \in records : x.run = Found(r)
        /\ engine.answers \in {"request", "run"} /\ OnRecord(Key(r, 0)) =>
              \E x \in records : x.key = Key(r, 0) /\ x.run = Found(r)
    BY <1>1, FoundOnRecord
  <2>2. OwnKey(r)' = OwnKey(r) /\ records' = records /\ engine' = engine
    BY <1>3, <1>4, SameKey DEF Answer
  <2>3. requester[r].run = "COMPLETED" => OnRecord(OwnKey(r))
    BY <1>1, AllReached DEF WorkInv, PlaceInv, RequestInv, RequestTypes
  <2>4. engine.answers \in {"request", "run"} => OwnKey(r) = Key(r, 0)
    BY TheProcedure, KeyIsOwn DEF OwnKey, RequestInv, RequestTypes
  <2> QED
    BY <1>3, <1>4, <2>1, <2>2, <2>3, <2>4 DEF AnswerInv
<1> QED
  BY <1>1, <1>2, <1>3, <1>4, <1>5, <1>6, OneGoes DEF Answer

LEMMA ExecuteKeeps ==
    ASSUME RequestInv, NEW r \in Requesters, Execute(r)
    PROVE  RequestInv'
<1>1. experiment \in {"none", "DRAFT", "READY"} /\ requester[r].at = "execute" /\ experiment # "none"
  BY DEF RequestInv, RequestTypes, PlaceInv, Execute, At
<1>2. CASE experiment = "DRAFT"
  <2>1. Go(r, "ERROR") /\ "ERROR" \in Places \ {"run", "answer", "COMPLETED", "FAILED"}
    BY <1>2 DEF Execute, Raise, Places, Ended
  <2> QED
    BY <1>1, <1>2, <2>1, GoingKeeps DEF Execute
<1>3. CASE experiment = "READY"
  <2> DEFINE job == [requester[r] EXCEPT !.at = "run", !.run = "RUNNING"]
  <2>1. /\ requester[r] \in Job /\ PlaceInv(r) /\ AnswerInv(r) /\ WorkInv(r)
    BY DEF RequestInv, RequestTypes
  <2>2. job \in Job
    BY <2>1 DEF Job, Places, Ended
  <2>3. requester' = [requester EXCEPT ![r] = job] /\ requester'[r] = job
    BY <1>3 DEF Execute, RequestInv, RequestTypes
  <2>4. /\ job.at = "run" /\ job.run = "RUNNING" /\ job.step = requester[r].step /\ job.read = requester[r].read
        /\ job.seen = requester[r].seen /\ job.new = requester[r].new /\ job.written = requester[r].written
        /\ job.claimed = requester[r].claimed /\ job.already = requester[r].already /\ job.answer = requester[r].answer
    BY <2>1 DEF Job
  <2> HIDE DEF job
  <2>5. PlaceInv(r)'
    BY <1>1, <1>3, <2>1, <2>3, <2>4 DEF PlaceInv, Execute
  <2>6. AnswerInv(r)'
    BY <2>1, <2>3, <2>4, AnswerStays DEF Execute
  <2> QED
    BY <1>1, <1>3, <2>1, <2>2, <2>3, <2>4, <2>5, <2>6, OneGoes DEF Execute
<1> QED
  BY <1>1, <1>2, <1>3

-----------------------------------------------------------------------------
\* The steps of the procedure.
\* A process after a step of its procedure.
Advanced(r, name, job) ==
    LET me == requester[r]
        next == requester'[r]
    IN  /\ next.step = me.step + 1 /\ next.read = job.read /\ next.seen = job.seen /\ next.new = job.new
        /\ next.written = job.written /\ next.claimed = job.claimed
        /\ next.step <= Len(engine'.procedure)
        /\ \A names : Reached(requester[r].step, names)' <=> Reached(me.step, names) \/ name \in names
        /\ Cardinality(WritesUpTo(requester[r].step))' =
              Cardinality(WritesUpTo(me.step)) + IF name = "write" THEN 1 ELSE 0

LEMMA AfterTheStep ==
    ASSUME RequestInv, NEW r \in Requesters, NEW name, AtStep(r, name), NEW job \in Job, job.step = requester[r].step,
           Step(r, job), engine' = engine
    PROVE  Advanced(r, name, job)
<1> DEFINE n == requester[r].step
<1>1. engine \in Engines /\ n \in Nat /\ n < Len(engine.procedure) /\ engine.procedure[n + 1] = name
  BY DEF RequestInv, RequestTypes, Job, AtStep
<1>2. requester'[r] = [job EXCEPT !.step = n + 1]
  BY DEF Step, RequestInv, RequestTypes, Job
<1>3. /\ requester'[r].step = n + 1 /\ requester'[r].read = job.read /\ requester'[r].seen = job.seen
      /\ requester'[r].new = job.new /\ requester'[r].written = job.written /\ requester'[r].claimed = job.claimed
  BY <1>2 DEF Job
<1>4. \A names : Reached(n + 1, names) <=> Reached(n, names) \/ name \in names
  BY <1>1, OneStepFurther
<1>5. \A names : Reached(requester[r].step, names)' <=> Reached(n + 1, names)
  BY <1>3 DEF Reached
<1>6. WritesUpTo(requester[r].step)' = WritesUpTo(n + 1)
  BY <1>3 DEF WritesUpTo
<1>7. Cardinality(WritesUpTo(n + 1)) = Cardinality(WritesUpTo(n)) + IF name = "write" THEN 1 ELSE 0
  BY <1>1, OneDocumentFurther
<1>8. n + 1 <= Len(engine.procedure)
  BY <1>1, TheProcedure
<1> QED
  BY <1>3, <1>4, <1>5, <1>6, <1>7, <1>8 DEF Advanced

\* What such a step must leave to keep with those before it.
LEMMA WorkGoesOn ==
    ASSUME NEW r \in Requesters, WorkInv(r), NEW name, name \notin AddsRecord, NEW job, Advanced(r, name, job),
           requester[r].claimed \in BOOLEAN, requester'[r].claimed \in BOOLEAN,
           engine' = engine, records' = records, job.new = requester[r].new,
           job.written = requester[r].written + IF name = "write" THEN 1 ELSE 0,
           job.claimed <=> requester[r].claimed \/ name = "claim",
           job.seen => OnRecord(OwnKey(r)) /\ (requester[r].seen \/ name = "look"),
           \/ job.read = requester[r].read
           \/ ~Reached(requester[r].step, {"look"}) /\ ~Reached(requester[r].step, AddsRecord) /\ ~job.seen
    PROVE  WorkInv(r)'
<1> DEFINE me == requester[r]
           next == requester'[r]
<1>1. /\ Reached(requester[r].step, {"claim"})' <=> Reached(me.step, {"claim"}) \/ name = "claim"
      /\ Reached(requester[r].step, {"look"})' <=> Reached(me.step, {"look"}) \/ name = "look"
      /\ Reached(requester[r].step, AddsRecord)' <=> Reached(me.step, AddsRecord)
  <2>1. \A names : Reached(requester[r].step, names)' <=> Reached(me.step, names) \/ name \in names
    BY DEF Advanced
  <2>2. /\ Reached(requester[r].step, {"claim"})' <=> Reached(me.step, {"claim"}) \/ name \in {"claim"}
        /\ Reached(requester[r].step, {"look"})' <=> Reached(me.step, {"look"}) \/ name \in {"look"}
    BY <2>1
  <2>3. Reached(requester[r].step, AddsRecord)' <=> Reached(me.step, AddsRecord) \/ name \in AddsRecord
    <3> DEFINE A == AddsRecord
    <3>1. Reached(requester[r].step, A)' <=> Reached(me.step, A) \/ name \in A
      BY <2>1
    <3> QED
      BY <3>1
  <2> QED
    BY <2>2, <2>3
<1>2. next.step <= Len(engine'.procedure) /\ next.written = Cardinality(WritesUpTo(requester[r].step))'
  BY DEF Advanced, WorkInv
<1>3. next.claimed <=> Reached(requester[r].step, {"claim"})'
  BY <1>1 DEF Advanced, WorkInv
<1>4. next.new => \E x \in records' : x.run = r
  BY DEF Advanced, WorkInv
<1>5. CASE job.read = me.read
  <2>1. OwnKey(r)' = OwnKey(r) /\ (OnRecord(OwnKey(r))' <=> OnRecord(OwnKey(r)))
    <3>1. OwnKey(r)' = OwnKey(r)
      BY <1>5, SameKey DEF Advanced
    <3> QED
      BY <3>1 DEF OnRecord
  <2>2. next.seen => Reached(requester[r].step, {"look"})' /\ OnRecord(OwnKey(r))'
    BY <1>1, <2>1 DEF Advanced, WorkInv
  <2>3. Reached(requester[r].step, AddsRecord)' => OnRecord(OwnKey(r))'
    BY <1>1, <2>1 DEF WorkInv
  <2>4. \A x \in records' : x.run = r => next.new /\ x.key = OwnKey(r)' /\ Reached(requester[r].step, AddsRecord)'
    BY <1>1, <2>1 DEF WorkInv, Advanced
  <2> QED
    BY <1>2, <1>3, <1>4, <2>2, <2>3, <2>4 DEF WorkInv
<1>6. CASE ~Reached(me.step, {"look"}) /\ ~Reached(me.step, AddsRecord) /\ ~job.seen
  <2>1. ~next.seen /\ ~Reached(requester[r].step, AddsRecord)' /\ \A x \in records' : x.run # r
    BY <1>1, <1>6 DEF WorkInv, Advanced
  <2> QED
    BY <1>2, <1>3, <1>4, <2>1 DEF WorkInv
<1> QED
  BY <1>5, <1>6

LEMMA ReadSourcesKeeps ==
    ASSUME RequestInv, NEW r \in Requesters, ReadSources(r)
    PROVE  RequestInv'
<1> DEFINE job == [requester[r] EXCEPT !.read = content]
<1>1. /\ requester[r] \in Job /\ WorkInv(r) /\ content \in Nat /\ AtStep(r, "read") /\ Step(r, job)
      /\ engine' = engine /\ records' = records /\ requester[r].at = "run"
  BY DEF RequestInv, RequestTypes, ReadSources, AtStep, At
<1>2. /\ job \in Job /\ job.at = requester[r].at /\ job.step = requester[r].step /\ job.run = requester[r].run
      /\ job.already = requester[r].already
      /\ job.answer = requester[r].answer /\ job.seen = requester[r].seen /\ job.new = requester[r].new
      /\ job.written = requester[r].written /\ job.claimed = requester[r].claimed
      /\ job.read = content
  BY <1>1 DEF Job
<1> HIDE DEF job
<1>3. Advanced(r, "read", job)
  BY <1>1, <1>2, AfterTheStep
<1>4. ~Reached(requester[r].step, {"look"}) /\ ~Reached(requester[r].step, AddsRecord) /\ ~requester[r].seen
  BY <1>1, NoMoreReading DEF AtStep, Job, RequestInv, RequestTypes, WorkInv
<1>5. /\ "read" \notin AddsRecord /\ requester[r].claimed \in BOOLEAN /\ requester'[r].claimed \in BOOLEAN
      /\ job.written = requester[r].written + IF "read" = "write" THEN 1 ELSE 0
  BY <1>1, <1>2, <1>3 DEF AddsRecord, Advanced, Job
<1>6. /\ job.claimed <=> requester[r].claimed \/ "read" = "claim"
      /\ job.seen => OnRecord(OwnKey(r)) /\ (requester[r].seen \/ "read" = "look")
  BY <1>1, <1>2 DEF WorkInv
<1>7. WorkInv(r)'
  BY <1>1, <1>2, <1>3, <1>4, <1>5, <1>6, WorkGoesOn
<1> QED
  BY <1>1, <1>2, <1>7, OneWorks DEF ReadSources

LEMMA WriteDocumentKeeps ==
    ASSUME RequestInv, NEW r \in Requesters, WriteDocument(r)
    PROVE  RequestInv'
<1> DEFINE job == [requester[r] EXCEPT !.written = @ + 1]
<1>1. /\ requester[r] \in Job /\ WorkInv(r) /\ content \in Nat /\ AtStep(r, "write") /\ Step(r, job)
      /\ engine' = engine /\ records' = records /\ requester[r].at = "run"
  BY DEF RequestInv, RequestTypes, WriteDocument, AtStep, At
<1>2. /\ job \in Job /\ job.at = requester[r].at /\ job.step = requester[r].step /\ job.run = requester[r].run
      /\ job.already = requester[r].already
      /\ job.answer = requester[r].answer /\ job.read = requester[r].read /\ job.seen = requester[r].seen
      /\ job.new = requester[r].new /\ job.claimed = requester[r].claimed
      /\ job.written = requester[r].written + 1
  BY <1>1 DEF Job
<1> HIDE DEF job
<1>3. Advanced(r, "write", job)
  BY <1>1, <1>2, AfterTheStep
<1>5. /\ "write" \notin AddsRecord /\ requester[r].claimed \in BOOLEAN /\ requester'[r].claimed \in BOOLEAN
      /\ job.written = requester[r].written + IF "write" = "write" THEN 1 ELSE 0
  BY <1>1, <1>2, <1>3 DEF AddsRecord, Advanced, Job
<1>6. /\ job.claimed <=> requester[r].claimed \/ "write" = "claim"
      /\ job.seen => OnRecord(OwnKey(r)) /\ (requester[r].seen \/ "write" = "look")
  BY <1>1, <1>2 DEF WorkInv
<1>7. WorkInv(r)'
  BY <1>1, <1>2, <1>3, <1>5, <1>6, WorkGoesOn
<1> QED
  BY <1>1, <1>2, <1>7, OneWorks DEF WriteDocument

LEMMA LookForRecordKeeps ==
    ASSUME RequestInv, NEW r \in Requesters, LookForRecord(r)
    PROVE  RequestInv'
<1> DEFINE found == OnRecord(OwnKey(r))
           job == [requester[r] EXCEPT !.seen = found]
<1>0. found \in BOOLEAN /\ (found <=> OnRecord(OwnKey(r)))
  BY DEF OnRecord
<1>1. /\ requester[r] \in Job /\ WorkInv(r) /\ content \in Nat /\ AtStep(r, "look") /\ Step(r, job)
      /\ engine' = engine /\ records' = records /\ requester[r].at = "run"
  BY DEF RequestInv, RequestTypes, LookForRecord, AtStep, At
<1>2. /\ job \in Job /\ job.at = requester[r].at /\ job.step = requester[r].step /\ job.run = requester[r].run
      /\ job.already = requester[r].already
      /\ job.answer = requester[r].answer /\ job.read = requester[r].read /\ job.new = requester[r].new
      /\ job.written = requester[r].written /\ job.claimed = requester[r].claimed
      /\ job.seen = found
  <2> HIDE DEF found
  <2> QED
    BY <1>0, <1>1 DEF Job
<1> HIDE DEF job, found
<1>3. Advanced(r, "look", job)
  BY <1>1, <1>2, AfterTheStep
<1>5. /\ "look" \notin AddsRecord /\ requester[r].claimed \in BOOLEAN /\ requester'[r].claimed \in BOOLEAN
      /\ job.written = requester[r].written + IF "look" = "write" THEN 1 ELSE 0
  BY <1>1, <1>2, <1>3 DEF AddsRecord, Advanced, Job
<1>6. /\ job.claimed <=> requester[r].claimed \/ "look" = "claim"
      /\ job.seen => OnRecord(OwnKey(r)) /\ (requester[r].seen \/ "look" = "look")
  BY <1>0, <1>1, <1>2
<1>7. WorkInv(r)'
  BY <1>1, <1>2, <1>3, <1>5, <1>6, WorkGoesOn
<1> QED
  BY <1>1, <1>2, <1>7, OneWorks DEF LookForRecord

LEMMA ObserveKeeps ==
    ASSUME RequestInv, NEW r \in Requesters, Observe(r)
    PROVE  RequestInv'
<1> DEFINE job == [requester[r] EXCEPT !.seen = FALSE]
<1>1. /\ requester[r] \in Job /\ WorkInv(r) /\ content \in Nat /\ AtStep(r, "observe") /\ Step(r, job)
      /\ engine' = engine /\ records' = records /\ requester[r].at = "run"
  BY DEF RequestInv, RequestTypes, Observe, AtStep, At
<1>2. /\ job \in Job /\ job.at = requester[r].at /\ job.step = requester[r].step /\ job.run = requester[r].run
      /\ job.already = requester[r].already
      /\ job.answer = requester[r].answer /\ job.read = requester[r].read /\ job.new = requester[r].new
      /\ job.written = requester[r].written /\ job.claimed = requester[r].claimed
      /\ job.seen = FALSE
  BY <1>1 DEF Job
<1> HIDE DEF job
<1>3. Advanced(r, "observe", job)
  BY <1>1, <1>2, AfterTheStep
<1>5. /\ "observe" \notin AddsRecord /\ requester[r].claimed \in BOOLEAN /\ requester'[r].claimed \in BOOLEAN
      /\ job.written = requester[r].written + IF "observe" = "write" THEN 1 ELSE 0
  BY <1>1, <1>2, <1>3 DEF AddsRecord, Advanced, Job
<1>6. /\ job.claimed <=> requester[r].claimed \/ "observe" = "claim"
      /\ job.seen => OnRecord(OwnKey(r)) /\ (requester[r].seen \/ "observe" = "look")
  BY <1>1, <1>2 DEF WorkInv
<1>7. WorkInv(r)'
  BY <1>1, <1>2, <1>3, <1>5, <1>6, WorkGoesOn
<1> QED
  BY <1>1, <1>2, <1>7, OneWorks DEF Observe

LEMMA ClaimKeeps ==
    ASSUME RequestInv, NEW r \in Requesters, Claim(r)
    PROVE  RequestInv'
<1> DEFINE job == [requester[r] EXCEPT !.claimed = TRUE]
<1>1. /\ requester[r] \in Job /\ WorkInv(r) /\ content \in Nat /\ AtStep(r, "claim") /\ Step(r, job)
      /\ engine' = engine /\ records' = records /\ requester[r].at = "run"
  BY DEF RequestInv, RequestTypes, Claim, AtStep, At
<1>2. /\ job \in Job /\ job.at = requester[r].at /\ job.step = requester[r].step /\ job.run = requester[r].run
      /\ job.already = requester[r].already
      /\ job.answer = requester[r].answer /\ job.read = requester[r].read /\ job.seen = requester[r].seen
      /\ job.new = requester[r].new /\ job.written = requester[r].written
      /\ job.claimed = TRUE
  BY <1>1 DEF Job
<1> HIDE DEF job
<1>3. Advanced(r, "claim", job)
  BY <1>1, <1>2, AfterTheStep
<1>5. /\ "claim" \notin AddsRecord /\ requester[r].claimed \in BOOLEAN /\ requester'[r].claimed \in BOOLEAN
      /\ job.written = requester[r].written + IF "claim" = "write" THEN 1 ELSE 0
  BY <1>1, <1>2, <1>3 DEF AddsRecord, Advanced, Job
<1>6. /\ job.claimed <=> requester[r].claimed \/ "claim" = "claim"
      /\ job.seen => OnRecord(OwnKey(r)) /\ (requester[r].seen \/ "claim" = "look")
  BY <1>1, <1>2 DEF WorkInv
<1>7. WorkInv(r)'
  BY <1>1, <1>2, <1>3, <1>5, <1>6, WorkGoesOn
<1> QED
  BY <1>1, <1>2, <1>7, OneWorks DEF Claim

\* The step that sees to the record: it is on record now, once, and the process knows whether it is its own.
LEMMA RecordingKeeps ==
    ASSUME RequestInv, NEW r \in Requesters, NEW name \in AddsRecord, AtStep(r, name), NEW adds \in BOOLEAN,
           Step(r, [requester[r] EXCEPT !.new = adds]),
           adds => ~OnRecord(OwnKey(r)) /\ records' = records \union {[key |-> OwnKey(r), run |-> r]},
           ~adds => OnRecord(OwnKey(r)) /\ records' = records,
           engine' = engine, content' = content, experiment' = experiment
    PROVE  RequestInv'
<1> DEFINE me == requester[r]
           job == [me EXCEPT !.new = adds]
           done == [job EXCEPT !.step = @ + 1]
           x0 == [key |-> OwnKey(r), run |-> r]
<1>1. me \in Job /\ WorkInv(r) /\ PlaceInv(r) /\ AnswerInv(r) /\ OneOfAKey /\ engine \in Engines /\ me.at = "run"
  BY DEF RequestInv, RequestTypes, AtStep, At
<1>2. /\ job \in Job /\ job.step = me.step /\ job.read = me.read /\ job.seen = me.seen /\ job.new = adds
      /\ job.written = me.written /\ job.claimed = me.claimed
      /\ done \in Job /\ done.at = "run" /\ done.run = me.run /\ done.already = me.already /\ done.answer = me.answer
  <2>1. /\ job \in Job /\ job.step = me.step /\ job.read = me.read /\ job.seen = me.seen /\ job.new = adds
        /\ job.written = me.written /\ job.claimed = me.claimed /\ job.at = "run" /\ job.run = me.run
        /\ job.already = me.already /\ job.answer = me.answer
    BY <1>1 DEF Job
  <2>2. /\ done \in Job /\ done.at = job.at /\ done.run = job.run /\ done.already = job.already
        /\ done.answer = job.answer
    <3> HIDE DEF job
    <3> QED
      BY <2>1 DEF Job
  <2> QED
    BY <2>1, <2>2
<1>3. requester' = [requester EXCEPT ![r] = done] /\ requester'[r] = done
  BY DEF Step, RequestInv, RequestTypes
<1>4. x0.key = OwnKey(r) /\ x0.run = r
  OBVIOUS
<1>5. Step(r, job)
  OBVIOUS
<1> HIDE DEF job, done, x0
<1>6. Advanced(r, name, job)
  BY <1>1, <1>2, <1>5, AfterTheStep
<1>7. ~Reached(me.step, AddsRecord)
  BY <1>1, AddedOnce DEF AtStep, Job
<1>8. \A x \in records : x.run # r
  BY <1>1, <1>7 DEF WorkInv
<1>9. OwnKey(r)' = OwnKey(r)
  BY <1>2, <1>6, SameKey DEF Advanced
<1>10. records \subseteq records' /\ (adds => x0 \in records') /\ \A x \in records' \ records : adds /\ x = x0
  BY DEF x0
<1>11. OneOfAKey'
  <2>1. \A x \in records' : x.run \in Requesters
    BY <1>1, <1>4, <1>10 DEF OneOfAKey
  <2>2. adds => \A x \in records : x.key # OwnKey(r)
    BY DEF OnRecord
  <2>3. \A x, y \in records' : x.key = y.key => x = y
    BY <1>1, <1>4, <1>10, <2>2 DEF OneOfAKey
  <2> QED
    BY <2>1, <2>3 DEF OneOfAKey
<1>12. OnRecord(OwnKey(r))'
  BY <1>4, <1>9, <1>10 DEF OnRecord
<1>13. WorkInv(r)'
  <2>1. Reached(requester[r].step, AddsRecord)'
    <3> DEFINE A == AddsRecord
    <3>1. Reached(requester[r].step, A)' <=> Reached(me.step, A) \/ name \in A
      BY <1>6 DEF Advanced
    <3> QED
      BY <3>1
  <2>2. /\ Reached(requester[r].step, {"claim"})' <=> Reached(me.step, {"claim"}) \/ name \in {"claim"}
        /\ Reached(requester[r].step, {"look"})' <=> Reached(me.step, {"look"}) \/ name \in {"look"}
    BY <1>6 DEF Advanced
  <2>3. name # "claim" /\ name # "write"
    BY DEF AddsRecord
  <2>4. /\ requester'[r].step <= Len(engine'.procedure)
        /\ requester'[r].written = Cardinality(WritesUpTo(requester[r].step))'
    BY <1>1, <1>2, <1>6, <2>3, OneDocumentFurther DEF Advanced, WorkInv, AtStep, Job
  <2>5. requester'[r].claimed <=> Reached(requester[r].step, {"claim"})'
    BY <1>1, <1>2, <1>6, <2>2, <2>3 DEF Advanced, WorkInv
  <2>6. requester'[r].seen => Reached(requester[r].step, {"look"})' /\ OnRecord(OwnKey(r))'
    BY <1>1, <1>2, <1>6, <1>12, <2>2 DEF Advanced, WorkInv
  <2>7. \A x \in records' :
           x.run = r => requester'[r].new /\ x.key = OwnKey(r)' /\ Reached(requester[r].step, AddsRecord)'
    BY <1>2, <1>4, <1>6, <1>8, <1>9, <1>10, <2>1 DEF Advanced
  <2>8. requester'[r].new => \E x \in records' : x.run = r
    BY <1>2, <1>4, <1>6, <1>10 DEF Advanced
  <2> QED
    BY <1>12, <2>1, <2>4, <2>5, <2>6, <2>7, <2>8 DEF WorkInv
<1>14. PlaceInv(r)'
  BY <1>1, <1>2, <1>3 DEF PlaceInv
<1>15. AnswerInv(r)'
  BY <1>1, <1>2, <1>3, <1>10 DEF AnswerInv
<1>16. \A x \in records' \ records : x.run = r
  BY <1>4, <1>10
<1>17. experiment \in {"none", "DRAFT", "READY"}
  BY DEF RequestInv, RequestTypes
<1> QED
  BY <1>2, <1>3, <1>10, <1>11, <1>13, <1>14, <1>15, <1>16, <1>17, OneMoves

LEMMA AddRecordKeeps ==
    ASSUME RequestInv, NEW r \in Requesters, AddRecord(r)
    PROVE  RequestInv'
<1>1. AtStep(r, "add") /\ "add" \in AddsRecord /\ UNCHANGED <<engine, content, configuration, experiment>>
  BY DEF AddRecord, AddsRecord
<1>2. CASE requester[r].seen
  <2>1. OnRecord(OwnKey(r))
    BY <1>2 DEF RequestInv, WorkInv
  <2>2. Step(r, [requester[r] EXCEPT !.new = FALSE]) /\ records' = records
    BY <1>2 DEF AddRecord
  <2> QED
    BY <1>1, <2>1, <2>2, RecordingKeeps
<1>3. CASE ~requester[r].seen /\ OnRecord(OwnKey(r))
  <2>1. ProcedureRaises(r)
    BY <1>1, <1>3 DEF AddRecord, ProcedureRaises, AtStep
  <2> QED
    BY <2>1, ProcedureRaisesKeeps
<1>4. CASE ~requester[r].seen /\ ~OnRecord(OwnKey(r))
  <2>1. /\ Step(r, [requester[r] EXCEPT !.new = TRUE])
        /\ records' = records \union {[key |-> OwnKey(r), run |-> r]}
    BY <1>4 DEF AddRecord
  <2> QED
    BY <1>1, <1>4, <2>1, RecordingKeeps
<1> QED
  BY <1>2, <1>3, <1>4

LEMMA KeepRecordKeeps ==
    ASSUME RequestInv, NEW r \in Requesters, KeepRecord(r)
    PROVE  RequestInv'
<1> DEFINE adds == ~OnRecord(OwnKey(r))
<1>1. /\ AtStep(r, "keep") /\ "keep" \in AddsRecord /\ UNCHANGED <<engine, content, configuration, experiment>>
      /\ adds \in BOOLEAN /\ Step(r, [requester[r] EXCEPT !.new = adds])
  BY DEF KeepRecord, AddsRecord
<1>2. adds => records' = records \union {[key |-> OwnKey(r), run |-> r]}
  BY DEF KeepRecord
<1>3. ~adds => records' = records
  BY DEF KeepRecord
<1> QED
  BY <1>1, <1>2, <1>3, RecordingKeeps

\* A request can be in these states only, whoever asks at once and dies, and however the sources change.
THEOREM RequestInductive == RequestSpec => []RequestInv
<1>1. RequestInit => RequestInv
  <2> SUFFICES ASSUME RequestInit PROVE RequestInv
    OBVIOUS
  <2>1. RequestTypes
    BY DEF RequestInit, RequestTypes, Fresh, Job, Places
  <2>2. OneOfAKey
    BY DEF RequestInit, OneOfAKey
  <2>3. ASSUME NEW r \in Requesters PROVE WorkInv(r) /\ PlaceInv(r) /\ AnswerInv(r)
    <3>1. requester[r] = Fresh /\ records = {}
      BY DEF RequestInit
    <3>2. Len(engine.procedure) \in Nat /\ DOMAIN engine.procedure = 1..Len(engine.procedure)
      BY <2>1, TheProcedure DEF RequestTypes
    <3>3. WritesUpTo(0) = {} /\ \A names : ~Reached(0, names)
      BY <3>2 DEF WritesUpTo, Reached
    <3>4. Cardinality(WritesUpTo(0)) = 0
      BY <3>3, FS_EmptySet
    <3>5. WorkInv(r)
      BY <3>1, <3>2, <3>3, <3>4 DEF WorkInv, Fresh
    <3>6. PlaceInv(r)
      BY <3>1 DEF PlaceInv, Fresh
    <3>7. AnswerInv(r)
      BY <3>1 DEF AnswerInv, Fresh
    <3> QED
      BY <3>5, <3>6, <3>7
  <2> QED
    BY <2>1, <2>2, <2>3 DEF RequestInv
<1>2. RequestInv /\ [RequestNext]_requestVars => RequestInv'
  <2> SUFFICES ASSUME RequestInv, [RequestNext]_requestVars PROVE RequestInv'
    OBVIOUS
  <2>1. ASSUME NEW r \in Requesters,
               \/ Accept(r) \/ RefuseRequest(r) \/ Existing(r)
               \/ LookConfiguration(r) \/ AddConfiguration(r)
               \/ LookExperiment(r) \/ AddExperiment(r) \/ MakeReady(r) \/ Execute(r)
               \/ ProcedureRaises(r) \/ ProcedureReturns(r) \/ Answer(r) \/ Die(r)
        PROVE  RequestInv'
    BY <2>1, AcceptKeeps, BeforeTheRunKeeps, ExistingKeeps, ExecuteKeeps, ProcedureRaisesKeeps, ProcedureReturnsKeeps,
       AnswerKeeps
  <2>2. ASSUME NEW r \in Requesters,
               \/ ReadSources(r) \/ WriteDocument(r) \/ LookForRecord(r) \/ AddRecord(r) \/ KeepRecord(r)
               \/ Observe(r) \/ Claim(r)
        PROVE  RequestInv'
    BY <2>2, ReadSourcesKeeps, WriteDocumentKeeps, LookForRecordKeeps, AddRecordKeeps, KeepRecordKeeps, ObserveKeeps,
       ClaimKeeps
  <2>3. ASSUME requester' = requester, records' = records, engine' = engine, experiment' = experiment, content' \in Nat
        PROVE  RequestInv'
    <3>1. RequestTypes' /\ OneOfAKey'
      BY <2>3 DEF RequestInv, RequestTypes, OneOfAKey
    <3>2. ASSUME NEW r \in Requesters PROVE WorkInv(r)' /\ PlaceInv(r)' /\ AnswerInv(r)'
      BY <2>3, <3>1, WorkStays, PlaceStays DEF RequestInv
    <3> QED
      BY <3>1, <3>2 DEF RequestInv
  <2>4. CASE SourcesChange
    BY <2>3, <2>4 DEF SourcesChange, RequestInv, RequestTypes
  <2>5. CASE UNCHANGED requestVars
    BY <2>3, <2>5 DEF requestVars, RequestInv, RequestTypes
  <2> QED
    BY <2>1, <2>2, <2>4, <2>5 DEF RequestNext
<1> QED
  BY <1>1, <1>2, PTL DEF RequestSpec

\* A run that completed has written all; so has one that added its record, unless records come first.
LEMMA AllWritten ==
    ASSUME RequestInv, NEW r \in Requesters
    PROVE  /\ requester[r].step = Len(engine.procedure) => requester[r].written = AllDocuments
           /\ Reached(requester[r].step, AddsRecord) /\ ~RecordsFirst => requester[r].written = AllDocuments
           /\ requester[r].step = Len(engine.procedure) => (requester[r].claimed <=> Claims)
<1> DEFINE n == requester[r].step
<1>1. /\ Len(engine.procedure) \in Nat /\ DOMAIN engine.procedure = 1..Len(engine.procedure) /\ n \in Nat /\ WorkInv(r)
  BY TheProcedure DEF RequestInv, RequestTypes, Job
<1>2. CASE n = Len(engine.procedure)
  <2>1. \A i \in DOMAIN engine.procedure : i <= n
    BY <1>1, <1>2
  <2>2. WritesUpTo(n) = {i \in DOMAIN engine.procedure : engine.procedure[i] = "write"}
    BY <2>1 DEF WritesUpTo
  <2>3. Reached(n, {"claim"}) <=> Claims
    BY <2>1 DEF Reached, Claims
  <2> QED
    BY <1>1, <2>2, <2>3 DEF AllDocuments, WorkInv
<1>3. ASSUME Reached(n, AddsRecord), ~RecordsFirst PROVE requester[r].written = AllDocuments
  <2>1. PICK k \in DOMAIN engine.procedure : k <= n /\ engine.procedure[k] \in AddsRecord
    BY <1>3 DEF Reached
  <2>2. \A j \in DOMAIN engine.procedure : k < j => engine.procedure[j] # "write"
    BY <1>3, <2>1 DEF RecordsFirst, AddsRecord
  <2>3. \A j \in DOMAIN engine.procedure : engine.procedure[j] = "write" => j <= n
    BY <1>1, <2>1, <2>2
  <2>4. WritesUpTo(n) = {i \in DOMAIN engine.procedure : engine.procedure[i] = "write"}
    BY <2>3 DEF WritesUpTo
  <2> QED
    BY <1>1, <2>4 DEF AllDocuments, WorkInv
<1> QED
  BY <1>2, <1>3

\* RequestSound: of a key there is one record, with all its documents if these come first; who is told that a
\* run is COMPLETED finds its record, and a record that is given exists.
THEOREM RequestsSound == RequestSpec => []RequestSound
<1>1. ASSUME RequestInv PROVE RecordStands
  <2> SUFFICES ASSUME NEW x \in records
               PROVE  requester[x.run].written = AllDocuments \/ (RecordsFirst /\ requester[x.run].run # "COMPLETED")
    BY <1>1 DEF RecordStands, RequestInv, OneOfAKey
  <2>1. x.run \in Requesters /\ WorkInv(x.run) /\ PlaceInv(x.run)
    BY <1>1 DEF RequestInv, OneOfAKey
  <2>2. Reached(requester[x.run].step, AddsRecord)
    BY <2>1 DEF WorkInv
  <2>3. requester[x.run].run = "COMPLETED" => requester[x.run].step = Len(engine.procedure)
    BY <2>1 DEF PlaceInv
  <2> QED
    BY <1>1, <2>1, <2>2, <2>3, AllWritten
<1>2. ASSUME RequestInv PROVE AnswerStands
  <2> SUFFICES ASSUME NEW r \in Requesters
               PROVE  /\ requester[r].at = "COMPLETED" /\ ~requester[r].already =>
                            /\ requester[r].run = "COMPLETED" /\ requester[r].written = AllDocuments
                            /\ requester[r].claimed = Claims
                            /\ OnRecord(OwnKey(r))
                            /\ requester[r].new <=> RecordOf(OwnKey(r)).run = r
                            /\ engine.answers \in {"request", "run"} => requester[r].answer = RecordOf(OwnKey(r)).run
                      /\ requester[r].answer # Nobody => \E x \in records : x.run = requester[r].answer
                      /\ requester[r].at \in {"run", "answer", "COMPLETED", "FAILED"} /\ ~requester[r].already =>
                            experiment = "READY"
    BY DEF AnswerStands
  <2>1. WorkInv(r) /\ PlaceInv(r) /\ AnswerInv(r) /\ OneOfAKey /\ requester[r] \in Job /\ engine \in Engines
    BY <1>2 DEF RequestInv, RequestTypes
  <2>2. ASSUME requester[r].at = "COMPLETED", ~requester[r].already
        PROVE  /\ requester[r].run = "COMPLETED" /\ requester[r].written = AllDocuments
               /\ requester[r].claimed = Claims
               /\ OnRecord(OwnKey(r))
               /\ requester[r].new <=> RecordOf(OwnKey(r)).run = r
               /\ engine.answers \in {"request", "run"} => requester[r].answer = RecordOf(OwnKey(r)).run
    <3>1. requester[r].run = "COMPLETED" /\ requester[r].step = Len(engine.procedure)
      BY <2>1, <2>2 DEF PlaceInv
    <3>2. requester[r].written = AllDocuments /\ (requester[r].claimed <=> Claims)
      BY <1>2, <3>1, AllWritten
    <3>3. requester[r].claimed = Claims
      <4>1. requester[r].claimed \in BOOLEAN /\ Claims \in BOOLEAN
        BY <2>1 DEF Job, Claims
      <4> QED
        BY <4>1, <3>2
    <3>4. OnRecord(OwnKey(r))
      BY <2>1, <3>1, AllReached DEF WorkInv
    <3>5. RecordOf(OwnKey(r)) \in records /\ RecordOf(OwnKey(r)).key = OwnKey(r)
      BY <3>4, RecordIsThere
    <3>6. requester[r].new => RecordOf(OwnKey(r)).run = r
      <4> SUFFICES ASSUME requester[r].new PROVE RecordOf(OwnKey(r)).run = r
        OBVIOUS
      <4>1. PICK x \in records : x.run = r
        BY <2>1 DEF WorkInv
      <4>2. x.key = OwnKey(r)
        BY <2>1, <4>1 DEF WorkInv
      <4> QED
        BY <2>1, <3>5, <4>1, <4>2 DEF OneOfAKey
    <3>7. RecordOf(OwnKey(r)).run = r => requester[r].new
      BY <2>1, <3>5 DEF WorkInv
    <3>8. engine.answers \in {"request", "run"} => requester[r].answer = RecordOf(OwnKey(r)).run
      BY <2>1, <2>2, <3>5 DEF AnswerInv, OneOfAKey
    <3> QED
      BY <3>1, <3>2, <3>3, <3>4, <3>6, <3>7, <3>8
  <2>3. requester[r].answer # Nobody => \E x \in records : x.run = requester[r].answer
    BY <2>1 DEF AnswerInv
  <2>4. requester[r].at \in {"run", "answer", "COMPLETED", "FAILED"} /\ ~requester[r].already => experiment = "READY"
    BY <2>1 DEF PlaceInv
  <2> QED
    BY <2>2, <2>3, <2>4
<1> QED
  BY <1>1, <1>2, RequestInductive, PTL DEF RequestSound

-----------------------------------------------------------------------------
(***************************************************************************)
(* Profiles.  The sections fill the dimensions in order, each with the     *)
(* references it rests on; what was read of a mode or an interaction was   *)
(* true when it was read, and it only grows older.                         *)
(***************************************************************************)

\* The places of the sections, and where each dimension is filled and each kind of source referenced.
Order ==
    [context |-> 0, refused |-> 0, compatibility |-> 1, baseline |-> 2, faults |-> 3, modes |-> 4, interactions |-> 5,
     slices |-> 6, drift |-> 7, stress |-> 8, calibration |-> 9, resources |-> 10, reproducibility |-> 11,
     uncertainty |-> 12, fingerprint |-> 13, built |-> 14]
FilledAt ==
    [BASELINE_PERFORMANCE |-> 2, CALIBRATION |-> 2, LATENCY |-> 2, FAULT_SENSITIVITY |-> 3, FAILURE_PREVALENCE |-> 4,
     FAILURE_SEVERITY |-> 4, INTERACTION_SENSITIVITY |-> 5, SLICE_SENSITIVITY |-> 6, DISTRIBUTION_SHIFT |-> 7,
     MODEL_STRESS |-> 8, CALIBRATION_ANALYSIS |-> 9, RESOURCE_SYSTEM |-> 10, REPRODUCIBILITY |-> 11, UNCERTAINTY |-> 12]
ReferencedAt ==
    [FAULT_EXPERIMENT |-> 3, FAILURE_MODE |-> 4, INTERACTION |-> 5, SLICE_ANALYSIS |-> 6, DRIFT_ANALYSIS |-> 7,
     STRESS_ANALYSIS |-> 8, CALIBRATION_ANALYSIS |-> 9, RESOURCE_ANALYSIS |-> 10]

Here == Order[section]
AmongTheLiving == section \in {"modes", "interactions"}
Alive == Ids({s \in profile.sources : Lives(s)})
LifeStatus == {"open", "settled", "dropped"}
SoundBaseline ==
    LET b == profile.baseline IN b.registered /\ b.completed /\ ~b.faulted /\ b.readable
Graded == Dimension \ {"REPRODUCIBILITY", "UNCERTAINTY"}
HasReference(d) == \E r \in refs : r[1] = d

ProfileTypes ==
    /\ profile \in Profiles
    /\ section \in DOMAIN Order
    /\ life \in [Alive -> LifeStatus]
    /\ left \subseteq Alive
    /\ half \in LifeStatus \cup {Unread}
    /\ refs \subseteq Dimension \X (Ids(profile.sources) \cup {0})
    /\ shown \subseteq [id : Alive, life : LifeStatus, reproduced : BOOLEAN]

\* The two checks stand before everything else.
GateInv ==
    /\ section = "refused" => ~SoundBaseline \/ Issues # {}
    /\ Here >= 1 => SoundBaseline
    /\ Here >= 2 => Issues = {}
    /\ Here <= 2 => dims = <<>>

\* What the sections so far have filled, and with what.
DimsInv ==
    /\ DOMAIN dims = {d \in Dimension : FilledAt[d] < Here}
    /\ \A d \in DOMAIN dims \cap Graded : (dims[d] = "UNAVAILABLE") = ~HasReference(d)
    /\ \A r \in refs : FilledAt[r[1]] < Here \/ (AmongTheLiving /\ r[1] \in LivingDims)
    /\ \A i \in Ids(profile.sources) \cup {0} : <<"FAILURE_PREVALENCE", i>> \in refs <=> <<"FAILURE_SEVERITY", i>> \in refs
    /\ \A s \in profile.sources :
          ReferencedAt[s.kind] < Here \/ (AmongTheLiving /\ ReferencedAt[s.kind] = Here /\ s.id \notin left)
              => \E d \in Dimension : <<d, s.id>> \in refs

\* What was read of a mode or an interaction: a status it has reached, and what that status took.
LivesInv ==
    /\ \A i \in Alive : life[i] = "settled" => i \in passed
    /\ left # {} => AmongTheLiving
    /\ half # Unread =>
          /\ left # {}
          /\ half = "settled" => FirstLeft \in passed
          /\ Age(half) <= Age(life[FirstLeft])
    /\ \A r \in shown : (r.life = "settled" => r.reproduced) /\ Age(r.life) <= Age(life[r.id])

\* The last two sections look at all that is shown.
EndInv ==
    /\ Here > Order["reproducibility"] => (unresolved = {} => \A r \in shown : r.reproduced)
    /\ section = "built" => \A r \in shown : r.id \in DOMAIN digest => Age(r.life) <= Age(digest[r.id])

ProfileInv == ProfileTypes /\ GateInv /\ DimsInv /\ LivesInv /\ EndInv

LEMMA Placed ==
    /\ \A s \in DOMAIN Order : Order[s] \in 0..14
    /\ \A d \in Dimension : FilledAt[d] \in 2..12
    /\ \A y \in Kind : ReferencedAt[y] \in 3..10
BY DEF Order, FilledAt, ReferencedAt, Dimension, Kind

LEMMA SourcesAre ==
    ASSUME profile \in Profiles
    PROVE  /\ \A s \in profile.sources : s.kind \in Kind /\ s.id \in Nat \ {0}
           /\ Alive \subseteq Nat \ {0} /\ Alive \subseteq Ids(profile.sources)
BY ProfileAssumption DEF Alive, Ids

LEMMA FirstIsLeft ==
    ASSUME ProfileTypes, left # {}
    PROVE  FirstLeft \in left
<1> DEFINE these == left
           R == OpToRel(<, Nat)
<1>1. these \subseteq Nat /\ these # {}
  BY SourcesAre DEF ProfileTypes
<1>2. \E i \in these : \A x \in these : ~(<<x, i>> \in R)
  <2>1. IsWellFoundedOn(R, Nat)
    BY NatLessThanWellFounded
  <2> HIDE DEF these, R
  <2> QED
    BY <1>1, <2>1, WFMin
<1>3. PICK i \in these : \A x \in these : ~(x < i)
  BY <1>1, <1>2 DEF OpToRel
<1>4. \A x \in left : i <= x
  BY <1>1, <1>3
<1> QED
  BY <1>4 DEF FirstLeft

\* The request stays, and with it everything that is said of it.
LEMMA TheRequestStays ==
    ASSUME profile' = profile
    PROVE  /\ Alive' = Alive /\ SoundBaseline' = SoundBaseline /\ Issues' = Issues
           /\ Ids(profile.sources)' = Ids(profile.sources)
BY DEF Alive, SoundBaseline, Issues, Ids, Lives, Matches

LEMMA ProfileStarts == ProfileInit => ProfileInv
<1> SUFFICES ASSUME ProfileInit PROVE ProfileInv
  OBVIOUS
<1> USE DEF ProfileInit
<1>1. Here = 0 /\ section \in DOMAIN Order /\ ~AmongTheLiving
  BY DEF Here, Order, AmongTheLiving
<1>2. ProfileTypes
  <2>1. Alive = {s.id : s \in {x \in profile.sources : Lives(x)}}
    BY DEF Alive, Ids
  <2> QED
    BY <1>1, <2>1 DEF ProfileTypes, LifeStatus
<1>3. GateInv
  BY <1>1 DEF GateInv
<1>4. DimsInv
  BY <1>1, Placed, SourcesAre DEF DimsInv
<1>5. LivesInv
  <2>1. \A i \in Alive : life[i] = "open"
    BY DEF Alive, Ids
  <2> QED
    BY <2>1 DEF LivesInv
<1>6. EndInv
  BY <1>1 DEF EndInv
<1> QED
  BY <1>2, <1>3, <1>4, <1>5, <1>6 DEF ProfileInv

\* Statuses only grow older.
LEMMA Ages == \A s \in LifeStatus : Age(s) \in 0..2
BY DEF LifeStatus, Age

LEMMA TheOthersLive ==
    ASSUME ProfileInv, NEW i \in DOMAIN life, Reproduce(i) \/ Settle(i) \/ Drop(i)
    PROVE  ProfileInv'
<1> USE DEF ProfileInv
<1>1. UNCHANGED <<profile, section, left, half, dims, refs, shown, unresolved, digest>> /\ passed \subseteq passed'
  BY DEF Reproduce, Settle, Drop
<1>2. i \in Alive /\ DOMAIN life = Alive
  BY DEF ProfileTypes
<1>3. /\ life' \in [Alive -> LifeStatus]
      /\ \A x \in Alive : Age(life[x]) <= Age(life'[x]) /\ (life'[x] = "settled" => x \in passed')
  <2>1. CASE Reproduce(i)
    BY <2>1, Ages DEF Reproduce, ProfileTypes, LivesInv
  <2>2. CASE Settle(i)
    BY <2>2, <1>2, Ages DEF Settle, ProfileTypes, LivesInv, Age, LifeStatus
  <2>3. CASE Drop(i)
    BY <2>3, <1>2, Ages DEF Drop, ProfileTypes, LivesInv, Age, LifeStatus
  <2> QED
    BY <2>1, <2>2, <2>3
<1>4. Alive' = Alive /\ SoundBaseline' = SoundBaseline /\ Issues' = Issues /\ Ids(profile.sources)' = Ids(profile.sources)
  BY <1>1, TheRequestStays
<1>5. Here' = Here /\ AmongTheLiving' = AmongTheLiving /\ LivingDims' = LivingDims /\ FirstLeft' = FirstLeft
  BY <1>1 DEF Here, AmongTheLiving, LivingDims, FirstLeft
<1>6. ProfileTypes'
  BY <1>1, <1>3, <1>4 DEF ProfileTypes
<1>7. GateInv'
  BY <1>1, <1>4, <1>5 DEF GateInv
<1>8. DimsInv'
  <2>1. \A d : HasReference(d)' = HasReference(d)
    BY <1>1 DEF HasReference
  <2> QED
    BY <1>1, <1>4, <1>5, <2>1 DEF DimsInv
<1>9. LivesInv'
  <2>1. half # Unread => Age(half) <= Age(life'[FirstLeft]) /\ (half = "settled" => FirstLeft \in passed')
    <3> SUFFICES ASSUME half # Unread
                 PROVE  Age(half) <= Age(life'[FirstLeft]) /\ (half = "settled" => FirstLeft \in passed')
      OBVIOUS
    <3>1. left # {} /\ (half = "settled" => FirstLeft \in passed) /\ Age(half) <= Age(life[FirstLeft])
      BY DEF LivesInv
    <3>2. FirstLeft \in Alive
      BY <3>1, FirstIsLeft DEF ProfileTypes
    <3>3. half \in LifeStatus /\ life[FirstLeft] \in LifeStatus /\ life'[FirstLeft] \in LifeStatus
      BY <1>3, <3>2 DEF ProfileTypes
    <3> QED
      BY <1>1, <1>3, <3>1, <3>2, <3>3, Ages
  <2>2. \A r \in shown : Age(r.life) <= Age(life'[r.id])
    <3> TAKE r \in shown
    <3>1. r.id \in Alive /\ r.life \in LifeStatus
      BY DEF ProfileTypes
    <3>2. life[r.id] \in LifeStatus /\ life'[r.id] \in LifeStatus
      BY <1>3, <3>1 DEF ProfileTypes
    <3> QED
      BY <1>3, <3>1, <3>2, Ages DEF LivesInv
  <2>3. left # {} => AmongTheLiving
    BY DEF LivesInv
  <2>4. \A r \in shown : r.life = "settled" => r.reproduced
    BY DEF LivesInv
  <2>5. \A x \in Alive : life'[x] = "settled" => x \in passed'
    BY <1>3
  <2>6. half # Unread => left # {}
    BY DEF LivesInv
  <2> QED
    BY <1>1, <1>4, <1>5, <2>1, <2>2, <2>3, <2>4, <2>5, <2>6 DEF LivesInv, Age
<1>10. EndInv'
  BY <1>1, <1>5 DEF EndInv, Age
<1> QED
  BY <1>6, <1>7, <1>8, <1>9, <1>10

LEMMA ContextKeeps ==
    ASSUME ProfileInv, CheckContext \/ CheckCompatibility
    PROVE  ProfileInv'
<1> USE DEF ProfileInv
<1>1. UNCHANGED <<profile, life, passed, left, half, dims, refs, shown, unresolved, digest>>
  BY DEF CheckContext, CheckCompatibility
<1>2. Alive' = Alive /\ SoundBaseline' = SoundBaseline /\ Issues' = Issues /\ Ids(profile.sources)' = Ids(profile.sources)
  BY <1>1, TheRequestStays
<1>3. /\ Here \in 0..1 /\ Here' \in 0..2 /\ section' \in DOMAIN Order
      /\ section \in {"context", "compatibility"} /\ section' \in {"compatibility", "baseline", "refused"}
  BY DEF CheckContext, CheckCompatibility, Here, Order
<1>4. (SoundBaseline <=> ContextIssue = Unread)
  BY ProfileAssumption DEF ProfileTypes, SoundBaseline, ContextIssue, Unread
<1>5. GateInv'
  <2>1. CASE CheckContext
    <3>1. section' = "refused" => ~SoundBaseline
      BY <2>1, <1>4 DEF CheckContext
    <3>2. section' # "refused" => SoundBaseline /\ Here' = 1
      BY <2>1, <1>4 DEF CheckContext, Here, Order
    <3>3. section' = "refused" => Here' = 0
      BY DEF Here, Order
    <3>4. dims = <<>>
      BY <1>3 DEF GateInv
    <3> QED
      BY <1>1, <1>2, <3>1, <3>2, <3>3, <3>4 DEF GateInv
  <2>2. CASE CheckCompatibility
    <3>1. section' = "refused" => Issues # {}
      BY <2>2 DEF CheckCompatibility
    <3>2. section' # "refused" => Issues = {} /\ Here' = 2
      BY <2>2 DEF CheckCompatibility, Here, Order
    <3>3. section' = "refused" => Here' = 0
      BY DEF Here, Order
    <3>4. dims = <<>> /\ SoundBaseline
      BY <1>3, <2>2 DEF GateInv, CheckCompatibility, Here, Order
    <3> QED
      BY <1>1, <1>2, <3>1, <3>2, <3>3, <3>4 DEF GateInv
  <2> QED
    BY <2>1, <2>2
<1>6. ProfileTypes'
  BY <1>1, <1>2, <1>3 DEF ProfileTypes
<1>7. ~AmongTheLiving /\ ~AmongTheLiving'
  BY <1>3 DEF AmongTheLiving
<1>8. DimsInv'
  <2>1. refs = {}
    <3>1. \A r \in refs : r[1] \in Dimension
      BY DEF ProfileTypes
    <3>2. \A r \in refs : FilledAt[r[1]] < Here
      BY <1>7 DEF DimsInv
    <3> QED
      BY <1>3, <3>1, <3>2, Placed
  <2>2. DOMAIN dims = {}
    BY <1>3, Placed DEF DimsInv
  <2>3. \A s \in profile.sources : ~(ReferencedAt[s.kind] < Here')
    BY <1>3, Placed, SourcesAre DEF ProfileTypes
  <2>4. {d \in Dimension : FilledAt[d] < Here'} = {}
    BY <1>3, Placed
  <2> QED
    BY <1>1, <1>2, <1>7, <2>1, <2>2, <2>3, <2>4 DEF DimsInv
<1>9. LivesInv'
  <2>1. left = {} /\ half = Unread
    BY <1>7 DEF LivesInv
  <2> QED
    BY <1>1, <1>2, <2>1 DEF LivesInv, Age
<1>10. EndInv'
  <2>1. Order["reproducibility"] = 11 /\ section' # "built"
    BY <1>3 DEF Order
  <2> QED
    BY <1>3, <2>1 DEF EndInv
<1> QED
  BY <1>5, <1>6, <1>8, <1>9, <1>10

\* A section that is through: it has filled its dimensions, referenced its sources, and the next one begins.
LEMMA SectionDone ==
    ASSUME ProfileInv, Here \in 2..12, AmongTheLiving => left = {},
           section' \in DOMAIN Order, Here' = Here + 1,
           UNCHANGED <<profile, life, passed, half, shown, digest>>,
           DOMAIN dims' = DOMAIN dims \cup {d \in Dimension : FilledAt[d] = Here},
           \A d \in DOMAIN dims : FilledAt[d] # Here => dims'[d] = dims[d],
           \A d \in Graded : FilledAt[d] = Here => (dims'[d] = "UNAVAILABLE") = ~HasReference(d)',
           refs \subseteq refs',
           \A r \in refs' \ refs : r \in Dimension \X (Ids(profile.sources) \cup {0}) /\ FilledAt[r[1]] = Here,
           Here = 4 => refs' = refs,
           \A s \in profile.sources : ReferencedAt[s.kind] = Here => \E d \in Dimension : <<d, s.id>> \in refs',
           left' \subseteq Alive, left' # {} => AmongTheLiving',
           \A s \in profile.sources : AmongTheLiving' /\ ReferencedAt[s.kind] = Here' => s.id \in left',
           Here # Order["reproducibility"] => unresolved' = unresolved,
           Here = Order["reproducibility"] => (unresolved' = {} => \A r \in shown : r.reproduced)
    PROVE  ProfileInv'
<1> USE DEF ProfileInv
<1>1. Alive' = Alive /\ SoundBaseline' = SoundBaseline /\ Issues' = Issues /\ Ids(profile.sources)' = Ids(profile.sources)
  BY TheRequestStays
<1>2. ProfileTypes'
  <2>1. refs' \subseteq Dimension \X (Ids(profile.sources) \cup {0})
    BY DEF ProfileTypes
  <2> QED
    BY <1>1, <2>1 DEF ProfileTypes
<1>3. GateInv'
  <2>1. section' # "refused"
    BY DEF Here, Order
  <2> QED
    BY <1>1, <2>1 DEF GateInv
<1>4. DimsInv'
  <2> DEFINE here == Here
  <2>1. here \in Nat /\ Here' = here + 1
    OBVIOUS
  <2>2. \A d \in Dimension : FilledAt[d] \in Nat
    BY Placed
  <2>3. DOMAIN dims' = {d \in Dimension : FilledAt[d] < Here'}
    <3>1. DOMAIN dims = {d \in Dimension : FilledAt[d] < here}
      BY DEF DimsInv
    <3>2. \A d \in Dimension : FilledAt[d] < here \/ FilledAt[d] = here <=> FilledAt[d] < here + 1
      BY <2>1, <2>2
    <3> QED
      BY <2>1, <3>1, <3>2
  <2>4. \A d \in DOMAIN dims' \cap Graded : (dims'[d] = "UNAVAILABLE") = ~HasReference(d)'
    <3> SUFFICES ASSUME NEW d \in DOMAIN dims' \cap Graded, FilledAt[d] # here
                 PROVE  (dims'[d] = "UNAVAILABLE") = ~HasReference(d)'
      OBVIOUS
    <3>1. d \in DOMAIN dims
      OBVIOUS
    <3>2. HasReference(d)' = HasReference(d)
      BY DEF HasReference
    <3>3. (dims[d] = "UNAVAILABLE") = ~HasReference(d)
      BY <3>1 DEF DimsInv
    <3> QED
      BY <3>1, <3>2, <3>3
  <2>5. \A r \in refs' : FilledAt[r[1]] < Here'
    <3> TAKE r \in refs'
    <3>1. CASE r \in refs
      <4>1. r[1] \in Dimension
        BY <3>1 DEF ProfileTypes
      <4>2. FilledAt[r[1]] < here \/ (AmongTheLiving /\ r[1] \in LivingDims)
        BY <3>1 DEF DimsInv
      <4>3. AmongTheLiving /\ r[1] \in LivingDims => FilledAt[r[1]] = here
        BY DEF AmongTheLiving, LivingDims, FilledAt, Here, Order
      <4> QED
        BY <2>1, <2>2, <4>1, <4>2, <4>3
    <3>2. CASE r \notin refs
      BY <2>1, <3>2
    <3> QED
      BY <3>1, <3>2
  <2>6. \A i \in Ids(profile.sources) \cup {0} : <<"FAILURE_PREVALENCE", i>> \in refs' <=> <<"FAILURE_SEVERITY", i>> \in refs'
    <3>1. CASE Here = 4
      BY <3>1 DEF DimsInv
    <3>2. CASE Here # 4
      <4>1. FilledAt["FAILURE_PREVALENCE"] = 4 /\ FilledAt["FAILURE_SEVERITY"] = 4
        BY DEF FilledAt
      <4>2. \A e, i : FilledAt[e] = 4 => (<<e, i>> \in refs' <=> <<e, i>> \in refs)
        <5> TAKE e, i
        <5>1. <<e, i>>[1] = e
          OBVIOUS
        <5> QED
          BY <3>2, <5>1
      <4> QED
        BY <4>1, <4>2 DEF DimsInv
    <3> QED
      BY <3>1, <3>2
  <2>7. \A s \in profile.sources :
            ReferencedAt[s.kind] < Here' \/ (AmongTheLiving' /\ ReferencedAt[s.kind] = Here' /\ s.id \notin left')
                => \E d \in Dimension : <<d, s.id>> \in refs'
    <3> SUFFICES ASSUME NEW s \in profile.sources, ReferencedAt[s.kind] < Here', ReferencedAt[s.kind] # here
                 PROVE  \E d \in Dimension : <<d, s.id>> \in refs'
      OBVIOUS
    <3>1. ReferencedAt[s.kind] \in Nat
      BY Placed, SourcesAre DEF ProfileTypes
    <3>2. ReferencedAt[s.kind] < here
      BY <2>1, <3>1
    <3> QED
      BY <3>2 DEF DimsInv
  <2> QED
    BY <1>1, <2>3, <2>4, <2>5, <2>6, <2>7 DEF DimsInv
<1>5. LivesInv'
  <2>1. half = Unread
    BY DEF LivesInv
  <2> QED
    BY <1>1, <2>1 DEF LivesInv, Age
<1>6. EndInv'
  <2>1. Order["reproducibility"] = 11 /\ section' # "built"
    BY DEF Order, Here
  <2> QED
    BY <2>1 DEF EndInv
<1> QED
  BY <1>2, <1>3, <1>4, <1>5, <1>6

\* What a section finds when it begins.
LEMMA NextBegins ==
    ASSUME ProfileInv, NEW next \in DOMAIN Order, GoTo(next)
    PROVE  /\ section' = next /\ Here' = Order[next]
           /\ left' \subseteq Alive
           /\ left' # {} => AmongTheLiving'
           /\ \A s \in profile.sources : AmongTheLiving' /\ ReferencedAt[s.kind] = Here' => s.id \in left'
<1>1. section' = next /\ Here' = Order[next]
  BY DEF GoTo, Here
<1>2. \A s \in profile.sources : s.kind \in Kind
  BY SourcesAre DEF ProfileInv, ProfileTypes
<1>3. CASE next = "modes"
  <2>1. left' = Ids(SourcesOf("FAILURE_MODE"))
    BY <1>3 DEF GoTo
  <2>2. \A y \in Kind : ReferencedAt[y] = 4 => y = "FAILURE_MODE"
    BY DEF Kind, ReferencedAt
  <2>3. Here' = 4 /\ AmongTheLiving'
    BY <1>1, <1>3 DEF Order, AmongTheLiving
  <2> QED
    BY <1>1, <1>2, <2>1, <2>2, <2>3 DEF Ids, SourcesOf, Alive, Lives
<1>4. CASE next = "interactions"
  <2>1. left' = Ids(SourcesOf("INTERACTION"))
    BY <1>4 DEF GoTo
  <2>2. \A y \in Kind : ReferencedAt[y] = 5 => y = "INTERACTION"
    BY DEF Kind, ReferencedAt
  <2>3. Here' = 5 /\ AmongTheLiving'
    BY <1>1, <1>4 DEF Order, AmongTheLiving
  <2> QED
    BY <1>1, <1>2, <2>1, <2>2, <2>3 DEF Ids, SourcesOf, Alive, Lives
<1>5. CASE next \notin {"modes", "interactions"}
  <2>1. left' = Ids(SourcesOf(Unread)) /\ ~AmongTheLiving'
    BY <1>1, <1>5 DEF GoTo, AmongTheLiving
  <2>2. SourcesOf(Unread) = {}
    BY <1>2 DEF SourcesOf, Kind, Unread
  <2> QED
    BY <1>1, <2>1, <2>2 DEF Ids
<1> QED
  BY <1>3, <1>4, <1>5

\* Between sections nothing is referenced that is still to be filled.
LEMMA NothingAhead ==
    ASSUME ProfileInv, ~AmongTheLiving, NEW d \in Dimension, FilledAt[d] = Here
    PROVE  ~HasReference(d) /\ d \notin DOMAIN dims
<1>1. Here \in Nat
  BY Placed DEF ProfileInv, ProfileTypes, Here
<1> QED
  BY <1>1 DEF ProfileInv, DimsInv, HasReference

\* A section of one dimension and one kind of source.
LEMMA SummarizedKeeps ==
    ASSUME ProfileInv, NEW y \in Kind, NEW d \in Graded, NEW best, best # "UNAVAILABLE",
           NEW next \in DOMAIN Order, ~AmongTheLiving, Here \in 2..12 \ {4, 11}, Order[next] = Here + 1,
           \A e \in Dimension : FilledAt[e] = Here <=> e = d,
           \A k \in Kind : ReferencedAt[k] = Here <=> k = y,
           Summarized(y, d, best), GoTo(next), Quiet
    PROVE  ProfileInv'
<1> DEFINE these == SourcesOf(y)
           status == IF these = {} THEN "UNAVAILABLE"
                     ELSE IF \E s \in these : s.enough THEN best ELSE "INSUFFICIENT_EVIDENCE"
<1>1. d \in Dimension /\ FilledAt[d] = Here
  BY DEF Graded
<1>2. ~HasReference(d) /\ d \notin DOMAIN dims
  BY <1>1, NothingAhead
<1>3. dims' = With(AllAt({d}, status)) /\ refs' = refs \cup {<<d, i>> : i \in Ids(these)}
  BY DEF Summarized
<1>4. DOMAIN dims' = DOMAIN dims \cup {d} /\ dims'[d] = status /\ \A e \in DOMAIN dims : e # d => dims'[e] = dims[e]
  <2> HIDE DEF status
  <2> QED
    BY <1>3 DEF With, AllAt
<1>5. (dims'[d] = "UNAVAILABLE") = ~HasReference(d)'
  <2>1. HasReference(d)' <=> these # {}
    <3>1. \A r \in refs : r[1] # d
      BY <1>2 DEF HasReference
    <3>2. \A i : <<d, i>>[1] = d
      OBVIOUS
    <3>3. HasReference(d)' <=> Ids(these) # {}
      <4> HIDE DEF these
      <4> QED
        BY <1>3, <3>1, <3>2 DEF HasReference
    <3> QED
      BY <3>3 DEF Ids
  <2>2. (status = "UNAVAILABLE") <=> these = {}
    OBVIOUS
  <2> HIDE DEF status
  <2> QED
    BY <1>4, <2>1, <2>2
<1>6. {e \in Dimension : FilledAt[e] = Here} = {d}
  BY <1>1
<1>7. \A s \in profile.sources : ReferencedAt[s.kind] = Here => <<d, s.id>> \in refs'
  <2>1. \A s \in profile.sources : s.kind \in Kind
    BY SourcesAre DEF ProfileInv, ProfileTypes
  <2> QED
    BY <1>3, <2>1 DEF SourcesOf, Ids
<1>8. \A r \in refs' \ refs : r \in Dimension \X (Ids(profile.sources) \cup {0}) /\ FilledAt[r[1]] = Here
  <2> TAKE r \in refs' \ refs
  <2>1. PICK i \in Ids(these) : r = <<d, i>>
    BY <1>3
  <2>2. i \in Ids(profile.sources)
    BY DEF Ids, SourcesOf
  <2> QED
    BY <1>1, <2>1, <2>2
<1>9. UNCHANGED <<profile, life, passed, half, shown, unresolved, digest>>
  BY DEF Quiet
<1>10. /\ section' = next /\ Here' = Order[next]
       /\ left' \subseteq Alive
       /\ left' # {} => AmongTheLiving'
       /\ \A s \in profile.sources : AmongTheLiving' /\ ReferencedAt[s.kind] = Here' => s.id \in left'
  BY NextBegins
<1>11. \A e \in DOMAIN dims : FilledAt[e] # Here => dims'[e] = dims[e]
  BY <1>1, <1>4
<1>12. \A e \in Graded : FilledAt[e] = Here => (dims'[e] = "UNAVAILABLE") = ~HasReference(e)'
  <2>1. \A e \in Graded : FilledAt[e] = Here => e = d
    BY DEF Graded
  <2> QED
    BY <1>5, <2>1
<1>13. refs \subseteq refs'
  BY <1>3
<1>14. \A s \in profile.sources : ReferencedAt[s.kind] = Here => \E e \in Dimension : <<e, s.id>> \in refs'
  BY <1>1, <1>7
<1>15. DOMAIN dims' = DOMAIN dims \cup {e \in Dimension : FilledAt[e] = Here}
  BY <1>4, <1>6
<1>16. Order["reproducibility"] = 11
  BY DEF Order
<1> QED
  BY <1>8, <1>9, <1>10, <1>11, <1>12, <1>13, <1>14, <1>15, <1>16, SectionDone

LEMMA SummariesKeep ==
    ASSUME ProfileInv, Faults \/ Drift \/ Stress \/ Calibration \/ Resources
    PROVE  ProfileInv'
<1> USE DEF Order, FilledAt, ReferencedAt, Dimension, Graded, Kind, Here, AmongTheLiving
<1>1. CASE Faults
  BY <1>1, SummarizedKeeps DEF Faults
<1>2. CASE Drift
  BY <1>2, SummarizedKeeps DEF Drift
<1>3. CASE Stress
  BY <1>3, SummarizedKeeps DEF Stress
<1>4. CASE Calibration
  BY <1>4, SummarizedKeeps DEF Calibration
<1>5. CASE Resources
  BY <1>5, SummarizedKeeps DEF Resources
<1> QED
  BY <1>1, <1>2, <1>3, <1>4, <1>5

LEMMA BaselineKeeps ==
    ASSUME ProfileInv, Baseline
    PROVE  ProfileInv'
<1> DEFINE b == profile.baseline
           ds == {"BASELINE_PERFORMANCE", "CALIBRATION", "LATENCY"}
           measured == {"BASELINE_PERFORMANCE"} \cup (IF b.calibrated THEN {"CALIBRATION"} ELSE {})
                                                \cup (IF b.timed THEN {"LATENCY"} ELSE {})
           given == [d \in ds |-> ObservedIf(d \in measured)]
<1>1. section = "baseline" /\ dims' = With(given) /\ refs' = refs \cup {<<d, 0>> : d \in measured} /\ GoTo("faults") /\ Quiet
  BY DEF Baseline
<1>2. Here = 2 /\ ~AmongTheLiving /\ Order["faults"] = 3 /\ "faults" \in DOMAIN Order /\ Order["reproducibility"] = 11
  BY <1>1 DEF Here, Order, AmongTheLiving
<1>3. {d \in Dimension : FilledAt[d] = Here} = ds
  BY <1>2 DEF Dimension, FilledAt
<1>4. measured \subseteq ds /\ ds \subseteq Dimension
  BY DEF Dimension
<1>5. \A s \in profile.sources : ReferencedAt[s.kind] # Here
  BY <1>2, Placed, SourcesAre DEF ProfileInv, ProfileTypes
<1>6. \A d \in ds : ~HasReference(d) /\ d \notin DOMAIN dims
  BY <1>2, <1>3, NothingAhead
<1>7. /\ section' = "faults" /\ Here' = 3
      /\ left' \subseteq Alive
      /\ left' # {} => AmongTheLiving'
      /\ \A s \in profile.sources : AmongTheLiving' /\ ReferencedAt[s.kind] = Here' => s.id \in left'
  BY <1>1, <1>2, NextBegins
<1> HIDE DEF measured
<1>8. \A d \in ds : (given[d] = "UNAVAILABLE") = (d \notin measured)
  BY DEF ObservedIf
<1>9. DOMAIN dims' = DOMAIN dims \cup ds /\ \A d \in DOMAIN dims \cup ds : dims'[d] = IF d \in ds THEN given[d] ELSE dims[d]
  <2>1. DOMAIN given = ds
    OBVIOUS
  <2> HIDE DEF given, ds
  <2> QED
    BY <1>1, <2>1 DEF With
<1> HIDE DEF given, ds
<1>10. \A d \in ds : HasReference(d)' <=> d \in measured
  <2>1. \A d : <<d, 0>>[1] = d
    OBVIOUS
  <2>2. \A d \in ds, r \in refs : r[1] # d
    BY <1>6 DEF HasReference
  <2>3. \A d \in measured : HasReference(d)'
    BY <1>1, <2>1 DEF HasReference
  <2>4. ASSUME NEW d \in ds, HasReference(d)' PROVE d \in measured
    <3>1. PICK r \in refs' : r[1] = d
      BY <2>4 DEF HasReference
    <3>2. PICK e \in measured : r = <<e, 0>>
      BY <1>1, <2>2, <3>1
    <3> QED
      BY <2>1, <3>1, <3>2
  <2> QED
    BY <2>3, <2>4
<1>11. \A d \in ds : (dims'[d] = "UNAVAILABLE") = ~HasReference(d)'
  BY <1>8, <1>9, <1>10
<1>12. \A r \in refs' \ refs : r \in Dimension \X (Ids(profile.sources) \cup {0}) /\ FilledAt[r[1]] = Here
  <2> TAKE r \in refs' \ refs
  <2>1. PICK d \in measured : r = <<d, 0>>
    BY <1>1
  <2> QED
    BY <1>3, <1>4, <2>1
<1>13. UNCHANGED <<profile, life, passed, half, shown, unresolved, digest>>
  BY <1>1 DEF Quiet
<1>14. \A d \in Graded : FilledAt[d] = Here => (dims'[d] = "UNAVAILABLE") = ~HasReference(d)'
  BY <1>3, <1>11 DEF Graded
<1>15. \A d \in DOMAIN dims : FilledAt[d] # Here => dims'[d] = dims[d]
  BY <1>3, <1>4, <1>6, <1>9
<1>16. DOMAIN dims' = DOMAIN dims \cup {d \in Dimension : FilledAt[d] = Here}
  BY <1>3, <1>9
<1>17. refs \subseteq refs' /\ section' \in DOMAIN Order /\ Here' = Here + 1 /\ Here \in 2..12
  BY <1>1, <1>2, <1>7 DEF Order
<1> QED
  BY <1>2, <1>5, <1>7, <1>12, <1>13, <1>14, <1>15, <1>16, <1>17, SectionDone

LEMMA SlicesKeeps ==
    ASSUME ProfileInv, Slices
    PROVE  ProfileInv'
<1> DEFINE any == profile.baseline.sliced \/ SourcesOf("SLICE_ANALYSIS") # {} \/ \E s \in SourcesOf("INTERACTION") : s.classes
           D == "SLICE_SENSITIVITY"
           what == IF any THEN {0} \cup Ids(SourcesOf("SLICE_ANALYSIS")) ELSE {}
<1>1. section = "slices" /\ dims' = With(AllAt({D}, ObservedIf(any))) /\ refs' = refs \cup {<<D, i>> : i \in what}
      /\ GoTo("drift") /\ Quiet
  BY DEF Slices
<1>2. Here = 6 /\ ~AmongTheLiving /\ Order["drift"] = 7 /\ "drift" \in DOMAIN Order /\ Order["reproducibility"] = 11
  BY <1>1 DEF Here, Order, AmongTheLiving
<1>3. {d \in Dimension : FilledAt[d] = Here} = {D} /\ D \in Dimension
  BY <1>2 DEF Dimension, FilledAt
<1>4. \A s \in profile.sources : ReferencedAt[s.kind] = Here => s.id \in what
  <2>1. \A y \in Kind : ReferencedAt[y] = 6 => y = "SLICE_ANALYSIS"
    BY DEF Kind, ReferencedAt
  <2>2. \A s \in profile.sources : ReferencedAt[s.kind] = Here => s \in SourcesOf("SLICE_ANALYSIS")
    BY <1>2, <2>1, SourcesAre DEF ProfileInv, ProfileTypes, SourcesOf
  <2> QED
    BY <2>2 DEF Ids
<1>5. ~HasReference(D) /\ D \notin DOMAIN dims
  BY <1>2, <1>3, NothingAhead
<1>6. /\ section' = "drift" /\ Here' = 7
      /\ left' \subseteq Alive
      /\ left' # {} => AmongTheLiving'
      /\ \A s \in profile.sources : AmongTheLiving' /\ ReferencedAt[s.kind] = Here' => s.id \in left'
  BY <1>1, <1>2, NextBegins
<1>7. what # {} <=> any
  <2> HIDE DEF any
  <2> QED
    OBVIOUS
<1>8. what \subseteq Ids(profile.sources) \cup {0}
  BY DEF Ids, SourcesOf
<1>9. (ObservedIf(any) = "UNAVAILABLE") <=> what = {}
  BY <1>7 DEF ObservedIf
<1> HIDE DEF any, what
<1>10. DOMAIN dims' = DOMAIN dims \cup {D} /\ dims'[D] = ObservedIf(any) /\ \A d \in DOMAIN dims : d # D => dims'[d] = dims[d]
  BY <1>1 DEF With, AllAt
<1>11. HasReference(D)' <=> what # {}
  <2>1. \A i : <<D, i>>[1] = D
    OBVIOUS
  <2> QED
    BY <1>1, <1>5, <2>1 DEF HasReference
<1>12. \A d \in Graded : FilledAt[d] = Here => (dims'[d] = "UNAVAILABLE") = ~HasReference(d)'
  <2>1. \A d \in Graded : FilledAt[d] = Here => d = D
    BY <1>3 DEF Graded
  <2>2. (dims'[D] = "UNAVAILABLE") = ~HasReference(D)'
    BY <1>9, <1>10, <1>11
  <2> QED
    BY <2>1, <2>2
<1>13. \A r \in refs' \ refs : r \in Dimension \X (Ids(profile.sources) \cup {0}) /\ FilledAt[r[1]] = Here
  <2> TAKE r \in refs' \ refs
  <2>1. PICK i \in what : r = <<D, i>>
    BY <1>1
  <2> QED
    BY <1>3, <1>8, <2>1
<1>14. UNCHANGED <<profile, life, passed, half, shown, unresolved, digest>>
  BY <1>1 DEF Quiet
<1>15. \A d \in DOMAIN dims : FilledAt[d] # Here => dims'[d] = dims[d]
  BY <1>3, <1>10
<1>16. DOMAIN dims' = DOMAIN dims \cup {d \in Dimension : FilledAt[d] = Here}
  BY <1>3, <1>10
<1>17. refs \subseteq refs' /\ section' \in DOMAIN Order /\ Here' = Here + 1 /\ Here \in 2..12
  BY <1>1, <1>2, <1>6 DEF Order
<1>18. \A s \in profile.sources : ReferencedAt[s.kind] = Here => \E d \in Dimension : <<d, s.id>> \in refs'
  BY <1>1, <1>3, <1>4
<1> QED
  BY <1>2, <1>6, <1>12, <1>13, <1>14, <1>15, <1>16, <1>17, <1>18, SectionDone

\* The last two sections that fill a dimension reference nothing.
LEMMA LastSectionsKeep ==
    ASSUME ProfileInv, Reproducibility \/ Uncertainty
    PROVE  ProfileInv'
<1> DEFINE D == IF section = "reproducibility" THEN "REPRODUCIBILITY" ELSE "UNCERTAINTY"
           next == IF section = "reproducibility" THEN "uncertainty" ELSE "fingerprint"
<1>1. section \in {"reproducibility", "uncertainty"} /\ GoTo(next) /\ UNCHANGED <<profile, life, passed, half, refs, shown, digest>>
  BY DEF Reproducibility, Uncertainty, Quiet
<1>2. \E status : dims' = With(AllAt({D}, status))
  BY DEF Reproducibility, Uncertainty
<1>3. /\ Here \in {11, 12} /\ ~AmongTheLiving /\ next \in DOMAIN Order /\ Order[next] = Here + 1
      /\ Order["reproducibility"] = 11 /\ (Here = 11 <=> section = "reproducibility")
  BY <1>1 DEF Here, Order, AmongTheLiving
<1>4. {d \in Dimension : FilledAt[d] = Here} = {D} /\ D \notin Graded
  BY <1>1 DEF Dimension, FilledAt, Graded, Here, Order
<1> HIDE DEF D, next
<1>5. DOMAIN dims' = DOMAIN dims \cup {D} /\ \A d \in DOMAIN dims : d # D => dims'[d] = dims[d]
  BY <1>2 DEF With, AllAt
<1>6. /\ section' = next /\ Here' = Order[next]
      /\ left' \subseteq Alive
      /\ left' # {} => AmongTheLiving'
      /\ \A s \in profile.sources : AmongTheLiving' /\ ReferencedAt[s.kind] = Here' => s.id \in left'
  BY <1>1, <1>3, NextBegins
<1>7. \A s \in profile.sources : ReferencedAt[s.kind] # Here
  BY <1>3, Placed, SourcesAre DEF ProfileInv, ProfileTypes
<1>8. Here # 11 => unresolved' = unresolved
  BY <1>3 DEF Reproducibility, Uncertainty, Quiet
<1>9. Here = 11 /\ unresolved' = {} => \A r \in shown : r.reproduced
  <2> SUFFICES ASSUME Here = 11, unresolved' = {}, NEW r \in shown PROVE r.reproduced
    OBVIOUS
  <2> DEFINE interactions == Ids(SourcesOf("INTERACTION"))
  <2>1. Reproducibility
    BY <1>3 DEF Uncertainty
  <2>2. {x.id : x \in {x \in shown : x.id \notin interactions /\ ~x.reproduced}} \subseteq unresolved'
    BY <2>1 DEF Reproducibility
  <2>3. {x.id : x \in {x \in shown : x.id \in interactions /\ x.life # "settled"}} \subseteq unresolved'
    BY <2>1 DEF Reproducibility
  <2>4. r.reproduced \in BOOLEAN /\ (r.life = "settled" => r.reproduced)
    BY DEF ProfileInv, ProfileTypes, LivesInv
  <2> HIDE DEF interactions
  <2>5. r.id \notin interactions => r.reproduced
    BY <2>2, <2>4
  <2>6. r.id \in interactions => r.life = "settled"
    BY <2>3
  <2> QED
    BY <2>4, <2>5, <2>6
<1>10. \A d \in Graded : FilledAt[d] # Here
  BY <1>4 DEF Graded
<1>11. \A d \in DOMAIN dims : FilledAt[d] # Here => dims'[d] = dims[d]
  BY <1>4, <1>5
<1>12. DOMAIN dims' = DOMAIN dims \cup {d \in Dimension : FilledAt[d] = Here}
  BY <1>4, <1>5
<1>13. section' \in DOMAIN Order /\ Here' = Here + 1 /\ Here \in 2..12 /\ Here # 4
  BY <1>3, <1>6
<1> QED
  BY <1>1, <1>3, <1>6, <1>7, <1>8, <1>9, <1>10, <1>11, <1>12, <1>13, SectionDone

\* Where modes or interactions are read.
LEMMA TheLivingDims ==
    ASSUME ProfileInv, AmongTheLiving
    PROVE  /\ \/ section = "modes" /\ Here = 4 /\ LivingDims = {"FAILURE_PREVALENCE", "FAILURE_SEVERITY"}
              \/ section = "interactions" /\ Here = 5 /\ LivingDims = {"INTERACTION_SENSITIVITY"}
           /\ {d \in Dimension : FilledAt[d] = Here} = LivingDims
           /\ LivingDims \subseteq Graded /\ LivingDims \cap DOMAIN dims = {}
<1>1. \/ section = "modes" /\ Here = 4 /\ LivingDims = {"FAILURE_PREVALENCE", "FAILURE_SEVERITY"}
      \/ section = "interactions" /\ Here = 5 /\ LivingDims = {"INTERACTION_SENSITIVITY"}
  BY DEF AmongTheLiving, LivingDims, Here, Order
<1>2. {d \in Dimension : FilledAt[d] = Here} = LivingDims
  BY <1>1 DEF Dimension, FilledAt
<1>3. LivingDims \cap DOMAIN dims = {}
  BY <1>1, <1>2 DEF ProfileInv, DimsInv
<1>4. LivingDims \subseteq Graded
  BY <1>1 DEF Graded, Dimension
<1> QED
  BY <1>1, <1>2, <1>3, <1>4

LEMMA ReadStatusKeeps ==
    ASSUME ProfileInv, ReadStatus
    PROVE  ProfileInv'
<1> USE DEF ProfileInv
<1>1. /\ AmongTheLiving /\ left # {} /\ half' = life[FirstLeft]
      /\ UNCHANGED <<profile, life, passed, section, left, dims, refs, shown, unresolved, digest>>
  BY DEF ReadStatus, AmongTheLiving
<1>2. Alive' = Alive /\ SoundBaseline' = SoundBaseline /\ Issues' = Issues /\ Ids(profile.sources)' = Ids(profile.sources)
  BY <1>1, TheRequestStays
<1>3. Here' = Here /\ AmongTheLiving' = AmongTheLiving /\ LivingDims' = LivingDims /\ FirstLeft' = FirstLeft
  BY <1>1 DEF Here, AmongTheLiving, LivingDims, FirstLeft
<1>4. FirstLeft \in Alive /\ life[FirstLeft] \in LifeStatus
  BY <1>1, FirstIsLeft DEF ProfileTypes
<1>5. ProfileTypes'
  BY <1>1, <1>2, <1>4 DEF ProfileTypes
<1>6. GateInv'
  BY <1>1, <1>2, <1>3 DEF GateInv
<1>7. DimsInv'
  <2>1. \A d : HasReference(d)' = HasReference(d)
    BY <1>1 DEF HasReference
  <2> QED
    BY <1>1, <1>2, <1>3, <2>1 DEF DimsInv
<1>8. LivesInv'
  <2>1. half' = "settled" => FirstLeft \in passed
    BY <1>1, <1>4 DEF LivesInv
  <2>2. Age(half') <= Age(life[FirstLeft])
    BY <1>1, <1>4, Ages
  <2> QED
    BY <1>1, <1>2, <1>3, <2>1, <2>2 DEF LivesInv, Age
<1>9. EndInv'
  BY <1>1, <1>3 DEF EndInv, Age
<1> QED
  BY <1>5, <1>6, <1>7, <1>8, <1>9

LEMMA ReadEvidenceKeeps ==
    ASSUME ProfileInv, ReadEvidence
    PROVE  ProfileInv'
<1> USE DEF ProfileInv
<1> DEFINE i == FirstLeft
           proof == i \in passed
           row == [id |-> i, life |-> half, reproduced |-> proof]
<1>1. /\ AmongTheLiving /\ left # {} /\ half # Unread /\ half' = Unread /\ left' = left \ {i}
      /\ shown' = shown \cup {row}
      /\ refs' = refs \cup {<<d, i>> : d \in LivingDims}
      /\ UNCHANGED <<profile, life, passed, section, dims, unresolved, digest>>
  BY DEF ReadEvidence, AmongTheLiving
<1>2. Alive' = Alive /\ SoundBaseline' = SoundBaseline /\ Issues' = Issues /\ Ids(profile.sources)' = Ids(profile.sources)
  BY <1>1, TheRequestStays
<1>3. Here' = Here /\ AmongTheLiving' = AmongTheLiving /\ LivingDims' = LivingDims
  BY <1>1 DEF Here, AmongTheLiving, LivingDims
<1>4. i \in Alive /\ i \in Ids(profile.sources) /\ half \in LifeStatus /\ proof \in BOOLEAN
  BY <1>1, FirstIsLeft, SourcesAre DEF ProfileTypes
<1>5. /\ \/ section = "modes" /\ Here = 4 /\ LivingDims = {"FAILURE_PREVALENCE", "FAILURE_SEVERITY"}
         \/ section = "interactions" /\ Here = 5 /\ LivingDims = {"INTERACTION_SENSITIVITY"}
      /\ {d \in Dimension : FilledAt[d] = Here} = LivingDims
      /\ LivingDims \subseteq Graded /\ LivingDims \cap DOMAIN dims = {}
  BY <1>1, TheLivingDims
<1>6. (half = "settled" => proof) /\ Age(half) <= Age(life[i])
  BY <1>1 DEF LivesInv
<1> HIDE DEF proof, i
<1>7. row \in [id : Alive, life : LifeStatus, reproduced : BOOLEAN]
  BY <1>4
<1>8. row.id = i /\ row.life = half /\ row.reproduced = proof
  OBVIOUS
<1> HIDE DEF row
<1>9. ProfileTypes'
  <2>1. \A d \in LivingDims : <<d, i>> \in Dimension \X (Ids(profile.sources) \cup {0})
    BY <1>4, <1>5 DEF Graded
  <2>2. refs' \subseteq Dimension \X (Ids(profile.sources) \cup {0})
    BY <1>1, <2>1 DEF ProfileTypes
  <2> QED
    BY <1>1, <1>2, <1>7, <2>2 DEF ProfileTypes
<1>10. GateInv'
  BY <1>1, <1>2, <1>3 DEF GateInv
<1>11. DimsInv'
  <2>1. \A d, x : <<d, x>>[1] = d
    OBVIOUS
  <2>2. \A d \in DOMAIN dims : HasReference(d)' = HasReference(d)
    <3> TAKE d \in DOMAIN dims
    <3>1. d \notin LivingDims
      BY <1>5
    <3> QED
      BY <1>1, <2>1, <3>1 DEF HasReference
  <2>3. \A r \in refs' : FilledAt[r[1]] < Here' \/ (AmongTheLiving' /\ r[1] \in LivingDims')
    BY <1>1, <1>3, <2>1 DEF DimsInv
  <2>4. \A x \in Ids(profile.sources) \cup {0} :
            <<"FAILURE_PREVALENCE", x>> \in refs' <=> <<"FAILURE_SEVERITY", x>> \in refs'
    <3>1. CASE section = "modes"
      BY <1>1, <1>5, <3>1 DEF DimsInv
    <3>2. CASE section = "interactions"
      BY <1>1, <1>5, <3>2 DEF DimsInv
    <3> QED
      BY <1>5, <3>1, <3>2
  <2>5. \A s \in profile.sources :
            ReferencedAt[s.kind] < Here \/ (AmongTheLiving /\ ReferencedAt[s.kind] = Here /\ s.id \notin left')
                => \E d \in Dimension : <<d, s.id>> \in refs'
    <3> TAKE s \in profile.sources
    <3>1. CASE s.id = i
      <4>1. PICK d \in LivingDims : TRUE
        BY <1>5
      <4> QED
        BY <1>1, <1>5, <3>1, <4>1 DEF Graded
    <3>2. CASE s.id # i
      BY <1>1, <3>2 DEF DimsInv
    <3> QED
      BY <3>1, <3>2
  <2> QED
    BY <1>1, <1>2, <1>3, <2>2, <2>3, <2>4, <2>5 DEF DimsInv
<1>12. LivesInv'
  <2>1. \A r \in shown' : (r.life = "settled" => r.reproduced) /\ Age(r.life) <= Age(life[r.id])
    BY <1>1, <1>6, <1>8 DEF LivesInv
  <2> QED
    BY <1>1, <1>2, <1>3, <2>1 DEF LivesInv, Age
<1>13. EndInv'
  <2>1. Order["reproducibility"] = 11 /\ section # "built" /\ Here \in {4, 5}
    BY <1>5 DEF Order
  <2> QED
    BY <1>1, <1>3, <2>1 DEF EndInv
<1> QED
  BY <1>9, <1>10, <1>11, <1>12, <1>13

LEMMA LivingKeeps ==
    ASSUME ProfileInv, ModesDone \/ InteractionsDone
    PROVE  ProfileInv'
<1> DEFINE next == IF section = "modes" THEN "interactions" ELSE "slices"
           any == \E d \in LivingDims, r \in refs : r[1] = d
           status == IF any THEN "DERIVED" ELSE "UNAVAILABLE"
<1>1. /\ AmongTheLiving /\ left = {} /\ dims' = With(AllAt(LivingDims, status)) /\ GoTo(next)
      /\ UNCHANGED <<profile, life, passed, half, refs, shown, unresolved, digest>>
  BY DEF ModesDone, InteractionsDone, Living, Quiet, AmongTheLiving
<1>2. /\ \/ section = "modes" /\ Here = 4 /\ LivingDims = {"FAILURE_PREVALENCE", "FAILURE_SEVERITY"}
         \/ section = "interactions" /\ Here = 5 /\ LivingDims = {"INTERACTION_SENSITIVITY"}
      /\ {d \in Dimension : FilledAt[d] = Here} = LivingDims
      /\ LivingDims \subseteq Graded /\ LivingDims \cap DOMAIN dims = {}
  BY <1>1, TheLivingDims
<1>3. next \in DOMAIN Order /\ Order[next] = Here + 1 /\ Order["reproducibility"] = 11
  BY <1>2 DEF Order
<1>4. (status = "UNAVAILABLE") <=> ~any
  OBVIOUS
<1>5. \A d \in LivingDims : any <=> HasReference(d)
  <2>1. CASE section = "interactions"
    BY <1>2, <2>1 DEF HasReference
  <2>2. CASE section = "modes"
    <3>1. \A r \in refs : r = <<r[1], r[2]>> /\ r[2] \in Ids(profile.sources) \cup {0}
      BY DEF ProfileInv, ProfileTypes
    <3>2. \A d, x : <<d, x>>[1] = d
      OBVIOUS
    <3>3. HasReference("FAILURE_PREVALENCE") => HasReference("FAILURE_SEVERITY")
      <4> SUFFICES ASSUME NEW r \in refs, r[1] = "FAILURE_PREVALENCE" PROVE HasReference("FAILURE_SEVERITY")
        BY DEF HasReference
      <4>1. <<"FAILURE_PREVALENCE", r[2]>> \in refs /\ r[2] \in Ids(profile.sources) \cup {0}
        BY <3>1
      <4>2. <<"FAILURE_SEVERITY", r[2]>> \in refs
        BY <4>1 DEF ProfileInv, DimsInv
      <4> QED
        BY <3>2, <4>2 DEF HasReference
    <3>4. HasReference("FAILURE_SEVERITY") => HasReference("FAILURE_PREVALENCE")
      <4> SUFFICES ASSUME NEW r \in refs, r[1] = "FAILURE_SEVERITY" PROVE HasReference("FAILURE_PREVALENCE")
        BY DEF HasReference
      <4>1. <<"FAILURE_SEVERITY", r[2]>> \in refs /\ r[2] \in Ids(profile.sources) \cup {0}
        BY <3>1
      <4>2. <<"FAILURE_PREVALENCE", r[2]>> \in refs
        BY <4>1 DEF ProfileInv, DimsInv
      <4> QED
        BY <3>2, <4>2 DEF HasReference
    <3>5. any <=> HasReference("FAILURE_PREVALENCE") \/ HasReference("FAILURE_SEVERITY")
      BY <1>2, <2>2 DEF HasReference
    <3> QED
      BY <1>2, <2>2, <3>3, <3>4, <3>5
  <2> QED
    BY <1>2, <2>1, <2>2
<1> HIDE DEF any, status, next
<1>6. DOMAIN dims' = DOMAIN dims \cup LivingDims /\ (\A d \in LivingDims : dims'[d] = status)
      /\ \A d \in DOMAIN dims : dims'[d] = dims[d]
  BY <1>1, <1>2 DEF With, AllAt
<1>7. \A d \in Graded : FilledAt[d] = Here => (dims'[d] = "UNAVAILABLE") = ~HasReference(d)'
  <2> TAKE d \in Graded
  <2>1. FilledAt[d] = Here => d \in LivingDims
    BY <1>2 DEF Graded
  <2>2. HasReference(d)' = HasReference(d)
    BY <1>1 DEF HasReference
  <2> QED
    BY <1>4, <1>5, <1>6, <2>1, <2>2
<1>8. /\ section' = next /\ Here' = Order[next]
      /\ left' \subseteq Alive
      /\ left' # {} => AmongTheLiving'
      /\ \A s \in profile.sources : AmongTheLiving' /\ ReferencedAt[s.kind] = Here' => s.id \in left'
  BY <1>1, <1>3, NextBegins
<1>9. \A s \in profile.sources : ReferencedAt[s.kind] = Here => \E d \in Dimension : <<d, s.id>> \in refs'
  BY <1>1 DEF ProfileInv, DimsInv
<1>10. Here \in 2..12 /\ Here # 11
  BY <1>2
<1> QED
  BY <1>1, <1>2, <1>3, <1>6, <1>7, <1>8, <1>9, <1>10, SectionDone

LEMMA FingerprintKeeps ==
    ASSUME ProfileInv, Fingerprint
    PROVE  ProfileInv'
<1> USE DEF ProfileInv
<1>1. /\ section = "fingerprint" /\ section' = "built"
      /\ digest' = [i \in Ids(SourcesOf("FAILURE_MODE")) |-> life[i]]
      /\ UNCHANGED <<profile, life, passed, left, half, dims, refs, shown, unresolved>>
  BY DEF Fingerprint
<1>2. Alive' = Alive /\ SoundBaseline' = SoundBaseline /\ Issues' = Issues /\ Ids(profile.sources)' = Ids(profile.sources)
  BY <1>1, TheRequestStays
<1>3. Here = 13 /\ Here' = 14 /\ section' \in DOMAIN Order /\ ~AmongTheLiving /\ ~AmongTheLiving' /\ Order["reproducibility"] = 11
  BY <1>1 DEF Here, Order, AmongTheLiving
<1>4. ProfileTypes'
  BY <1>1, <1>2, <1>3 DEF ProfileTypes
<1>5. GateInv'
  BY <1>1, <1>2, <1>3 DEF GateInv
<1>6. DimsInv'
  <2>1. \A d : HasReference(d)' = HasReference(d)
    BY <1>1 DEF HasReference
  <2>2. \A d \in Dimension : FilledAt[d] < Here /\ FilledAt[d] < Here'
    BY <1>3, Placed
  <2>3. \A s \in profile.sources : ReferencedAt[s.kind] < Here
    BY <1>3, Placed, SourcesAre DEF ProfileTypes
  <2>4. \A r \in refs : r[1] \in Dimension
    BY DEF ProfileTypes
  <2> QED
    BY <1>1, <1>2, <1>3, <2>1, <2>2, <2>3, <2>4 DEF DimsInv
<1>7. LivesInv'
  <2>1. left = {} /\ half = Unread
    BY <1>3 DEF LivesInv
  <2> QED
    BY <1>1, <1>2, <2>1 DEF LivesInv, Age
<1>8. EndInv'
  <2>1. \A r \in shown : r.id \in DOMAIN digest' => digest'[r.id] = life[r.id]
    BY <1>1
  <2>2. \A r \in shown : Age(r.life) <= Age(life[r.id])
    BY DEF LivesInv
  <2> QED
    BY <1>1, <1>3, <2>1, <2>2 DEF EndInv, Age
<1> QED
  BY <1>4, <1>5, <1>6, <1>7, <1>8

\* The inductive invariant of a profile in the making.
THEOREM ProfileInductive == ProfileBehaviour => []ProfileInv
<1>1. ProfileInv /\ [ProfileNext]_profileVars => ProfileInv'
  <2> SUFFICES ASSUME ProfileInv, [ProfileNext]_profileVars PROVE ProfileInv'
    OBVIOUS
  <2>1. ASSUME NEW i \in DOMAIN life, Reproduce(i) \/ Settle(i) \/ Drop(i) PROVE ProfileInv'
    BY <2>1, TheOthersLive
  <2>2. CASE CheckContext \/ CheckCompatibility
    BY <2>2, ContextKeeps
  <2>3. CASE Baseline
    BY <2>3, BaselineKeeps
  <2>4. CASE Faults \/ Drift \/ Stress \/ Calibration \/ Resources
    BY <2>4, SummariesKeep
  <2>5. CASE ReadStatus
    BY <2>5, ReadStatusKeeps
  <2>6. CASE ReadEvidence
    BY <2>6, ReadEvidenceKeeps
  <2>7. CASE ModesDone \/ InteractionsDone
    BY <2>7, LivingKeeps
  <2>8. CASE Slices
    BY <2>8, SlicesKeeps
  <2>9. CASE Reproducibility \/ Uncertainty
    BY <2>9, LastSectionsKeep
  <2>10. CASE Fingerprint
    BY <2>10, FingerprintKeeps
  <2>11. CASE UNCHANGED profileVars
    <3>1. UNCHANGED <<profile, life, passed, section, left, half, dims, refs, shown, unresolved, digest>>
      BY <2>11 DEF profileVars
    <3>2. Alive' = Alive /\ SoundBaseline' = SoundBaseline /\ Issues' = Issues
          /\ Ids(profile.sources)' = Ids(profile.sources)
      BY <3>1, TheRequestStays
    <3>3. Here' = Here /\ AmongTheLiving' = AmongTheLiving /\ LivingDims' = LivingDims /\ FirstLeft' = FirstLeft
      BY <3>1 DEF Here, AmongTheLiving, LivingDims, FirstLeft
    <3>4. \A d : HasReference(d)' = HasReference(d)
      BY <3>1 DEF HasReference
    <3>5. ProfileTypes' /\ GateInv'
      BY <3>1, <3>2, <3>3 DEF ProfileInv, ProfileTypes, GateInv
    <3>6. DimsInv'
      BY <3>1, <3>2, <3>3, <3>4 DEF ProfileInv, DimsInv
    <3>7. LivesInv'
      BY <3>1, <3>2, <3>3 DEF ProfileInv, LivesInv, Age
    <3>8. EndInv'
      BY <3>1, <3>3 DEF ProfileInv, EndInv, Age
    <3> QED
      BY <3>5, <3>6, <3>7, <3>8 DEF ProfileInv
  <2> QED
    BY <2>1, <2>2, <2>3, <2>4, <2>5, <2>6, <2>7, <2>8, <2>9, <2>10, <2>11 DEF ProfileNext
<1> QED
  BY <1>1, ProfileStarts, PTL DEF ProfileBehaviour

LEMMA NoneOutside ==
    ASSUME profile \in Profiles, Issues = {}, NEW s \in profile.sources
    PROVE  /\ s.readable /\ {"model", "dataset"} \cap s.differs = {}
           /\ s.kind \in {"FAULT_EXPERIMENT", "INTERACTION"} =>
                 /\ profile.scope # "MODEL_DATASET" => "split" \notin s.differs
                 /\ profile.scope = "MODEL_DATASET_EVALUATION" => "configuration" \notin s.differs
<1>1. s.readable \in BOOLEAN /\ s.kind \in Kind
  BY ProfileAssumption
<1> DEFINE wrong(x) == IF x.readable THEN {<<x.id, label>> : label \in Matches(x.kind) \cap x.differs} ELSE {<<x.id, "missing">>}
<1>2. wrong(s) \subseteq Issues
  BY DEF Issues
<1>3. s.readable /\ Matches(s.kind) \cap s.differs = {}
  BY <1>1, <1>2
<1>4. "dataset" \in Matches(s.kind)
  BY <1>1 DEF Matches, Kind
<1>5. \/ "model" \in Matches(s.kind)
      \/ s.kind \in {"SLICE_ANALYSIS", "CALIBRATION_ANALYSIS", "DRIFT_ANALYSIS"} /\ "baseline run" \in Matches(s.kind)
  <2>1. CASE s.kind \in {"FAULT_EXPERIMENT", "INTERACTION"}
    BY <2>1 DEF Matches
  <2>2. CASE s.kind \in {"FAILURE_MODE", "RESOURCE_ANALYSIS"}
    BY <2>2 DEF Matches
  <2>3. CASE s.kind \in {"SLICE_ANALYSIS", "CALIBRATION_ANALYSIS", "DRIFT_ANALYSIS"}
    BY <2>3 DEF Matches
  <2>4. CASE s.kind = "STRESS_ANALYSIS"
    BY <2>4 DEF Matches
  <2> QED
    BY <1>1, <2>1, <2>2, <2>3, <2>4 DEF Kind
<1>6. "model" \notin s.differs
  BY <1>3, <1>5, ProfileAssumption
<1>7. s.kind \in {"FAULT_EXPERIMENT", "INTERACTION"} =>
         /\ profile.scope # "MODEL_DATASET" => "split" \in Matches(s.kind)
         /\ profile.scope = "MODEL_DATASET_EVALUATION" => "configuration" \in Matches(s.kind)
  BY DEF Matches
<1> QED
  BY <1>3, <1>4, <1>6, <1>7

\* ProfileSupported: whatever happens to modes and interactions while a profile is built, it says nothing its
\* evidence does not support, and its fingerprint is not older than what it shows.
THEOREM ProfilesSupported == ProfileBehaviour => []ProfileSupported
<1>1. ProfileInv => ProfileSupported
  <2> SUFFICES ASSUME ProfileInv PROVE ProfileSupported
    OBVIOUS
  <2> USE DEF ProfileInv
  <2> DEFINE Referenced(d) == {r[2] : r \in {x \in refs : x[1] = d}}
  <2>1. section = "refused" => dims = <<>> /\ (SoundBaseline => \E s \in profile.sources : ~s.readable \/ s.differs # {})
    <3> SUFFICES ASSUME section = "refused"
                 PROVE  dims = <<>> /\ (SoundBaseline => \E s \in profile.sources : ~s.readable \/ s.differs # {})
      OBVIOUS
    <3>1. dims = <<>>
      BY DEF GateInv, Here, Order
    <3>2. ASSUME SoundBaseline PROVE \E s \in profile.sources : ~s.readable \/ s.differs # {}
      <4>1. Issues # {}
        BY <3>2 DEF GateInv
      <4> QED
        BY <4>1 DEF Issues
    <3> QED
      BY <3>1, <3>2
  <2>2. ASSUME section = "built"
        PROVE  /\ SoundBaseline /\ Issues = {}
               /\ DOMAIN dims = Dimension
               /\ \A d \in Graded : (dims[d] = "UNAVAILABLE") = (Referenced(d) = {})
               /\ Ids(profile.sources) = (UNION {Referenced(d) : d \in Dimension}) \ {0}
               /\ \A r \in shown : r.life = "settled" => r.reproduced
               /\ \A r \in shown : r.id \in DOMAIN digest => Age(r.life) <= Age(digest[r.id])
               /\ unresolved = {} => \A r \in shown : r.reproduced
    <3>1. Here = 14 /\ Order["reproducibility"] = 11
      BY <2>2 DEF Here, Order
    <3>2. SoundBaseline /\ Issues = {}
      BY <3>1 DEF GateInv
    <3>3. DOMAIN dims = Dimension
      BY <3>1, Placed DEF DimsInv
    <3>4. \A d \in Graded : (dims[d] = "UNAVAILABLE") = (Referenced(d) = {})
      <4>1. \A d : HasReference(d) <=> Referenced(d) # {}
        BY DEF HasReference
      <4>2. Graded \subseteq Dimension
        BY DEF Graded
      <4> HIDE DEF Referenced
      <4> QED
        BY <3>3, <4>1, <4>2 DEF DimsInv
    <3>5. Ids(profile.sources) = (UNION {Referenced(d) : d \in Dimension}) \ {0}
      <4>1. \A d, i : <<d, i>>[1] = d /\ <<d, i>>[2] = i
        OBVIOUS
      <4>2. \A s \in profile.sources : \E d \in Dimension : <<d, s.id>> \in refs
        BY <3>1, Placed, SourcesAre DEF ProfileTypes, DimsInv
      <4>3. \A s \in profile.sources : s.id \in UNION {Referenced(d) : d \in Dimension}
        <5> TAKE s \in profile.sources
        <5>1. PICK d \in Dimension : <<d, s.id>> \in refs
          BY <4>2
        <5>2. s.id \in Referenced(d)
          BY <4>1, <5>1
        <5> HIDE DEF Referenced
        <5> QED
          BY <5>2
      <4>4. \A s \in profile.sources : s.id # 0
        BY SourcesAre DEF ProfileTypes
      <4>5. \A d \in Dimension : Referenced(d) \subseteq Ids(profile.sources) \cup {0}
        BY DEF ProfileTypes
      <4> HIDE DEF Referenced
      <4> DEFINE all == UNION {Referenced(d) : d \in Dimension}
                 ids == Ids(profile.sources)
      <4>6. all \subseteq ids \cup {0}
        BY <4>5
      <4>7. \A i \in ids : i # 0 /\ i \in all
        BY <4>3, <4>4 DEF Ids
      <4> HIDE DEF all, ids
      <4>8. ids = all \ {0}
        BY <4>6, <4>7
      <4> QED
        BY <4>8 DEF all, ids
    <3>6. \A r \in shown : r.life = "settled" => r.reproduced
      BY DEF LivesInv
    <3> QED
      BY <2>2, <3>1, <3>2, <3>3, <3>4, <3>5, <3>6 DEF EndInv
  <2>3. ASSUME section = "built", NEW s \in profile.sources
        PROVE  /\ s.readable /\ {"model", "dataset"} \cap s.differs = {}
               /\ s.kind \in {"FAULT_EXPERIMENT", "INTERACTION"} =>
                     /\ profile.scope # "MODEL_DATASET" => "split" \notin s.differs
                     /\ profile.scope = "MODEL_DATASET_EVALUATION" => "configuration" \notin s.differs
    BY <2>2, <2>3, NoneOutside DEF ProfileTypes
  <2> HIDE DEF ProfileInv
  <2> QED
    BY <2>1, <2>2, <2>3 DEF ProfileSupported, SoundBaseline, Graded
<1> QED
  BY <1>1, ProfileInductive, PTL
=============================================================================
