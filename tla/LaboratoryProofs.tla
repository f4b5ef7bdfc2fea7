-------------------------- MODULE LaboratoryProofs --------------------------
(***************************************************************************)
(* Theorems about what is run to be looked at: fault experiments and       *)
(* benchmark runs, for any processes, baselines, trials and stages; stress *)
(* analyses, for any plan and whatever the runs answer; and resource       *)
(* measurements, for any workload, pool and timeout.                       *)
(*                                                                         *)
(* What keeps two processes apart that work on one experiment is the       *)
(* record each of them made: only the one whose record was added, mine,    *)
(* can move the experiment, and while it lives the experiment is where its *)
(* process is.                                                             *)
(***************************************************************************)
EXTENDS AnalysisProofs, FaultLaboratory, BenchmarkRun, StressExperiment, ResourceMeasurement

\* One process has made the experiment of a baseline, and only that one gets past it.
OwnsOrLooks(p) ==
    /\ lab[p].pc \in {"idle", "ensure", "adding"} => ~lab[p].mine
    /\ lab[p].pc \in {"trials", "analysis", "close"} => lab[p].mine
    /\ lab[p].mine =>
        /\ experiment[lab[p].baseline] # "ABSENT"
        /\ lab[p].pc = "ready" => experiment[lab[p].baseline] = "DRAFT"
        /\ lab[p].pc = "running" => experiment[lab[p].baseline] = "READY"
        /\ lab[p].pc \in {"trials", "analysis", "close"} => experiment[lab[p].baseline] = "RUNNING"

OwnerInv ==
    /\ \A p \in Labs : OwnsOrLooks(p)
    /\ \A p, q \in Labs : lab[p].mine /\ lab[q].mine /\ lab[q].baseline = lab[p].baseline => q = p

\* Nothing is on record of an experiment that does not run, and of one that runs what its
\* process counts.
CountsTrials(p) ==
    LET b == lab[p].baseline
    IN  /\ lab[p].pc \in {"ensure", "adding", "ready", "running"} => lab[p].next = 1 /\ lab[p].failures = 0
        /\ lab[p].pc = "trials" =>
            /\ DOMAIN trial[b] = 1..(lab[p].next - 1) /\ analyzed[b] = "none"
            /\ lab[p].failures = FailedBefore(b, lab[p].next)
        /\ lab[p].pc = "analysis" => DOMAIN trial[b] = 1..Trials /\ analyzed[b] = "none"
        /\ lab[p].pc = "close" => DOMAIN trial[b] = 1..Trials /\ analyzed[b] = lab[p].analysis

TrialInv ==
    /\ \A b \in Baselines :
        experiment[b] \in {"ABSENT", "DRAFT", "READY"} => DOMAIN trial[b] = {} /\ analyzed[b] = "none"
    /\ \A p \in Labs : CountsTrials(p)

\* The inductive invariant.
LabInv == LabTypeOK /\ OwnerInv /\ TrialInv /\ EndedExperimentIsWhole
-----------------------------------------------------------------------------
LEMMA LabAssumed == Trials \in Nat /\ Trials > 0 /\ MaxFailed \in Nat /\ MaxFailed > 0 /\ Baselines # {}
  BY LaboratoryAssumption

LEMMA IdleLabTyped == IdleLab \in LabJob /\ IdleLab.pc = "idle" /\ ~IdleLab.mine
<1>1. (CHOOSE b \in Baselines : TRUE) \in Baselines
  BY LabAssumed
<1> QED
  BY <1>1, LabAssumed DEF IdleLab, LabJob

LEMMA LabInitial == LabInit => LabInv
<1> SUFFICES ASSUME LabInit PROVE LabInv
  OBVIOUS
<1> USE DEF LabInit
<1>1. \A p \in Labs : lab[p] = IdleLab
  OBVIOUS
<1>2. \A b \in Baselines : DOMAIN trial[b] = {} /\ trial[b] \in [1..0 -> TrialStatus]
  OBVIOUS
<1>3. LabTypeOK
  <2>1. \A b \in Baselines : \E n \in 0..Trials : trial[b] \in [1..n -> TrialStatus]
    BY <1>2, LabAssumed
  <2> QED
    BY <1>1, <2>1, IdleLabTyped DEF LabTypeOK
<1>4. OwnerInv
  BY <1>1, IdleLabTyped DEF OwnerInv, OwnsOrLooks
<1>5. TrialInv
  BY <1>1, <1>2, IdleLabTyped DEF TrialInv, CountsTrials
<1>6. EndedExperimentIsWhole
  BY <1>2 DEF EndedExperimentIsWhole, Terminal
<1> QED
  BY <1>3, <1>4, <1>5, <1>6 DEF LabInv

LEMMA OneLabMoves ==
    ASSUME LabInv, NEW p \in Labs, NEW j \in LabJob, lab' = [lab EXCEPT ![p] = j]
    PROVE  /\ lab' \in [Labs -> LabJob] /\ lab'[p] = j /\ \A q \in Labs \ {p} : lab'[q] = lab[q]
  BY DEF LabInv, LabTypeOK

\* What a process counts stays true while it and what is on record of its experiment stay.
LEMMA CountsKept ==
    ASSUME LabInv, NEW q \in Labs, lab'[q] = lab[q],
           trial'[lab[q].baseline] = trial[lab[q].baseline], analyzed'[lab[q].baseline] = analyzed[lab[q].baseline]
    PROVE  CountsTrials(q)'
<1>1. CountsTrials(q)
  BY DEF LabInv, TrialInv
<1>2. \A n : FailedBefore(lab[q].baseline, n)' = FailedBefore(lab[q].baseline, n)
  BY DEF FailedBefore
<1> QED
  BY <1>1, <1>2 DEF CountsTrials, FailedBefore

\* An experiment that ends now, or ended before, is whole if no trial is added.
LEMMA EndedKept ==
    ASSUME LabInv, UNCHANGED trial, experiment' \in [Baselines -> ExperimentStatus \cup {"ABSENT"}],
           \A b \in Baselines : experiment'[b] \in {"COMPLETED", "FAILED"} =>
                DOMAIN trial[b] = 1..Trials /\ analyzed'[b] = experiment'[b]
    PROVE  EndedExperimentIsWhole'
<1>1. \A b, n : FailedBefore(b, n)' = FailedBefore(b, n)
  BY DEF FailedBefore
<1> QED
  BY <1>1 DEF LabInv, EndedExperimentIsWhole, Terminal

\* A process that holds no experiment after its step, or is dead, and stores none.
LEMMA LooksOnLab ==
    ASSUME LabInv, NEW p \in Labs, NEW j \in LabJob, lab' = [lab EXCEPT ![p] = j],
           control' \in [Baselines -> {"absent", "COMPLETED", "FAILED"}],
           UNCHANGED <<experiment, trial, analyzed>>,
           j.pc \in {"idle", "ensure", "adding", "ready", "dead"},
           j.mine => j.pc = "dead" /\ lab[p].mine /\ j.baseline = lab[p].baseline,
           j.pc \in {"ensure", "adding", "ready"} => j.next = 1 /\ j.failures = 0
    PROVE  LabInv'
<1>1. lab' \in [Labs -> LabJob] /\ lab'[p] = j /\ \A q \in Labs \ {p} : lab'[q] = lab[q]
  BY OneLabMoves
<1>2. LabTypeOK'
  BY <1>1 DEF LabInv, LabTypeOK
<1>3. OwnerInv'
  <2>1. \A q \in Labs : lab'[q].mine => lab[q].mine /\ lab'[q].baseline = lab[q].baseline
    BY <1>1
  <2>2. \A q \in Labs : OwnsOrLooks(q)'
    BY <1>1, <2>1 DEF LabInv, OwnerInv, OwnsOrLooks
  <2> QED
    BY <2>1, <2>2 DEF LabInv, OwnerInv
<1>4. TrialInv'
  <2>1. ASSUME NEW q \in Labs PROVE CountsTrials(q)'
    <3>1. CASE q = p
      BY <1>1, <3>1 DEF CountsTrials
    <3>2. CASE q # p
      BY <1>1, <3>2, CountsKept
    <3> QED
      BY <3>1, <3>2
  <2> QED
    BY <2>1 DEF LabInv, TrialInv
<1>5. EndedExperimentIsWhole'
  BY EndedKept DEF LabInv, LabTypeOK, EndedExperimentIsWhole, Terminal
<1> QED
  BY <1>2, <1>3, <1>4, <1>5 DEF LabInv

LEMMA JobOf == ASSUME LabInv, NEW p \in Labs
               PROVE  lab[p] \in LabJob /\ lab[p].baseline \in Baselines /\ lab[p].mine \in BOOLEAN
  BY DEF LabInv, LabTypeOK, LabJob

LEMMA RaiseKeeps ==
    ASSUME LabInv, NEW p \in Labs, Raise(p), UNCHANGED <<control, experiment, trial, analyzed>>
    PROVE  LabInv'
  BY IdleLabTyped, LooksOnLab DEF Raise, LabInv, LabTypeOK

LEMMA BaselineKeeps ==
    ASSUME LabInv, NEW p \in Labs, NEW b \in Baselines, NEW s \in {"COMPLETED", "FAILED"},
           UseBaseline(p, b) \/ RunBaseline(p, b, s)
    PROVE  LabInv'
<1> DEFINE j == [IdleLab EXCEPT !.pc = "ensure", !.baseline = b]
<1>1. j \in LabJob /\ j.pc = "ensure" /\ ~j.mine /\ j.next = 1 /\ j.failures = 0
  BY IdleLabTyped DEF LabJob, IdleLab
<1>2. control' \in [Baselines -> {"absent", "COMPLETED", "FAILED"}] /\ UNCHANGED <<experiment, trial, analyzed>>
  BY DEF UseBaseline, RunBaseline, LabInv, LabTypeOK
<1>3. lab' = [lab EXCEPT ![p] = j] \/ lab' = [lab EXCEPT ![p] = IdleLab]
  BY DEF UseBaseline, RunBaseline, Turn
<1> QED
  BY <1>1, <1>2, <1>3, IdleLabTyped, LooksOnLab

LEMMA EnsureKeeps == ASSUME LabInv, NEW p \in Labs, EnsureExperiment(p) PROVE LabInv'
<1>1. PICK pc \in {"adding", "ready"} : lab' = [lab EXCEPT ![p] = [lab[p] EXCEPT !.pc = pc]]
  BY DEF EnsureExperiment, Turn, Now
<1> DEFINE j == [lab[p] EXCEPT !.pc = pc]
<1>2. /\ j \in LabJob /\ j.pc = pc /\ j.mine = lab[p].mine
      /\ j.next = lab[p].next /\ j.failures = lab[p].failures
  BY JobOf DEF LabJob
<1>3. ~lab[p].mine /\ lab[p].next = 1 /\ lab[p].failures = 0
  BY DEF EnsureExperiment, Turn, LabInv, OwnerInv, OwnsOrLooks, TrialInv, CountsTrials
<1> QED
  BY <1>1, <1>2, <1>3, LooksOnLab DEF EnsureExperiment, LabInv, LabTypeOK

LEMMA LabKilledKeeps == ASSUME LabInv, NEW p \in Labs, LabKilled(p) PROVE LabInv'
<1> DEFINE j == [lab[p] EXCEPT !.pc = "dead"]
<1>1. j \in LabJob /\ j.pc = "dead" /\ j.mine = lab[p].mine /\ j.baseline = lab[p].baseline
  BY JobOf DEF LabJob
<1>2. lab' = [lab EXCEPT ![p] = j] /\ UNCHANGED <<control, experiment, trial, analyzed>>
  BY DEF LabKilled, LabInv, LabTypeOK
<1>3. control' \in [Baselines -> {"absent", "COMPLETED", "FAILED"}]
  BY <1>2 DEF LabInv, LabTypeOK
<1>4. j.mine => lab[p].mine
  BY <1>1
<1> QED
  BY <1>1, <1>2, <1>3, <1>4, LooksOnLab

\* The process that adds the experiment is the first and only one that holds it.
LEMMA AddExperimentKeeps == ASSUME LabInv, NEW p \in Labs, AddExperiment(p) PROVE LabInv'
<1> PICK b \in Baselines : b = lab[p].baseline
  BY JobOf
<1> PICK j \in LabJob : j = [lab[p] EXCEPT !.pc = "ready", !.mine = TRUE]
  BY JobOf DEF LabJob
<1>1. j.pc = "ready" /\ j.mine /\ j.baseline = b /\ j.next = 1 /\ j.failures = 0
  BY JobOf DEF LabJob, AddExperiment, LabInv, TrialInv, CountsTrials
<1>2. CASE experiment[b] # "ABSENT"
  BY <1>2, RaiseKeeps DEF AddExperiment
<1>3. CASE experiment[b] = "ABSENT"
  <2>1. experiment' = [experiment EXCEPT ![b] = "DRAFT"] /\ lab' = [lab EXCEPT ![p] = j]
    BY <1>3 DEF AddExperiment, LabInv, LabTypeOK
  <2>2. lab' \in [Labs -> LabJob] /\ lab'[p] = j /\ \A q \in Labs \ {p} : lab'[q] = lab[q]
    BY <1>1, <2>1, OneLabMoves
  <2>3. experiment'[b] = "DRAFT" /\ \A c \in Baselines \ {b} : experiment'[c] = experiment[c]
    BY <1>1, <2>1 DEF LabInv, LabTypeOK
  <2>4. \A q \in Labs : lab[q].mine => lab[q].baseline # b
    BY <1>3 DEF LabInv, OwnerInv, OwnsOrLooks
  <2>5. LabTypeOK'
    BY <2>1, <2>2 DEF LabInv, LabTypeOK, AddExperiment, ExperimentStatus
  <2>6. OwnerInv'
    <3>1. ASSUME NEW q \in Labs PROVE OwnsOrLooks(q)'
      <4>1. CASE q = p
        BY <1>1, <2>2, <2>3, <4>1 DEF OwnsOrLooks
      <4>2. CASE q # p
        BY <2>2, <2>3, <2>4, <4>2, JobOf DEF LabInv, OwnerInv, OwnsOrLooks
      <4> QED
        BY <4>1, <4>2
    <3>2. ASSUME NEW q \in Labs, NEW r \in Labs,
                 lab'[q].mine, lab'[r].mine, lab'[q].baseline = lab'[r].baseline
          PROVE  q = r
      <4>1. CASE q # p /\ r # p
        <5>1. lab'[q] = lab[q] /\ lab'[r] = lab[r]
          BY <2>2, <4>1
        <5>2. lab[q].mine /\ lab[r].mine /\ lab[r].baseline = lab[q].baseline
          BY <3>2, <5>1
        <5> QED
          BY <5>2 DEF LabInv, OwnerInv
      <4>2. ASSUME NEW x \in Labs \ {p}, lab'[x].mine PROVE lab'[x].baseline # lab'[p].baseline
        <5>1. lab[x].mine /\ lab'[x].baseline = lab[x].baseline /\ lab'[p].baseline = b
          BY <1>1, <2>2, <4>2
        <5> QED
          BY <2>4, <5>1
      <4> QED
        BY <3>2, <4>1, <4>2
    <3> QED
      BY <3>1, <3>2 DEF OwnerInv
  <2>7. UNCHANGED <<trial, analyzed>>
    BY DEF AddExperiment
  <2>8. TrialInv'
    <3>1. ASSUME NEW q \in Labs PROVE CountsTrials(q)'
      <4>1. CASE q = p
        BY <1>1, <2>2, <4>1 DEF CountsTrials
      <4>2. CASE q # p
        BY <2>2, <2>7, <4>2, CountsKept
      <4> QED
        BY <4>1, <4>2
    <3> QED
      BY <1>3, <2>3, <2>7, <3>1 DEF LabInv, TrialInv
  <2>9. EndedExperimentIsWhole'
    <3>1. \A c \in Baselines : experiment'[c] \in {"COMPLETED", "FAILED"} =>
            DOMAIN trial[c] = 1..Trials /\ analyzed'[c] = experiment'[c]
      BY <2>3, <2>7 DEF LabInv, EndedExperimentIsWhole, Terminal
    <3> QED
      BY <2>5, <2>7, <3>1, EndedKept DEF LabTypeOK
  <2> QED
    BY <2>5, <2>6, <2>8, <2>9 DEF LabInv
<1> QED
  BY <1>2, <1>3

\* A process moves its experiment, or is refused; to: where the process goes then.
LEMMA UpdateKeeps ==
    ASSUME LabInv, NEW p \in Labs, NEW from, NEW to, NEW pc, UpdateStatus(p, from, to, pc),
           \/ from = "ready" /\ to = "READY" /\ pc = "running"
           \/ from = "running" /\ to = "RUNNING" /\ pc = "trials"
           \/ from = "close" /\ to = lab[p].analysis /\ pc = "idle"
    PROVE  LabInv'
<1> PICK b \in Baselines : b = lab[p].baseline
  BY JobOf
<1> PICK j : j = IF pc = "idle" THEN IdleLab ELSE [lab[p] EXCEPT !.pc = pc]
  OBVIOUS
<1>1. lab[p] \in LabJob /\ UNCHANGED <<control, trial, analyzed>> /\ lab[p].pc = from
  BY JobOf DEF UpdateStatus
<1>2. CASE ~Updatable(p, to)
  BY <1>1, <1>2, RaiseKeeps DEF UpdateStatus
<1>3. CASE Updatable(p, to)
  <2>1. experiment' = [experiment EXCEPT ![b] = to] /\ lab' = [lab EXCEPT ![p] = j] /\ lab[p].mine
    BY <1>3 DEF UpdateStatus, Updatable, Now
  <2>2. /\ j \in LabJob /\ to \in ExperimentStatus \ {"ABSENT"} /\ j.pc = pc
        /\ pc = "idle" => ~j.mine
        /\ pc # "idle" => j = [lab[p] EXCEPT !.pc = pc] /\ j.mine = lab[p].mine /\ j.baseline = b
                          /\ j.next = lab[p].next /\ j.failures = lab[p].failures
    BY <1>1, IdleLabTyped DEF LabJob, ExperimentStatus
  <2>3. lab' \in [Labs -> LabJob] /\ lab'[p] = j /\ \A q \in Labs \ {p} : lab'[q] = lab[q]
    BY <2>1, <2>2, OneLabMoves
  <2>4. experiment'[b] = to /\ \A c \in Baselines \ {b} : experiment'[c] = experiment[c]
    BY <1>1, <2>1 DEF LabInv, LabTypeOK
  <2>5. \A q \in Labs \ {p} : lab[q].mine => lab[q].baseline # b
    BY <2>1 DEF LabInv, OwnerInv
  <2>6. LabTypeOK'
    BY <1>1, <2>1, <2>2, <2>3 DEF LabInv, LabTypeOK
  <2>7. \A q \in Labs : OwnsOrLooks(q)'
    <3> SUFFICES ASSUME NEW q \in Labs PROVE OwnsOrLooks(q)'
      OBVIOUS
    <3>1. CASE q = p /\ pc = "idle"
      BY <2>2, <2>3, <3>1 DEF OwnsOrLooks
    <3>2. CASE q = p /\ pc # "idle"
      <4>1. lab'[p].pc = pc /\ lab'[p].baseline = b /\ lab'[p].mine /\ experiment'[b] = to
        BY <2>1, <2>2, <2>3, <2>4, <3>2
      <4> QED
        BY <3>2, <4>1 DEF OwnsOrLooks
    <3>3. CASE q # p
      <4>1. lab'[q] = lab[q] /\ lab[q].baseline \in Baselines /\ OwnsOrLooks(q)
        BY <2>3, <3>3, JobOf DEF LabInv, OwnerInv
      <4>2. lab[q].mine => experiment'[lab[q].baseline] = experiment[lab[q].baseline]
        BY <2>4, <2>5, <3>3, <4>1
      <4> QED
        BY <4>1, <4>2 DEF OwnsOrLooks
    <3> QED
      BY <3>1, <3>2, <3>3
  <2>8. OwnerInv'
    <3>1. \A q \in Labs : lab'[q].mine => lab[q].mine /\ lab'[q].baseline = lab[q].baseline
      BY <2>1, <2>2, <2>3
    <3> QED
      BY <2>7, <3>1 DEF LabInv, OwnerInv
  <2>9. experiment[b] \in {"DRAFT", "READY"} \/ from = "close"
    BY <1>1, <2>1 DEF LabInv, OwnerInv, OwnsOrLooks
  <2>10. experiment[b] \in {"DRAFT", "READY"} => DOMAIN trial[b] = {} /\ analyzed[b] = "none"
    BY <1>1 DEF LabInv, TrialInv
  <2>11. TrialInv'
    <3>1. ASSUME NEW q \in Labs PROVE CountsTrials(q)'
      <4>1. CASE q = p
        <5>1. from # "close" => lab[p].next = 1 /\ lab[p].failures = 0
          BY <1>1 DEF LabInv, TrialInv, CountsTrials
        <5>2. CASE pc = "trials"
          <6>1. DOMAIN trial[b] = {} /\ analyzed[b] = "none"
            BY <1>1, <2>1, <2>10, <5>2 DEF LabInv, OwnerInv, OwnsOrLooks
          <6>2. j.next = 1 /\ j.failures = 0 /\ j.baseline = b
            BY <2>2, <5>1, <5>2
          <6>3. lab'[q] = j /\ 1..(lab'[q].next - 1) = {}
            <7>1. lab'[q] = j
              BY <2>3, <4>1
            <7>2. lab'[q].next = 1
              BY <6>2, <7>1
            <7>3. 1..(1 - 1) = {}
              OBVIOUS
            <7> QED
              BY <7>1, <7>2, <7>3
          <6>4. {k \in 1..(lab'[q].next - 1) : trial'[lab'[q].baseline][k] = "FAILED"} = {}
            BY <6>3
          <6>5. Cardinality({k \in 1..(lab'[q].next - 1) : trial'[lab'[q].baseline][k] = "FAILED"}) = 0
            BY <6>4, FS_EmptySet
          <6>6. j.pc = "trials"
            BY <2>2, <5>2
          <6>7. DOMAIN trial'[lab'[q].baseline] = 1..(lab'[q].next - 1) /\ analyzed'[lab'[q].baseline] = "none"
            BY <1>1, <6>1, <6>2, <6>3
          <6> QED
            BY <6>2, <6>3, <6>5, <6>6, <6>7 DEF CountsTrials, FailedBefore
        <5>3. CASE pc # "trials"
          BY <2>2, <2>3, <4>1, <5>1, <5>3 DEF CountsTrials
        <5> QED
          BY <5>2, <5>3
      <4>2. CASE q # p
        BY <1>1, <2>3, <4>2, CountsKept
      <4> QED
        BY <4>1, <4>2
    <3>2. to \notin {"ABSENT", "DRAFT", "READY"} \/ experiment[b] \in {"DRAFT", "READY"}
      BY <1>1, <2>9 DEF LabJob
    <3> QED
      BY <1>1, <2>4, <2>10, <3>1, <3>2 DEF LabInv, TrialInv
  <2>12. EndedExperimentIsWhole'
    <3>1. Terminal(b)' => DOMAIN trial[b] = 1..Trials /\ analyzed[b] = to
      BY <1>1, <2>4 DEF LabInv, TrialInv, CountsTrials, Terminal
    <3>2. \A c \in Baselines : experiment'[c] \in {"COMPLETED", "FAILED"} =>
            DOMAIN trial[c] = 1..Trials /\ analyzed'[c] = experiment'[c]
      BY <1>1, <2>4, <3>1 DEF LabInv, EndedExperimentIsWhole, Terminal
    <3> QED
      BY <1>1, <2>6, <3>2, EndedKept DEF LabTypeOK
  <2> QED
    BY <2>6, <2>8, <2>11, <2>12 DEF LabInv
<1> QED
  BY <1>2, <1>3

OneMore(f, n, s) == [k \in DOMAIN f \cup {n + 1} |-> IF k = n + 1 THEN s ELSE f[k]]

AsBefore(f, g, n, s) ==
    /\ DOMAIN g = 1..(n + 1) /\ g[n + 1] = s /\ \A k \in 1..n : g[k] = f[k]
    /\ \A m \in 1..(n + 1) : {k \in 1..(m - 1) : g[k] = "FAILED"} = {k \in 1..(m - 1) : f[k] = "FAILED"}
    /\ Cardinality({k \in 1..n : f[k] = "FAILED"}) \in 0..n
    /\ Cardinality({k \in 1..(n + 1) : g[k] = "FAILED"}) =
          Cardinality({k \in 1..n : f[k] = "FAILED"}) + (IF s = "FAILED" THEN 1 ELSE 0)

\* The trials on record, and those that failed, after one more.
LEMMA OneMoreTrial ==
    ASSUME NEW f, NEW g, NEW n \in Nat, NEW s, DOMAIN f = 1..n, g = OneMore(f, n, s)
    PROVE  AsBefore(f, g, n, s)
<1> DEFINE old == {k \in 1..n : f[k] = "FAILED"}
           now == {k \in 1..(n + 1) : g[k] = "FAILED"}
<1>1. DOMAIN g = 1..(n + 1) /\ g[n + 1] = s /\ \A k \in 1..n : g[k] = f[k]
  BY DEF OneMore
<1>2. \A m \in 1..(n + 1) : {k \in 1..(m - 1) : g[k] = "FAILED"} = {k \in 1..(m - 1) : f[k] = "FAILED"}
  BY <1>1
<1>3. now = old \cup (IF s = "FAILED" THEN {n + 1} ELSE {})
  BY <1>1
<1>4. IsFiniteSet(1..n) /\ Cardinality(1..n) = n
  BY FS_Interval
<1>5. IsFiniteSet(old) /\ Cardinality(old) <= n /\ Cardinality(old) \in Nat
  BY <1>4, FS_Subset, FS_CardinalityType
<1>6. n + 1 \notin old
  OBVIOUS
<1>7. Cardinality(now) = Cardinality(old) + (IF s = "FAILED" THEN 1 ELSE 0)
  <2>1. CASE s = "FAILED"
    <3>1. now = old \cup {n + 1}
      BY <1>3, <2>1
    <3>2. Cardinality(old \cup {n + 1}) = Cardinality(old) + 1
      BY <1>5, <1>6, FS_AddElement
    <3> QED
      BY <2>1, <3>1, <3>2
  <2>2. CASE s # "FAILED"
    <3>1. now = old
      BY <1>3, <2>2
    <3>2. Cardinality(now) = Cardinality(old)
      BY <3>1
    <3>3. Cardinality(old) + 0 = Cardinality(old)
      BY <1>5
    <3> QED
      BY <2>2, <3>2, <3>3
  <2> QED
    BY <2>1, <2>2
<1> QED
  BY <1>1, <1>2, <1>5, <1>7 DEF AsBefore

LEMMA RunTrialKeeps == ASSUME LabInv, NEW p \in Labs, NEW s \in TrialStatus, RunTrial(p, s) PROVE LabInv'
<1> PICK b \in Baselines : b = lab[p].baseline
  BY JobOf
<1> PICK n \in Nat : n = lab[p].next - 1
  BY JobOf, LabAssumed DEF LabJob
<1> PICK j : j = [lab[p] EXCEPT !.next = n + 2, !.failures = @ + (IF s = "FAILED" THEN 1 ELSE 0)]
  OBVIOUS
<1>1. /\ lab[p] \in LabJob /\ lab[p].next = n + 1 /\ n + 1 <= Trials /\ lab[p].pc = "trials"
      /\ UNCHANGED <<control, experiment, analyzed>>
  BY JobOf, LabAssumed DEF RunTrial, LabJob
<1>2. DOMAIN trial[b] = 1..n /\ analyzed[b] = "none" /\ lab[p].failures = FailedBefore(b, n + 1)
  BY <1>1 DEF LabInv, TrialInv, CountsTrials
<1>3. n + 1 \notin DOMAIN trial[b]
  BY <1>2
<1>4. /\ trial' = [trial EXCEPT ![b] = [k \in DOMAIN @ \cup {n + 1} |-> IF k = n + 1 THEN s ELSE @[k]]]
      /\ lab' = [lab EXCEPT ![p].next = @ + 1, ![p].failures = @ + (IF s = "FAILED" THEN 1 ELSE 0)]
  BY <1>1, <1>3 DEF RunTrial, AddTrial
<1>5. DOMAIN trial = Baselines /\ lab \in [Labs -> LabJob]
  BY DEF LabInv, LabTypeOK
<1>6. /\ trial'[b] = [k \in DOMAIN trial[b] \cup {n + 1} |-> IF k = n + 1 THEN s ELSE trial[b][k]]
      /\ \A c \in Baselines \ {b} : trial'[c] = trial[c]
      /\ DOMAIN trial' = Baselines
  BY <1>4, <1>5
<1> DEFINE failed == {k \in 1..n : trial[b][k] = "FAILED"}
<1>7. /\ DOMAIN trial'[b] = 1..(n + 1) /\ trial'[b][n + 1] = s /\ \A k \in 1..n : trial'[b][k] = trial[b][k]
      /\ \A m \in 1..(n + 1) :
            {k \in 1..(m - 1) : trial'[b][k] = "FAILED"} = {k \in 1..(m - 1) : trial[b][k] = "FAILED"}
      /\ Cardinality(failed) \in 0..n
      /\ Cardinality({k \in 1..(n + 1) : trial'[b][k] = "FAILED"}) =
            Cardinality(failed) + (IF s = "FAILED" THEN 1 ELSE 0)
  <2> PICK f : f = trial[b]
    OBVIOUS
  <2> PICK g : g = trial'[b]
    OBVIOUS
  <2>1. DOMAIN f = 1..n /\ g = OneMore(f, n, s)
    BY <1>2, <1>6 DEF OneMore
  <2>2. AsBefore(f, g, n, s)
    BY <2>1, OneMoreTrial
  <2> QED
    BY <2>2 DEF AsBefore
<1>8. lab[p].failures = Cardinality(failed)
  <2>1. 1..((n + 1) - 1) = 1..n
    OBVIOUS
  <2> QED
    BY <1>2, <2>1 DEF FailedBefore
<1>9. lab' = [lab EXCEPT ![p] = j] /\ j \in LabJob /\ j.pc = "trials" /\ j.baseline = b /\ j.mine = lab[p].mine
      /\ j.next = n + 2 /\ j.failures = Cardinality(failed) + (IF s = "FAILED" THEN 1 ELSE 0)
  <2>1. (n + 1) + 1 = n + 2
    OBVIOUS
  <2>2. lab' = [lab EXCEPT ![p] = j]
    BY <1>1, <1>4, <1>5, <2>1
  <2>3. n + 2 \in 1..(Trials + 1) /\ Cardinality(failed) + (IF s = "FAILED" THEN 1 ELSE 0) \in 0..Trials
    <3> DEFINE c == Cardinality(failed)
               one == IF s = "FAILED" THEN 1 ELSE 0
    <3>1. c \in 0..n /\ one \in 0..1 /\ n + 1 <= Trials /\ Trials \in Nat
      BY <1>1, <1>7, LabAssumed
    <3> HIDE DEF c, one
    <3>2. n + 2 \in 1..(Trials + 1) /\ c + one \in 0..Trials
      BY <3>1
    <3> QED
      BY <3>2 DEF c, one
  <2> QED
    BY <1>1, <1>8, <2>2, <2>3 DEF LabJob
<1>10. lab' \in [Labs -> LabJob] /\ lab'[p] = j /\ \A q \in Labs \ {p} : lab'[q] = lab[q]
  BY <1>9, OneLabMoves
<1>11. lab[p].mine /\ experiment[b] = "RUNNING"
  BY <1>1 DEF LabInv, OwnerInv, OwnsOrLooks
<1>12. LabTypeOK'
  <2>1. \E k \in 0..Trials : trial'[b] \in [1..k -> TrialStatus]
    <3>1. PICK k \in 0..Trials : trial[b] \in [1..k -> TrialStatus]
      BY DEF LabInv, LabTypeOK
    <3>2. \A i \in 1..n : trial[b][i] \in TrialStatus
      BY <1>2, <3>1
    <3>3. trial'[b] \in [1..(n + 1) -> TrialStatus]
      <4>1. DOMAIN trial[b] \cup {n + 1} = 1..(n + 1)
        BY <1>2
      <4>2. trial'[b] = [i \in 1..(n + 1) |-> IF i = n + 1 THEN s ELSE trial[b][i]]
        BY <1>6, <4>1
      <4>3. \A i \in 1..(n + 1) : i = n + 1 \/ i \in 1..n
        OBVIOUS
      <4>4. \A i \in 1..(n + 1) : (IF i = n + 1 THEN s ELSE trial[b][i]) \in TrialStatus
        BY <3>2, <4>3
      <4> QED
        BY <4>2, <4>4
    <3> QED
      BY <1>1, <3>3, LabAssumed
  <2>2. \A c \in Baselines : \E k \in 0..Trials : trial'[c] \in [1..k -> TrialStatus]
    BY <1>6, <2>1 DEF LabInv, LabTypeOK
  <2> QED
    BY <1>1, <1>6, <1>10, <2>2 DEF LabInv, LabTypeOK
<1>13. OwnerInv'
  <2>1. \A q \in Labs : lab'[q].mine = lab[q].mine /\ lab'[q].baseline = lab[q].baseline /\ lab'[q].pc = lab[q].pc
    BY <1>1, <1>9, <1>10
  <2>2. \A q \in Labs : OwnsOrLooks(q)'
    BY <1>1, <2>1 DEF LabInv, OwnerInv, OwnsOrLooks
  <2> QED
    BY <2>1, <2>2 DEF LabInv, OwnerInv
<1>14. TrialInv'
  <2>1. CountsTrials(p)'
    <3>1. /\ lab'[p].next - 1 = n + 1 /\ lab'[p].pc = "trials" /\ lab'[p].baseline = b
          /\ lab'[p].failures = Cardinality({k \in 1..(n + 1) : trial'[b][k] = "FAILED"})
      BY <1>7, <1>9, <1>10
    <3>2. FailedBefore(b, lab[p].next)' = Cardinality({k \in 1..(n + 1) : trial'[b][k] = "FAILED"})
      BY <3>1 DEF FailedBefore
    <3>3. DOMAIN trial'[b] = 1..(lab'[p].next - 1) /\ analyzed'[b] = "none"
      BY <1>1, <1>2, <1>7, <3>1
    <3>4. lab'[p].failures = FailedBefore(b, lab[p].next)'
      BY <3>1, <3>2
    <3> QED
      BY <3>1, <3>3, <3>4 DEF CountsTrials, FailedBefore
  <2>2. ASSUME NEW q \in Labs \ {p} PROVE CountsTrials(q)'
    <3>1. CASE lab[q].baseline # b
      BY <1>1, <1>6, <1>10, <3>1, CountsKept, JobOf
    <3>2. CASE lab[q].baseline = b
      <4>1. ~lab[q].mine
        BY <1>11, <3>2 DEF LabInv, OwnerInv
      <4>2. lab[q].pc \notin {"trials", "analysis", "close"}
        BY <4>1 DEF LabInv, OwnerInv, OwnsOrLooks
      <4> QED
        BY <1>10, <4>2 DEF LabInv, TrialInv, CountsTrials
    <3> QED
      BY <3>1, <3>2
  <2> QED
    BY <1>1, <1>6, <1>11, <2>1, <2>2 DEF LabInv, TrialInv
<1>15. EndedExperimentIsWhole'
  <2>1. ASSUME NEW m \in 1..(n + 1)
        PROVE  FailedBefore(b, m)' = FailedBefore(b, m)
    BY <1>7 DEF FailedBefore
  <2>2. ASSUME NEW m \in DOMAIN trial'[b]
        PROVE  (trial'[b][m] = "SKIPPED") <=> FailedBefore(b, m)' >= MaxFailed
    <3>1. CASE m \in 1..n
      BY <1>2, <1>7, <2>1, <3>1 DEF LabInv, EndedExperimentIsWhole
    <3>2. CASE m = n + 1
      <4>1. (s = "SKIPPED") <=> lab[p].failures >= MaxFailed
        BY DEF RunTrial, GivenUp
      <4> QED
        BY <1>2, <1>7, <2>1, <3>2, <4>1
    <3> QED
      BY <1>7, <3>1, <3>2
  <2>3. ASSUME NEW c \in Baselines, c # b
        PROVE  /\ Terminal(c)' => DOMAIN trial'[c] = 1..Trials /\ analyzed'[c] = experiment'[c]
               /\ \A m \in DOMAIN trial'[c] : (trial'[c][m] = "SKIPPED") <=> FailedBefore(c, m)' >= MaxFailed
    BY <1>1, <1>6, <2>3 DEF LabInv, EndedExperimentIsWhole, Terminal, FailedBefore
  <2>4. ~Terminal(b)'
    BY <1>1, <1>11 DEF Terminal
  <2> QED
    BY <2>2, <2>3, <2>4 DEF EndedExperimentIsWhole, Terminal
<1> QED
  BY <1>12, <1>13, <1>14, <1>15 DEF LabInv

\* The process of a running experiment goes on with all trials on record.
LEMMA WorksOnKeeps ==
    ASSUME LabInv, NEW p \in Labs, NEW b \in Baselines, b = lab[p].baseline, lab[p].pc \in {"trials", "analysis"},
           NEW j \in LabJob, lab' = [lab EXCEPT ![p] = j], j.baseline = b, j.mine = lab[p].mine,
           UNCHANGED <<control, experiment, trial>>, DOMAIN trial[b] = 1..Trials,
           analyzed' \in [Baselines -> {"none", "COMPLETED", "FAILED"}],
           \A c \in Baselines \ {b} : analyzed'[c] = analyzed[c],
           \/ j.pc = "analysis" /\ analyzed'[b] = "none"
           \/ j.pc = "close" /\ analyzed'[b] = j.analysis
    PROVE  LabInv'
<1>1. lab' \in [Labs -> LabJob] /\ lab'[p] = j /\ \A q \in Labs \ {p} : lab'[q] = lab[q]
  BY OneLabMoves
<1>2. lab[p].mine /\ experiment[b] = "RUNNING"
  BY DEF LabInv, OwnerInv, OwnsOrLooks
<1>3. LabTypeOK'
  BY <1>1 DEF LabInv, LabTypeOK
<1>4. OwnerInv'
  <2>1. \A q \in Labs : lab'[q].mine = lab[q].mine /\ lab'[q].baseline = lab[q].baseline
    BY <1>1
  <2>2. ASSUME NEW q \in Labs PROVE OwnsOrLooks(q)'
    <3>1. CASE q = p
      <4>1. lab'[q].pc \in {"analysis", "close"} /\ lab'[q].mine /\ lab'[q].baseline = b /\ experiment'[b] = "RUNNING"
        BY <1>1, <1>2, <3>1
      <4> QED
        BY <4>1 DEF OwnsOrLooks
    <3>2. CASE q # p
      BY <1>1, <3>2 DEF LabInv, OwnerInv, OwnsOrLooks
    <3> QED
      BY <3>1, <3>2
  <2> QED
    BY <2>1, <2>2 DEF LabInv, OwnerInv
<1>5. TrialInv'
  <2>1. CountsTrials(p)'
    BY <1>1 DEF CountsTrials
  <2>2. ASSUME NEW q \in Labs \ {p} PROVE CountsTrials(q)'
    <3>1. CASE lab[q].baseline # b
      BY <1>1, <3>1, CountsKept, JobOf
    <3>2. CASE lab[q].baseline = b
      <4>1. ~lab[q].mine
        BY <1>2, <3>2 DEF LabInv, OwnerInv
      <4>2. lab[q].pc \notin {"trials", "analysis", "close"}
        BY <4>1 DEF LabInv, OwnerInv, OwnsOrLooks
      <4> QED
        BY <1>1, <4>2 DEF LabInv, TrialInv, CountsTrials
    <3> QED
      BY <3>1, <3>2
  <2>3. \A c \in Baselines : experiment'[c] \in {"ABSENT", "DRAFT", "READY"} => c # b
    BY <1>2
  <2> QED
    BY <2>1, <2>2, <2>3 DEF LabInv, TrialInv
<1>6. EndedExperimentIsWhole'
  <2>1. \A c \in Baselines : experiment'[c] \in {"COMPLETED", "FAILED"} =>
          DOMAIN trial[c] = 1..Trials /\ analyzed'[c] = experiment'[c]
    BY <1>2 DEF LabInv, EndedExperimentIsWhole, Terminal
  <2> QED
    BY <1>3, <2>1, EndedKept DEF LabTypeOK
<1> QED
  BY <1>3, <1>4, <1>5, <1>6 DEF LabInv

LEMMA RunAnalysisKeeps ==
    ASSUME LabInv, NEW p \in Labs, NEW s \in {"COMPLETED", "FAILED"}, RunAnalysis(p, s) PROVE LabInv'
<1> PICK b \in Baselines : b = lab[p].baseline
  BY JobOf
<1> PICK j : j = [lab[p] EXCEPT !.pc = "analysis", !.analysis = s]
  OBVIOUS
<1>1. /\ lab[p] \in LabJob /\ lab[p].next = Trials + 1 /\ lab[p].pc = "trials" /\ lab' = [lab EXCEPT ![p] = j]
      /\ UNCHANGED <<control, experiment, trial, analyzed>>
  BY JobOf DEF RunAnalysis, Turn
<1>2. j \in LabJob /\ j.pc = "analysis" /\ j.baseline = b /\ j.mine = lab[p].mine
  BY <1>1 DEF LabJob
<1>3. DOMAIN trial[b] = 1..Trials /\ analyzed[b] = "none"
  <2>1. DOMAIN trial[b] = 1..(lab[p].next - 1) /\ analyzed[b] = "none"
    BY <1>1 DEF LabInv, TrialInv, CountsTrials
  <2>2. (Trials + 1) - 1 = Trials
    BY LabAssumed
  <2> QED
    BY <1>1, <2>1, <2>2
<1>4. analyzed' \in [Baselines -> {"none", "COMPLETED", "FAILED"}]
      /\ \A c \in Baselines \ {b} : analyzed'[c] = analyzed[c]
  BY <1>1 DEF LabInv, LabTypeOK
<1> QED
  BY <1>1, <1>2, <1>3, <1>4, WorksOnKeeps

LEMMA AddAnalysisKeeps == ASSUME LabInv, NEW p \in Labs, AddAnalysis(p) PROVE LabInv'
<1> PICK b \in Baselines : b = lab[p].baseline
  BY JobOf
<1> PICK j : j = [lab[p] EXCEPT !.pc = "close"]
  OBVIOUS
<1>1. /\ lab[p] \in LabJob /\ lab[p].pc = "analysis" /\ UNCHANGED <<control, experiment, trial>>
      /\ analyzed[b] = "none" /\ DOMAIN trial[b] = 1..Trials
  BY JobOf DEF AddAnalysis, LabInv, TrialInv, CountsTrials
<1>2. analyzed' = [analyzed EXCEPT ![b] = lab[p].analysis] /\ lab' = [lab EXCEPT ![p] = j]
  BY <1>1 DEF AddAnalysis, LabInv, LabTypeOK
<1>3. j \in LabJob /\ j.pc = "close" /\ j.baseline = b /\ j.mine = lab[p].mine /\ j.analysis = lab[p].analysis
  BY <1>1 DEF LabJob
<1>4. /\ analyzed' \in [Baselines -> {"none", "COMPLETED", "FAILED"}] /\ analyzed'[b] = j.analysis
      /\ \A c \in Baselines \ {b} : analyzed'[c] = analyzed[c]
  BY <1>1, <1>2, <1>3 DEF LabInv, LabTypeOK, LabJob
<1>5. \/ j.pc = "analysis" /\ analyzed'[b] = "none"
      \/ j.pc = "close" /\ analyzed'[b] = j.analysis
  BY <1>3, <1>4
<1>6. lab[p].pc \in {"trials", "analysis"} /\ DOMAIN trial[b] = 1..Trials /\ UNCHANGED <<control, experiment, trial>>
  BY <1>1
<1>7. /\ analyzed' \in [Baselines -> {"none", "COMPLETED", "FAILED"}]
      /\ \A c \in Baselines \ {b} : analyzed'[c] = analyzed[c]
  BY <1>4
<1>8. b = lab[p].baseline /\ j \in LabJob /\ lab' = [lab EXCEPT ![p] = j] /\ j.baseline = b /\ j.mine = lab[p].mine
  BY <1>2, <1>3
<1> QED
  BY <1>5, <1>6, <1>7, <1>8, WorksOnKeeps

LEMMA LabInvStep == ASSUME LabInv, [LabNext]_labVars PROVE LabInv'
<1>1. ASSUME NEW p \in Labs, MakeReady(p) PROVE LabInv'
  BY <1>1, UpdateKeeps DEF MakeReady
<1>2. ASSUME NEW p \in Labs, MakeRunning(p) PROVE LabInv'
  BY <1>2, UpdateKeeps DEF MakeRunning
<1>3. ASSUME NEW p \in Labs, CloseExperiment(p) PROVE LabInv'
  BY <1>3, UpdateKeeps DEF CloseExperiment
<1>4. ASSUME NEW p \in Labs, Work(p) PROVE LabInv'
  BY <1>1, <1>2, <1>3, <1>4, EnsureKeeps, AddExperimentKeeps, RunTrialKeeps, RunAnalysisKeeps, AddAnalysisKeeps
     DEF Work
<1>5. CASE LabNext
  BY <1>4, <1>5, BaselineKeeps, LabKilledKeeps DEF LabNext
<1>6. CASE UNCHANGED labVars
  <2>1. UNCHANGED <<control, experiment, trial, analyzed, lab>>
    BY <1>6 DEF labVars
  <2>2. LabTypeOK'
    BY <2>1 DEF LabInv, LabTypeOK
  <2>3. OwnerInv'
    BY <2>1 DEF LabInv, OwnerInv, OwnsOrLooks
  <2>4. TrialInv'
    BY <2>1, CountsKept DEF LabInv, TrialInv
  <2>5. EndedExperimentIsWhole'
    BY <2>1, EndedKept DEF LabInv, LabTypeOK, EndedExperimentIsWhole, Terminal
  <2> QED
    BY <2>2, <2>3, <2>4, <2>5 DEF LabInv
<1> QED
  BY <1>5, <1>6

\* Whatever the processes do and wherever they die: each record of a fault experiment is what
\* it says.
THEOREM LabInductive == LabSpec => []LabInv
<1>1. LabInit => LabInv
  BY LabInitial
<1>2. LabInv /\ [LabNext]_labVars => LabInv'
  BY LabInvStep
<1> QED
  BY <1>1, <1>2, PTL DEF LabSpec

\* An experiment that ended has all its trials and the analysis it says it has; its trials were
\* skipped exactly after max_failed_trials failures.
THEOREM EndedWhole == LabSpec => []EndedExperimentIsWhole
<1>1. LabInv => EndedExperimentIsWhole
  BY DEF LabInv
<1> QED
  BY <1>1, LabInductive, PTL

\* Of the processes that work on one experiment at most one got past READY.
THEOREM OneLabWorks == LabSpec => []OneLabPerExperiment
<1>1. LabInv => OneLabPerExperiment
  <2> SUFFICES ASSUME LabInv, NEW b \in Baselines, NEW p \in Labs, NEW q \in Labs,
                      lab[p].pc \in {"trials", "analysis", "close"}, lab[q].pc \in {"trials", "analysis", "close"},
                      lab[p].baseline = b, lab[q].baseline = b
               PROVE  p = q
    BY DEF OneLabPerExperiment
  <2>1. lab[p].mine /\ lab[q].mine
    BY DEF LabInv, OwnerInv, OwnsOrLooks
  <2> QED
    BY <2>1 DEF LabInv, OwnerInv
<1> QED
  BY <1>1, LabInductive, PTL
-----------------------------------------------------------------------------
\* What a process has executed so far rests on the one baseline it has.
ExecutedOK(x) ==
    /\ x \in Executed /\ x.baseline \in 0..baselines
    /\ \A e \in Experiments : x.fx[e] # NoFaultRun => x.baseline # 0 /\ x.fx[e].baseline = x.baseline
    /\ \A s \in ElementsOf(Stages) : x.analyses[s] # "none" => \A e \in Requires[s] : x.fx[e] # NoFaultRun

RunnerOK(r) ==
    /\ ExecutedOK(runner[r].executed) /\ runner[r].next \in Nat \ {0}
    /\ runner[r].pc \in {"cells", "stages", "collect"} => runner[r].executed.baseline # 0

RunnerJob ==
    [pc : {"idle", "grids", "cells", "stages", "collect", "dead"}, next : Nat, executed : Executed]

BenchmarkInv ==
    /\ baselines \in Nat /\ runner \in [Runners -> RunnerJob]
    /\ \A r \in Runners : RunnerOK(r)
    /\ CompleteIsEarned

LEMMA NothingOK == ASSUME baselines \in Nat PROVE ExecutedOK(Nothing) /\ Nothing.baseline = 0
<1>1. NoFaultRun \in FaultRun
  BY DEF NoFaultRun, FaultRun
<1>2. Nothing \in Executed
  BY <1>1 DEF Nothing, Executed, Analysis
<1> QED
  BY <1>2 DEF ExecutedOK, Nothing

LEMMA IdleRunnerOK ==
    ASSUME baselines \in Nat PROVE IdleRunner \in RunnerJob /\ ExecutedOK(IdleRunner.executed) /\ IdleRunner.next = 1
  BY NothingOK DEF IdleRunner, RunnerJob, ExecutedOK

LEMMA ItemOf ==
    /\ \A i \in Nat \ {0} : i <= Len(Grids) => Grids[i] \in Experiments
    /\ \A i \in Nat \ {0} : i <= Len(Cells) => Cells[i] \in Experiments
    /\ \A i \in Nat \ {0} : i <= Len(Stages) => Stages[i] \in ElementsOf(Stages)
<1>1. Len(Grids) \in Nat /\ Len(Cells) \in Nat /\ Len(Stages) \in Nat
  BY BenchmarkAssumption
<1> QED
  BY <1>1 DEF Experiments, ElementsOf

\* One process moves, with what it has executed resting on its baseline, and no result is added.
LEMMA RunnerMoves ==
    ASSUME BenchmarkInv, NEW r \in Runners, NEW j \in RunnerJob, runner' = [runner EXCEPT ![r] = j],
           baselines' \in Nat, baselines' >= baselines, UNCHANGED results,
           ExecutedOK(j.executed)', j.next # 0,
           j.pc \in {"cells", "stages", "collect"} => j.executed.baseline # 0
    PROVE  BenchmarkInv'
<1>1. runner' \in [Runners -> RunnerJob] /\ runner'[r] = j /\ \A q \in Runners \ {r} : runner'[q] = runner[q]
  BY DEF BenchmarkInv
<1>2. ASSUME NEW q \in Runners PROVE RunnerOK(q)'
  <2>1. CASE q = r
    BY <1>1, <2>1 DEF RunnerOK, RunnerJob, ExecutedOK
  <2>2. CASE q # r
    <3>1. RunnerOK(q) /\ runner'[q] = runner[q]
      BY <1>1, <2>2 DEF BenchmarkInv
    <3>2. \A x : x.baseline \in 0..baselines => x.baseline \in 0..baselines'
      BY DEF BenchmarkInv
    <3> QED
      BY <3>1, <3>2 DEF RunnerOK, ExecutedOK
  <2> QED
    BY <2>1, <2>2
<1>3. CompleteIsEarned'
  <2>1. \A x \in results : x.executed.baseline \in 1..baselines => x.executed.baseline \in 1..baselines'
    BY DEF BenchmarkInv
  <2> QED
    BY <2>1 DEF BenchmarkInv, CompleteIsEarned
<1> QED
  BY <1>1, <1>2, <1>3 DEF BenchmarkInv

\* A process that is done with what it executed.
LEMMA RunnerEnds ==
    ASSUME BenchmarkInv, NEW r \in Runners, NEW pc \in {"idle", "grids", "dead"},
           runner' = [runner EXCEPT ![r] = [IdleRunner EXCEPT !.pc = pc]], UNCHANGED <<baselines, results>>
    PROVE  BenchmarkInv'
<1> DEFINE j == [IdleRunner EXCEPT !.pc = pc]
<1>1. j \in RunnerJob /\ j.next = 1 /\ j.pc = pc /\ j.executed = IdleRunner.executed
  BY IdleRunnerOK DEF BenchmarkInv, RunnerJob
<1>2. ExecutedOK(j.executed)'
  BY <1>1, IdleRunnerOK DEF BenchmarkInv, ExecutedOK
<1>3. baselines' \in Nat /\ baselines' >= baselines
  BY DEF BenchmarkInv
<1>4. runner' = [runner EXCEPT ![r] = j] /\ j.next # 0 /\ j.pc \notin {"cells", "stages", "collect"}
  BY <1>1
<1> HIDE DEF j
<1> QED
  BY <1>1, <1>2, <1>3, <1>4, RunnerMoves

LEMMA LaunchMadeKeeps ==
    ASSUME BenchmarkInv, NEW r \in Runners, NEW e \in Experiments, NEW ts \in TrialMixes, LaunchMade(r, e, ts),
           runner[r].pc \in {"grids", "cells"}
    PROVE  BenchmarkInv'
<1> PICK x \in Executed : x = runner[r].executed
  BY DEF BenchmarkInv, RunnerJob
<1> PICK b : b = BaselineFor(r)
  OBVIOUS
<1> PICK y : y = [x EXCEPT !.baseline = b, !.fx[e] = [baseline |-> b, trials |-> ts]]
  OBVIOUS
<1> PICK j : j = Done(r, y)
  OBVIOUS
<1>1. runner[r] \in RunnerJob /\ RunnerOK(r) /\ ExecutedOK(x) /\ baselines \in Nat /\ x.baseline \in Nat
  BY DEF BenchmarkInv, RunnerOK, Executed
<1>2. b \in Nat \ {0} /\ (x.baseline # 0 => b = x.baseline) /\ (x.baseline = 0 => b = baselines + 1)
  BY <1>1 DEF BaselineFor
<1>3. /\ baselines' = (IF b > baselines THEN b ELSE baselines) /\ UNCHANGED results
      /\ runner' = [runner EXCEPT ![r] = j]
  <2>1. runner[r].executed = x /\ runner \in [Runners -> RunnerJob]
    BY DEF BenchmarkInv
  <2> QED
    BY <2>1 DEF LaunchMade
<1>4. baselines' \in Nat /\ baselines' >= baselines /\ b \in 0..baselines'
  BY <1>1, <1>2, <1>3
<1>5. [baseline |-> b, trials |-> ts] \in FaultRun /\ [baseline |-> b, trials |-> ts] # NoFaultRun
  <2>1. ts \in SUBSET TrialOutcome
    BY BenchmarkAssumption
  <2> QED
    BY <1>2, <2>1 DEF FaultRun, NoFaultRun
<1>6. /\ y \in Executed /\ y.baseline = b /\ y.analyses = x.analyses
      /\ y.fx[e] = [baseline |-> b, trials |-> ts] /\ \A d \in Experiments \ {e} : y.fx[d] = x.fx[d]
  BY <1>2, <1>5 DEF Executed
<1>7. ExecutedOK(y)'
  <2>1. \A d \in Experiments : y.fx[d] # NoFaultRun => y.baseline # 0 /\ y.fx[d].baseline = y.baseline
    BY <1>1, <1>2, <1>6 DEF ExecutedOK
  <2>2. \A d \in Experiments : x.fx[d] # NoFaultRun => y.fx[d] # NoFaultRun
    BY <1>5, <1>6
  <2>3. \A s \in ElementsOf(Stages) : y.analyses[s] # "none" => \A d \in Requires[s] : y.fx[d] # NoFaultRun
    BY <1>1, <1>6, <2>2, BenchmarkAssumption DEF ExecutedOK
  <2> QED
    BY <1>4, <1>6, <2>1, <2>3 DEF ExecutedOK
<1>8. j.next = runner[r].next + 1 /\ j.executed = y /\ j.pc = runner[r].pc
  BY <1>1 DEF RunnerJob, Done
<1>9. j \in RunnerJob /\ j.next # 0
  <2>1. runner[r].next + 1 \in Nat /\ runner[r].next + 1 # 0
    BY <1>1 DEF RunnerOK
  <2>2. y \in Executed
    BY <1>6
  <2> QED
    BY <1>1, <1>8, <2>1, <2>2 DEF RunnerJob, Done
<1>10. ExecutedOK(j.executed)' /\ j.executed.baseline # 0
  BY <1>2, <1>6, <1>7, <1>8
<1> QED
  BY <1>3, <1>4, <1>9, <1>10, RunnerMoves

\* The next experiment or stage; what was executed stays.
LEMMA SkipKeeps ==
    ASSUME BenchmarkInv, NEW r \in Runners, NEW pc \in {"grids", "cells", "stages", "collect"}, NEW next \in Nat \ {0},
           runner' = [runner EXCEPT ![r] = [runner[r] EXCEPT !.pc = pc, !.next = next]],
           UNCHANGED results, baselines' \in Nat, baselines' >= baselines,
           pc = "grids" \/ runner[r].executed.baseline # 0
    PROVE  BenchmarkInv'
<1> PICK j : j = [runner[r] EXCEPT !.pc = pc, !.next = next]
  OBVIOUS
<1>1. runner[r] \in RunnerJob /\ ExecutedOK(runner[r].executed) /\ baselines \in Nat
  BY DEF BenchmarkInv, RunnerOK
<1>2. j \in RunnerJob /\ j.next = next /\ j.pc = pc /\ j.executed = runner[r].executed
  BY <1>1 DEF RunnerJob
<1>3. ExecutedOK(j.executed)'
  <2>1. j.executed.baseline \in 0..baselines'
    BY <1>1, <1>2 DEF ExecutedOK
  <2> QED
    BY <1>1, <1>2, <2>1 DEF ExecutedOK
<1> QED
  BY <1>2, <1>3, RunnerMoves

LEMMA LaunchKeeps == ASSUME BenchmarkInv, NEW r \in Runners, LaunchGrid(r) \/ LaunchCell(r) PROVE BenchmarkInv'
<1>1. runner[r] \in RunnerJob /\ RunnerOK(r) /\ baselines \in Nat
  BY DEF BenchmarkInv
<1>2. runner[r].next \in Nat \ {0} /\ runner[r].pc \in {"grids", "cells"}
  BY <1>1 DEF RunnerOK, LaunchGrid, LaunchCell, Running
<1>3. CASE \E e \in Experiments, ts \in TrialMixes : LaunchMade(r, e, ts)
  BY <1>2, <1>3, LaunchMadeKeeps
<1>4. CASE \E orphan \in BOOLEAN : LaunchRaises(r, orphan)
  <2>1. /\ runner' = [runner EXCEPT ![r] = [runner[r] EXCEPT !.pc = runner[r].pc, !.next = runner[r].next + 1]]
        /\ UNCHANGED results /\ baselines' \in Nat /\ baselines' >= baselines
    <3>1. runner' = [runner EXCEPT ![r] = Done(r, runner[r].executed)] /\ UNCHANGED results
      BY <1>4 DEF LaunchRaises
    <3>2. Done(r, runner[r].executed) = [runner[r] EXCEPT !.pc = runner[r].pc, !.next = runner[r].next + 1]
      BY <1>1 DEF RunnerJob, Done
    <3>3. baselines' \in Nat /\ baselines' >= baselines
      BY <1>1, <1>4 DEF LaunchRaises
    <3> QED
      BY <3>1, <3>2, <3>3
  <2>2. runner[r].pc = "grids" \/ runner[r].executed.baseline # 0
    BY <1>1, <1>2 DEF RunnerOK
  <2>3. runner[r].next + 1 \in Nat \ {0}
    BY <1>2
  <2> QED
    BY <1>2, <2>1, <2>2, <2>3, SkipKeeps
<1>5. CASE LaunchGrid(r)
  <2>1. Grids[runner[r].next] \in Experiments
    BY <1>2, <1>5, ItemOf DEF LaunchGrid, Running
  <2> QED
    BY <1>3, <1>4, <1>5, <2>1 DEF LaunchGrid
<1>6. CASE LaunchCell(r)
  <2>1. Cells[runner[r].next] \in Experiments
    BY <1>2, <1>6, ItemOf DEF LaunchCell, Running
  <2> QED
    BY <1>3, <1>4, <1>6, <2>1 DEF LaunchCell
<1> QED
  BY <1>5, <1>6

LEMMA AdvanceKeeps ==
    ASSUME BenchmarkInv, NEW r \in Runners, NEW from, NEW items, NEW to \in {"cells", "stages", "collect"},
           Advance(r, from, items, to)
    PROVE  BenchmarkInv'
<1>1. UNCHANGED <<baselines, results>> /\ baselines \in Nat /\ runner \in [Runners -> RunnerJob]
  BY DEF Advance, BenchmarkInv
<1>2. CASE runner[r].executed.baseline = 0
  <2>1. runner' = [runner EXCEPT ![r] = IdleRunner]
    BY <1>1, <1>2 DEF Advance
  <2>2. IdleRunner = [IdleRunner EXCEPT !.pc = "idle"]
    BY DEF IdleRunner
  <2> QED
    BY <1>1, <2>1, <2>2, RunnerEnds
<1>3. CASE runner[r].executed.baseline # 0
  <2> PICK pc \in {"grids", "cells", "stages", "collect"} : pc = to
    OBVIOUS
  <2> PICK next \in Nat \ {0} : next = 1
    OBVIOUS
  <2>1. runner' = [runner EXCEPT ![r] = [runner[r] EXCEPT !.pc = pc, !.next = next]]
    BY <1>1, <1>3 DEF Advance
  <2>2. baselines' \in Nat /\ baselines' >= baselines /\ UNCHANGED results
    BY <1>1
  <2> QED
    BY <1>3, <2>1, <2>2, SkipKeeps
<1> QED
  BY <1>2, <1>3

LEMMA RunStageKeeps == ASSUME BenchmarkInv, NEW r \in Runners, NEW found \in Analysis, RunStage(r, found) PROVE BenchmarkInv'
<1> PICK x \in Executed : x = runner[r].executed
  BY DEF BenchmarkInv, RunnerJob
<1> PICK s : s = Stages[runner[r].next]
  OBVIOUS
<1> PICK y : y = [x EXCEPT !.analyses[s] = found]
  OBVIOUS
<1> PICK j : j = Done(r, y)
  OBVIOUS
<1>1. /\ runner[r] \in RunnerJob /\ RunnerOK(r) /\ ExecutedOK(x) /\ baselines \in Nat
      /\ runner[r].next \in Nat \ {0} /\ x.baseline # 0
  BY DEF BenchmarkInv, RunnerOK, RunStage, Running
<1>2. s \in ElementsOf(Stages)
  BY <1>1, ItemOf DEF RunStage, Running
<1>3. UNCHANGED <<baselines, results>> /\ (Possible(r, s) \/ found = "none")
  BY DEF RunStage
<1>4. runner' = [runner EXCEPT ![r] = j]
  <2>1. runner[r].executed = x /\ runner \in [Runners -> RunnerJob]
    BY DEF BenchmarkInv
  <2> QED
    BY <2>1 DEF RunStage
<1>5. /\ y \in Executed /\ y.baseline = x.baseline /\ y.fx = x.fx
      /\ y.analyses[s] = found /\ \A z \in ElementsOf(Stages) \ {s} : y.analyses[z] = x.analyses[z]
  BY <1>2 DEF Executed
<1>6. ExecutedOK(y)'
  <2>1. \A z \in ElementsOf(Stages) : y.analyses[z] # "none" => \A d \in Requires[z] : y.fx[d] # NoFaultRun
    BY <1>1, <1>3, <1>5 DEF ExecutedOK, Possible
  <2> QED
    BY <1>1, <1>3, <1>5, <2>1 DEF ExecutedOK
<1>7. j.next = runner[r].next + 1 /\ j.executed = y /\ j.pc = runner[r].pc
  BY <1>1 DEF RunnerJob, Done
<1>8. j \in RunnerJob /\ j.next # 0
  <2>1. runner[r].next + 1 \in Nat /\ runner[r].next + 1 # 0
    BY <1>1
  <2>2. y \in Executed
    BY <1>5
  <2> QED
    BY <1>1, <1>7, <2>1, <2>2 DEF RunnerJob, Done
<1>9. ExecutedOK(j.executed)' /\ j.executed.baseline # 0
  BY <1>1, <1>5, <1>6, <1>7
<1>10. baselines' \in Nat /\ baselines' >= baselines
  BY <1>1, <1>3
<1> QED
  BY <1>3, <1>4, <1>8, <1>9, <1>10, RunnerMoves

\* A COMPLETE result has every unit completed, each over the one baseline.
LEMMA EarnedBy ==
    ASSUME NEW x, ExecutedOK(x), NEW readable \in BOOLEAN, coverage_status(x, readable) = "COMPLETE"
    PROVE  /\ Excluded = {}
           /\ \A e \in Experiments : x.fx[e] = [baseline |-> x.baseline, trials |-> {"COMPLETED"}]
           /\ \A s \in ElementsOf(Stages) : x.analyses[s] = "whole"
<1>1. ~UnitsMissing(x) /\ ~AnalysesMissing(x) /\ Excluded = {}
  BY DEF coverage_status
<1>2. ASSUME NEW e \in Experiments PROVE x.fx[e] = [baseline |-> x.baseline, trials |-> {"COMPLETED"}]
  <2>1. x.fx[e] \in FaultRun /\ x.fx[e].trials = {"COMPLETED"}
    BY <1>1 DEF UnitsMissing, ExecutedOK, Executed
  <2>2. x.fx[e] # NoFaultRun
    BY <2>1 DEF NoFaultRun
  <2>3. x.fx[e].baseline = x.baseline
    BY <2>2 DEF ExecutedOK
  <2> QED
    BY <2>1, <2>3 DEF FaultRun
<1> QED
  BY <1>1, <1>2 DEF AnalysesMissing

LEMMA CollectKeeps ==
    ASSUME BenchmarkInv, NEW r \in Runners, NEW readable \in BOOLEAN, Collect(r, readable) PROVE BenchmarkInv'
<1> PICK x : x = runner[r].executed
  OBVIOUS
<1> PICK coverage : coverage = coverage_status(x, readable)
  OBVIOUS
<1>1. ExecutedOK(x) /\ x.baseline # 0 /\ baselines \in Nat
  BY DEF BenchmarkInv, RunnerOK, Collect
<1>2. results' = results \cup {[executed |-> x, coverage |-> coverage]} \/ UNCHANGED results
  BY DEF Collect
<1>3. UNCHANGED baselines /\ runner' = [runner EXCEPT ![r] = [IdleRunner EXCEPT !.pc = "idle"]]
  BY DEF Collect, IdleRunner
<1>4. CompleteIsEarned'
  <2>1. x.baseline \in 1..baselines
    BY <1>1 DEF ExecutedOK, Executed
  <2>2. ASSUME NEW y \in results' PROVE y \in results \/ y = [executed |-> x, coverage |-> coverage]
    BY <1>2
  <2> QED
    BY <1>1, <1>3, <2>1, <2>2, EarnedBy DEF BenchmarkInv, CompleteIsEarned, ExecutedOK
<1>5. runner' \in [Runners -> RunnerJob] /\ \A q \in Runners : RunnerOK(q)'
  <2>1. /\ [IdleRunner EXCEPT !.pc = "idle"] = IdleRunner /\ IdleRunner \in RunnerJob
        /\ ExecutedOK(IdleRunner.executed) /\ IdleRunner.next = 1 /\ IdleRunner.pc = "idle"
    BY <1>1, IdleRunnerOK DEF IdleRunner
  <2>2. runner' = [runner EXCEPT ![r] = IdleRunner] /\ runner \in [Runners -> RunnerJob]
    BY <1>3, <2>1 DEF BenchmarkInv
  <2>3. ASSUME NEW q \in Runners PROVE RunnerOK(q)'
    <3>1. runner'[q] = runner[q] \/ runner'[q] = IdleRunner
      BY <2>2
    <3>2. CASE runner'[q] = runner[q]
      <4>1. RunnerOK(q) /\ UNCHANGED baselines
        BY <1>3 DEF BenchmarkInv
      <4> QED
        BY <3>2, <4>1 DEF RunnerOK, ExecutedOK
    <3>3. CASE runner'[q] = IdleRunner
      <4>1. ExecutedOK(runner'[q].executed) /\ runner'[q].next = 1 /\ runner'[q].pc = "idle"
        BY <2>1, <3>3
      <4> QED
        BY <1>3, <4>1 DEF RunnerOK, ExecutedOK
    <3> QED
      BY <3>1, <3>2, <3>3
  <2> QED
    BY <2>1, <2>2, <2>3
<1> QED
  BY <1>1, <1>3, <1>4, <1>5 DEF BenchmarkInv

LEMMA BenchmarkInvStep == ASSUME BenchmarkInv, [BenchmarkNext]_benchmarkVars PROVE BenchmarkInv'
<1>1. ASSUME NEW r \in Runners, StartBenchmark(r) PROVE BenchmarkInv'
  <2>1. runner' = [runner EXCEPT ![r] = [runner[r] EXCEPT !.pc = "grids", !.next = runner[r].next]]
    BY <1>1 DEF StartBenchmark, BenchmarkInv, RunnerJob
  <2>2. runner[r].next \in Nat \ {0} /\ baselines' \in Nat /\ baselines' >= baselines /\ UNCHANGED results
    BY <1>1 DEF StartBenchmark, BenchmarkInv, RunnerOK
  <2> QED
    BY <2>1, <2>2, SkipKeeps
<1>2. ASSUME NEW r \in Runners, CollectFails(r) PROVE BenchmarkInv'
  <2>1. runner' = [runner EXCEPT ![r] = [IdleRunner EXCEPT !.pc = "idle"]] /\ UNCHANGED <<baselines, results>>
    BY <1>2 DEF CollectFails, IdleRunner
  <2> QED
    BY <2>1, RunnerEnds
<1>3. ASSUME NEW r \in Runners, RunnerKilled(r) PROVE BenchmarkInv'
  BY <1>3, RunnerEnds DEF RunnerKilled
<1>4. CASE BenchmarkNext
  BY <1>1, <1>2, <1>3, <1>4, LaunchKeeps, AdvanceKeeps, RunStageKeeps, CollectKeeps DEF BenchmarkNext
<1>5. CASE UNCHANGED benchmarkVars
  BY <1>5 DEF benchmarkVars, BenchmarkInv, RunnerOK, ExecutedOK, CompleteIsEarned
<1> QED
  BY <1>4, <1>5

\* All that a benchmark result reports was measured against the baseline it names, and it is
\* COMPLETE only when everything it was asked for is there and complete.
THEOREM ResultsEarned == BenchmarkSpec => []CompleteIsEarned
<1>1. BenchmarkInit => BenchmarkInv
  <2> SUFFICES ASSUME BenchmarkInit PROVE BenchmarkInv
    OBVIOUS
  <2>1. IdleRunner \in RunnerJob /\ ExecutedOK(IdleRunner.executed) /\ IdleRunner.next = 1 /\ IdleRunner.pc = "idle"
    BY IdleRunnerOK DEF BenchmarkInit, IdleRunner
  <2> QED
    BY <2>1 DEF BenchmarkInit, BenchmarkInv, RunnerOK, CompleteIsEarned
<1>2. BenchmarkInv /\ [BenchmarkNext]_benchmarkVars => BenchmarkInv'
  BY BenchmarkInvStep
<1>3. BenchmarkInv => CompleteIsEarned
  BY DEF BenchmarkInv
<1> QED
  BY <1>1, <1>2, <1>3, PTL DEF BenchmarkSpec

(***************************************************************************)
(* Stress analyses: the plan, its units in order, and the trial of each.   *)
(***************************************************************************)
LEMMA DivMod ==
    ASSUME NEW a \in Nat, NEW b \in Nat, b # 0
    PROVE  /\ a \div b \in Nat /\ a % b \in Nat /\ a % b < b /\ a = (a \div b) * b + (a % b)
  OBVIOUS

\* Quotient and remainder are the only numbers of their kind.
LEMMA DivIs ==
    ASSUME NEW b \in Nat, NEW q \in Nat, NEW r \in Nat, r < b
    PROVE  /\ q * b + r \in Nat
           /\ (q * b + r) \div b = q /\ (q * b + r) % b = r
<1> DEFINE a == q * b + r
           d == a \div b
           m == a % b
<1>1. a \in Nat /\ b # 0 /\ q * b \in Nat
  OBVIOUS
<1>2. d \in Nat /\ m \in Nat /\ m < b /\ a = d * b + m
  BY <1>1, DivMod
<1>3. a = q * b + r
  OBVIOUS
<1> HIDE DEF a, d, m
<1>4. d * b \in Nat
  BY <1>2
<1>5. ~(d < q)
  <2> SUFFICES ASSUME d < q PROVE FALSE
    OBVIOUS
  <2>1. d * b + b <= q * b
    BY <1>2, Multiples
  <2> QED
    BY <1>1, <1>2, <1>3, <1>4, <2>1
<1>6. ~(q < d)
  <2> SUFFICES ASSUME q < d PROVE FALSE
    OBVIOUS
  <2>1. q * b + b <= d * b
    BY <1>2, Multiples
  <2> QED
    BY <1>1, <1>2, <1>3, <1>4, <2>1
<1>7. d = q
  BY <1>2, <1>5, <1>6
<1>8. m = r
  BY <1>1, <1>2, <1>3, <1>7
<1> QED
  BY <1>1, <1>7, <1>8 DEF a, d, m

LEMMA DivBelow ==
    ASSUME NEW a \in Nat, NEW b \in Nat, NEW q \in Nat, b # 0, a < q * b
    PROVE  a \div b < q
<1> DEFINE d == a \div b
<1>1. d \in Nat /\ d * b \in Nat /\ d * b <= a /\ q * b \in Nat
  <2>1. d \in Nat /\ a % b \in Nat /\ a = d * b + (a % b)
    BY DivMod
  <2>2. d * b \in Nat /\ q * b \in Nat
    BY <2>1
  <2> HIDE DEF d
  <2> QED
    BY <2>1, <2>2
<1> HIDE DEF d
<1>2. ~(q <= d)
  <2> SUFFICES ASSUME q <= d PROVE FALSE
    OBVIOUS
  <2>1. CASE q = d
    BY <1>1, <2>1
  <2>2. CASE q < d
    <3>1. q * b + b <= d * b
      BY <1>1, <2>2, Multiples
    <3> QED
      BY <1>1, <3>1
  <2> QED
    BY <1>1, <2>1, <2>2
<1> QED
  BY <1>1, <1>2 DEF d

LEMMA ApartCounted ==
    ASSUME NEW S, NEW T, IsFiniteSet(S), IsFiniteSet(T), S \cap T = {}
    PROVE  IsFiniteSet(S \cup T) /\ Cardinality(S \cup T) = Cardinality(S) + Cardinality(T)
<1>1. Cardinality(S) \in Nat /\ Cardinality(T) \in Nat
  BY FS_CardinalityType
<1>2. Cardinality(S \cap T) = 0
  BY FS_EmptySet
<1>3. /\ IsFiniteSet(S \cup T)
      /\ Cardinality(S \cup T) = Cardinality(S) + Cardinality(T) - Cardinality(S \cap T)
  BY FS_Union
<1> QED
  BY <1>1, <1>2, <1>3

-----------------------------------------------------------------------------
UnitSet == {Units[k] : k \in DOMAIN Units}

LEMMA PlanTyped ==
    ASSUME plan \in Plans
    PROVE  /\ plan \in Plan /\ Components \in Seq(Stresses) /\ Components # <<>> /\ Components[1] \in Stresses
           /\ plan.seeds \in Seq(Nat) /\ plan.sweep.values \in Seq(Int) /\ plan.factorial \in BOOLEAN
           /\ NPoints \in Nat /\ Len(plan.seeds) \in Nat /\ Len(CellNames) \in Nat /\ Len(CellNames) # 0
           /\ CellNames \in Seq({"", "A", "B", "AB"})
<1>1. plan \in Plan
  BY StressAssumption
<1>2. plan.components \in Seq(Stresses) /\ plan.components # <<>>
  BY <1>1 DEF Plan
<1>3. plan.seeds \in Seq(Nat) /\ plan.sweep.values \in Seq(Int) /\ plan.factorial \in BOOLEAN
  BY <1>1 DEF Plan
<1>4. NPoints \in Nat /\ Len(plan.seeds) \in Nat
  BY <1>3 DEF NPoints
<1>5. CellNames \in Seq({"", "A", "B", "AB"}) /\ Len(CellNames) \in {1, 3}
  <2>1. CASE plan.factorial
    BY <2>1 DEF CellNames
  <2>2. CASE ~plan.factorial
    BY <2>2 DEF CellNames
  <2> QED
    BY <2>1, <2>2
<1>6. Components[1] \in Stresses
  <2>1. 1 \in DOMAIN plan.components
    BY <1>2
  <2> QED
    BY <1>2, <2>1 DEF Components
<1>7. Len(CellNames) \in Nat /\ Len(CellNames) # 0
  <2> DEFINE n == Len(CellNames)
  <2>1. n \in {1, 3}
    BY <1>5
  <2> HIDE DEF n
  <2>2. n \in Nat /\ n # 0
    BY <2>1
  <2> QED
    BY <2>2 DEF n
<1> QED
  BY <1>1, <1>2, <1>3, <1>4, <1>5, <1>6, <1>7 DEF Components

\* The units of a design that does not repeat, written without LET.
GridUnit(k) ==
    [point |-> ((k - 1) \div (Len(plan.seeds) * Len(CellNames))) + 1,
     repeat |-> (((k - 1) \div Len(CellNames)) % Len(plan.seeds)) + 1,
     seed |-> plan.seeds[(((k - 1) \div Len(CellNames)) % Len(plan.seeds)) + 1],
     cell |-> CellNames[((k - 1) % Len(CellNames)) + 1],
     components |-> Alone(Resolve(((k - 1) \div (Len(plan.seeds) * Len(CellNames))) + 1,
                                  plan.seeds[(((k - 1) \div Len(CellNames)) % Len(plan.seeds)) + 1]),
                          CellNames[((k - 1) % Len(CellNames)) + 1])]

LEMMA UnitsAre ==
    ASSUME plan \in Plans
    PROVE  /\ Units \in Seq(UnitSet)
           /\ Repeating => \A k \in DOMAIN Units : Units[k].cell = "" /\ Units[k].point = 1 /\ Units[k].seed = 0
           /\ ~Repeating => /\ DOMAIN Units = 1..(NPoints * Len(plan.seeds) * Len(CellNames))
                            /\ \A k \in DOMAIN Units : Units[k] = GridUnit(k)
<1>1. /\ Components[1].value \in Int /\ NPoints \in Nat /\ Len(plan.seeds) \in Nat /\ Len(CellNames) \in Nat
  BY PlanTyped DEF Stresses
<1>2. CASE Repeating
  <2>1. Units = [k \in 1..Components[1].value |->
                    [point |-> 1, repeat |-> k, seed |-> 0, cell |-> "", components |-> Components]]
    BY <1>2 DEF Units
  <2>2. PICK n \in Nat : 1..Components[1].value = 1..n
    <3>1. CASE Components[1].value \in Nat
      BY <3>1
    <3>2. CASE Components[1].value \notin Nat
      BY <1>1, <3>2
    <3> QED
      BY <3>1, <3>2
  <2>3. Units \in [1..n -> UnitSet]
    BY <2>1, <2>2 DEF UnitSet
  <2>4. Units \in Seq(UnitSet)
    BY <2>3, FunctionIsSeq
  <2>5. \A k \in DOMAIN Units : Units[k].cell = "" /\ Units[k].point = 1 /\ Units[k].seed = 0
    BY <2>1
  <2> QED
    BY <1>2, <2>4, <2>5
<1>3. CASE ~Repeating
  <2> DEFINE n == NPoints * Len(plan.seeds) * Len(CellNames)
  <2>1. Units = [k \in 1..n |-> GridUnit(k)]
    BY <1>3 DEF Units, GridUnit
  <2>2. n \in Nat
    BY <1>1
  <2> HIDE DEF n
  <2>3. Units \in [1..n -> UnitSet]
    BY <2>1 DEF UnitSet
  <2>4. Units \in Seq(UnitSet)
    BY <2>2, <2>3, FunctionIsSeq
  <2> QED
    BY <1>3, <2>1, <2>4 DEF n
<1> QED
  BY <1>2, <1>3

\* A plan in which nothing is repeated gives each unit a point, a seed and a cell.
LEMMA GridUnitIs ==
    ASSUME plan \in Plans, ~Repeating, NEW k \in DOMAIN Units
    PROVE  /\ Units[k].point \in 1..NPoints /\ Units[k].repeat \in 1..Len(plan.seeds)
           /\ Units[k].seed = plan.seeds[Units[k].repeat]
           /\ \E j \in 1..Len(CellNames) : Units[k].cell = CellNames[j]
<1> DEFINE R == Len(plan.seeds)
           C == Len(CellNames)
           P == NPoints
           a == k - 1
<1>1. P \in Nat /\ R \in Nat /\ C \in Nat /\ C # 0
  BY PlanTyped
<1>2. k \in 1..(P * R * C) /\ Units[k] = GridUnit(k)
  BY UnitsAre
<1>3. /\ Units[k].point = (a \div (R * C)) + 1 /\ Units[k].repeat = ((a \div C) % R) + 1
      /\ Units[k].seed = plan.seeds[((a \div C) % R) + 1] /\ Units[k].cell = CellNames[(a % C) + 1]
  BY <1>2 DEF GridUnit
<1> HIDE DEF R, C, P
<1>4. R * C \in Nat /\ P * R * C \in Nat /\ P * R * C = P * (R * C)
  BY <1>1
<1>5. a \in Nat /\ a < P * (R * C)
  BY <1>2, <1>4
<1> HIDE DEF a
<1>6. R * C # 0
  BY <1>1, <1>4, <1>5
<1>7. R # 0
  BY <1>1, <1>6
<1>8. a \div (R * C) \in Nat /\ a \div (R * C) < P
  BY <1>1, <1>4, <1>5, <1>6, DivMod, DivBelow
<1>9. a \div C \in Nat /\ a % C \in Nat /\ a % C < C
  BY <1>1, <1>5, DivMod
<1>10. (a \div C) % R \in Nat /\ (a \div C) % R < R
  BY <1>1, <1>7, <1>9, DivMod
<1>11. Units[k].point \in 1..P
  BY <1>1, <1>3, <1>8
<1>12. Units[k].repeat \in 1..R /\ Units[k].seed = plan.seeds[Units[k].repeat]
  BY <1>1, <1>3, <1>10
<1>13. (a % C) + 1 \in 1..C /\ Units[k].cell = CellNames[(a % C) + 1]
  BY <1>1, <1>3, <1>9
<1> QED
  BY <1>11, <1>12, <1>13 DEF R, C, P

\* What a fault experiment made at the unit's point and seed is what the unit is given.
LEMMA LookIs ==
    ASSUME plan \in Plans, ~Repeating, NEW k \in DOMAIN Units, NEW made \in LabTrials
    PROVE  /\ Look(made, Units[k]).status \in {"COMPLETED", "FAILED"}
           /\ Look(made, Units[k]).value = ValueAt(Units[k].point)
           /\ Look(made, Units[k]).seed = Units[k].seed
<1> DEFINE R == Len(plan.seeds)
           P == NPoints
           u == Units[k]
           At(i, s) == [point |-> ((i - 1) \div R) + 1, repeat |-> ((i - 1) % R) + 1, status |-> s,
                        value |-> ValueAt(((i - 1) \div R) + 1), seed |-> plan.seeds[((i - 1) % R) + 1]]
           T == {made[i] : i \in DOMAIN made}
<1>1. P \in Nat /\ R \in Nat
  BY PlanTyped
<1>2. u.point \in 1..P /\ u.repeat \in 1..R /\ u.seed = plan.seeds[u.repeat]
  BY GridUnitIs
<1>3. PICK s \in [1..(P * R) -> {"COMPLETED", "FAILED"}] : made = [i \in 1..(P * R) |-> At(i, s[i])]
  BY DEF LabTrials
<1>4. DOMAIN made = 1..(P * R) /\ \A i \in 1..(P * R) : made[i] = At(i, s[i])
  BY <1>3
<1>5. \A t \in T : /\ t.status \in {"COMPLETED", "FAILED"}
                   /\ t.value = ValueAt(t.point) /\ t.seed = plan.seeds[t.repeat]
  <2> SUFFICES ASSUME NEW i \in 1..(P * R)
               PROVE  /\ made[i].status \in {"COMPLETED", "FAILED"}
                      /\ made[i].value = ValueAt(made[i].point) /\ made[i].seed = plan.seeds[made[i].repeat]
    BY <1>4
  <2>1. made[i] = At(i, s[i]) /\ s[i] \in {"COMPLETED", "FAILED"}
    BY <1>3, <1>4
  <2> HIDE DEF P
  <2> QED
    BY <2>1
<1> DEFINE q == u.point - 1
           r == u.repeat - 1
           i == (q * R + r) + 1
<1>6. q \in Nat /\ r \in Nat /\ r < R /\ R # 0 /\ q < P
  BY <1>1, <1>2
<1>7. u.point = q + 1 /\ u.repeat = r + 1
  BY <1>1, <1>2
<1> HIDE DEF q, r, R, P
<1>8. q * R \in Nat /\ P * R \in Nat /\ q * R + R <= P * R
  BY <1>1, <1>6, Multiples
<1>9. i \in 1..(P * R) /\ i - 1 = q * R + r
  BY <1>1, <1>6, <1>8
<1>10. (i - 1) \div R = q /\ (i - 1) % R = r
  BY <1>1, <1>6, <1>9, DivIs
<1>11. At(i, s[i]).point = u.point /\ At(i, s[i]).repeat = u.repeat
  BY <1>7, <1>10
<1> HIDE DEF i, At, u
<1>12. \E t \in T : t.point = u.point /\ t.repeat = u.repeat
  BY <1>4, <1>9, <1>11
<1>13. Look(made, u) \in T /\ Look(made, u).point = u.point /\ Look(made, u).repeat = u.repeat
  <2> HIDE DEF T
  <2>1. Look(made, u) = CHOOSE t \in T : t.point = u.point /\ t.repeat = u.repeat
    BY DEF Look, T
  <2> QED
    BY <1>12, <2>1
<1> HIDE DEF T
<1> QED
  BY <1>2, <1>5, <1>13 DEF u

\* The units of a cell are listed each once.
Places(cell) == {k \in DOMAIN Units : Units[k].cell = cell}

LEMMA UnitsOfAre ==
    ASSUME plan \in Plans, NEW cell
    PROVE  /\ DOMAIN Units \subseteq Nat /\ IsFiniteSet(DOMAIN Units) /\ IsFiniteSet(Places(cell))
           /\ UnitsOf(cell) \in Seq(UnitSet) /\ Len(UnitsOf(cell)) = Cardinality(Places(cell))
           /\ \A i \in DOMAIN UnitsOf(cell) : \E k \in Places(cell) : UnitsOf(cell)[i] = Units[k]
           /\ \A k \in Places(cell) : \E i \in DOMAIN UnitsOf(cell) : UnitsOf(cell)[i] = Units[k]
<1>1. Units \in Seq(UnitSet)
  BY UnitsAre
<1>2. DOMAIN Units = 1..Len(Units) /\ Len(Units) \in Nat
  BY <1>1
<1>3. DOMAIN Units \subseteq Nat /\ IsFiniteSet(DOMAIN Units) /\ \A k \in DOMAIN Units : Units[k] \in UnitSet
  BY <1>2, FS_Interval DEF UnitSet
<1>4. Places(cell) \in SUBSET (DOMAIN Units)
  BY DEF Places
<1>5. Places(cell) \subseteq Nat /\ IsFiniteSet(Places(cell))
  BY <1>3, <1>4, FS_Subset
<1> DEFINE at == InOrder(Places(cell))
<1>6. /\ at \in Seq(Places(cell)) /\ DOMAIN at = 1..Cardinality(Places(cell)) /\ Cardinality(Places(cell)) \in Nat
      /\ \A k \in Places(cell) : \E i \in DOMAIN at : at[i] = k
  BY <1>5, InOrderLists, InOrderIs, FS_CardinalityType
<1>7. UnitsOf(cell) = [i \in DOMAIN at |-> Units[at[i]]]
  BY DEF UnitsOf, Places
<1> HIDE DEF at
<1>8. \A i \in DOMAIN at : at[i] \in Places(cell)
  BY <1>6
<1>9. UnitsOf(cell) \in [1..Cardinality(Places(cell)) -> UnitSet]
  BY <1>3, <1>4, <1>6, <1>7, <1>8
<1>10. UnitsOf(cell) \in Seq(UnitSet) /\ Len(UnitsOf(cell)) = Cardinality(Places(cell))
  BY <1>6, <1>9, FunctionIsSeq
<1>11. /\ \A i \in DOMAIN UnitsOf(cell) : \E k \in Places(cell) : UnitsOf(cell)[i] = Units[k]
       /\ \A k \in Places(cell) : \E i \in DOMAIN UnitsOf(cell) : UnitsOf(cell)[i] = Units[k]
  BY <1>6, <1>7, <1>8
<1> QED
  BY <1>3, <1>5, <1>10, <1>11

-----------------------------------------------------------------------------
\* The units whose cells have had their fault experiment.
Tried == {k \in DOMAIN Units : \E j \in 1..job : Units[k].cell = CellNames[j]}

StressStages == {"request", "refused", "control", "raised", "trials", "discovered", "linked", "answered", "failed"}

StressTypes ==
    /\ plan \in Plans /\ stage \in StressStages
    /\ job \in 0..Len(CellNames)
    /\ linked_to.discovery \in {"none", "COMPLETED", "FAILED"}
    /\ linked_to.interaction \in {"none", "COMPLETED", "FAILED", "REFUSED"}
    /\ DOMAIN linked_to = {"discovery", "interaction", "cells"}
    /\ stage \notin {"request", "refused"} => ~BadPlan

\* A trial is about a unit of the plan, ran with what the unit says, and counts only if it completed.
TrialFits(t) ==
    /\ t.unit \in UnitSet /\ t.status \in {"COMPLETED", "FAILED"}
    /\ t.seed = t.unit.seed /\ t.value = ValueAt(t.unit.point)
    /\ t.fits \in BOOLEAN /\ t.enough \in BOOLEAN
    /\ t.fits \/ t.enough => t.status = "COMPLETED"

StressTrials == {t \in [unit : UnitSet, status : {"COMPLETED", "FAILED"}, fits : BOOLEAN, enough : BOOLEAN,
                  value : {ValueAt(u.point) : u \in UnitSet}, seed : {u.seed : u \in UnitSet}] : TrialFits(t)}

TrialsMade ==
    /\ outcomes \in Seq(StressTrials)
    /\ InLaboratory => /\ Len(outcomes) = Cardinality(Tried)
                       /\ \A k \in Tried : \E i \in DOMAIN outcomes : outcomes[i].unit = Units[k]
    /\ ~InLaboratory => /\ Len(outcomes) <= Len(Units)
                        /\ \A i \in DOMAIN outcomes : outcomes[i].unit = Units[i]
    /\ stage \in {"discovered", "linked", "answered", "failed"} => AllTried

Linkage ==
    /\ stage \in {"request", "refused", "control", "raised", "trials", "discovered"} => linked_to.interaction = "none"
    /\ linked_to.interaction = "COMPLETED" =>
           /\ plan.factorial /\ linked_to.cells = {CellRuns(c) : c \in {"A", "B", "AB"}}
           /\ \A c \in {"A", "B", "AB"} : CellRuns(c) # {}

Answered ==
    stage = "answered" =>
        study = [status |-> IF Partial THEN "PARTIAL" ELSE "COMPLETE",
                 aggregates |-> [g \in Groups |-> AggregateOf(g)], tests |-> Analysed,
                 completed |-> Count("COMPLETED"), failed |-> Count("FAILED")]

StressInv == StressTypes /\ TrialsMade /\ Linkage /\ Answered

LEMMA StressInitial == StressInit => StressInv
<1> SUFFICES ASSUME StressInit PROVE StressInv
  OBVIOUS
<1> USE DEF StressInit
<1>0. plan \in Plans /\ Len(CellNames) \in Nat /\ Units \in Seq(UnitSet)
  BY PlanTyped, UnitsAre
<1>1. StressTypes
  BY <1>0 DEF StressTypes, StressStages
<1>2. Tried = {}
  BY DEF Tried
<1>3. Cardinality(Tried) = 0
  BY <1>2, FS_EmptySet
<1>4. TrialsMade
  BY <1>0, <1>2, <1>3 DEF TrialsMade
<1>5. Linkage /\ Answered
  BY DEF Linkage, Answered
<1> QED
  BY <1>1, <1>4, <1>5 DEF StressInv

\* The design does not change.
LEMMA PlanKept ==
    ASSUME plan' = plan
    PROVE  /\ Units' = Units /\ UnitSet' = UnitSet /\ CellNames' = CellNames /\ StressTrials' = StressTrials
           /\ (InLaboratory' <=> InLaboratory) /\ (BadPlan' <=> BadPlan)
           /\ (Repeating' <=> Repeating)
           /\ \A p : ValueAt(p)' = ValueAt(p)
  BY DEF Units, UnitSet, CellNames, StressTrials, TrialFits, ValueAt, InLaboratory, OriginOf, Components, Repeating, Resolve, Alone,
         ComponentAt, NPoints, Swept, BadPlan, BadFactorial, BadCompound, BadSeeds, BadRepetition, BadSweep, Origins

\* Nothing that is recorded of the trials changes when they do not.
LEMMA OutcomesKept ==
    ASSUME plan' = plan, job' = job, outcomes' = outcomes
    PROVE  /\ Tried' = Tried /\ (AllTried' <=> AllTried) /\ \A c : CellRuns(c)' = CellRuns(c)
           /\ Analysed' = Analysed /\ Groups' = Groups /\ \A g : AggregateOf(g)' = AggregateOf(g)
           /\ \A s : Count(s)' = Count(s)
  BY PlanKept DEF Tried, AllTried, CellRuns, Analysed, Groups, AggregateOf, Count

\* A laboratory plan has no repeated execution.
LEMMA NotRepeating == InLaboratory => ~Repeating
  BY DEF InLaboratory, Repeating, OriginOf, Families

LEMMA LaboratoryCells ==
    ASSUME plan \in Plans, NEW i \in 1..Len(CellNames), NEW j \in 1..Len(CellNames), CellNames[i] = CellNames[j]
    PROVE  i = j
<1>1. CASE plan.factorial
  <2>1. CellNames = <<"A", "B", "AB">>
    BY <1>1 DEF CellNames
  <2>2. Len(CellNames) = 3 /\ CellNames[1] = "A" /\ CellNames[2] = "B" /\ CellNames[3] = "AB"
    BY <2>1
  <2>3. i \in {1, 2, 3} /\ j \in {1, 2, 3}
    BY <2>2
  <2> QED
    BY <2>2, <2>3
<1>2. CASE ~plan.factorial
  <2>1. Len(CellNames) = 1
    BY <1>2 DEF CellNames
  <2> QED
    BY <2>1
<1> QED
  BY <1>1, <1>2

\* Each step of the experiment keeps its design, and the stage says which steps were possible.
LEMMA StressTypesKept ==
    ASSUME StressInv, [StressNext]_stressVars
    PROVE  StressTypes' /\ plan' = plan /\ plan \in Plans
<1>1. StressTypes
  BY DEF StressInv
<1>2. plan' = plan
  BY DEF StressNext, stressVars, Preflight, RunControl, RunJob, RunUnit, Discover, Interact, Analyse
<1>3. CellNames' = CellNames /\ (BadPlan' <=> BadPlan)
  BY <1>2, PlanKept
<1>4. Len(CellNames) \in Nat
  BY <1>1, PlanTyped DEF StressTypes
<1>5. CASE Preflight
  BY <1>1, <1>2, <1>3, <1>5 DEF Preflight, StressTypes, StressStages
<1>6. CASE RunControl
  BY <1>1, <1>2, <1>3, <1>6 DEF RunControl, StressTypes, StressStages
<1>7. CASE RunJob
  <2>1. job' \in 0..Len(CellNames) /\ stage' \in {"trials", "raised"} /\ stage = "trials" /\ linked_to' = linked_to
    <3> DEFINE n == Len(CellNames)
    <3>1. n \in Nat /\ job \in 0..n /\ job < n /\ (job' = job + 1 \/ job' = job)
      BY <1>1, <1>4, <1>7 DEF RunJob, StressTypes
    <3> HIDE DEF n
    <3>2. job' \in 0..n
      BY <3>1
    <3>3. stage' \in {"trials", "raised"} /\ stage = "trials" /\ linked_to' = linked_to
      BY <1>7 DEF RunJob
    <3> QED
      BY <3>2, <3>3 DEF n
  <2> QED
    BY <1>1, <1>2, <1>3, <2>1 DEF StressTypes, StressStages
<1>8. CASE RunUnit
  BY <1>1, <1>2, <1>3, <1>8 DEF RunUnit, StressTypes, StressStages
<1>9. CASE Discover
  BY <1>1, <1>2, <1>3, <1>9 DEF Discover, StressTypes, StressStages
<1>10. CASE Interact
  BY <1>1, <1>2, <1>3, <1>10 DEF Interact, StressTypes, StressStages
<1>11. CASE Analyse
  BY <1>1, <1>2, <1>3, <1>11 DEF Analyse, StressTypes, StressStages
<1>12. CASE UNCHANGED stressVars
  BY <1>1, <1>2, <1>3, <1>12 DEF StressTypes, stressVars
<1>13. StressTypes'
  BY <1>5, <1>6, <1>7, <1>8, <1>9, <1>10, <1>11, <1>12 DEF StressNext
<1> QED
  BY <1>1, <1>2, <1>13 DEF StressTypes

\* The trials that were made stay, whatever the experiment does with them.
LEMMA TrialsKept ==
    ASSUME TrialsMade, plan' = plan, job' = job, outcomes' = outcomes,
           stage' \in {"discovered", "linked", "answered", "failed"} => AllTried
    PROVE  TrialsMade'
<1>1. StressTrials' = StressTrials /\ Units' = Units /\ (InLaboratory' <=> InLaboratory)
  BY PlanKept
<1>2. Tried' = Tried /\ (AllTried' <=> AllTried)
  BY OutcomesKept
<1> QED
  BY <1>1, <1>2 DEF TrialsMade

\* A run for a unit: its trial says the unit's value and seed.
LEMMA UnitTried ==
    ASSUME StressInv, RunUnit
    PROVE  TrialsMade'
<1>1. StressTypes /\ TrialsMade
  BY DEF StressInv
<1>2. plan' = plan /\ stage' = "trials" /\ ~InLaboratory /\ Len(outcomes) < Len(Units) /\ plan \in Plans
  BY <1>1 DEF RunUnit, StressTypes
<1>3. StressTrials' = StressTrials /\ Units' = Units /\ (InLaboratory' <=> InLaboratory)
  BY <1>2, PlanKept
<1> DEFINE u == Units[Len(outcomes) + 1]
           v == ValueAt(u.point)
<1>4. PICK t \in Completed(u, v, u.seed) \cup {NotCompleted(u, v, u.seed)} : outcomes' = Append(outcomes, t)
  BY DEF RunUnit
<1>5. outcomes \in Seq(StressTrials) /\ Units \in Seq(UnitSet) /\ \A i \in DOMAIN outcomes : outcomes[i].unit = Units[i]
  BY <1>1, <1>2, UnitsAre DEF TrialsMade
<1>6. Len(outcomes) + 1 \in DOMAIN Units
  BY <1>2, <1>5
<1>7. u \in UnitSet
  BY <1>6 DEF UnitSet
<1> HIDE DEF u
<1>8. t \in StressTrials /\ t.unit = u
  <2>1. /\ t \in [unit : {u}, status : {"COMPLETED", "FAILED"}, fits : BOOLEAN, enough : BOOLEAN, value : {v}, seed : {u.seed}]
        /\ t.fits \/ t.enough => t.status = "COMPLETED"
    <3>1. CASE t \in Completed(u, v, u.seed)
      BY <3>1 DEF Completed
    <3>2. CASE t = NotCompleted(u, v, u.seed)
      BY <3>2 DEF NotCompleted
    <3> QED
      BY <1>4, <3>1, <3>2
  <2>2. v \in {ValueAt(w.point) : w \in UnitSet} /\ u.seed \in {w.seed : w \in UnitSet}
    BY <1>7
  <2>3. v = ValueAt(u.point)
    OBVIOUS
  <2> HIDE DEF v
  <2>4. /\ t.unit = u /\ t.seed = u.seed /\ t.value = v /\ t.status \in {"COMPLETED", "FAILED"}
        /\ t.fits \in BOOLEAN /\ t.enough \in BOOLEAN
    BY <2>1
  <2>5. TrialFits(t)
    BY <1>7, <2>1, <2>3, <2>4 DEF TrialFits
  <2>6. t \in [unit : UnitSet, status : {"COMPLETED", "FAILED"}, fits : BOOLEAN, enough : BOOLEAN,
               value : {ValueAt(w.point) : w \in UnitSet}, seed : {w.seed : w \in UnitSet}]
    BY <1>7, <2>1, <2>2
  <2> QED
    BY <2>4, <2>5, <2>6 DEF StressTrials
<1>9. outcomes' \in Seq(StressTrials) /\ Len(outcomes') = Len(outcomes) + 1
  BY <1>4, <1>5, <1>8
<1>10. \A i \in DOMAIN outcomes' : outcomes'[i].unit = Units[i]
  <2> SUFFICES ASSUME NEW i \in DOMAIN outcomes' PROVE outcomes'[i].unit = Units[i]
    OBVIOUS
  <2>1. i \in DOMAIN outcomes \/ i = Len(outcomes) + 1
    BY <1>4, <1>5, <1>8
  <2>2. CASE i \in DOMAIN outcomes
    BY <1>4, <1>5, <1>8, <2>2
  <2>3. CASE i = Len(outcomes) + 1
    BY <1>4, <1>5, <1>8, <2>3 DEF u
  <2> QED
    BY <2>1, <2>2, <2>3
<1>11. Len(outcomes') <= Len(Units)
  BY <1>2, <1>5, <1>9
<1> QED
  BY <1>2, <1>3, <1>9, <1>10, <1>11 DEF TrialsMade

\* A fault experiment for a cell: one trial more for each unit of the cell, and none for another.
LEMMA CellTried ==
    ASSUME StressInv, RunJob, job' = job + 1
    PROVE  TrialsMade'
<1>1. StressTypes /\ TrialsMade
  BY DEF StressInv
<1>2. plan' = plan /\ InLaboratory /\ job < Len(CellNames) /\ job \in 0..Len(CellNames) /\ plan \in Plans /\ stage = "trials"
  BY <1>1 DEF RunJob, StressTypes
<1>3. StressTrials' = StressTrials /\ Units' = Units /\ (InLaboratory' <=> InLaboratory) /\ CellNames' = CellNames
  BY <1>2, PlanKept
<1>4. Len(CellNames) \in Nat /\ job \in Nat /\ job + 1 \in 1..Len(CellNames)
  <2> DEFINE n == Len(CellNames)
  <2>1. n \in Nat /\ job \in 0..n /\ job < n
    BY <1>2, PlanTyped
  <2> HIDE DEF n
  <2>2. n \in Nat /\ job \in Nat /\ job + 1 \in 1..n
    BY <2>1
  <2> QED
    BY <2>2 DEF n
<1> DEFINE cell == CellNames[job + 1]
           units == UnitsOf(cell)
           Trial(made, f, e, k) ==
               [unit |-> units[k], status |-> Look(made, units[k]).status,
                fits |-> Look(made, units[k]).status = "COMPLETED" /\ f[k],
                enough |-> Look(made, units[k]).status = "COMPLETED" /\ e[k],
                value |-> Look(made, units[k]).value, seed |-> Look(made, units[k]).seed]
<1>5. /\ stage' = stage
      /\ \E made \in LabTrials : \E f, e \in [DOMAIN units -> BOOLEAN] :
             outcomes' = outcomes \o [k \in DOMAIN units |-> Trial(made, f, e, k)]
  <2>1. job' # job
    BY <1>4
  <2>2. /\ stage' = stage
        /\ \E trials_ \in LabTrials :
           \E f, e \in [DOMAIN units -> BOOLEAN] :
              LET Of(k) == LET t == Look(trials_, units[k])
                               done == t.status = "COMPLETED"
                           IN [unit |-> units[k], status |-> t.status, fits |-> done /\ f[k],
                               enough |-> done /\ e[k], value |-> t.value, seed |-> t.seed]
              IN outcomes' = outcomes \o [k \in DOMAIN units |-> Of(k)]
    BY <2>1, Zenon DEF RunJob
  <2> QED
    BY <2>2
<1>6. PICK made \in LabTrials : \E f, e \in [DOMAIN units -> BOOLEAN] :
             outcomes' = outcomes \o [k \in DOMAIN units |-> Trial(made, f, e, k)]
  BY <1>5
<1>7. PICK f \in [DOMAIN units -> BOOLEAN], e \in [DOMAIN units -> BOOLEAN] :
             outcomes' = outcomes \o [k \in DOMAIN units |-> Trial(made, f, e, k)]
  BY <1>6
<1> DEFINE new == [k \in DOMAIN units |-> Trial(made, f, e, k)]
<1>8. /\ units \in Seq(UnitSet) /\ Len(units) = Cardinality(Places(cell)) /\ IsFiniteSet(Places(cell)) /\ IsFiniteSet(DOMAIN Units)
      /\ \A i \in DOMAIN units : \E k \in Places(cell) : units[i] = Units[k]
      /\ \A k \in Places(cell) : \E i \in DOMAIN units : units[i] = Units[k]
  BY <1>2, UnitsOfAre
<1> HIDE DEF units
<1>9. \A k \in DOMAIN units : Trial(made, f, e, k) \in StressTrials
  <2> SUFFICES ASSUME NEW k \in DOMAIN units PROVE Trial(made, f, e, k) \in StressTrials
    OBVIOUS
  <2> DEFINE l == Look(made, units[k])
  <2>1. PICK m \in DOMAIN Units : units[k] = Units[m]
    BY <1>8 DEF Places
  <2>2. l.status \in {"COMPLETED", "FAILED"} /\ l.value = ValueAt(units[k].point) /\ l.seed = units[k].seed
    BY <1>2, <2>1, LookIs, NotRepeating
  <2>3. units[k] \in UnitSet
    BY <2>1 DEF UnitSet
  <2> DEFINE t == Trial(made, f, e, k)
  <2>4. t = [unit |-> units[k], status |-> l.status, fits |-> l.status = "COMPLETED" /\ f[k],
             enough |-> l.status = "COMPLETED" /\ e[k], value |-> l.value, seed |-> l.seed]
    OBVIOUS
  <2>5. f[k] \in BOOLEAN /\ e[k] \in BOOLEAN
    OBVIOUS
  <2> HIDE DEF t, l
  <2>6. TrialFits(t)
    BY <2>2, <2>3, <2>4, <2>5 DEF TrialFits
  <2>7. t \in [unit : UnitSet, status : {"COMPLETED", "FAILED"}, fits : BOOLEAN, enough : BOOLEAN,
               value : {ValueAt(u.point) : u \in UnitSet}, seed : {u.seed : u \in UnitSet}]
    BY <2>2, <2>3, <2>4, <2>5
  <2> QED
    BY <2>6, <2>7 DEF StressTrials, t
<1>10. DOMAIN units = 1..Len(units) /\ Len(units) \in Nat
  BY <1>8
<1>11. \A k \in DOMAIN units : new[k].unit = units[k]
  OBVIOUS
<1>12. new \in [1..Len(units) -> StressTrials]
  BY <1>9, <1>10
<1> HIDE DEF new
<1>13. new \in Seq(StressTrials) /\ Len(new) = Len(units)
  BY <1>10, <1>12, FunctionIsSeq
<1>14. outcomes \in Seq(StressTrials) /\ Len(outcomes) = Cardinality(Tried)
       /\ \A k \in Tried : \E i \in DOMAIN outcomes : outcomes[i].unit = Units[k]
  BY <1>1, <1>2 DEF TrialsMade
<1>15. outcomes' = outcomes \o new
  BY <1>7 DEF new
<1>16. outcomes' \in Seq(StressTrials) /\ Len(outcomes') = Len(outcomes) + Len(units)
  <2>1. outcomes \o new \in Seq(StressTrials) /\ Len(outcomes \o new) = Len(outcomes) + Len(new)
    BY <1>13, <1>14, ConcatProperties
  <2> QED
    BY <1>13, <1>15, <2>1
<1>17. Tried' = Tried \cup Places(cell)
  <2>1. Tried' = {k \in DOMAIN Units : \E j \in 1..(job + 1) : Units[k].cell = CellNames[j]}
    BY <1>3 DEF Tried
  <2> QED
    BY <1>4, <2>1 DEF Tried, Places
<1>18. Tried \cap Places(cell) = {}
  <2> SUFFICES ASSUME NEW k \in Tried, k \in Places(cell) PROVE FALSE
    OBVIOUS
  <2>1. PICK j \in 1..job : Units[k].cell = CellNames[j]
    BY DEF Tried
  <2>2. CellNames[j] = CellNames[job + 1]
    BY <2>1 DEF Places
  <2>3. j \in 1..Len(CellNames)
    BY <1>4, <2>1
  <2>4. j = job + 1
    BY <1>2, <1>4, <2>2, <2>3, LaboratoryCells
  <2> QED
    BY <1>4, <2>1, <2>4
<1>19. IsFiniteSet(Tried)
  <2>1. Tried \subseteq DOMAIN Units
    BY DEF Tried
  <2> QED
    BY <1>8, <2>1, FS_Subset
<1>20. Len(outcomes') = Cardinality(Tried')
  <2> HIDE DEF cell
  <2>1. Cardinality(Tried \cup Places(cell)) = Cardinality(Tried) + Cardinality(Places(cell))
    BY <1>8, <1>18, <1>19, ApartCounted
  <2> QED
    BY <1>8, <1>14, <1>16, <1>17, <2>1
<1>21. \A k \in Tried' : \E i \in DOMAIN outcomes' : outcomes'[i].unit = Units[k]
  <2> SUFFICES ASSUME NEW k \in Tried' PROVE \E i \in DOMAIN outcomes' : outcomes'[i].unit = Units[k]
    OBVIOUS
  <2>1. CASE k \in Tried
    <3>1. PICK i \in DOMAIN outcomes : outcomes[i].unit = Units[k]
      BY <1>14, <2>1
    <3>2. i \in DOMAIN outcomes' /\ outcomes'[i] = outcomes[i]
      BY <1>13, <1>14, <1>15, <3>1
    <3> QED
      BY <3>1, <3>2
  <2>2. CASE k \in Places(cell)
    <3>1. PICK i \in DOMAIN units : units[i] = Units[k]
      BY <1>8, <2>2
    <3>2. Len(outcomes) + i \in DOMAIN outcomes' /\ outcomes'[Len(outcomes) + i] = new[i]
      BY <1>10, <1>13, <1>14, <1>15, <3>1
    <3> QED
      BY <1>11, <3>1, <3>2
  <2> QED
    BY <1>17, <2>1, <2>2
<1> QED
  BY <1>2, <1>3, <1>5, <1>16, <1>20, <1>21 DEF TrialsMade

LEMMA TrialsMadeKept ==
    ASSUME StressInv, [StressNext]_stressVars
    PROVE  TrialsMade'
<1>1. StressTypes /\ TrialsMade /\ plan' = plan
  BY StressTypesKept DEF StressInv
<1>2. CASE Preflight
  BY <1>1, <1>2, TrialsKept DEF Preflight
<1>3. CASE RunControl
  BY <1>1, <1>3, TrialsKept DEF RunControl
<1>4. CASE RunJob
  <2>1. CASE job' = job + 1
    BY <1>4, <2>1, CellTried
  <2>2. CASE stage' = "raised" /\ job' = job /\ outcomes' = outcomes
    BY <1>1, <2>2, TrialsKept
  <2> QED
    BY <1>4, <2>1, <2>2 DEF RunJob
<1>5. CASE RunUnit
  BY <1>5, UnitTried
<1>6. CASE Discover
  BY <1>1, <1>6, TrialsKept DEF Discover
<1>7. CASE Interact
  BY <1>1, <1>7, TrialsKept DEF Interact, TrialsMade
<1>8. CASE Analyse
  BY <1>1, <1>8, TrialsKept DEF Analyse, TrialsMade
<1>9. CASE UNCHANGED stressVars
  BY <1>1, <1>9, TrialsKept DEF stressVars, TrialsMade
<1> QED
  BY <1>2, <1>3, <1>4, <1>5, <1>6, <1>7, <1>8, <1>9 DEF StressNext

LEMMA LinkageKept ==
    ASSUME StressInv, [StressNext]_stressVars
    PROVE  Linkage'
<1>1. Linkage /\ StressTypes /\ plan' = plan
  BY StressTypesKept DEF StressInv
<1>2. CASE Preflight \/ RunControl
  <2>1. linked_to.interaction = "none" /\ linked_to' = linked_to
    BY <1>1, <1>2 DEF Preflight, RunControl, Linkage
  <2> QED
    BY <2>1 DEF Linkage
<1>3. CASE RunJob \/ RunUnit
  <2>1. linked_to.interaction = "none" /\ linked_to' = linked_to
    BY <1>1, <1>3 DEF RunJob, RunUnit, Linkage
  <2> QED
    BY <2>1 DEF Linkage
<1>4. CASE Discover
  <2>1. linked_to.interaction = "none"
    BY <1>1, <1>4 DEF Discover, Linkage
  <2>2. linked_to'.interaction = "none"
    BY <1>1, <1>4, <2>1 DEF Discover, StressTypes
  <2> QED
    BY <2>2 DEF Linkage
<1>5. CASE Interact
  <2>1. plan' = plan /\ job' = job /\ outcomes' = outcomes /\ stage' = "linked" /\ stage = "discovered"
    BY <1>5 DEF Interact
  <2>2. \A c : CellRuns(c)' = CellRuns(c)
    BY <2>1, OutcomesKept
  <2>3. CASE plan.factorial
    <3>1. PICK s \in {"COMPLETED", "FAILED", "REFUSED"} :
               /\ s # "REFUSED" => \A c \in {"A", "B", "AB"} : CellRuns(c) # {}
               /\ linked_to' = [linked_to EXCEPT !.interaction = s, !.cells = {CellRuns(c) : c \in {"A", "B", "AB"}}]
      BY <1>5, <2>3 DEF Interact
    <3>2. linked_to'.interaction = s /\ linked_to'.cells = {CellRuns(c) : c \in {"A", "B", "AB"}}
      BY <1>1, <3>1 DEF StressTypes
    <3> QED
      BY <1>1, <2>1, <2>2, <2>3, <3>1, <3>2 DEF Linkage
  <2>4. CASE ~plan.factorial
    <3>1. linked_to' = linked_to /\ linked_to.interaction = "none"
      BY <1>1, <1>5, <2>1, <2>4 DEF Interact, Linkage
    <3> QED
      BY <3>1 DEF Linkage
  <2> QED
    BY <2>3, <2>4
<1>6. CASE Analyse \/ UNCHANGED stressVars
  <2>1. plan' = plan /\ job' = job /\ outcomes' = outcomes /\ linked_to' = linked_to
    BY <1>6 DEF Analyse, stressVars
  <2>2. \A c : CellRuns(c)' = CellRuns(c)
    BY <2>1, OutcomesKept
  <2>3. stage' = stage \/ stage' \in {"failed", "answered"}
    BY <1>6 DEF Analyse, stressVars
  <2> QED
    BY <1>1, <2>1, <2>2, <2>3 DEF Linkage
<1> QED
  BY <1>2, <1>3, <1>4, <1>5, <1>6 DEF StressNext

LEMMA AnsweredKept ==
    ASSUME StressInv, [StressNext]_stressVars
    PROVE  Answered'
<1>1. Answered /\ StressTypes /\ plan' = plan
  BY StressTypesKept DEF StressInv
<1>2. CASE Analyse \/ UNCHANGED stressVars
  <2>1. plan' = plan /\ job' = job /\ outcomes' = outcomes /\ linked_to' = linked_to
    BY <1>2 DEF Analyse, stressVars
  <2>2. Analysed' = Analysed /\ Groups' = Groups /\ (\A g : AggregateOf(g)' = AggregateOf(g)) /\ \A s : Count(s)' = Count(s)
    BY <2>1, OutcomesKept
  <2>3. Partial' <=> Partial
    BY <2>1 DEF Partial
  <2> DEFINE A == [status |-> IF Partial THEN "PARTIAL" ELSE "COMPLETE",
                   aggregates |-> [g \in Groups |-> AggregateOf(g)], tests |-> Analysed,
                   completed |-> Count("COMPLETED"), failed |-> Count("FAILED")]
  <2>4. A' = A
    BY <2>2, <2>3
  <2>5. CASE Analyse
    BY <2>4, <2>5 DEF Analyse, Answered
  <2>6. CASE UNCHANGED stressVars
    BY <1>1, <2>4, <2>6 DEF stressVars, Answered
  <2> QED
    BY <1>2, <2>5, <2>6
<1>3. CASE Preflight \/ RunControl \/ RunJob \/ RunUnit \/ Discover \/ Interact
  <2>1. stage' # "answered"
    BY <1>3 DEF Preflight, RunControl, RunJob, RunUnit, Discover, Interact
  <2> QED
    BY <2>1 DEF Answered
<1> QED
  BY <1>2, <1>3 DEF StressNext

LEMMA StressStep == StressInv /\ [StressNext]_stressVars => StressInv'
  BY StressTypesKept, TrialsMadeKept, LinkageKept, AnsweredKept DEF StressInv

-----------------------------------------------------------------------------
\* When every cell of a laboratory plan has had its experiment, every unit has.
LEMMA AllPlacesTried ==
    ASSUME plan \in Plans, InLaboratory, job = Len(CellNames)
    PROVE  Tried = DOMAIN Units
<1> SUFFICES ASSUME NEW k \in DOMAIN Units PROVE \E j \in 1..job : Units[k].cell = CellNames[j]
  BY DEF Tried
<1> QED
  BY GridUnitIs, NotRepeating

LEMMA OneTrialEachHolds ==
    ASSUME StressInv, stage \in {"discovered", "linked", "answered", "failed"}
    PROVE  OneTrialEach
<1>1. plan \in Plans /\ TrialsMade /\ AllTried
  BY DEF StressInv, StressTypes, TrialsMade
<1>2. outcomes \in Seq(StressTrials) /\ Units \in Seq(UnitSet)
  BY <1>1, UnitsAre DEF TrialsMade
<1>3. \A i \in DOMAIN outcomes : outcomes[i].seed = outcomes[i].unit.seed /\ outcomes[i].value = ValueAt(outcomes[i].unit.point)
  <2> SUFFICES ASSUME NEW i \in DOMAIN outcomes
               PROVE  outcomes[i].seed = outcomes[i].unit.seed /\ outcomes[i].value = ValueAt(outcomes[i].unit.point)
    OBVIOUS
  <2>1. outcomes[i] \in StressTrials
    BY <1>2
  <2> QED
    BY <2>1 DEF StressTrials, TrialFits
<1>4. CASE InLaboratory
  <2>1. Tried = DOMAIN Units
    BY <1>1, <1>4, AllPlacesTried DEF AllTried
  <2>2. Len(outcomes) = Cardinality(DOMAIN Units) /\ \A k \in DOMAIN Units : \E i \in DOMAIN outcomes : outcomes[i].unit = Units[k]
    BY <1>1, <1>4, <2>1 DEF TrialsMade
  <2>3. Len(Units) \in Nat /\ DOMAIN Units = 1..Len(Units)
    BY <1>2
  <2>4. Cardinality(1..Len(Units)) = Len(Units)
    <3> DEFINE n == Len(Units)
    <3>1. n \in Nat
      BY <2>3
    <3> HIDE DEF n
    <3>2. Cardinality(1..n) = IF 1 > n THEN 0 ELSE n - 1 + 1
      BY <3>1, FS_Interval
    <3>3. Cardinality(1..n) = n
      BY <3>1, <3>2
    <3> QED
      BY <3>3 DEF n
  <2> QED
    BY <1>3, <2>2, <2>3, <2>4 DEF OneTrialEach
<1>5. CASE ~InLaboratory
  <2>1. Len(outcomes) = Len(Units) /\ \A i \in DOMAIN outcomes : outcomes[i].unit = Units[i]
    BY <1>1, <1>5 DEF TrialsMade, AllTried
  <2>2. DOMAIN outcomes = DOMAIN Units
    BY <1>2, <2>1
  <2> QED
    BY <1>3, <2>1, <2>2 DEF OneTrialEach
<1> QED
  BY <1>4, <1>5

\* Nothing else than a completed and a failed trial is made.
LEMMA TrialsCounted ==
    ASSUME TrialsMade
    PROVE  Count("COMPLETED") + Count("FAILED") = Len(outcomes)
<1> DEFINE C == {i \in DOMAIN outcomes : outcomes[i].status = "COMPLETED"}
           F == {i \in DOMAIN outcomes : outcomes[i].status = "FAILED"}
<1>1. outcomes \in Seq(StressTrials)
  BY DEF TrialsMade
<1>2. DOMAIN outcomes = 1..Len(outcomes) /\ Len(outcomes) \in Nat
  BY <1>1
<1>3. IsFiniteSet(DOMAIN outcomes) /\ Cardinality(DOMAIN outcomes) = Len(outcomes)
  <2> DEFINE n == Len(outcomes)
  <2>1. n \in Nat
    BY <1>2
  <2> HIDE DEF n
  <2>2. IsFiniteSet(1..n) /\ Cardinality(1..n) = IF 1 > n THEN 0 ELSE n - 1 + 1
    BY <2>1, FS_Interval
  <2>3. Cardinality(1..n) = n
    BY <2>1, <2>2
  <2> QED
    BY <1>2, <2>2, <2>3 DEF n
<1>4. C \in SUBSET (DOMAIN outcomes) /\ F \in SUBSET (DOMAIN outcomes) /\ C \cap F = {}
  OBVIOUS
<1>5. C \cup F = DOMAIN outcomes
  <2> SUFFICES ASSUME NEW i \in DOMAIN outcomes PROVE outcomes[i].status \in {"COMPLETED", "FAILED"}
    OBVIOUS
  <2>1. outcomes[i] \in StressTrials
    BY <1>1
  <2> QED
    BY <2>1 DEF StressTrials
<1>6. Count("COMPLETED") = Cardinality(C) /\ Count("FAILED") = Cardinality(F)
  BY DEF Count
<1> HIDE DEF C, F
<1>7. IsFiniteSet(C) /\ IsFiniteSet(F)
  BY <1>3, <1>4, FS_Subset
<1> QED
  BY <1>3, <1>4, <1>5, <1>6, <1>7, ApartCounted

LEMMA AnswerAccounted ==
    ASSUME StressInv, stage = "answered"
    PROVE  /\ Accounted(study) /\ study.completed + study.failed = Len(Units)
           /\ study.status = "COMPLETE" <=>
                 /\ \A i \in DOMAIN outcomes : outcomes[i].fits /\ outcomes[i].enough
                 /\ {linked_to.discovery, linked_to.interaction} \subseteq {"none", "COMPLETED"}
<1>1. StressTypes /\ TrialsMade /\ OneTrialEach
  BY OneTrialEachHolds DEF StressInv
<1>2. study = [status |-> IF Partial THEN "PARTIAL" ELSE "COMPLETE",
               aggregates |-> [g \in Groups |-> AggregateOf(g)], tests |-> Analysed,
               completed |-> Count("COMPLETED"), failed |-> Count("FAILED")]
  BY DEF StressInv, Answered
<1>3. study.completed + study.failed = Len(Units)
  BY <1>1, <1>2, TrialsCounted DEF OneTrialEach
<1>4. study.status = "COMPLETE" <=> ~Partial
  BY <1>2
<1>5. \A i \in DOMAIN outcomes : /\ outcomes[i].fits \/ outcomes[i].enough => outcomes[i].status = "COMPLETED"
                                 /\ outcomes[i].fits \in BOOLEAN /\ outcomes[i].enough \in BOOLEAN
  <2> SUFFICES ASSUME NEW i \in DOMAIN outcomes
               PROVE  /\ outcomes[i].fits \/ outcomes[i].enough => outcomes[i].status = "COMPLETED"
                      /\ outcomes[i].fits \in BOOLEAN /\ outcomes[i].enough \in BOOLEAN
    OBVIOUS
  <2>1. outcomes[i] \in StressTrials
    BY <1>1 DEF TrialsMade
  <2> QED
    BY <2>1 DEF StressTrials, TrialFits
<1>6. ~Partial <=> /\ \A i \in DOMAIN outcomes : outcomes[i].fits /\ outcomes[i].enough
                   /\ {linked_to.discovery, linked_to.interaction} \subseteq {"none", "COMPLETED"}
  <2>1. {linked_to.discovery, linked_to.interaction} \subseteq {"none", "COMPLETED"} <=>
            linked_to.discovery # "FAILED" /\ linked_to.interaction \notin {"FAILED", "REFUSED"}
    BY <1>1 DEF StressTypes
  <2> QED
    BY <1>5, <2>1 DEF Partial
<1>7. Accounted(study)
  <2> DEFINE agg == [g \in Groups |-> AggregateOf(g)]
  <2>1. study.aggregates = agg /\ study.tests = Analysed
    BY <1>2
  <2>2. \A i \in Analysed : <<outcomes[i].unit.cell, outcomes[i].unit.point>> \in Groups
    BY DEF Groups
  <2>3. UNION {agg[g] : g \in Groups} = Analysed
    <3>1. \A g \in Groups : agg[g] \subseteq Analysed
      BY DEF AggregateOf
    <3>2. \A i \in Analysed : i \in agg[<<outcomes[i].unit.cell, outcomes[i].unit.point>>]
      BY <2>2 DEF AggregateOf
    <3> HIDE DEF agg
    <3> QED
      BY <2>2, <3>1, <3>2
  <2>4. {} \notin {agg[g] : g \in Groups}
    BY DEF AggregateOf, Groups
  <2>5. \A g \in Groups : \A i, j \in agg[g] :
            outcomes[i].unit.point = outcomes[j].unit.point /\ outcomes[i].unit.cell = outcomes[j].unit.cell
    BY DEF AggregateOf
  <2>6. \A g, h \in Groups : g # h => agg[g] \cap agg[h] = {}
    BY DEF AggregateOf
  <2>7. Analysed = {i \in DOMAIN outcomes : outcomes[i].status = "COMPLETED" /\ outcomes[i].fits}
    BY DEF Analysed
  <2>8. DOMAIN agg = Groups
    OBVIOUS
  <2> HIDE DEF agg
  <2> QED
    BY <2>1, <2>3, <2>4, <2>5, <2>6, <2>7, <2>8 DEF Accounted
<1> QED
  BY <1>3, <1>4, <1>6, <1>7

\* A factorial plan is the laboratory's, and each of its units is in one of three cells.
LEMMA FactorialCells ==
    ASSUME plan \in Plans, plan.factorial, ~BadPlan, NEW k \in DOMAIN Units
    PROVE  Units[k].cell \in {"A", "B", "AB"}
<1>1. Origins = {"FAULT_LABORATORY"}
  BY DEF BadPlan, BadFactorial
<1>2. 1 \in DOMAIN Components
  <2>1. Components \in Seq(Stresses) /\ Components # <<>>
    BY PlanTyped
  <2> QED
    BY <2>1
<1>3. InLaboratory
  BY <1>1, <1>2 DEF InLaboratory, Origins
<1>4. PICK j \in 1..Len(CellNames) : Units[k].cell = CellNames[j]
  BY <1>3, GridUnitIs, NotRepeating
<1>5. CellNames = <<"A", "B", "AB">>
  BY DEF CellNames
<1> QED
  BY <1>4, <1>5

LEMMA InteractionAccounted ==
    ASSUME StressInv, linked_to.interaction = "COMPLETED"
    PROVE  /\ Cardinality(linked_to.cells) = 3 /\ {} \notin linked_to.cells
           /\ UNION linked_to.cells = {i \in DOMAIN outcomes : outcomes[i].status = "COMPLETED"}
           /\ \A x, y \in linked_to.cells : x # y => x \cap y = {}
<1>1. /\ plan \in Plans /\ TrialsMade /\ plan.factorial /\ ~BadPlan
      /\ linked_to.cells = {CellRuns(c) : c \in {"A", "B", "AB"}}
      /\ \A c \in {"A", "B", "AB"} : CellRuns(c) # {}
  BY DEF StressInv, StressTypes, Linkage
<1> DEFINE a == CellRuns("A")
           b == CellRuns("B")
           ab == CellRuns("AB")
<1>2. linked_to.cells = {a, b, ab} /\ a # {} /\ b # {} /\ ab # {}
  BY <1>1
<1>3. a \cap b = {} /\ a \cap ab = {} /\ b \cap ab = {}
  BY DEF CellRuns
<1>4. \A i \in DOMAIN outcomes : outcomes[i].unit.cell \in {"A", "B", "AB"}
  <2> SUFFICES ASSUME NEW i \in DOMAIN outcomes PROVE outcomes[i].unit.cell \in {"A", "B", "AB"}
    OBVIOUS
  <2>1. outcomes[i] \in StressTrials
    BY <1>1 DEF TrialsMade
  <2>2. outcomes[i].unit \in UnitSet
    BY <2>1 DEF StressTrials
  <2>3. PICK k \in DOMAIN Units : outcomes[i].unit = Units[k]
    BY <2>2 DEF UnitSet
  <2> QED
    BY <1>1, <2>3, FactorialCells
<1>5. a \cup b \cup ab = {i \in DOMAIN outcomes : outcomes[i].status = "COMPLETED"}
  BY <1>4 DEF CellRuns
<1> HIDE DEF a, b, ab
<1>6. a # b /\ a # ab /\ b # ab
  BY <1>2, <1>3
<1>7. Cardinality({a, b, ab}) = 3
  <2>1. IsFiniteSet({a}) /\ Cardinality({a}) = 1
    BY FS_Singleton
  <2>2. IsFiniteSet({a} \cup {b}) /\ Cardinality({a} \cup {b}) = 2
    <3>1. b \notin {a}
      BY <1>6
    <3> DEFINE S == {a}
    <3> HIDE DEF S
    <3>2. IsFiniteSet(S \cup {b}) /\ Cardinality(S \cup {b}) = IF b \in S THEN Cardinality(S) ELSE Cardinality(S) + 1
      BY <2>1, FS_AddElement DEF S
    <3>3. IsFiniteSet(S \cup {b}) /\ Cardinality(S \cup {b}) = 2
      BY <2>1, <3>1, <3>2 DEF S
    <3> QED
      BY <3>3 DEF S
  <2>3. Cardinality(({a} \cup {b}) \cup {ab}) = 3
    <3>1. ab \notin {a} \cup {b}
      BY <1>6
    <3> DEFINE S == {a} \cup {b}
    <3> HIDE DEF S
    <3>2. Cardinality(S \cup {ab}) = IF ab \in S THEN Cardinality(S) ELSE Cardinality(S) + 1
      BY <2>2, FS_AddElement DEF S
    <3> QED
      BY <2>2, <3>1, <3>2 DEF S
  <2>4. {a, b, ab} = ({a} \cup {b}) \cup {ab}
    OBVIOUS
  <2> QED
    BY <2>3, <2>4
<1> QED
  BY <1>2, <1>3, <1>5, <1>7

\* compute and run_stress_experiment account for a plan, whatever its components, sweep and seeds and
\* whichever of its trials fail: each unit has the one trial that ran with its value and seed, tests and
\* aggregates hold each trial that counts once, COMPLETE hides nothing, and an interaction was given all
\* the completed runs of its three cells.
THEOREM StressPlansAccounted == StressSpec => []StressAccounted
<1>1. StressInit => StressInv
  BY StressInitial
<1>2. StressInv /\ [StressNext]_stressVars => StressInv'
  BY StressStep
<1>3. StressInv => StressAccounted
  BY OneTrialEachHolds, AnswerAccounted, InteractionAccounted DEF StressAccounted
<1> QED
  BY <1>1, <1>2, <1>3, PTL DEF StressSpec

(***************************************************************************)
(* Resource measurements: the workload, the calls of a pass, the records.  *)
(***************************************************************************)
LEMMA SameSeq ==
    ASSUME NEW S, NEW s \in Seq(S), NEW t \in Seq(S), Len(s) = Len(t), \A k \in 1..Len(s) : s[k] = t[k]
    PROVE  s = t
  OBVIOUS

\* Every place of the listing holds the member of that rank.
LEMMA InOrderListed ==
    ASSUME NEW E, E \subseteq Nat, IsFiniteSet(E)
    PROVE  /\ DOMAIN InOrder(E) = 1..Cardinality(E) /\ InOrder(E) \in Seq(E)
           /\ \A k \in 1..Cardinality(E) : InOrder(E)[k] \in E /\ Cardinality(Upto(E, InOrder(E)[k])) = k
  BY InOrderIs, InOrderLists, RankOnto

\* Two sets of numbers, one below the other, are listed one after the other.
LEMMA InOrderJoined ==
    ASSUME NEW A, A \subseteq Nat, IsFiniteSet(A), NEW B, B \subseteq Nat, IsFiniteSet(B),
           \A a \in A, b \in B : a < b
    PROVE  InOrder(A \cup B) = InOrder(A) \o InOrder(B)
<1> DEFINE E == A \cup B
           m == Cardinality(A)
           n == Cardinality(B)
           s == InOrder(A)
           t == InOrder(B)
           u == InOrder(E)
<1>1. A \cap B = {}
  <2> SUFFICES ASSUME NEW x \in A, x \in B PROVE FALSE
    OBVIOUS
  <2>1. x \in Nat /\ x < x
    OBVIOUS
  <2> QED
    BY <2>1
<1>2. m \in Nat /\ n \in Nat /\ E \subseteq Nat /\ IsFiniteSet(E) /\ Cardinality(E) = m + n
  BY <1>1, ApartCounted, FS_CardinalityType
<1>3. /\ DOMAIN s = 1..m /\ s \in Seq(A) /\ \A k \in 1..m : s[k] \in A /\ Cardinality(Upto(A, s[k])) = k
  BY InOrderListed, <1>2
<1>4. /\ DOMAIN t = 1..n /\ t \in Seq(B) /\ \A k \in 1..n : t[k] \in B /\ Cardinality(Upto(B, t[k])) = k
  BY InOrderListed, <1>2
<1>5. /\ DOMAIN u = 1..(m + n) /\ u \in Seq(E) /\ \A k \in 1..(m + n) : u[k] \in E /\ Cardinality(Upto(E, u[k])) = k
  BY InOrderListed, <1>2
<1>6. \A x, y \in E : Cardinality(Upto(E, x)) = Cardinality(Upto(E, y)) => x = y
  BY <1>2, RankOnto
<1>7. ASSUME NEW x \in A PROVE Cardinality(Upto(E, x)) = Cardinality(Upto(A, x))
  <2>1. \A b \in B : ~(b <= x)
    <3> SUFFICES ASSUME NEW b \in B, b <= x PROVE FALSE
      OBVIOUS
    <3>1. b \in Nat /\ x \in Nat /\ x < b
      OBVIOUS
    <3> QED
      BY <3>1
  <2>2. Upto(E, x) = Upto(A, x)
    BY <2>1 DEF Upto
  <2> QED
    BY <2>2
<1>8. ASSUME NEW x \in B PROVE Cardinality(Upto(E, x)) = m + Cardinality(Upto(B, x))
  <2>1. \A a \in A : a <= x
    <3> SUFFICES ASSUME NEW a \in A PROVE a <= x
      OBVIOUS
    <3>1. a \in Nat /\ x \in Nat /\ a < x
      OBVIOUS
    <3> QED
      BY <3>1
  <2>2. Upto(E, x) = A \cup Upto(B, x)
    BY <2>1 DEF Upto
  <2>3. Upto(B, x) \in SUBSET B
    BY DEF Upto
  <2>4. IsFiniteSet(Upto(B, x)) /\ A \cap Upto(B, x) = {}
    BY <1>1, <2>3, FS_Subset
  <2>5. Cardinality(A \cup Upto(B, x)) = Cardinality(A) + Cardinality(Upto(B, x))
    BY <2>4, ApartCounted
  <2> QED
    BY <2>2, <2>5
<1> HIDE DEF E, m, n, s, t, u
<1>9. s \o t \in Seq(E) /\ Len(s \o t) = m + n /\ Len(u) = m + n
  <2>1. s \in Seq(E) /\ t \in Seq(E)
    BY <1>3, <1>4 DEF E
  <2>2. Len(s) = m /\ Len(t) = n /\ Len(u) = m + n
    BY <1>2, <1>3, <1>4, <1>5
  <2> QED
    BY <2>1, <2>2, ConcatProperties
<1>10. ASSUME NEW k \in 1..(m + n) PROVE u[k] = (s \o t)[k]
  <2>1. CASE k \in 1..m
    <3>1. (s \o t)[k] = s[k]
      BY <1>2, <1>3, <1>4, <2>1
    <3>2. s[k] \in E /\ Cardinality(Upto(E, s[k])) = k
      BY <1>3, <1>7, <2>1 DEF E
    <3> QED
      BY <1>5, <1>6, <3>1, <3>2
  <2>2. CASE k \notin 1..m
    <3>1. k - m \in 1..n /\ m + (k - m) = k
      BY <1>2, <2>2
    <3>2. (s \o t)[k] = t[k - m]
      BY <1>2, <1>3, <1>4, <2>2
    <3>3. t[k - m] \in E /\ Cardinality(Upto(E, t[k - m])) = k
      BY <1>4, <1>8, <3>1 DEF E
    <3> QED
      BY <1>5, <1>6, <3>2, <3>3
  <2> QED
    BY <2>1, <2>2
<1> QED
  BY <1>5, <1>9, <1>10, SameSeq DEF s, t, u, E

-----------------------------------------------------------------------------
\* What n_samples leaves of a sequence of samples.
Cap(seq) ==
    IF measurement.n_samples = 0 \/ measurement.n_samples > Len(seq) THEN seq ELSE SubSeq(seq, 1, measurement.n_samples)

LEMMA SubSeqIs ==
    ASSUME NEW S, NEW s \in Seq(S), NEW n \in Nat, n <= Len(s)
    PROVE  /\ SubSeq(s, 1, n) \in Seq(S) /\ Len(SubSeq(s, 1, n)) = n
           /\ \A k \in 1..n : SubSeq(s, 1, n)[k] = s[k]
  OBVIOUS

LEMMA CapIs ==
    ASSUME measurement \in Measurement, NEW s \in Seq(Nat)
    PROVE  /\ Cap(s) \in Seq(Nat)
           /\ Len(Cap(s)) = IF measurement.n_samples = 0 \/ measurement.n_samples > Len(s) THEN Len(s)
                            ELSE measurement.n_samples
           /\ \A k \in 1..Len(Cap(s)) : Cap(s)[k] = s[k]
<1>1. measurement.n_samples \in Nat /\ Len(s) \in Nat
  BY DEF Measurement
<1>2. CASE measurement.n_samples = 0 \/ measurement.n_samples > Len(s)
  BY <1>2 DEF Cap
<1>3. CASE ~(measurement.n_samples = 0 \/ measurement.n_samples > Len(s))
  <2>1. Cap(s) = SubSeq(s, 1, measurement.n_samples) /\ measurement.n_samples <= Len(s)
    BY <1>1, <1>3 DEF Cap
  <2> QED
    BY <1>1, <1>3, <2>1, SubSeqIs
<1> QED
  BY <1>2, <1>3

LEMMA CutIs ==
    ASSUME measurement \in Measurement, NEW s \in Seq(Nat), NEW total \in Nat,
           measurement.n_samples = 0 \/ total <= measurement.n_samples
    PROVE  /\ Cut(s, total) \in Seq(Nat)
           /\ Len(Cut(s, total)) = IF measurement.n_samples # 0 /\ total + Len(s) > measurement.n_samples
                                   THEN measurement.n_samples - total ELSE Len(s)
           /\ \A k \in 1..Len(Cut(s, total)) : Cut(s, total)[k] = s[k]
<1>1. measurement.n_samples \in Nat /\ Len(s) \in Nat
  BY DEF Measurement
<1>2. CASE measurement.n_samples # 0 /\ total + Len(s) > measurement.n_samples
  <2> DEFINE n == measurement.n_samples - total
  <2>1. n \in Nat /\ n <= Len(s)
    BY <1>1, <1>2
  <2>2. Cut(s, total) = SubSeq(s, 1, n)
    BY <1>2 DEF Cut
  <2> HIDE DEF n
  <2>3. /\ Cut(s, total) \in Seq(Nat) /\ Len(Cut(s, total)) = n
        /\ \A k \in 1..n : Cut(s, total)[k] = s[k]
    BY <2>1, <2>2, SubSeqIs
  <2> QED
    BY <1>2, <2>3 DEF n
<1>3. CASE ~(measurement.n_samples # 0 /\ total + Len(s) > measurement.n_samples)
  BY <1>3 DEF Cut
<1> QED
  BY <1>2, <1>3

LEMMA ConcatAt ==
    ASSUME NEW S, NEW s \in Seq(S), NEW t \in Seq(S), NEW k \in Nat
    PROVE  /\ 1 <= k /\ k <= Len(s) => (s \o t)[k] = s[k]
           /\ Len(s) < k /\ k <= Len(s) + Len(t) => (s \o t)[k] = t[k - Len(s)]
  OBVIOUS

\* A batch that is cut to what is left adds to the first n_samples what they lack of it.
LEMMA CapGrows ==
    ASSUME measurement \in Measurement, NEW s \in Seq(Nat), NEW t \in Seq(Nat)
    PROVE  /\ measurement.n_samples = 0 \/ Len(Cap(s)) <= measurement.n_samples
           /\ Cut(t, Len(Cap(s))) \in Seq(Nat)
           /\ Cap(s \o t) = Cap(s) \o Cut(t, Len(Cap(s)))
<1> DEFINE n == measurement.n_samples
           m == Len(Cap(s))
           c == Cut(t, m)
           l == Cap(s) \o c
           a == Len(s)
           b == Len(t)
           r == Cap(s \o t)
<1>1. n \in Nat /\ a \in Nat /\ b \in Nat
  BY DEF Measurement
<1>2. Cap(s) \in Seq(Nat) /\ m = (IF n = 0 \/ n > a THEN a ELSE n) /\ \A k \in 1..m : Cap(s)[k] = s[k]
  BY CapIs
<1>3. s \o t \in Seq(Nat) /\ Len(s \o t) = a + b
  BY ConcatProperties
<1>4. m \in Nat /\ (n = 0 \/ m <= n) /\ m <= a
  BY <1>1, <1>2
<1>5. /\ c \in Seq(Nat) /\ Len(c) = (IF n # 0 /\ m + b > n THEN n - m ELSE b)
      /\ \A k \in 1..Len(c) : c[k] = t[k]
  BY <1>4, CutIs
<1>6. /\ r \in Seq(Nat) /\ Len(r) = (IF n = 0 \/ n > a + b THEN a + b ELSE n)
      /\ \A k \in 1..Len(r) : r[k] = (s \o t)[k]
  BY <1>3, CapIs
<1>7. l \in Seq(Nat) /\ Len(l) = m + Len(c)
  BY <1>2, <1>5, ConcatProperties
<1>8. \A k \in Nat : /\ 1 <= k /\ k <= a => (s \o t)[k] = s[k]
                     /\ a < k /\ k <= a + b => (s \o t)[k] = t[k - a]
  BY ConcatAt
<1>9. \A k \in Nat : /\ 1 <= k /\ k <= m => l[k] = Cap(s)[k]
                     /\ m < k /\ k <= m + Len(c) => l[k] = c[k - m]
  <2> DEFINE u == Cap(s)
  <2>1. u \in Seq(Nat) /\ c \in Seq(Nat)
    BY <1>2, <1>5
  <2> HIDE DEF u, c
  <2>2. \A k \in Nat : /\ 1 <= k /\ k <= Len(u) => (u \o c)[k] = u[k]
                       /\ Len(u) < k /\ k <= Len(u) + Len(c) => (u \o c)[k] = c[k - Len(u)]
    BY <2>1, ConcatAt
  <2> QED
    BY <2>2 DEF u
<1> HIDE DEF n, c, l, r
<1>10. Len(c) \in Nat
  BY <1>5
<1> HIDE DEF m, a, b
<1>11. Len(l) = Len(r)
  BY <1>1, <1>2, <1>5, <1>6, <1>7
<1>12. ASSUME NEW k \in 1..Len(r) PROVE l[k] = r[k]
  <2>1. k \in 1..(a + b) /\ k \in 1..(m + Len(c))
    BY <1>1, <1>6, <1>7, <1>11
  <2>0. k \in Nat /\ 1 <= k /\ k <= a + b /\ k <= m + Len(c)
    BY <1>1, <1>4, <1>10, <2>1
  <2>9. r[k] = (s \o t)[k]
    BY <1>6
  <2>a. k \in Nat /\ 1 <= k /\ k <= a + b /\ k <= m + Len(c) /\ r[k] = (s \o t)[k]
    BY <2>0, <2>9
  <2>2. CASE k <= m
    <3>1. k <= a /\ k \in 1..m
      BY <1>1, <1>4, <2>a, <2>2
    <3>2. l[k] = Cap(s)[k]
      BY <1>1, <1>4, <1>9, <1>10, <2>0, <2>2
    <3>3. Cap(s)[k] = s[k]
      BY <1>2, <3>1
    <3>4. (s \o t)[k] = s[k]
      BY <1>1, <1>8, <2>0, <3>1
    <3> QED
      BY <2>9, <3>2, <3>3, <3>4
  <2>3. CASE k > m
    <3>1. k - m \in 1..Len(c) /\ l[k] = t[k - m]
      <4>1. k - m \in 1..Len(c) /\ m < k
        BY <1>4, <1>10, <2>a, <2>3
      <4>2. l[k] = c[k - m]
        BY <1>1, <1>4, <1>9, <1>10, <2>0, <4>1
      <4>3. c[k - m] = t[k - m]
        BY <1>5, <4>1
      <4> QED
        BY <4>1, <4>2, <4>3
    <3>2. m = a
      BY <1>1, <1>2, <1>4, <1>5, <1>10, <3>1
    <3>3. (s \o t)[k] = t[k - a]
      <4>1. a < k
        BY <2>3, <3>2
      <4> QED
        BY <1>1, <1>8, <2>0, <4>1
    <3> QED
      BY <2>9, <3>1, <3>2, <3>3
  <2> QED
    BY <1>1, <1>4, <2>1, <2>2, <2>3
<1>13. r = l
  BY <1>6, <1>7, <1>11, <1>12, SameSeq
<1> QED
  BY <1>4, <1>5, <1>13 DEF r, l, c, n, m

-----------------------------------------------------------------------------
\* The samples of the batches, one batch after the other.
Joins(f) ==
    /\ f[0] = <<>> /\ \A i \in Nat : i < Len(work) => f[i + 1] = f[i] \o work[i + 1]
    /\ \A i \in 0..Len(work) : f[i] \in Seq(Nat)

LEMMA AllSamplesIs ==
    ASSUME work \in Seq(Seq(Nat))
    PROVE  \E f : Joins(f) /\ AllSamples = f[Len(work)]
<1> DEFINE S == Seq(Nat)
           k == Len(work)
           more == [x \in Nat \X S |-> IF x[1] < k THEN x[2] \o work[x[1] + 1] ELSE x[2]]
<1>0. k \in Nat
  OBVIOUS
<1>1. <<>> \in S /\ more \in [Nat \X S -> S]
  <2> SUFFICES ASSUME NEW x \in Nat \X S PROVE (IF x[1] < k THEN x[2] \o work[x[1] + 1] ELSE x[2]) \in S
    OBVIOUS
  <2>1. x[1] \in Nat /\ x[2] \in S
    OBVIOUS
  <2>2. ASSUME x[1] < k PROVE work[x[1] + 1] \in S
    BY <1>0, <2>1, <2>2
  <2> QED
    BY <2>1, <2>2, ConcatProperties
<1>2. PICK f : StepsFrom(f, S, <<>>, more)
  <2> HIDE DEF S, more
  <2> QED
    BY <1>1, Recursion
<1>3. f \in [Nat -> S] /\ f[0] = <<>> /\ \A i \in Nat : i < k => f[i + 1] = f[i] \o work[i + 1]
  <2>1. f \in [Nat -> S] /\ f[0] = <<>> /\ \A i \in Nat : f[i + 1] = more[<<i, f[i]>>]
    BY <1>2 DEF StepsFrom
  <2> SUFFICES ASSUME NEW i \in Nat, i < k PROVE f[i + 1] = f[i] \o work[i + 1]
    BY <2>1
  <2>2. <<i, f[i]>> \in Nat \X S /\ <<i, f[i]>>[1] = i /\ <<i, f[i]>>[2] = f[i]
    BY <2>1
  <2> QED
    BY <2>1, <2>2
<1> HIDE DEF S, more
<1> DEFINE Equation(b) == b = [i \in 0..k |-> IF i = 0 THEN <<>> ELSE b[i - 1] \o work[i]]
           g == CHOOSE b : Equation(b)
           fk == [i \in 0..k |-> f[i]]
<1>4. ASSUME NEW i \in 0..k, i # 0 PROVE f[i] = fk[i - 1] \o work[i]
  <2>1. i - 1 \in Nat /\ i - 1 \in 0..k /\ i - 1 < k /\ (i - 1) + 1 = i
    BY <1>0, <1>4
  <2> QED
    BY <2>1, <1>3
<1>5. Equation(fk)
  BY <1>3, <1>4
<1>6. Equation(g)
  BY <1>5
<1>7. AllSamples = g[k]
  BY DEF AllSamples
<1> HIDE DEF g
<1>8. g[0] = <<>> /\ \A i \in Nat : i < k => g[i + 1] = g[i] \o work[i + 1]
  <2>1. g[0] = <<>>
    BY <1>0, <1>6
  <2>2. ASSUME NEW i \in Nat, i < k PROVE g[i + 1] = g[i] \o work[i + 1]
    <3>1. i + 1 \in 0..k /\ i + 1 # 0 /\ (i + 1) - 1 = i
      BY <1>0, <2>2
    <3> QED
      BY <1>6, <3>1
  <2> QED
    BY <2>1, <2>2
<1> DEFINE I == {i \in Nat : i <= k => g[i] = f[i]}
<1>9. 0 \in I
  BY <1>3, <1>8
<1>10. ASSUME NEW i \in Nat, i \in I PROVE i + 1 \in I
  <2> SUFFICES ASSUME i + 1 <= k PROVE g[i + 1] = f[i + 1]
    OBVIOUS
  <2>1. i < k /\ g[i] = f[i]
    BY <1>0, <1>10
  <2>2. g[i + 1] = g[i] \o work[i + 1] /\ f[i + 1] = f[i] \o work[i + 1]
    BY <1>3, <1>8, <2>1
  <2> QED
    BY <2>1, <2>2
<1> HIDE DEF I
<1>11. \A i \in Nat : i \in I
  BY <1>9, <1>10, NatSet
<1>12. \A i \in 0..k : g[i] \in Seq(Nat)
  BY <1>0, <1>3, <1>11 DEF I, S
<1>13. Joins(g)
  BY <1>8, <1>12 DEF Joins
<1> QED
  BY <1>7, <1>13

\* What the loop over the dataset's batches has after each of them.
Filling == {x \in [batches : Seq(Seq(Nat)), total : Nat] : measurement.n_samples = 0 \/ x.total <= measurement.n_samples}

Filled(i, x) ==
    IF Cut(MembersIn(i), x.total) = <<>> THEN x
    ELSE [batches |-> Append(x.batches, Cut(MembersIn(i), x.total)), total |-> x.total + Len(Cut(MembersIn(i), x.total))]

NoneFilled == [batches |-> <<>>, total |-> 0]

Fills(g) ==
    /\ g[0] = NoneFilled /\ \A i \in Nat : i < NBatches => g[i + 1] = Filled(i + 1, g[i])
    /\ \A i \in 0..NBatches : g[i] \in Filling

LEMMA BatchesAre ==
    ASSUME measurement \in Measurement
    PROVE  /\ NBatches \in Nat /\ Samples <= NBatches * measurement.batch_size
           /\ \A i \in Nat : /\ Batch(i) \cap measurement.members \subseteq Nat
                             /\ IsFiniteSet(Batch(i) \cap measurement.members) /\ MembersIn(i) \in Seq(Nat)
<1> DEFINE b == measurement.batch_size
           a == Samples + b - 1
<1>1. b \in Nat /\ b # 0 /\ Samples \in Nat
  BY ResourceAssumption DEF Measurement
<1>2. a \in Nat
  BY <1>1
<1>3. NBatches = a \div b
  BY DEF NBatches
<1>4. NBatches \in Nat /\ Samples <= NBatches * b
  <2> HIDE DEF a, b
  <2> DEFINE q == a \div b
             m == a % b
  <2>1. q \in Nat /\ m \in Nat /\ m < b /\ a = q * b + m
    BY <1>1, <1>2, DivMod
  <2>2. NBatches = q
    BY <1>3
  <2> HIDE DEF q, m
  <2>3. q * b \in Nat
    BY <1>1, <2>1
  <2>4. Samples + b - 1 = q * b + m
    BY <2>1 DEF a
  <2>5. Samples <= q * b
    BY <1>1, <2>1, <2>3, <2>4
  <2> QED
    BY <2>1, <2>2, <2>5
<1>5. ASSUME NEW i \in Nat
      PROVE  /\ Batch(i) \cap measurement.members \subseteq Nat
             /\ IsFiniteSet(Batch(i) \cap measurement.members) /\ MembersIn(i) \in Seq(Nat)
  <2>1. Batch(i) \cap measurement.members \in SUBSET (0..(Samples - 1))
    BY DEF Batch
  <2>2. IsFiniteSet(0..(Samples - 1)) /\ (0..(Samples - 1)) \subseteq Nat
    BY <1>1, FS_Interval
  <2>3. Batch(i) \cap measurement.members \subseteq Nat /\ IsFiniteSet(Batch(i) \cap measurement.members)
    BY <2>1, <2>2, FS_Subset
  <2>4. MembersIn(i) \in Seq(Batch(i) \cap measurement.members)
    BY <2>3, InOrderListed DEF MembersIn
  <2> QED
    BY <2>3, <2>4
<1> QED
  BY <1>4, <1>5

LEMMA FilledTyped ==
    ASSUME measurement \in Measurement, NEW i \in Nat, NEW x \in Filling
    PROVE  Filled(i, x) \in Filling
<1> DEFINE n == measurement.n_samples
           t == MembersIn(i)
           c == Cut(t, x.total)
<1>1. n \in Nat /\ x.batches \in Seq(Seq(Nat)) /\ x.total \in Nat /\ (n = 0 \/ x.total <= n)
  BY DEF Measurement, Filling
<1>2. t \in Seq(Nat)
  BY BatchesAre
<1>3. c \in Seq(Nat) /\ Len(c) = IF n # 0 /\ x.total + Len(t) > n THEN n - x.total ELSE Len(t)
  BY <1>1, <1>2, CutIs
<1>4. Len(c) \in Nat /\ Len(t) \in Nat
  BY <1>2, <1>3
<1> HIDE DEF c, t, n
<1>5. n = 0 \/ x.total + Len(c) <= n
  BY <1>1, <1>3, <1>4
<1>6. Append(x.batches, c) \in Seq(Seq(Nat)) /\ x.total + Len(c) \in Nat
  BY <1>1, <1>3, <1>4
<1>7. [batches |-> Append(x.batches, c), total |-> x.total + Len(c)] \in Filling
  BY <1>5, <1>6 DEF Filling, n
<1> QED
  BY <1>7 DEF Filled, c, t

LEMMA MaterializedIs ==
    ASSUME measurement \in Measurement
    PROVE  \E g : Fills(g) /\ Materialized = g[NBatches].batches
<1> DEFINE S == Filling
           k == NBatches
           more == [x \in Nat \X S |-> Filled(x[1] + 1, x[2])]
<1>0. k \in Nat
  BY BatchesAre
<1>1. NoneFilled \in S /\ more \in [Nat \X S -> S]
  <2>1. NoneFilled \in S
    BY DEF NoneFilled, Filling, Measurement
  <2>2. ASSUME NEW x \in Nat \X S PROVE Filled(x[1] + 1, x[2]) \in S
    BY FilledTyped
  <2> QED
    BY <2>1, <2>2
<1>2. PICK f : StepsFrom(f, S, NoneFilled, more)
  <2> HIDE DEF S, more
  <2> QED
    BY <1>1, Recursion
<1>3. f \in [Nat -> S] /\ f[0] = NoneFilled /\ \A i \in Nat : f[i + 1] = Filled(i + 1, f[i])
  <2>1. f \in [Nat -> S] /\ f[0] = NoneFilled /\ \A i \in Nat : f[i + 1] = more[<<i, f[i]>>]
    BY <1>2 DEF StepsFrom
  <2> SUFFICES ASSUME NEW i \in Nat PROVE f[i + 1] = Filled(i + 1, f[i])
    BY <2>1
  <2>2. <<i, f[i]>> \in Nat \X S /\ <<i, f[i]>>[1] = i /\ <<i, f[i]>>[2] = f[i]
    BY <2>1
  <2> QED
    BY <2>1, <2>2
<1> HIDE DEF S, more, k
<1> DEFINE Equation(b) ==
               b = [i \in 0..k |-> IF i = 0 THEN NoneFilled
                                   ELSE IF Cut(MembersIn(i), b[i - 1].total) = <<>> THEN b[i - 1]
                                        ELSE [batches |-> Append(b[i - 1].batches, Cut(MembersIn(i), b[i - 1].total)),
                                              total |-> b[i - 1].total + Len(Cut(MembersIn(i), b[i - 1].total))]]
           g == CHOOSE b : Equation(b)
           fk == [i \in 0..k |-> f[i]]
<1>4. ASSUME NEW i \in 0..k, i # 0 PROVE f[i] = Filled(i, fk[i - 1])
  <2>1. i - 1 \in Nat /\ i - 1 \in 0..k /\ (i - 1) + 1 = i
    BY <1>0, <1>4
  <2> QED
    BY <2>1, <1>3
<1>5. Equation(fk)
  BY <1>3, <1>4 DEF Filled
<1>6. Equation(g)
  BY <1>5
<1>7. Materialized = g[k].batches
  BY DEF Materialized, NoneFilled, k
<1> HIDE DEF g
<1>8. g[0] = NoneFilled /\ \A i \in Nat : i < k => g[i + 1] = Filled(i + 1, g[i])
  <2>1. g[0] = NoneFilled
    BY <1>0, <1>6
  <2>2. ASSUME NEW i \in Nat, i < k PROVE g[i + 1] = Filled(i + 1, g[i])
    <3>1. i + 1 \in 0..k /\ i + 1 # 0 /\ (i + 1) - 1 = i
      BY <1>0, <2>2
    <3> QED
      BY <1>6, <3>1 DEF Filled
  <2> QED
    BY <2>1, <2>2
<1> HIDE DEF Equation
<1> DEFINE I == {i \in Nat : i <= k => g[i] = f[i]}
<1>9. 0 \in I
  BY <1>3, <1>8
<1>10. ASSUME NEW i \in Nat, i \in I PROVE i + 1 \in I
  BY <1>0, <1>10, <1>3, <1>8
<1> HIDE DEF I
<1>11. \A i \in Nat : i \in I
  BY <1>9, <1>10, NatSet
<1>12. \A i \in 0..k : g[i] \in Filling
  BY <1>0, <1>3, <1>11 DEF I, S
<1>13. Fills(g)
  BY <1>8, <1>12 DEF Fills, k
<1> QED
  BY <1>7, <1>13 DEF k

-----------------------------------------------------------------------------
\* The members before the end of the i-th batch.
MembersBefore(i) == {s \in (0..(Samples - 1)) \cap measurement.members : s < i * measurement.batch_size}

LEMMA BeforeGrows ==
    ASSUME measurement \in Measurement, NEW i \in Nat
    PROVE  /\ MembersBefore(i) \subseteq Nat /\ IsFiniteSet(MembersBefore(i)) /\ InOrder(MembersBefore(i)) \in Seq(Nat)
           /\ InOrder(MembersBefore(i + 1)) = InOrder(MembersBefore(i)) \o MembersIn(i + 1)
<1> DEFINE b == measurement.batch_size
           B == Batch(i + 1) \cap measurement.members
<1>1. b \in Nat /\ Samples \in Nat /\ i * b \in Nat /\ (i + 1) * b \in Nat /\ (i + 1) - 1 = i
  BY ResourceAssumption DEF Measurement
<1>2. i * b <= (i + 1) * b
  BY <1>1
<1>3. IsFiniteSet(0..(Samples - 1)) /\ (0..(Samples - 1)) \subseteq Nat
  BY <1>1, FS_Interval
<1>4. MembersBefore(i) \in SUBSET (0..(Samples - 1))
  BY DEF MembersBefore
<1>5. MembersBefore(i) \subseteq Nat /\ IsFiniteSet(MembersBefore(i))
  BY <1>3, <1>4, FS_Subset
<1>6. InOrder(MembersBefore(i)) \in Seq(Nat)
  <2>1. InOrder(MembersBefore(i)) \in Seq(MembersBefore(i))
    BY <1>5, InOrderListed
  <2> QED
    BY <1>5, <2>1
<1>7. B \subseteq Nat /\ IsFiniteSet(B)
  BY BatchesAre
<1>8. \A s \in 0..(Samples - 1) : s < (i + 1) * b <=> s < i * b \/ (i * b <= s /\ s < (i + 1) * b)
  <2> DEFINE x == i * b
             y == (i + 1) * b
  <2> HIDE DEF x, y
  <2>1. x \in Nat /\ y \in Nat /\ x <= y
    BY <1>1, <1>2 DEF x, y
  <2> SUFFICES ASSUME NEW s \in 0..(Samples - 1) PROVE s < y <=> s < x \/ (x <= s /\ s < y)
    BY DEF x, y
  <2>2. s \in Nat
    BY <1>3
  <2> QED
    BY <2>1, <2>2
<1>9. B = {s \in (0..(Samples - 1)) \cap measurement.members : i * b <= s /\ s < (i + 1) * b}
  BY <1>1 DEF Batch
<1>10. MembersBefore(i + 1) = MembersBefore(i) \cup B
  BY <1>8, <1>9 DEF MembersBefore
<1>11. \A s \in MembersBefore(i), t \in B : s < t
  <2> SUFFICES ASSUME NEW s \in MembersBefore(i), NEW t \in B PROVE s < t
    OBVIOUS
  <2>1. s \in Nat /\ t \in Nat /\ s < i * b /\ i * b <= t
    BY <1>5, <1>7, <1>9 DEF MembersBefore
  <2> HIDE DEF b, B
  <2> QED
    BY <1>1, <2>1
<1> HIDE DEF B
<1>12. InOrder(MembersBefore(i) \cup B) = InOrder(MembersBefore(i)) \o InOrder(B)
  BY <1>5, <1>7, <1>11, InOrderJoined
<1> QED
  BY <1>5, <1>6, <1>10, <1>12 DEF MembersIn, B

LEMMA BeforeAll ==
    ASSUME measurement \in Measurement
    PROVE  MembersBefore(0) = {} /\ MembersBefore(NBatches) = (0..(Samples - 1)) \cap measurement.members
<1> DEFINE b == measurement.batch_size
           x == NBatches * b
<1>1. b \in Nat /\ Samples \in Nat /\ NBatches \in Nat /\ Samples <= x
  BY ResourceAssumption, BatchesAre DEF Measurement
<1>2. x \in Nat
  BY <1>1
<1>3. 0 * b = 0
  BY <1>1
<1>4. MembersBefore(0) = {}
  BY <1>1, <1>3 DEF MembersBefore
<1> HIDE DEF x
<1>5. \A s \in 0..(Samples - 1) : s < x
  BY <1>1, <1>2
<1>6. MembersBefore(NBatches) = (0..(Samples - 1)) \cap measurement.members
  BY <1>5 DEF MembersBefore, x
<1> QED
  BY <1>4, <1>6

Begins(s, t) == Len(s) <= Len(t) /\ \A k \in 1..Len(s) : s[k] = t[k]

\* What has been filled stays.
LEMMA FillingBegins ==
    ASSUME measurement \in Measurement, NEW g, Fills(g), NEW i \in 0..NBatches
    PROVE  Begins(g[i].batches, g[NBatches].batches)
<1> DEFINE last == NBatches
           I == {d \in Nat : d <= last => Begins(g[last - d].batches, g[last].batches)}
<1>0. last \in Nat
  BY BatchesAre
<1>1. \A j \in 0..last : g[j].batches \in Seq(Seq(Nat))
  BY DEF Fills, Filling
<1>2. 0 \in I
  <2>1. last - 0 = last
    BY <1>0
  <2>2. Len(g[last].batches) \in Nat
    BY <1>0, <1>1
  <2> QED
    BY <2>1, <2>2 DEF Begins
<1>3. ASSUME NEW d \in Nat, d \in I PROVE d + 1 \in I
  <2> SUFFICES ASSUME d + 1 <= last PROVE Begins(g[last - (d + 1)].batches, g[last].batches)
    OBVIOUS
  <2> DEFINE j == last - (d + 1)
  <2>1. j \in Nat /\ j < last /\ j + 1 = last - d /\ j \in 0..last /\ j + 1 \in 0..last /\ d <= last
    BY <1>0
  <2>2. g[j + 1] = Filled(j + 1, g[j]) /\ Begins(g[j + 1].batches, g[last].batches)
    BY <1>3, <2>1 DEF Fills
  <2> HIDE DEF j
  <2> DEFINE s == g[j].batches
             t == g[j + 1].batches
             u == g[last].batches
             c == Cut(MembersIn(j + 1), g[j].total)
  <2>3. s \in Seq(Seq(Nat)) /\ t \in Seq(Seq(Nat)) /\ u \in Seq(Seq(Nat))
    BY <1>0, <1>1, <2>1
  <2>4. t = s \/ t = Append(s, c)
    BY <2>2 DEF Filled
  <2> HIDE DEF s, t, u, c
  <2>5. Begins(s, t)
    <3>1. CASE t = s
      BY <2>3, <3>1 DEF Begins
    <3>2. CASE t = Append(s, c)
      <4>1. Len(t) = Len(s) + 1 /\ \A k \in 1..Len(s) : t[k] = s[k]
        BY <2>3, <3>2, AppendProperties
      <4>2. Len(s) \in Nat
        BY <2>3
      <4> QED
        BY <4>1, <4>2 DEF Begins
    <3> QED
      BY <2>4, <3>1, <3>2
  <2>6. Begins(t, u)
    BY <2>2 DEF t, u
  <2>7. Len(s) \in Nat /\ Len(t) \in Nat /\ Len(u) \in Nat
    BY <2>3
  <2>8. Begins(s, u)
    BY <2>5, <2>6, <2>7 DEF Begins
  <2> QED
    BY <2>8 DEF s, u, j
<1> HIDE DEF I
<1>4. last - i \in I
  <2>1. last - i \in Nat
    BY <1>0
  <2> QED
    BY <1>2, <1>3, <2>1, NatSet
<1>5. last - (last - i) = i /\ last - i <= last
  BY <1>0
<1> QED
  BY <1>4, <1>5 DEF I

LEMMA NothingEmpty ==
    ASSUME measurement \in Measurement, NEW g, Fills(g)
    PROVE  \A k \in DOMAIN g[NBatches].batches : g[NBatches].batches[k] # <<>>
<1> DEFINE last == NBatches
           I == {i \in Nat : i <= last => \A k \in DOMAIN g[i].batches : g[i].batches[k] # <<>>}
<1>0. last \in Nat
  BY BatchesAre
<1>1. \A j \in 0..last : g[j].batches \in Seq(Seq(Nat))
  BY DEF Fills, Filling
<1>2. 0 \in I
  BY DEF Fills, NoneFilled
<1>3. ASSUME NEW i \in Nat, i \in I PROVE i + 1 \in I
  <2> SUFFICES ASSUME i + 1 <= last PROVE \A k \in DOMAIN g[i + 1].batches : g[i + 1].batches[k] # <<>>
    OBVIOUS
  <2> DEFINE s == g[i].batches
             t == g[i + 1].batches
             c == Cut(MembersIn(i + 1), g[i].total)
  <2>1. i < last /\ i <= last /\ i \in 0..last
    BY <1>0
  <2>2. g[i + 1] = Filled(i + 1, g[i]) /\ \A k \in DOMAIN s : s[k] # <<>>
    BY <1>3, <2>1 DEF Fills
  <2>3. t = s \/ (c # <<>> /\ t = Append(s, c))
    BY <2>2 DEF Filled
  <2>4. s \in Seq(Seq(Nat))
    BY <1>1, <2>1
  <2> HIDE DEF s, t, c
  <2>5. \A k \in DOMAIN t : t[k] # <<>>
    <3>1. CASE t = s
      BY <2>2, <3>1
    <3>2. CASE c # <<>> /\ t = Append(s, c)
      <4> SUFFICES ASSUME NEW k \in DOMAIN t PROVE t[k] # <<>>
        OBVIOUS
      <4>1. Len(s) \in Nat /\ DOMAIN s = 1..Len(s)
        BY <2>4
      <4>2. /\ DOMAIN t = 1..(Len(s) + 1) /\ t[Len(s) + 1] = c
            /\ \A j \in 1..Len(s) : t[j] = s[j]
        BY <2>4, <3>2
      <4>3. k \in 1..Len(s) \/ k = Len(s) + 1
        BY <4>1, <4>2
      <4> QED
        BY <2>2, <3>2, <4>1, <4>2, <4>3
    <3> QED
      BY <2>3, <3>1, <3>2
  <2> QED
    BY <2>5 DEF t
<1> HIDE DEF I
<1>4. last \in I
  BY <1>0, <1>2, <1>3, NatSet
<1> QED
  BY <1>0, <1>4 DEF I

\* The workload is the first members of the subset, and no batch of it is empty.
LEMMA WorkIs ==
    ASSUME measurement \in Measurement, work = Materialized
    PROVE  /\ work \in Seq(Seq(Nat)) /\ \A k \in DOMAIN work : work[k] # <<>>
           /\ AllSamples = FirstMembers
<1> DEFINE last == NBatches
           T(i) == InOrder(MembersBefore(i))
<1>0. last \in Nat
  BY BatchesAre
<1>1. PICK g : Fills(g) /\ work = g[last].batches
  BY MaterializedIs
<1>2. \A i \in 0..last : g[i] \in Filling /\ g[i].batches \in Seq(Seq(Nat)) /\ g[i].total \in Nat
  BY <1>1 DEF Fills, Filling
<1>3. work \in Seq(Seq(Nat)) /\ \A k \in DOMAIN work : work[k] # <<>>
  BY <1>0, <1>1, <1>2, NothingEmpty
<1>4. PICK f : Joins(f) /\ AllSamples = f[Len(work)]
  BY <1>3, AllSamplesIs
<1>5. \A i \in Nat : T(i) \in Seq(Nat)
  BY BeforeGrows
<1> DEFINE I == {i \in Nat : i <= last => f[Len(g[i].batches)] = Cap(T(i)) /\ g[i].total = Len(Cap(T(i)))}
<1>6. 0 \in I
  <2>1. T(0) = <<>>
    <3>1. Cardinality({}) = 0
      BY FS_EmptySet
    <3>2. InOrder({}) \in Seq({}) /\ DOMAIN InOrder({}) = 1..0
      BY <3>1, FS_EmptySet, InOrderListed
    <3>3. InOrder({}) = <<>>
      BY <3>2
    <3> QED
      BY <3>3, BeforeAll
  <2>2. Cap(<<>>) = <<>>
    BY DEF Cap, Measurement
  <2>3. g[0] = NoneFilled /\ f[0] = <<>>
    BY <1>1, <1>4 DEF Fills, Joins
  <2>4. g[0].batches = <<>> /\ g[0].total = 0
    BY <2>3 DEF NoneFilled
  <2> QED
    BY <2>1, <2>2, <2>3, <2>4
<1>7. ASSUME NEW i \in Nat, i \in I PROVE i + 1 \in I
  <2> SUFFICES ASSUME i + 1 <= last
               PROVE  f[Len(g[i + 1].batches)] = Cap(T(i + 1)) /\ g[i + 1].total = Len(Cap(T(i + 1)))
    OBVIOUS
  <2>1. i < last /\ i <= last /\ i \in 0..last /\ i + 1 \in 0..last
    BY <1>0
  <2>2. g[i + 1] = Filled(i + 1, g[i]) /\ f[Len(g[i].batches)] = Cap(T(i)) /\ g[i].total = Len(Cap(T(i)))
    BY <1>1, <1>7, <2>1 DEF Fills
  <2> DEFINE s == T(i)
             t == MembersIn(i + 1)
             c == Cut(t, Len(Cap(s)))
             bs == g[i].batches
  <2>3. s \in Seq(Nat) /\ t \in Seq(Nat) /\ T(i + 1) = s \o t
    <3>1. i + 1 \in Nat
      OBVIOUS
    <3>2. t \in Seq(Nat)
      BY <3>1, BatchesAre
    <3>3. s \in Seq(Nat)
      BY <1>5
    <3> QED
      BY <3>2, <3>3, BeforeGrows
  <2>4. Cap(s) \in Seq(Nat) /\ c \in Seq(Nat) /\ Cap(T(i + 1)) = Cap(s) \o c
    <3> HIDE DEF s, t, T
    <3> QED
      BY <2>3, CapIs, CapGrows
  <2>5. g[i + 1] = IF c = <<>> THEN g[i] ELSE [batches |-> Append(bs, c), total |-> Len(Cap(s)) + Len(c)]
    BY <2>2 DEF Filled
  <2>6. bs \in Seq(Seq(Nat)) /\ Begins(g[i + 1].batches, work)
    BY <1>1, <1>2, <2>1, FillingBegins
  <2>7. f[Len(bs)] = Cap(s) /\ g[i].total = Len(Cap(s))
    BY <2>2
  <2> HIDE DEF s, t, c, bs, T
  <2>8. CASE c = <<>>
    <3>1. Cap(s) \o c = Cap(s)
      BY <2>4, <2>8
    <3> QED
      BY <2>4, <2>5, <2>7, <2>8, <3>1 DEF bs
  <2>9. CASE c # <<>>
    <3>1. g[i + 1].batches = Append(bs, c) /\ g[i + 1].total = Len(Cap(s)) + Len(c)
      BY <2>5, <2>9
    <3>2. Len(bs) \in Nat /\ Len(Append(bs, c)) = Len(bs) + 1 /\ Append(bs, c)[Len(bs) + 1] = c
      BY <2>4, <2>6
    <3>3. Len(bs) + 1 <= Len(work) /\ work[Len(bs) + 1] = c
      BY <2>6, <3>1, <3>2 DEF Begins
    <3>4. Len(bs) < Len(work)
      BY <1>3, <3>2, <3>3
    <3>5. f[Len(bs) + 1] = f[Len(bs)] \o work[Len(bs) + 1]
      BY <1>4, <3>2, <3>4 DEF Joins
    <3>6. Len(Cap(s) \o c) = Len(Cap(s)) + Len(c)
      BY <2>4, ConcatProperties
    <3> QED
      BY <2>4, <2>7, <3>1, <3>2, <3>3, <3>5, <3>6
  <2> QED
    BY <2>8, <2>9
<1> HIDE DEF I
<1>8. last \in I
  BY <1>0, <1>6, <1>7, NatSet
<1>9. f[Len(work)] = Cap(T(last))
  BY <1>0, <1>1, <1>8 DEF I
<1>10. Cap(T(last)) = FirstMembers
  BY BeforeAll DEF Cap, FirstMembers
<1> QED
  BY <1>3, <1>4, <1>9, <1>10

-----------------------------------------------------------------------------
\* The samples in some of the batches.
Sums(f, batches) ==
    /\ f[0] = 0 /\ \A i \in 0..Len(work) : f[i] \in Nat
    /\ \A i \in Nat : i < Len(work) => f[i + 1] = f[i] + (IF i + 1 \in batches THEN Len(work[i + 1]) ELSE 0)

LEMMA SamplesOfIs ==
    ASSUME work \in Seq(Seq(Nat)), NEW batches
    PROVE  \E f : Sums(f, batches) /\ SamplesOf(batches) = f[Len(work)]
<1> DEFINE k == Len(work)
           size(i) == IF i \in batches THEN Len(work[i]) ELSE 0
           more == [x \in Nat \X Nat |-> IF x[1] < k THEN x[2] + size(x[1] + 1) ELSE x[2]]
<1>0. k \in Nat
  OBVIOUS
<1>1. \A i \in Nat : i < k => size(i + 1) \in Nat
  <2> SUFFICES ASSUME NEW i \in Nat, i < k PROVE size(i + 1) \in Nat
    OBVIOUS
  <2>1. work[i + 1] \in Seq(Nat)
    BY <1>0
  <2> QED
    BY <2>1
<1> HIDE DEF size
<1>2. 0 \in Nat /\ more \in [Nat \X Nat -> Nat]
  <2> SUFFICES ASSUME NEW x \in Nat \X Nat PROVE (IF x[1] < k THEN x[2] + size(x[1] + 1) ELSE x[2]) \in Nat
    OBVIOUS
  <2>1. x[1] \in Nat /\ x[2] \in Nat
    OBVIOUS
  <2> QED
    BY <1>1, <2>1
<1>3. PICK f : StepsFrom(f, Nat, 0, more)
  <2> HIDE DEF more
  <2> QED
    BY <1>2, Recursion
<1>4. f \in [Nat -> Nat] /\ f[0] = 0 /\ \A i \in Nat : i < k => f[i + 1] = f[i] + size(i + 1)
  <2>1. f \in [Nat -> Nat] /\ f[0] = 0 /\ \A i \in Nat : f[i + 1] = more[<<i, f[i]>>]
    BY <1>3 DEF StepsFrom
  <2> SUFFICES ASSUME NEW i \in Nat, i < k PROVE f[i + 1] = f[i] + size(i + 1)
    BY <2>1
  <2>2. <<i, f[i]>> \in Nat \X Nat /\ <<i, f[i]>>[1] = i /\ <<i, f[i]>>[2] = f[i]
    BY <2>1
  <2> QED
    BY <2>1, <2>2
<1> HIDE DEF more, k
<1> DEFINE Equation(b) == b = [i \in 0..k |-> IF i = 0 THEN 0 ELSE b[i - 1] + size(i)]
           g == CHOOSE b : Equation(b)
           fk == [i \in 0..k |-> f[i]]
<1>5. ASSUME NEW i \in 0..k, i # 0 PROVE f[i] = fk[i - 1] + size(i)
  <2>1. i - 1 \in Nat /\ i - 1 \in 0..k /\ i - 1 < k /\ (i - 1) + 1 = i
    BY <1>0, <1>5
  <2> QED
    BY <2>1, <1>4
<1>6. Equation(fk)
  BY <1>4, <1>5
<1>7. Equation(g)
  BY <1>6
<1>8. SamplesOf(batches) = g[k]
  BY DEF SamplesOf, size, k
<1> HIDE DEF g
<1>9. g[0] = 0 /\ \A i \in Nat : i < k => g[i + 1] = g[i] + size(i + 1)
  <2>1. g[0] = 0
    BY <1>0, <1>7
  <2>2. ASSUME NEW i \in Nat, i < k PROVE g[i + 1] = g[i] + size(i + 1)
    <3>1. i + 1 \in 0..k /\ i + 1 # 0 /\ (i + 1) - 1 = i
      BY <1>0, <2>2
    <3> QED
      BY <1>7, <3>1
  <2> QED
    BY <2>1, <2>2
<1> HIDE DEF Equation
<1> DEFINE I == {i \in Nat : i <= k => g[i] = f[i]}
<1>10. 0 \in I
  BY <1>4, <1>9
<1>11. ASSUME NEW i \in Nat, i \in I PROVE i + 1 \in I
  <2> SUFFICES ASSUME i + 1 <= k PROVE g[i + 1] = f[i + 1]
    OBVIOUS
  <2>1. i < k /\ g[i] = f[i]
    BY <1>0, <1>11
  <2>2. g[i + 1] = g[i] + size(i + 1) /\ f[i + 1] = f[i] + size(i + 1)
    BY <1>4, <1>9, <2>1
  <2> QED
    BY <2>1, <2>2
<1> HIDE DEF I
<1>12. \A i \in Nat : i \in I
  BY <1>10, <1>11, NatSet
<1>13. \A i \in 0..k : g[i] \in Nat
  BY <1>0, <1>4, <1>12 DEF I
<1>14. Sums(g, batches)
  BY <1>9, <1>13 DEF Sums, size, k
<1> QED
  BY <1>8, <1>14 DEF k

\* Batches that are not the same are counted apart.
LEMMA SamplesApart ==
    ASSUME work \in Seq(Seq(Nat)), NEW A, NEW B, A \cap B = {}
    PROVE  /\ SamplesOf(A) \in Nat /\ SamplesOf(B) \in Nat
           /\ SamplesOf(A \cup B) = SamplesOf(A) + SamplesOf(B)
<1> DEFINE k == Len(work)
<1>0. k \in Nat
  OBVIOUS
<1>1. PICK a : Sums(a, A) /\ SamplesOf(A) = a[k]
  BY SamplesOfIs
<1>2. PICK b : Sums(b, B) /\ SamplesOf(B) = b[k]
  BY SamplesOfIs
<1>3. PICK c : Sums(c, A \cup B) /\ SamplesOf(A \cup B) = c[k]
  BY SamplesOfIs
<1> DEFINE I == {i \in Nat : i <= k => c[i] = a[i] + b[i]}
<1>4. 0 \in I
  BY <1>1, <1>2, <1>3 DEF Sums
<1>5. ASSUME NEW i \in Nat, i \in I PROVE i + 1 \in I
  <2> SUFFICES ASSUME i + 1 <= k PROVE c[i + 1] = a[i + 1] + b[i + 1]
    OBVIOUS
  <2>1. i < k /\ i \in 0..k /\ i + 1 \in 1..k /\ c[i] = a[i] + b[i]
    BY <1>0, <1>5
  <2>2. work[i + 1] \in Seq(Nat)
    BY <2>1
  <2> DEFINE n == Len(work[i + 1])
  <2>3. n \in Nat
    BY <2>2
  <2>4. /\ a[i + 1] = a[i] + (IF i + 1 \in A THEN n ELSE 0)
        /\ b[i + 1] = b[i] + (IF i + 1 \in B THEN n ELSE 0)
        /\ c[i + 1] = c[i] + (IF i + 1 \in A \cup B THEN n ELSE 0)
        /\ a[i] \in Nat /\ b[i] \in Nat
    BY <1>1, <1>2, <1>3, <2>1 DEF Sums
  <2>5. ~(i + 1 \in A /\ i + 1 \in B)
    OBVIOUS
  <2> HIDE DEF n
  <2> QED
    BY <2>1, <2>3, <2>4, <2>5
<1> HIDE DEF I
<1>6. k \in I
  BY <1>0, <1>4, <1>5, NatSet
<1>7. a[k] \in Nat /\ b[k] \in Nat
  BY <1>0, <1>1, <1>2 DEF Sums
<1> QED
  BY <1>0, <1>1, <1>2, <1>3, <1>6, <1>7 DEF I

-----------------------------------------------------------------------------
(***************************************************************************)
(* The passes.                                                             *)
(***************************************************************************)

CallRecord == [state : {"waiting", "running", "ended", "cancelled"}, ok : BOOLEAN, end : Nat]

InPass == pass \in {"run", "cancel", "drain"}

PassTypes ==
    /\ measurement \in Measurement /\ elapsed \in Nat /\ asked \in Nat
    /\ pass \in {"request", "refused", "between", "run", "cancel", "drain", "concluded"}
    /\ pass \notin {"request", "refused"} => work = Materialized
    /\ call \in Seq(CallRecord) /\ \A i \in DOMAIN call : call[i].end <= elapsed
    /\ InPass => Len(call) = Len(work)
    /\ measurement.workers = 1 => pass \notin {"cancel", "drain"}

\* Nothing runs between passes, and what was cancelled was cancelled because the time was up.
Quiet ==
    /\ ~InPass => RunningCalls = {}
    /\ pass = "cancel" \/ CancelledCalls # {} => Timed /\ elapsed >= measurement.timeout

\* Without a pool the calls are made one by one, and after one that failed or came late no other.
OneByOneTo(n) ==
    /\ n \in Nat /\ n <= Len(call)
    /\ EndedCalls = 1..n /\ RunningCalls \subseteq {n + 1}
    /\ \A i \in DOMAIN call : i \in EndedCalls \/ i \in RunningCalls \/ i \in QueuedCalls
    /\ \A i \in 1..n : i < n \/ RunningCalls # {} => call[i].ok /\ OnTime(call[i])

OneByOne == measurement.workers = 1 => \E n \in Nat : OneByOneTo(n)

\* The records that were made, in the order of the passes.
TrialRecord(k, t) ==
    /\ t.phase = IF k <= measurement.warmups THEN "WARMUP" ELSE "MEASURED"
    /\ t.status = "COMPLETED" => t.completed = Planned

PassesRecorded ==
    /\ trials \in Seq([phase : {"WARMUP", "MEASURED"}, status : {"COMPLETED", "FAILED", "TIMED_OUT"},
                       completed : Int, failed : Int, late : Int, not_attempted : Int])
    /\ \A k \in DOMAIN trials : TrialRecord(k, trials[k])
    /\ Len(trials) <= measurement.warmups + measurement.repeats
    /\ InPass => Len(trials) < measurement.warmups + measurement.repeats
    /\ pass \in {"request", "refused"} => trials = <<>>

LastHonest == pass = "between" /\ trials # <<>> => PassIsHonest(trials[Len(trials)])

MeasuredTrials == {i \in DOMAIN trials : i > measurement.warmups}
CompleteTrials == {i \in MeasuredTrials : trials[i].completed = Planned /\ trials[i].status = "COMPLETED"}

ConclusionHonest ==
    pass = "concluded" =>
        /\ analysis.status = "COMPLETE" <=>
              CompleteTrials = MeasuredTrials /\ Cardinality(CompleteTrials) >= MinTrials
        /\ analysis.evidence = "MEASURED" <=> CompleteTrials # {} /\ Cardinality(CompleteTrials) >= MinTrials

MeasurementInv == PassTypes /\ Quiet /\ OneByOne /\ PassesRecorded /\ LastHonest /\ ConclusionHonest

LEMMA MeasurementInitial == ResourceInit => MeasurementInv
<1> SUFFICES ASSUME ResourceInit PROVE MeasurementInv
  OBVIOUS
<1> USE DEF ResourceInit
<1>1. measurement \in Measurement /\ measurement.warmups \in Nat /\ measurement.repeats \in Nat
  BY ResourceAssumption DEF Measurement
<1>2. PassTypes /\ Quiet
  BY <1>1 DEF PassTypes, Quiet, InPass, RunningCalls, CancelledCalls
<1>3. OneByOne
  <2>1. OneByOneTo(0)
    BY DEF OneByOneTo, EndedCalls, RunningCalls
  <2> QED
    BY <2>1 DEF OneByOne
<1>4. PassesRecorded /\ LastHonest /\ ConclusionHonest
  BY <1>1 DEF PassesRecorded, LastHonest, ConclusionHonest, InPass
<1> QED
  BY <1>2, <1>3, <1>4 DEF MeasurementInv

\* The request never changes, and the workload only before the first pass.
LEMMA RequestKept ==
    ASSUME [ResourceNext]_resourceVars
    PROVE  /\ measurement' = measurement /\ Materialized' = Materialized /\ (Timed' <=> Timed)
           /\ \A c : OnTime(c)' <=> OnTime(c)
<1>1. measurement' = measurement
  BY DEF ResourceNext, resourceVars, Prepare, BeginPass, Tick, AllCompleted, TimeIsUp, CancelNext, RecordPass, Conclude, StartCall, EndCall
<1> QED
  BY <1>1 DEF Materialized, NBatches, Cut, MembersIn, Batch, Timed, OnTime

\* What is known of the calls is kept while they are.
LEMMA CallsKept ==
    ASSUME measurement' = measurement, call' = call
    PROVE  /\ EndedCalls' = EndedCalls /\ RunningCalls' = RunningCalls /\ QueuedCalls' = QueuedCalls
           /\ CancelledCalls' = CancelledCalls /\ FailedCalls' = FailedCalls /\ LateCalls' = LateCalls
           /\ GoodCalls' = GoodCalls /\ (OneByOne' <=> OneByOne)
  BY DEF EndedCalls, RunningCalls, QueuedCalls, CancelledCalls, FailedCalls, LateCalls, GoodCalls, OneByOne, OneByOneTo,
         OnTime, Timed

LEMMA RecordsKept ==
    ASSUME measurement' = measurement, work' = work
    PROVE  /\ \A b : SamplesOf(b)' = SamplesOf(b)
           /\ Planned' = Planned /\ \A k, t : TrialRecord(k, t)' <=> TrialRecord(k, t)
  BY DEF SamplesOf, Planned, TrialRecord

LEMMA HonestKept ==
    ASSUME measurement' = measurement, work' = work, call' = call, elapsed' = elapsed, NEW t
    PROVE  PassIsHonest(t)' <=> PassIsHonest(t)
<1>1. /\ EndedCalls' = EndedCalls /\ RunningCalls' = RunningCalls /\ GoodCalls' = GoodCalls
      /\ \A b : SamplesOf(b)' = SamplesOf(b)
      /\ Planned' = Planned
  BY CallsKept, RecordsKept
<1>2. (Timed' <=> Timed) /\ (OutOfTime' <=> OutOfTime)
  BY DEF Timed, OutOfTime
<1>3. {i \in DOMAIN work : call[i].state \in {"waiting", "cancelled"}}' = {i \in DOMAIN work : call[i].state \in {"waiting", "cancelled"}}
  OBVIOUS
<1> QED
  BY <1>1, <1>2, <1>3 DEF PassIsHonest

-----------------------------------------------------------------------------
\* One call moves on, and the others stay as they are.
Moves(i, c) ==
    /\ call' \in Seq(CallRecord) /\ Len(call') = Len(call) /\ DOMAIN call' = DOMAIN call
    /\ call'[i] = c /\ \A j \in DOMAIN call : j # i => call'[j] = call[j]

LEMMA OneMoves ==
    ASSUME call \in Seq(CallRecord), NEW i \in DOMAIN call, NEW c \in CallRecord, call' = [call EXCEPT ![i] = c]
    PROVE  Moves(i, c)
  BY DEF Moves

LEMMA CallStarts ==
    ASSUME PassTypes, NEW i \in DOMAIN call, StartCall(i)
    PROVE  /\ i \in QueuedCalls /\ Moves(i, [call[i] EXCEPT !.state = "running"])
           /\ EndedCalls' = EndedCalls /\ RunningCalls' = RunningCalls \cup {i} /\ QueuedCalls' = QueuedCalls \ {i}
           /\ CancelledCalls' = CancelledCalls
<1> DEFINE c == [call[i] EXCEPT !.state = "running"]
<1>1. call \in Seq(CallRecord) /\ i \in QueuedCalls /\ call[i] \in CallRecord
  BY DEF PassTypes, StartCall
<1>2. c \in CallRecord /\ c.state = "running" /\ call[i].state = "waiting"
  BY <1>1 DEF CallRecord, QueuedCalls
<1>3. call' = [call EXCEPT ![i] = c]
  BY DEF StartCall
<1> HIDE DEF c
<1>4. Moves(i, c)
  BY <1>1, <1>2, <1>3, OneMoves
<1>5. /\ EndedCalls' = EndedCalls /\ RunningCalls' = RunningCalls \cup {i} /\ QueuedCalls' = QueuedCalls \ {i}
      /\ CancelledCalls' = CancelledCalls
  BY <1>2, <1>4 DEF Moves, EndedCalls, RunningCalls, QueuedCalls, CancelledCalls
<1> QED
  BY <1>1, <1>4, <1>5 DEF c

LEMMA CallEnds ==
    ASSUME PassTypes, NEW i \in DOMAIN call, EndCall(i)
    PROVE  \E ok \in BOOLEAN :
              /\ i \in RunningCalls /\ Moves(i, [state |-> "ended", ok |-> ok, end |-> elapsed])
              /\ EndedCalls' = EndedCalls \cup {i} /\ RunningCalls' = RunningCalls \ {i} /\ QueuedCalls' = QueuedCalls
              /\ CancelledCalls' = CancelledCalls
<1>1. PICK ok \in BOOLEAN : call' = [call EXCEPT ![i] = [state |-> "ended", ok |-> ok, end |-> elapsed]]
  BY DEF EndCall
<1> DEFINE c == [state |-> "ended", ok |-> ok, end |-> elapsed]
<1>2. call \in Seq(CallRecord) /\ i \in RunningCalls /\ call[i].state = "running"
  BY DEF PassTypes, EndCall, RunningCalls
<1>3. c \in CallRecord /\ c.state = "ended"
  BY DEF PassTypes, CallRecord
<1>a. call' = [call EXCEPT ![i] = c]
  BY <1>1
<1> HIDE DEF c
<1>4. Moves(i, c)
  BY <1>2, <1>3, <1>a, OneMoves
<1>5. /\ EndedCalls' = EndedCalls \cup {i} /\ RunningCalls' = RunningCalls \ {i} /\ QueuedCalls' = QueuedCalls
      /\ CancelledCalls' = CancelledCalls
  BY <1>2, <1>3, <1>4 DEF Moves, EndedCalls, RunningCalls, QueuedCalls, CancelledCalls
<1> QED
  BY <1>2, <1>4, <1>5 DEF c

LEMMA CallIsCancelled ==
    ASSUME PassTypes, NEW i \in QueuedCalls, call' = [call EXCEPT ![i].state = "cancelled"]
    PROVE  /\ i \in DOMAIN call /\ Moves(i, [call[i] EXCEPT !.state = "cancelled"])
           /\ EndedCalls' = EndedCalls /\ RunningCalls' = RunningCalls /\ CancelledCalls' = CancelledCalls \cup {i}
<1> DEFINE c == [call[i] EXCEPT !.state = "cancelled"]
<1>1. call \in Seq(CallRecord) /\ i \in DOMAIN call /\ call[i] \in CallRecord /\ call[i].state = "waiting"
  BY DEF PassTypes, QueuedCalls
<1>2. c \in CallRecord /\ c.state = "cancelled"
  BY <1>1 DEF CallRecord
<1>3. call' = [call EXCEPT ![i] = c]
  OBVIOUS
<1> HIDE DEF c
<1>4. Moves(i, c)
  BY <1>1, <1>2, <1>3, OneMoves
<1>5. EndedCalls' = EndedCalls /\ RunningCalls' = RunningCalls /\ CancelledCalls' = CancelledCalls \cup {i}
  BY <1>1, <1>2, <1>4 DEF Moves, EndedCalls, RunningCalls, CancelledCalls
<1> QED
  BY <1>1, <1>4, <1>5 DEF c

\* The calls of a pass that begins all wait.
LEMMA AllWait ==
    ASSUME PassTypes, BeginPass
    PROVE  /\ call' \in Seq(CallRecord) /\ Len(call') = Len(work) /\ work \in Seq(Seq(Nat))
           /\ \A i \in DOMAIN call' : call'[i] = Waiting
           /\ EndedCalls' = {} /\ RunningCalls' = {} /\ CancelledCalls' = {} /\ QueuedCalls' = DOMAIN call'
<1>1. work \in Seq(Seq(Nat))
  BY WorkIs DEF PassTypes, BeginPass
<1>2. call' = [i \in 1..Len(work) |-> Waiting] /\ Len(work) \in Nat
  BY <1>1 DEF BeginPass
<1>3. Waiting \in CallRecord /\ Waiting.state = "waiting"
  BY DEF Waiting, CallRecord
<1> HIDE DEF Waiting
<1>4. call' \in [1..Len(work) -> CallRecord]
  BY <1>2, <1>3
<1>5. call' \in Seq(CallRecord) /\ Len(call') = Len(work)
  BY <1>2, <1>4, FunctionIsSeq
<1> QED
  BY <1>1, <1>2, <1>3, <1>5 DEF EndedCalls, RunningCalls, CancelledCalls, QueuedCalls

-----------------------------------------------------------------------------
LEMMA PassTypesKept ==
    ASSUME PassTypes, [ResourceNext]_resourceVars
    PROVE  PassTypes'
<1>1. measurement' = measurement /\ Materialized' = Materialized
  BY RequestKept
<1> USE <1>1
<1>2. CASE Prepare
  BY <1>2 DEF Prepare, PassTypes, InPass
<1>3. CASE BeginPass
  <2>1. /\ call' \in Seq(CallRecord) /\ Len(call') = Len(work)
        /\ \A i \in DOMAIN call' : call'[i].end <= 0
    BY <1>3, AllWait DEF Waiting
  <2> QED
    BY <1>3, <2>1 DEF BeginPass, PassTypes, InPass
<1>4. CASE Tick
  <2>1. \A i \in DOMAIN call : call[i].end <= elapsed + 1
    <3> SUFFICES ASSUME NEW i \in DOMAIN call PROVE call[i].end <= elapsed + 1
      OBVIOUS
    <3>1. call[i] \in CallRecord /\ call[i].end <= elapsed /\ elapsed \in Nat
      BY DEF PassTypes
    <3>2. call[i].end \in Nat
      BY <3>1 DEF CallRecord
    <3> QED
      BY <3>1, <3>2
  <2> QED
    BY <1>4, <2>1 DEF Tick, PassTypes, InPass
<1>5. CASE AllCompleted
  BY <1>5 DEF AllCompleted, PassTypes, InPass
<1>6. CASE TimeIsUp
  BY <1>6 DEF TimeIsUp, PassTypes, InPass
<1>7. CASE CancelNext
  <2>1. CASE call' = call /\ asked' \in Nat
    BY <1>7, <2>1 DEF CancelNext, PassTypes, InPass
  <2>2. CASE asked' \in Nat /\ asked + 1 \in QueuedCalls /\ call' = [call EXCEPT ![asked + 1].state = "cancelled"]
    <3> DEFINE i == asked + 1
    <3>1. i \in DOMAIN call /\ Moves(i, [call[i] EXCEPT !.state = "cancelled"])
      BY <2>2, CallIsCancelled
    <3>2. call[i] \in CallRecord /\ [call[i] EXCEPT !.state = "cancelled"].end = call[i].end
      <4>1. call[i] \in CallRecord
        BY <3>1 DEF PassTypes
      <4> QED
        BY <4>1 DEF CallRecord
    <3> HIDE DEF i
    <3>3. /\ call' \in Seq(CallRecord) /\ Len(call') = Len(call)
          /\ \A j \in DOMAIN call' : call'[j].end <= elapsed
      BY <3>1, <3>2 DEF Moves, PassTypes
    <3> QED
      BY <1>7, <2>2, <3>3 DEF CancelNext, PassTypes, InPass
  <2> QED
    BY <1>7, <2>1, <2>2 DEF CancelNext, PassTypes
<1>8. CASE RecordPass
  BY <1>8 DEF RecordPass, Drained, PassTypes, InPass
<1>9. CASE Conclude
  BY <1>9 DEF Conclude, PassTypes, InPass
<1>10. ASSUME NEW i \in DOMAIN call, StartCall(i) PROVE PassTypes'
  <2>1. Moves(i, [call[i] EXCEPT !.state = "running"])
    BY <1>10, CallStarts
  <2>2. call[i] \in CallRecord /\ [call[i] EXCEPT !.state = "running"].end = call[i].end
    <3>1. call[i] \in CallRecord
      BY DEF PassTypes
    <3> QED
      BY <3>1 DEF CallRecord
  <2>3. /\ call' \in Seq(CallRecord) /\ Len(call') = Len(call)
        /\ \A j \in DOMAIN call' : call'[j].end <= elapsed
    BY <2>1, <2>2 DEF Moves, PassTypes
  <2> QED
    BY <1>10, <2>3 DEF StartCall, PassTypes, InPass
<1>11. ASSUME NEW i \in DOMAIN call, EndCall(i) PROVE PassTypes'
  <2>1. PICK ok \in BOOLEAN : Moves(i, [state |-> "ended", ok |-> ok, end |-> elapsed])
    BY <1>11, CallEnds
  <2>2. elapsed <= elapsed
    BY DEF PassTypes
  <2>3. /\ call' \in Seq(CallRecord) /\ Len(call') = Len(call)
        /\ \A j \in DOMAIN call' : call'[j].end <= elapsed
    BY <2>1, <2>2 DEF Moves, PassTypes
  <2> QED
    BY <1>11, <2>3 DEF EndCall, PassTypes, InPass
<1>12. CASE UNCHANGED resourceVars
  BY <1>12 DEF resourceVars, PassTypes, InPass
<1> QED
  BY <1>2, <1>3, <1>4, <1>5, <1>6, <1>7, <1>8, <1>9, <1>10, <1>11, <1>12 DEF ResourceNext

LEMMA QuietKept ==
    ASSUME PassTypes, Quiet, [ResourceNext]_resourceVars
    PROVE  Quiet'
<1>1. measurement' = measurement /\ (Timed' <=> Timed) /\ elapsed \in Nat /\ measurement.timeout \in Nat
  BY RequestKept DEF PassTypes, Measurement
<1> USE <1>1
<1>2. CASE Prepare
  BY <1>2, CallsKept DEF Prepare, Quiet, InPass
<1>3. CASE BeginPass
  <2>1. RunningCalls' = {} /\ CancelledCalls' = {} /\ pass' = "run"
    BY <1>3, AllWait DEF BeginPass
  <2> QED
    BY <2>1 DEF Quiet
<1>4. CASE Tick
  <2>1. RunningCalls' = RunningCalls /\ CancelledCalls' = CancelledCalls /\ pass' = pass /\ elapsed' = elapsed + 1
    BY <1>4, CallsKept DEF Tick
  <2>2. elapsed >= measurement.timeout => elapsed + 1 >= measurement.timeout
    OBVIOUS
  <2> QED
    BY <2>1, <2>2 DEF Quiet, InPass
<1>5. CASE AllCompleted
  BY <1>5, CallsKept DEF AllCompleted, Quiet, InPass
<1>6. CASE TimeIsUp
  BY <1>6, CallsKept DEF TimeIsUp, Quiet, InPass
<1>7. CASE CancelNext
  <2>1. Timed /\ elapsed >= measurement.timeout /\ InPass /\ InPass' /\ elapsed' = elapsed
    BY <1>7 DEF CancelNext, Quiet, InPass
  <2> QED
    BY <2>1 DEF Quiet
<1>8. CASE RecordPass
  <2>1. RunningCalls' = RunningCalls /\ CancelledCalls' = CancelledCalls /\ elapsed' = elapsed /\ RunningCalls = {}
        /\ pass' = "between"
    BY <1>8, CallsKept DEF RecordPass, Drained
  <2> QED
    BY <2>1 DEF Quiet
<1>9. CASE Conclude
  BY <1>9, CallsKept DEF Conclude, Quiet, InPass
<1>10. ASSUME NEW i \in DOMAIN call, StartCall(i) PROVE Quiet'
  <2>1. CancelledCalls' = CancelledCalls /\ pass' = pass /\ elapsed' = elapsed /\ InPass
    BY <1>10, CallStarts DEF StartCall, InPass
  <2> QED
    BY <2>1 DEF Quiet, InPass
<1>11. ASSUME NEW i \in DOMAIN call, EndCall(i) PROVE Quiet'
  <2>1. /\ CancelledCalls' = CancelledCalls /\ pass' = pass /\ elapsed' = elapsed
        /\ RunningCalls' \subseteq RunningCalls
    BY <1>11, CallEnds DEF EndCall
  <2> QED
    BY <2>1 DEF Quiet, InPass
<1>12. CASE UNCHANGED resourceVars
  BY <1>12, CallsKept DEF resourceVars, Quiet, InPass
<1> QED
  BY <1>2, <1>3, <1>4, <1>5, <1>6, <1>7, <1>8, <1>9, <1>10, <1>11, <1>12 DEF ResourceNext

\* The next call without a pool is the first that was not made, and only if all were answered in time.
LEMMA OneByOneKept ==
    ASSUME PassTypes, OneByOne, [ResourceNext]_resourceVars
    PROVE  OneByOne'
<1>1. measurement' = measurement /\ \A c : OnTime(c)' <=> OnTime(c)
  BY RequestKept
<1> SUFFICES ASSUME measurement.workers = 1 PROVE (\E n \in Nat : OneByOneTo(n))'
  BY <1>1 DEF OneByOne
<1>2. PICK n \in Nat : OneByOneTo(n)
  BY DEF OneByOne
<1>3. call \in Seq(CallRecord) /\ DOMAIN call = 1..Len(call) /\ Len(call) \in Nat
  BY DEF PassTypes
<1>4. CASE call' = call
  BY <1>1, <1>4, CallsKept DEF OneByOne
<1>5. CASE BeginPass
  <2>1. EndedCalls' = {} /\ RunningCalls' = {} /\ QueuedCalls' = DOMAIN call' /\ Len(call') \in Nat
    BY <1>5, AllWait
  <2>2. OneByOneTo(0)'
    BY <2>1 DEF OneByOneTo
  <2> QED
    BY <2>2
<1>6. CASE CancelNext
  BY <1>6 DEF CancelNext, PassTypes
<1>7. ASSUME NEW i \in DOMAIN call, StartCall(i) PROVE (\E k \in Nat : OneByOneTo(k))'
  <2>1. /\ i \in QueuedCalls /\ Moves(i, [call[i] EXCEPT !.state = "running"])
        /\ EndedCalls' = EndedCalls /\ RunningCalls' = RunningCalls \cup {i} /\ QueuedCalls' = QueuedCalls \ {i}
    BY <1>7, CallStarts
  <2>2. RunningCalls = {}
    <3>1. Cardinality(RunningCalls) < 1
      BY <1>7 DEF StartCall
    <3>2. RunningCalls \in SUBSET (1..Len(call))
      BY <1>3 DEF RunningCalls
    <3>3. IsFiniteSet(RunningCalls)
      <4>1. IsFiniteSet(1..Len(call))
        BY <1>3, FS_Interval
      <4> QED
        BY <3>2, <4>1, FS_Subset
    <3>4. Cardinality(RunningCalls) = 0
      BY <3>1, <3>3, FS_CardinalityType
    <3> QED
      BY <3>3, <3>4, FS_EmptySet
  <2>3. \A j \in EndedCalls : call[j].ok /\ OnTime(call[j])
    BY <1>7 DEF StartCall, LoopGoesOn
  <2>4. i \in Nat /\ i <= Len(call) /\ i \notin 1..n /\ i >= 1
    <3>1. i \in 1..Len(call)
      BY <1>3
    <3>2. i \notin EndedCalls
      BY <2>1 DEF EndedCalls, QueuedCalls
    <3> QED
      BY <1>2, <1>3, <3>1, <3>2 DEF OneByOneTo
  <2>5. n + 1 <= Len(call) /\ n + 1 \in DOMAIN call
    BY <1>2, <1>3, <2>4
  <2>6. n + 1 \in QueuedCalls
    BY <1>2, <2>2, <2>5 DEF OneByOneTo
  <2>7. i <= n + 1
    BY <1>7, <2>6 DEF StartCall
  <2>8. i = n + 1
    BY <1>2, <2>4, <2>7
  <2>9. \A j \in 1..n : call'[j] = call[j] /\ call[j].ok /\ OnTime(call[j])
    <3> SUFFICES ASSUME NEW j \in 1..n PROVE call'[j] = call[j] /\ call[j].ok /\ OnTime(call[j])
      OBVIOUS
    <3>1. j \in EndedCalls /\ j \in DOMAIN call /\ j # i
      BY <1>2, <2>4 DEF OneByOneTo, EndedCalls
    <3> QED
      BY <2>1, <2>3, <3>1 DEF Moves
  <2>10. OneByOneTo(n)'
    <3>1. EndedCalls' = 1..n /\ RunningCalls' = {n + 1} /\ Len(call') = Len(call) /\ DOMAIN call' = DOMAIN call
      BY <1>2, <2>1, <2>2, <2>8 DEF OneByOneTo, Moves
    <3>2. \A j \in DOMAIN call : j \in EndedCalls' \/ j \in RunningCalls' \/ j \in QueuedCalls'
      BY <1>2, <2>1 DEF OneByOneTo
    <3>3. n \in Nat /\ n <= Len(call')
      BY <1>2, <3>1 DEF OneByOneTo
    <3>4. \A j \in 1..n : (call[j].ok /\ OnTime(call[j]))'
      BY <1>1, <2>9 DEF OnTime, Timed
    <3> QED
      BY <3>1, <3>2, <3>3, <3>4 DEF OneByOneTo
  <2> QED
    BY <2>10
<1>8. ASSUME NEW i \in DOMAIN call, EndCall(i) PROVE (\E k \in Nat : OneByOneTo(k))'
  <2>1. PICK ok \in BOOLEAN :
              /\ i \in RunningCalls /\ Moves(i, [state |-> "ended", ok |-> ok, end |-> elapsed])
              /\ EndedCalls' = EndedCalls \cup {i} /\ RunningCalls' = RunningCalls \ {i} /\ QueuedCalls' = QueuedCalls
    BY <1>8, CallEnds
  <2>2. i = n + 1 /\ RunningCalls' = {} /\ RunningCalls # {}
    BY <1>2, <2>1 DEF OneByOneTo
  <2>3. n + 1 <= Len(call) /\ EndedCalls' = 1..(n + 1)
    <3>1. EndedCalls' = (1..n) \cup {n + 1}
      BY <1>2, <2>1, <2>2 DEF OneByOneTo
    <3> QED
      BY <1>2, <1>3, <2>2, <3>1
  <2>4. \A j \in 1..n : call'[j] = call[j] /\ call[j].ok /\ OnTime(call[j])
    <3> SUFFICES ASSUME NEW j \in 1..n PROVE call'[j] = call[j] /\ call[j].ok /\ OnTime(call[j])
      OBVIOUS
    <3>1. j \in EndedCalls /\ j \in DOMAIN call /\ j # i
      BY <1>2, <2>2 DEF OneByOneTo, EndedCalls
    <3> QED
      BY <1>2, <2>1, <2>2, <3>1 DEF Moves, OneByOneTo
  <2>5. OneByOneTo(n + 1)'
    <3>1. Len(call') = Len(call) /\ DOMAIN call' = DOMAIN call
      BY <2>1 DEF Moves
    <3>2. \A j \in DOMAIN call : j \in EndedCalls' \/ j \in RunningCalls' \/ j \in QueuedCalls'
      BY <1>2, <2>1 DEF OneByOneTo
    <3>3. \A j \in 1..(n + 1) : j < n + 1 => (call[j].ok /\ OnTime(call[j]))'
      <4> SUFFICES ASSUME NEW j \in 1..(n + 1), j < n + 1 PROVE (call[j].ok /\ OnTime(call[j]))'
        OBVIOUS
      <4>1. j \in 1..n
        OBVIOUS
      <4> QED
        BY <1>1, <2>4, <4>1 DEF OnTime, Timed
    <3>4. RunningCalls' \subseteq {(n + 1) + 1} /\ n + 1 \in Nat /\ n + 1 <= Len(call')
      BY <2>2, <2>3, <3>1
    <3> QED
      BY <2>2, <2>3, <3>1, <3>2, <3>3, <3>4 DEF OneByOneTo
  <2>6. n + 1 \in Nat
    OBVIOUS
  <2> QED
    BY <2>5, <2>6
<1>9. CASE Prepare \/ Tick \/ AllCompleted \/ TimeIsUp \/ RecordPass \/ Conclude \/ UNCHANGED resourceVars
  <2>1. call' = call
    BY <1>9 DEF Prepare, Tick, AllCompleted, TimeIsUp, RecordPass, Conclude, resourceVars
  <2> QED
    BY <1>4, <2>1
<1> QED
  BY <1>5, <1>6, <1>7, <1>8, <1>9 DEF ResourceNext

-----------------------------------------------------------------------------
LEMMA StatusIs ==
    /\ PassStatus \in {"COMPLETED", "FAILED", "TIMED_OUT"}
    /\ PassStatus = "FAILED" <=> FailedCalls # {}
    /\ PassStatus = "COMPLETED" <=> FailedCalls = {} /\ LateCalls = {} /\ CancelledCalls = {} /\ ~OutOfTime
    /\ PassStatus = "TIMED_OUT" => LateCalls # {} \/ CancelledCalls # {} \/ OutOfTime
  BY DEF PassStatus, OutOfTime

\* The samples of a pass of which nothing runs any more, each counted once.
LEMMA SamplesCounted ==
    ASSUME work \in Seq(Seq(Nat)), call \in Seq(CallRecord), Len(call) = Len(work), RunningCalls = {}
    PROVE  /\ SamplesOf(GoodCalls) \in Nat /\ SamplesOf(FailedCalls) \in Nat /\ SamplesOf(LateCalls) \in Nat
           /\ SamplesOf(EndedCalls) \in Nat /\ Planned \in Nat
           /\ SamplesOf(GoodCalls) + SamplesOf(FailedCalls) + SamplesOf(LateCalls) = SamplesOf(EndedCalls)
           /\ Planned - SamplesOf(EndedCalls) = SamplesOf({i \in DOMAIN work : call[i].state \in {"waiting", "cancelled"}})
<1> DEFINE rest == {i \in DOMAIN work : call[i].state \in {"waiting", "cancelled"}}
           some == GoodCalls \cup FailedCalls
<1>1. DOMAIN call = DOMAIN work
  <2>1. DOMAIN call = 1..Len(call) /\ DOMAIN work = 1..Len(work)
    OBVIOUS
  <2> QED
    BY <2>1
<1>2. \A i \in DOMAIN call : call[i] \in CallRecord
  OBVIOUS
<1>3. EndedCalls \cup rest = DOMAIN work /\ EndedCalls \cap rest = {}
  <2>1. \A i \in DOMAIN call : call[i].state \in {"waiting", "ended", "cancelled"}
    <3> SUFFICES ASSUME NEW i \in DOMAIN call PROVE call[i].state \in {"waiting", "ended", "cancelled"}
      OBVIOUS
    <3>1. call[i].state \in {"waiting", "running", "ended", "cancelled"} /\ i \notin RunningCalls
      BY <1>2 DEF CallRecord
    <3> QED
      BY <3>1 DEF RunningCalls
  <2> QED
    BY <1>1, <2>1 DEF EndedCalls
<1>4. \A i \in DOMAIN call : call[i].ok \in BOOLEAN
  BY <1>2 DEF CallRecord
<1>5. some \cup LateCalls = EndedCalls /\ some \cap LateCalls = {} /\ GoodCalls \cap FailedCalls = {}
  BY <1>4 DEF GoodCalls, FailedCalls, LateCalls
<1>6. /\ SamplesOf(EndedCalls) \in Nat /\ SamplesOf(rest) \in Nat
      /\ SamplesOf(EndedCalls \cup rest) = SamplesOf(EndedCalls) + SamplesOf(rest)
  BY <1>3, SamplesApart
<1>7. /\ SamplesOf(some) \in Nat /\ SamplesOf(LateCalls) \in Nat
      /\ SamplesOf(some \cup LateCalls) = SamplesOf(some) + SamplesOf(LateCalls)
  BY <1>5, SamplesApart
<1>8. /\ SamplesOf(GoodCalls) \in Nat /\ SamplesOf(FailedCalls) \in Nat
      /\ SamplesOf(GoodCalls \cup FailedCalls) = SamplesOf(GoodCalls) + SamplesOf(FailedCalls)
  BY <1>5, SamplesApart
<1>9. Planned = SamplesOf(EndedCalls) + SamplesOf(rest)
  BY <1>3, <1>6 DEF Planned
<1>10. SamplesOf(EndedCalls) = SamplesOf(GoodCalls) + SamplesOf(FailedCalls) + SamplesOf(LateCalls)
  BY <1>5, <1>7, <1>8
<1> DEFINE g == SamplesOf(GoodCalls)
           f == SamplesOf(FailedCalls)
           l == SamplesOf(LateCalls)
           e == SamplesOf(EndedCalls)
           r == SamplesOf(rest)
           p == Planned
<1>11. g \in Nat /\ f \in Nat /\ l \in Nat /\ e \in Nat /\ r \in Nat /\ p = e + r /\ e = g + f + l
  BY <1>6, <1>7, <1>8, <1>9, <1>10
<1> HIDE DEF rest, g, f, l, e, r, p
<1>12. p \in Nat /\ g + f + l = e /\ p - e = r
  BY <1>11
<1> QED
  BY <1>11, <1>12 DEF g, f, l, e, r, p, rest

\* What is recorded of a pass that is over is so.
LEMMA DrainedIsHonest ==
    ASSUME PassTypes, Quiet, OneByOne, Drained, NEW t, t.status = PassStatus,
           t.completed = SamplesOf(GoodCalls), t.failed = SamplesOf(FailedCalls), t.late = SamplesOf(LateCalls),
           t.not_attempted = Planned - SamplesOf(EndedCalls)
    PROVE  PassIsHonest(t)
<1>1. /\ RunningCalls = {} /\ InPass /\ measurement \in Measurement /\ measurement.workers \in Nat /\ measurement.workers # 0
      /\ QueuedCalls = {} \/ (measurement.workers = 1 /\ ~LoopGoesOn)
  BY DEF Drained, PassTypes, InPass, Measurement
<1>2. work \in Seq(Seq(Nat)) /\ call \in Seq(CallRecord) /\ Len(call) = Len(work)
  BY <1>1, WorkIs DEF PassTypes, InPass
<1>3. DOMAIN call = DOMAIN work
  <2>1. DOMAIN call = 1..Len(call) /\ DOMAIN work = 1..Len(work)
    BY <1>2
  <2> QED
    BY <1>2, <2>1
<1>4. \A i \in DOMAIN call : call[i] \in CallRecord
  BY <1>2
<1>5. t.status = "COMPLETED" <=> GoodCalls = DOMAIN work /\ ~OutOfTime
  <2>1. ASSUME GoodCalls = DOMAIN work PROVE FailedCalls = {} /\ LateCalls = {} /\ CancelledCalls = {}
    BY <1>3, <2>1 DEF GoodCalls, EndedCalls, FailedCalls, LateCalls, CancelledCalls
  <2>2. ASSUME FailedCalls = {}, LateCalls = {}, CancelledCalls = {} PROVE GoodCalls = DOMAIN work
    <3>1. LoopGoesOn
      BY <2>2 DEF LoopGoesOn, FailedCalls, LateCalls
    <3>2. QueuedCalls = {}
      BY <1>1, <3>1
    <3>3. \A i \in DOMAIN call : i \in EndedCalls
      <4> SUFFICES ASSUME NEW i \in DOMAIN call PROVE i \in EndedCalls
        OBVIOUS
      <4>1. call[i].state \in {"waiting", "running", "ended", "cancelled"}
        BY <1>4 DEF CallRecord
      <4>2. i \notin RunningCalls /\ i \notin QueuedCalls /\ i \notin CancelledCalls
        BY <1>1, <2>2, <3>2
      <4> QED
        BY <4>1, <4>2 DEF EndedCalls, RunningCalls, QueuedCalls, CancelledCalls
    <3>4. GoodCalls = EndedCalls
      BY <3>1 DEF GoodCalls, LoopGoesOn
    <3> QED
      BY <1>3, <3>3, <3>4 DEF EndedCalls
  <2> QED
    BY <2>1, <2>2, StatusIs
<1>6. t.status = "FAILED" <=> \E i \in EndedCalls : ~call[i].ok
  BY StatusIs DEF FailedCalls
<1>7. t.status = "TIMED_OUT" => Timed /\ elapsed >= measurement.timeout
  <2>1. elapsed \in Nat /\ measurement.timeout \in Nat
    BY <1>1 DEF PassTypes, Measurement
  <2>2. ASSUME LateCalls # {} PROVE Timed /\ elapsed >= measurement.timeout
    <3>1. PICK i \in EndedCalls : ~OnTime(call[i])
      BY <2>2 DEF LateCalls
    <3>2. i \in DOMAIN call
      BY DEF EndedCalls
    <3>3. call[i].end \in Nat /\ call[i].end <= elapsed
      BY <1>4, <3>2 DEF CallRecord, PassTypes
    <3> QED
      BY <2>1, <3>1, <3>3 DEF OnTime
  <2>3. ASSUME OutOfTime PROVE Timed /\ elapsed >= measurement.timeout
    BY <2>1, <2>3 DEF OutOfTime
  <2> QED
    BY <2>2, <2>3, StatusIs DEF Quiet
<1>8. /\ t.completed + t.failed + t.late + t.not_attempted = Planned
      /\ t.not_attempted = SamplesOf({i \in DOMAIN work : call[i].state \in {"waiting", "cancelled"}})
  <2> DEFINE g == SamplesOf(GoodCalls)
             f == SamplesOf(FailedCalls)
             l == SamplesOf(LateCalls)
             e == SamplesOf(EndedCalls)
             p == Planned
             r == SamplesOf({i \in DOMAIN work : call[i].state \in {"waiting", "cancelled"}})
  <2>1. g \in Nat /\ f \in Nat /\ l \in Nat /\ e \in Nat /\ p \in Nat /\ g + f + l = e /\ p - e = r
    BY <1>1, <1>2, SamplesCounted
  <2>2. t.completed = g /\ t.failed = f /\ t.late = l /\ t.not_attempted = p - e
    OBVIOUS
  <2> HIDE DEF g, f, l, e, p, r
  <2>3. t.completed + t.failed + t.late + t.not_attempted = p /\ t.not_attempted = r
    BY <2>1, <2>2
  <2> QED
    BY <2>3 DEF p, r
<1>9. ASSUME measurement.workers = 1
      PROVE  /\ EndedCalls = 1..Cardinality(EndedCalls)
             /\ \A i \in EndedCalls : i \in GoodCalls \/ i = Cardinality(EndedCalls)
  <2>1. PICK n \in Nat : OneByOneTo(n)
    BY <1>9 DEF OneByOne
  <2>2. Cardinality(1..n) = n
    <3>1. Cardinality(1..n) = IF 1 > n THEN 0 ELSE n - 1 + 1
      BY FS_Interval
    <3> QED
      BY <3>1
  <2>3. EndedCalls = 1..n /\ Cardinality(EndedCalls) = n
    BY <2>1, <2>2 DEF OneByOneTo
  <2>4. \A i \in 1..n : i < n => i \in GoodCalls
    BY <2>1, <2>3 DEF OneByOneTo, GoodCalls
  <2>5. \A i \in 1..n : i < n \/ i = n
    OBVIOUS
  <2> QED
    BY <2>3, <2>4, <2>5
<1> QED
  BY <1>1, <1>5, <1>6, <1>7, <1>8, <1>9 DEF PassIsHonest

-----------------------------------------------------------------------------
\* The record that a pass adds.
TrialMade ==
    [phase |-> IF Len(trials) < measurement.warmups THEN "WARMUP" ELSE "MEASURED", status |-> PassStatus,
     completed |-> SamplesOf(GoodCalls), failed |-> SamplesOf(FailedCalls), late |-> SamplesOf(LateCalls),
     not_attempted |-> Planned - SamplesOf(EndedCalls)]

LEMMA RecordIsHonest ==
    ASSUME PassTypes, Quiet, OneByOne, RecordPass
    PROVE  /\ trials' = Append(trials, TrialMade)
           /\ PassIsHonest(TrialMade)
           /\ InPass
           /\ TrialMade \in [phase : {"WARMUP", "MEASURED"}, status : {"COMPLETED", "FAILED", "TIMED_OUT"},
                             completed : Int, failed : Int, late : Int, not_attempted : Int]
           /\ TrialMade.status = "COMPLETED" => TrialMade.completed = Planned
<1>1. Drained /\ trials' = Append(trials, TrialMade)
  BY DEF RecordPass, TrialMade
<1>2. InPass /\ RunningCalls = {}
  BY <1>1 DEF Drained, InPass
<1>3. work \in Seq(Seq(Nat)) /\ call \in Seq(CallRecord) /\ Len(call) = Len(work)
  BY <1>2, WorkIs DEF PassTypes, InPass
<1>4. PassIsHonest(TrialMade)
  BY <1>1, DrainedIsHonest DEF TrialMade
<1>5. /\ SamplesOf(GoodCalls) \in Int /\ SamplesOf(FailedCalls) \in Int /\ SamplesOf(LateCalls) \in Int
      /\ Planned - SamplesOf(EndedCalls) \in Int
  BY <1>2, <1>3, SamplesCounted
<1>6. TrialMade \in [phase : {"WARMUP", "MEASURED"}, status : {"COMPLETED", "FAILED", "TIMED_OUT"},
                     completed : Int, failed : Int, late : Int, not_attempted : Int]
  BY <1>5, StatusIs DEF TrialMade
<1>7. ASSUME TrialMade.status = "COMPLETED" PROVE TrialMade.completed = Planned
  <2>1. GoodCalls = DOMAIN work
    BY <1>4, <1>7 DEF PassIsHonest
  <2> QED
    BY <2>1 DEF TrialMade, Planned
<1> QED
  BY <1>1, <1>2, <1>4, <1>6, <1>7

LEMMA PassesRecordedKept ==
    ASSUME PassTypes, Quiet, OneByOne, PassesRecorded, [ResourceNext]_resourceVars
    PROVE  PassesRecorded'
<1>1. measurement' = measurement /\ measurement.warmups \in Nat /\ measurement.repeats \in Nat
  BY RequestKept DEF PassTypes, Measurement
<1>2. trials \in Seq([phase : {"WARMUP", "MEASURED"}, status : {"COMPLETED", "FAILED", "TIMED_OUT"},
                      completed : Int, failed : Int, late : Int, not_attempted : Int])
  BY DEF PassesRecorded
<1>3. Len(trials) \in Nat /\ DOMAIN trials = 1..Len(trials)
  BY <1>2
<1>4. CASE Prepare
  BY <1>1, <1>4 DEF Prepare, PassesRecorded, InPass
<1>5. CASE RecordPass
  <2> DEFINE t == TrialMade
             n == Len(trials)
  <2>1. /\ trials' = Append(trials, t)
        /\ InPass
        /\ t.status = "COMPLETED" => t.completed = Planned
        /\ t \in [phase : {"WARMUP", "MEASURED"}, status : {"COMPLETED", "FAILED", "TIMED_OUT"},
                  completed : Int, failed : Int, late : Int, not_attempted : Int]
    BY <1>5, RecordIsHonest
  <2>2. t.phase = IF n < measurement.warmups THEN "WARMUP" ELSE "MEASURED"
    BY DEF TrialMade
  <2> DEFINE records == [phase : {"WARMUP", "MEASURED"}, status : {"COMPLETED", "FAILED", "TIMED_OUT"},
                         completed : Int, failed : Int, late : Int, not_attempted : Int]
  <2>a. trials \in Seq(records) /\ t \in records /\ trials' = Append(trials, t)
    BY <1>2, <2>1
  <2> HIDE DEF t, records
  <2>b. /\ trials' \in Seq(records) /\ Len(trials') = n + 1 /\ trials'[n + 1] = t
        /\ \A k \in 1..n : trials'[k] = trials[k]
    BY <2>a, AppendProperties
  <2>c. DOMAIN trials' = 1..(n + 1)
    BY <2>b
  <2>3. /\ trials' \in Seq([phase : {"WARMUP", "MEASURED"}, status : {"COMPLETED", "FAILED", "TIMED_OUT"},
                            completed : Int, failed : Int, late : Int, not_attempted : Int])
        /\ Len(trials') = n + 1 /\ DOMAIN trials' = 1..(n + 1) /\ trials'[n + 1] = t
        /\ \A k \in 1..n : trials'[k] = trials[k]
    BY <2>b, <2>c DEF records
  <2> HIDE DEF n
  <2>4. n \in Nat
    BY <1>3 DEF n
  <2>5. TrialRecord(n + 1, t)
    <3>1. n + 1 <= measurement.warmups <=> n < measurement.warmups
      BY <1>1, <2>4
    <3> QED
      BY <2>1, <2>2, <3>1 DEF TrialRecord
  <2>6. \A k \in 1..(n + 1) : TrialRecord(k, trials'[k])
    <3> SUFFICES ASSUME NEW k \in 1..(n + 1) PROVE TrialRecord(k, trials'[k])
      OBVIOUS
    <3>1. CASE k = n + 1
      BY <2>3, <2>5, <3>1
    <3>2. CASE k # n + 1
      <4>1. k \in 1..n
        BY <2>4, <3>2
      <4>2. trials'[k] = trials[k] /\ TrialRecord(k, trials[k])
        BY <1>3, <2>3, <4>1 DEF PassesRecorded, n
      <4> QED
        BY <4>2
    <3> QED
      BY <3>1, <3>2
  <2>7. Planned' = Planned /\ pass' = "between"
    BY <1>1, <1>5, RecordsKept DEF RecordPass
  <2>8. \A k \in DOMAIN trials' : TrialRecord(k, trials[k])'
    BY <1>1, <2>3, <2>6, <2>7 DEF TrialRecord
  <2>9. n < measurement.warmups + measurement.repeats
    BY <2>1 DEF PassesRecorded, n
  <2>10. n + 1 <= measurement.warmups + measurement.repeats
    BY <1>1, <2>4, <2>9
  <2> QED
    BY <1>1, <2>3, <2>7, <2>8, <2>10 DEF PassesRecorded, InPass
<1>6. CASE BeginPass
  <2>1. Planned' = Planned /\ trials' = trials /\ Len(trials) < measurement.warmups + measurement.repeats /\ pass' = "run"
    BY <1>1, <1>6, RecordsKept DEF BeginPass
  <2> QED
    BY <1>1, <2>1 DEF PassesRecorded, TrialRecord
<1>7. CASE Conclude
  <2>1. Planned' = Planned /\ trials' = trials /\ pass' = "concluded"
    BY <1>1, <1>7, RecordsKept DEF Conclude
  <2> QED
    BY <1>1, <2>1 DEF PassesRecorded, TrialRecord, InPass
<1>8. CASE Tick \/ AllCompleted \/ TimeIsUp \/ CancelNext \/ (\E i \in DOMAIN call : StartCall(i) \/ EndCall(i)) \/ UNCHANGED resourceVars
  <2>1. work' = work /\ trials' = trials /\ (InPass' <=> InPass) /\ (pass' \in {"request", "refused"} => pass' = pass)
    BY <1>8 DEF Tick, AllCompleted, TimeIsUp, CancelNext, StartCall, EndCall, resourceVars, InPass
  <2>2. Planned' = Planned
    BY <1>1, <2>1, RecordsKept
  <2> QED
    BY <1>1, <2>1, <2>2 DEF PassesRecorded, TrialRecord
<1> QED
  BY <1>4, <1>5, <1>6, <1>7, <1>8 DEF ResourceNext

LEMMA LastHonestKept ==
    ASSUME PassTypes, Quiet, OneByOne, PassesRecorded, LastHonest, [ResourceNext]_resourceVars
    PROVE  LastHonest'
<1>1. measurement' = measurement
  BY RequestKept
<1>2. CASE RecordPass
  <2>1. trials' = Append(trials, TrialMade) /\ PassIsHonest(TrialMade)
    BY <1>2, RecordIsHonest
  <2>2. trials \in Seq([phase : {"WARMUP", "MEASURED"}, status : {"COMPLETED", "FAILED", "TIMED_OUT"},
                        completed : Int, failed : Int, late : Int, not_attempted : Int])
    BY DEF PassesRecorded
  <2> DEFINE t == TrialMade
  <2> HIDE DEF t
  <2>3. trials' = Append(trials, t) /\ PassIsHonest(t)
    BY <2>1 DEF t
  <2>4. trials'[Len(trials')] = t
    BY <2>2, <2>3
  <2>5. ASSUME NEW x, x = t PROVE PassIsHonest(x)
    BY <2>3, <2>5
  <2>6. \A x : PassIsHonest(x)' <=> PassIsHonest(x)
    BY <1>1, <1>2, HonestKept DEF RecordPass
  <2>7. \A x : x = t => PassIsHonest(x)'
    BY <2>5, <2>6
  <2>8. PassIsHonest(trials[Len(trials)])'
    BY <2>4, <2>7
  <2> QED
    BY <2>8 DEF LastHonest
<1>3. CASE UNCHANGED resourceVars
  <2>1. \A x : PassIsHonest(x)' <=> PassIsHonest(x)
    BY <1>1, <1>3, HonestKept DEF resourceVars
  <2>2. trials' = trials /\ pass' = pass
    BY <1>3 DEF resourceVars
  <2> QED
    BY <2>1, <2>2 DEF LastHonest
<1>4. CASE Prepare
  BY <1>4 DEF Prepare, PassesRecorded, LastHonest
<1>5. CASE \E i \in DOMAIN call : EndCall(i)
  <2>1. pass' = pass /\ RunningCalls # {}
    BY <1>5 DEF EndCall
  <2>2. pass' # "between"
    BY <2>1 DEF Quiet, InPass
  <2> QED
    BY <2>2 DEF LastHonest
<1>6. CASE BeginPass \/ Tick \/ AllCompleted \/ TimeIsUp \/ CancelNext \/ Conclude \/ (\E i \in DOMAIN call : StartCall(i))
  <2>1. pass' # "between"
    BY <1>6 DEF BeginPass, Tick, AllCompleted, TimeIsUp, CancelNext, Conclude, StartCall
  <2> QED
    BY <2>1 DEF LastHonest
<1> QED
  BY <1>2, <1>3, <1>4, <1>5, <1>6 DEF ResourceNext

LEMMA ConclusionKept ==
    ASSUME PassTypes, Quiet, PassesRecorded, ConclusionHonest, [ResourceNext]_resourceVars
    PROVE  ConclusionHonest'
<1>1. measurement' = measurement /\ measurement.warmups \in Nat /\ measurement.repeats \in Nat
  BY RequestKept DEF PassTypes, Measurement
<1>2. CASE Conclude
  <2> DEFINE w == measurement.warmups
             r == measurement.repeats
  <2>1. /\ trials' = trials /\ work' = work /\ Len(trials) = w + r
        /\ analysis' = [status |->   IF Cardinality(UsedTrials) # r \/ ~EnoughTrials THEN "PARTIAL" ELSE "COMPLETE",
                        evidence |-> IF UsedTrials # {} /\ EnoughTrials THEN "MEASURED" ELSE "INSUFFICIENT_EVIDENCE"]
    BY <1>2 DEF Conclude
  <2>2. MeasuredTrials' = MeasuredTrials /\ CompleteTrials' = CompleteTrials
    BY <1>1, <2>1, RecordsKept DEF MeasuredTrials, CompleteTrials
  <2>3. trials \in Seq([phase : {"WARMUP", "MEASURED"}, status : {"COMPLETED", "FAILED", "TIMED_OUT"},
                        completed : Int, failed : Int, late : Int, not_attempted : Int])
    BY DEF PassesRecorded
  <2>4. DOMAIN trials = 1..(w + r)
    BY <2>1, <2>3
  <2>5. UsedTrials = CompleteTrials
    <3>1. \A k \in DOMAIN trials : /\ trials[k].phase = "MEASURED" <=> k > w
                                   /\ trials[k].status = "COMPLETED" => trials[k].completed = Planned
      <4> SUFFICES ASSUME NEW k \in DOMAIN trials
                   PROVE  /\ trials[k].phase = "MEASURED" <=> k > w
                          /\ trials[k].status = "COMPLETED" => trials[k].completed = Planned
        OBVIOUS
      <4>1. TrialRecord(k, trials[k]) /\ k \in Nat
        BY <2>4 DEF PassesRecorded
      <4> QED
        BY <1>1, <4>1 DEF TrialRecord
    <3> QED
      BY <3>1 DEF UsedTrials, CompleteTrials, MeasuredTrials
  <2> HIDE DEF w, r
  <2>6. w \in Nat /\ r \in Nat
    BY <1>1 DEF w, r
  <2>7. MeasuredTrials = (w + 1)..(w + r)
    BY <2>4, <2>6 DEF MeasuredTrials, w
  <2>8. IsFiniteSet(MeasuredTrials) /\ Cardinality(MeasuredTrials) = r
    <3>1. w + 1 \in Int /\ w + r \in Int
      BY <2>6
    <3>2. IsFiniteSet((w + 1)..(w + r)) /\ Cardinality((w + 1)..(w + r)) = IF w + 1 > w + r THEN 0 ELSE (w + r) - (w + 1) + 1
      BY <3>1, FS_Interval
    <3> QED
      BY <2>6, <2>7, <3>2
  <2>9. CompleteTrials \in SUBSET MeasuredTrials
    BY DEF CompleteTrials
  <2>10. Cardinality(CompleteTrials) = r <=> CompleteTrials = MeasuredTrials
    BY <2>8, <2>9, FS_Subset
  <2>11. EnoughTrials <=> Cardinality(CompleteTrials) >= MinTrials
    BY <2>5 DEF EnoughTrials
  <2>12. analysis'.status = "COMPLETE" <=> CompleteTrials = MeasuredTrials /\ Cardinality(CompleteTrials) >= MinTrials
    BY <2>1, <2>5, <2>10, <2>11
  <2>13. analysis'.evidence = "MEASURED" <=> CompleteTrials # {} /\ Cardinality(CompleteTrials) >= MinTrials
    BY <2>1, <2>5, <2>11
  <2> QED
    BY <2>2, <2>12, <2>13 DEF ConclusionHonest
<1>3. CASE UNCHANGED resourceVars
  <2>1. pass' = pass /\ analysis' = analysis /\ trials' = trials /\ work' = work
    BY <1>3 DEF resourceVars
  <2>2. MeasuredTrials' = MeasuredTrials /\ CompleteTrials' = CompleteTrials
    BY <1>1, <2>1, RecordsKept DEF MeasuredTrials, CompleteTrials
  <2> QED
    BY <2>1, <2>2 DEF ConclusionHonest
<1>4. CASE \E i \in DOMAIN call : EndCall(i)
  <2>1. pass' = pass /\ RunningCalls # {}
    BY <1>4 DEF EndCall
  <2>2. pass' # "concluded"
    BY <2>1 DEF Quiet, InPass
  <2> QED
    BY <2>2 DEF ConclusionHonest
<1>5. CASE Prepare \/ BeginPass \/ Tick \/ AllCompleted \/ TimeIsUp \/ CancelNext \/ RecordPass \/ (\E i \in DOMAIN call : StartCall(i))
  <2>1. pass' # "concluded"
    BY <1>5 DEF Prepare, BeginPass, Tick, AllCompleted, TimeIsUp, CancelNext, RecordPass, StartCall
  <2> QED
    BY <2>1 DEF ConclusionHonest
<1> QED
  BY <1>2, <1>3, <1>4, <1>5 DEF ResourceNext

LEMMA MeasurementStep == MeasurementInv /\ [ResourceNext]_resourceVars => MeasurementInv'
  BY PassTypesKept, QuietKept, OneByOneKept, PassesRecordedKept, LastHonestKept, ConclusionKept DEF MeasurementInv

LEMMA MeasurementIsHonest == MeasurementInv => MeasurementHonest
<1> SUFFICES ASSUME MeasurementInv PROVE MeasurementHonest
  OBVIOUS
<1>1. PassTypes /\ LastHonest /\ ConclusionHonest
  BY DEF MeasurementInv
<1>2. pass \notin {"request", "refused"} => AllSamples = FirstMembers /\ \A i \in DOMAIN work : work[i] # <<>>
  BY <1>1, WorkIs DEF PassTypes
<1> QED
  BY <1>1, <1>2 DEF MeasurementHonest, LastHonest, ConclusionHonest, CompleteTrials, MeasuredTrials

\* A resource measurement (materialize, run_pass, run_resource_analysis) says what was measured, for any
\* samples, subset, bound, pool and timeout and whatever the calls do: the workload is the first members
\* of the subset, every pass is recorded as it went with each of its samples counted once, and only
\* measured passes that completed make the analysis COMPLETE or MEASURED.
THEOREM MeasurementsHonest == ResourceSpec => []MeasurementHonest
<1>1. ResourceInit => MeasurementInv
  BY MeasurementInitial
<1>2. MeasurementInv /\ [ResourceNext]_resourceVars => MeasurementInv'
  BY MeasurementStep
<1>3. MeasurementInv => MeasurementHonest
  BY MeasurementIsHonest
<1> QED
  BY <1>1, <1>2, <1>3, PTL DEF ResourceSpec
=============================================================================
