--------------------------- MODULE FaultLaboratory ---------------------------
(***************************************************************************)
(* run_fault_experiment (faults/lab.py): the control run, the treatment    *)
(* trials and the analysis of a fault experiment, by processes that share  *)
(* one registry and may die at any point.                                  *)
(*                                                                         *)
(* The name and the design are fixed, so a fault experiment is identified  *)
(* by its baseline run: a process that is given none makes a new one, two  *)
(* that are given the same baseline work on the same experiment, and so    *)
(* does one that is started again.  Every update is a transaction.         *)
(***************************************************************************)
EXTENDS Naturals, FiniteSets

CONSTANTS
    Baselines,      \* evaluation runs that may serve as control
    Labs,           \* processes that run run_fault_experiment
    Trials,         \* trials of the design, 1..Trials in the order they are run
    MaxFailed       \* max_failed_trials

ASSUME LaboratoryAssumption ==
    Baselines # {} /\ Trials \in Nat \ {0} /\ MaxFailed \in Nat \ {0}

VARIABLES
    control,        \* evaluation runs: "absent", "COMPLETED" or "FAILED"
    experiment,     \* FaultExperiments: baseline -> status, or "ABSENT"
    trial,          \* FaultTrials: baseline -> trial number -> status
    analyzed,       \* FaultAnalyses, by the experiment, with the status of their run
    lab             \* where each process is and what it counts

labVars == <<control, experiment, trial, analyzed, lab>>

ExperimentStatus == {"DRAFT", "READY", "RUNNING", "COMPLETED", "FAILED", "CANCELLED"}

TrialStatus == {"COMPLETED", "FAILED", "SKIPPED"}

EXPERIMENT_TRANSITIONS ==
    [s \in ExperimentStatus |->
        CASE s = "DRAFT" -> {"READY", "CANCELLED"}
          [] s = "READY" -> {"RUNNING", "CANCELLED"}
          [] s = "RUNNING" -> {"COMPLETED", "FAILED", "CANCELLED"}
          [] s \in {"COMPLETED", "FAILED", "CANCELLED"} -> {}]

LabJob ==
    [pc : {"idle", "ensure", "adding", "ready", "running", "trials", "analysis", "close", "dead"},
     baseline : Baselines, mine : BOOLEAN, next : 1..(Trials + 1), failures : 0..Trials,
     analysis : {"COMPLETED", "FAILED"}]

\* Type invariant: trials are numbered in the order they were run, without a gap.
LabTypeOK ==
    /\ control \in [Baselines -> {"absent", "COMPLETED", "FAILED"}]
    /\ experiment \in [Baselines -> ExperimentStatus \cup {"ABSENT"}]
    /\ \A b \in Baselines : \E n \in 0..Trials : trial[b] \in [1..n -> TrialStatus]
    /\ DOMAIN trial = Baselines
    /\ analyzed \in [Baselines -> {"none", "COMPLETED", "FAILED"}]
    /\ lab \in [Labs -> LabJob]

IdleLab ==
    [pc |-> "idle", baseline |-> CHOOSE b \in Baselines : TRUE, mine |-> FALSE, next |-> 1, failures |-> 0,
     analysis |-> "FAILED"]

LabInit ==
    /\ control = [b \in Baselines |-> "absent"]
    /\ experiment = [b \in Baselines |-> "ABSENT"]
    /\ trial = [b \in Baselines |-> [n \in {} |-> "SKIPPED"]]
    /\ analyzed = [b \in Baselines |-> "none"]
    /\ lab = [p \in Labs |-> IdleLab]
-----------------------------------------------------------------------------
Turn(p, from, job) == lab[p].pc = from /\ lab' = [lab EXCEPT ![p] = job]

Now(p, pc) == [lab[p] EXCEPT !.pc = pc]

Raise(p) == lab' = [lab EXCEPT ![p] = IdleLab]

\* The baseline it was given must be a completed run of the same evaluation.
UseBaseline(p, b) ==
    /\ control[b] = "COMPLETED"
    /\ Turn(p, "idle", [IdleLab EXCEPT !.pc = "ensure", !.baseline = b])
    /\ UNCHANGED <<control, experiment, trial, analyzed>>

\* Or it executes one, as a new run; a baseline that failed ends the experiment.
RunBaseline(p, b, status) ==
    /\ control[b] = "absent"
    /\ control' = [control EXCEPT ![b] = status]
    /\ IF status = "COMPLETED" THEN Turn(p, "idle", [IdleLab EXCEPT !.pc = "ensure", !.baseline = b])
                               ELSE Turn(p, "idle", IdleLab)
    /\ UNCHANGED <<experiment, trial, analyzed>>

\* An experiment that is there is left as it is.
EnsureExperiment(p) ==
    /\ Turn(p, "ensure", Now(p, IF experiment[lab[p].baseline] = "ABSENT" THEN "adding" ELSE "ready"))
    /\ UNCHANGED <<control, experiment, trial, analyzed>>

\* Refused when another process added it since.
AddExperiment(p) ==
    LET b == lab[p].baseline
    IN  /\ lab[p].pc = "adding"
        /\ IF experiment[b] = "ABSENT"
           THEN /\ experiment' = [experiment EXCEPT ![b] = "DRAFT"]
                /\ lab' = [lab EXCEPT ![p].pc = "ready", ![p].mine = TRUE]
           ELSE Raise(p) /\ UNCHANGED experiment
        /\ UNCHANGED <<control, trial, analyzed>>

\* update_status moves the experiment from the status it has now, and takes only the record it
\* has but for the status: created_at tells the record of this process from that of another.
Updatable(p, to) == lab[p].mine /\ to \in EXPERIMENT_TRANSITIONS[experiment[lab[p].baseline]]

UpdateStatus(p, from, to, pc) ==
    /\ lab[p].pc = from
    /\ IF Updatable(p, to)
       THEN /\ experiment' = [experiment EXCEPT ![lab[p].baseline] = to]
            /\ lab' = [lab EXCEPT ![p] = IF pc = "idle" THEN IdleLab ELSE Now(p, pc)]
       ELSE Raise(p) /\ UNCHANGED experiment
    /\ UNCHANGED <<control, trial, analyzed>>

MakeReady(p) == UpdateStatus(p, "ready", "READY", "running")

MakeRunning(p) == UpdateStatus(p, "running", "RUNNING", "trials")

\* A trial is identified by its number: an add of one that is there is refused.
AddTrial(p, status) ==
    LET b == lab[p].baseline
        n == lab[p].next
    IN  IF n \in DOMAIN trial[b] THEN Raise(p) /\ UNCHANGED trial
        ELSE /\ trial' = [trial EXCEPT ![b] = [k \in DOMAIN @ \cup {n} |-> IF k = n THEN status ELSE @[k]]]
             /\ lab' = [lab EXCEPT ![p].next = @ + 1, ![p].failures = @ + (IF status = "FAILED" THEN 1 ELSE 0)]

GivenUpLate(p) == lab[p].failures > MaxFailed

GivenUp(p) == lab[p].failures >= MaxFailed

\* The treatment runs and its trial is recorded; a failure of the run, or before it, is a
\* FAILED trial, and after max_failed_trials of them the others are not run.
RunTrial(p, status) ==
    /\ lab[p].pc = "trials" /\ lab[p].next <= Trials
    /\ IF GivenUp(p) THEN status = "SKIPPED" ELSE status # "SKIPPED"
    /\ AddTrial(p, status)
    /\ UNCHANGED <<control, experiment, analyzed>>

\* The analysis is a run over the trials on record.
RunAnalysis(p, status) ==
    /\ lab[p].next = Trials + 1
    /\ Turn(p, "trials", [lab[p] EXCEPT !.pc = "analysis", !.analysis = status])
    /\ UNCHANGED <<control, experiment, trial, analyzed>>

AddAnalysis(p) ==
    LET b == lab[p].baseline
    IN  /\ lab[p].pc = "analysis"
        /\ IF analyzed[b] = "none"
           THEN analyzed' = [analyzed EXCEPT ![b] = lab[p].analysis] /\ lab' = [lab EXCEPT ![p].pc = "close"]
           ELSE Raise(p) /\ UNCHANGED analyzed
        /\ UNCHANGED <<control, experiment, trial>>

CloseExperiment(p) == UpdateStatus(p, "close", lab[p].analysis, "idle")

LabKilled(p) ==
    /\ lab[p].pc # "dead"
    /\ lab' = [lab EXCEPT ![p].pc = "dead"]
    /\ UNCHANGED <<control, experiment, trial, analyzed>>

Work(p) ==
    \/ EnsureExperiment(p) \/ AddExperiment(p) \/ MakeReady(p) \/ MakeRunning(p)
    \/ \E s \in TrialStatus : RunTrial(p, s)
    \/ \E s \in {"COMPLETED", "FAILED"} : RunAnalysis(p, s)
    \/ AddAnalysis(p) \/ CloseExperiment(p)

LabNext ==
    \E p \in Labs :
        \/ \E b \in Baselines : UseBaseline(p, b) \/ \E s \in {"COMPLETED", "FAILED"} : RunBaseline(p, b, s)
        \/ Work(p) \/ LabKilled(p)

LabSpec == LabInit /\ [][LabNext]_labVars
-----------------------------------------------------------------------------
Terminal(b) == experiment[b] \in {"COMPLETED", "FAILED"}

FailedBefore(b, n) == Cardinality({k \in 1..(n - 1) : trial[b][k] = "FAILED"})

\* An experiment that ended has every trial of its design and an analysis, and says COMPLETED
\* only if the analysis run did; its trials were skipped exactly after max_failed_trials
\* failures, so they are those of one pass, however many processes worked on the experiment.
EndedExperimentIsWhole ==
    \A b \in Baselines :
        /\ Terminal(b) => DOMAIN trial[b] = 1..Trials /\ analyzed[b] = experiment[b]
        /\ \A n \in DOMAIN trial[b] : (trial[b][n] = "SKIPPED") <=> FailedBefore(b, n) >= MaxFailed

\* The status is what keeps processes apart: of those that work on one experiment at most one
\* got past READY, the others are refused.
OneLabPerExperiment ==
    \A b \in Baselines : \A p, q \in Labs :
        lab[p].pc \in {"trials", "analysis", "close"} /\ lab[q].pc \in {"trials", "analysis", "close"}
        /\ lab[p].baseline = b /\ lab[q].baseline = b => p = q
=============================================================================
