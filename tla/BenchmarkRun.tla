---------------------------- MODULE BenchmarkRun ----------------------------
(***************************************************************************)
(* run_benchmark (benchmark/engine.py) and its collect run                 *)
(* (benchmark/collect.py) for one benchmark definition: fault experiments  *)
(* for the grids and the compound cells over one baseline, the analyses    *)
(* that were requested, and a result with its coverage.  Processes may run *)
(* the same definition at once and die at any point.                       *)
(*                                                                         *)
(* An experiment or an analysis that raises is an entry in errors, and the *)
(* benchmark goes on without it.                                           *)
(***************************************************************************)
EXTENDS Naturals, Sequences

CONSTANTS
    Runners,        \* processes that run run_benchmark
    Grids, Cells,   \* fault grids and compound cells, each a sequence in the order they are run
    Excluded,       \* grids the dataset does not support, left out when allow_unsupported is set
    Stages,         \* requested analyses, in order: discovery, interactions, ..., profile
    Requires,       \* the grids and cells whose experiments a stage cannot do without
    TrialMixes,     \* statuses the trials of an experiment may end with
    MaxBaselines    \* bound: baseline runs on record when a grid is launched without one

ElementsOf(s) == {s[i] : i \in 1..Len(s)}

TrialOutcome == {"COMPLETED", "FAILED", "SKIPPED"}

Experiments == ElementsOf(Grids) \cup ElementsOf(Cells)

ASSUME BenchmarkAssumption ==
    /\ Grids \in Seq(ElementsOf(Grids)) /\ Cells \in Seq(ElementsOf(Cells)) /\ Stages \in Seq(ElementsOf(Stages))
    /\ Grids # <<>> /\ ElementsOf(Grids) \cap ElementsOf(Cells) = {}
    /\ Requires \in [ElementsOf(Stages) -> SUBSET Experiments]
    /\ TrialMixes \subseteq (SUBSET TrialOutcome) \ {{}} /\ MaxBaselines \in Nat

VARIABLES
    baselines,      \* baseline runs made so far, numbered
    results,        \* BenchmarkResults of the definition
    runner          \* where each process is and what it has executed

benchmarkVars == <<baselines, results, runner>>

\* A fault experiment as the collect run sees it, or none: the statuses its trials have.
FaultRun == [baseline : Nat, trials : SUBSET TrialOutcome]

NoFaultRun == [baseline |-> 0, trials |-> {}]

\* What is on record of an analysis: none, one whose own status or evidence is not complete,
\* or a complete one.
Analysis == {"none", "partial", "whole"}

Executed == [baseline : Nat, fx : [Experiments -> FaultRun], analyses : [ElementsOf(Stages) -> Analysis]]

CoverageStatus == {"COMPLETE", "INCOMPLETE"}

Nothing ==
    [baseline |-> 0, fx |-> [e \in Experiments |-> NoFaultRun], analyses |-> [s \in ElementsOf(Stages) |-> "none"]]

\* Type invariant.
BenchmarkTypeOK ==
    /\ baselines \in Nat
    /\ results \subseteq [executed : Executed, coverage : CoverageStatus]
    /\ runner \in [Runners -> [pc : {"idle", "grids", "cells", "stages", "collect", "dead"},
                               next : Nat, executed : Executed]]

IdleRunner == [pc |-> "idle", next |-> 1, executed |-> Nothing]

BenchmarkInit ==
    /\ baselines = 0 /\ results = {}
    /\ runner = [r \in Runners |-> IdleRunner]
-----------------------------------------------------------------------------
\* A definition that has a result is answered with it and not run again.
StartBenchmark(r) ==
    /\ runner[r].pc = "idle" /\ results = {}
    /\ runner' = [runner EXCEPT ![r].pc = "grids"]
    /\ UNCHANGED <<baselines, results>>

Running(r, pc, items) == runner[r].pc = pc /\ runner[r].next <= Len(items)

\* The process goes on to its next item.
Done(r, executed) == [runner[r] EXCEPT !.next = runner[r].next + 1, !.executed = executed]

\* run_fault_experiment with the baseline there is; without one it makes its own.
BaselineFor(r) == IF runner[r].executed.baseline = 0 THEN baselines + 1 ELSE runner[r].executed.baseline

\* The baseline of the first experiment that was made is the baseline of the benchmark.
LaunchMade(r, e, trials) ==
    LET b == BaselineFor(r)
    IN  /\ baselines' = IF b > baselines THEN b ELSE baselines
        /\ runner' = [runner EXCEPT ![r] = Done(r, [runner[r].executed EXCEPT
                !.baseline = b, !.fx[e] = [baseline |-> b, trials |-> trials]])]
        /\ UNCHANGED results

\* A launch that raises may have made a baseline run that no one will use.
LaunchRaises(r, orphan) ==
    /\ orphan => runner[r].executed.baseline = 0
    /\ baselines' = IF orphan THEN baselines + 1 ELSE baselines
    /\ runner' = [runner EXCEPT ![r] = Done(r, runner[r].executed)]
    /\ UNCHANGED results

LaunchGrid(r) ==
    /\ Running(r, "grids", Grids) /\ BaselineFor(r) <= MaxBaselines
    /\ \/ \E trials \in TrialMixes : LaunchMade(r, Grids[runner[r].next], trials)
       \/ \E orphan \in BOOLEAN : LaunchRaises(r, orphan)

LaunchCell(r) ==
    /\ Running(r, "cells", Cells)
    /\ \/ \E trials \in TrialMixes : LaunchMade(r, Cells[runner[r].next], trials)
       \/ LaunchRaises(r, FALSE)

\* Without any baseline the benchmark gives up.
Advance(r, from, items, to) ==
    /\ runner[r].pc = from /\ runner[r].next > Len(items)
    /\ runner' = [runner EXCEPT ![r] = IF @.executed.baseline = 0 THEN IdleRunner
                                       ELSE [@ EXCEPT !.pc = to, !.next = 1]]
    /\ UNCHANGED <<baselines, results>>

\* An interaction needs the experiments of its grids and of its AB cell.
Possible(r, s) == \A e \in Requires[s] : runner[r].executed.fx[e] # NoFaultRun

\* A stage that raises or whose run failed leaves nothing but an error.
RunStage(r, found) ==
    /\ Running(r, "stages", Stages)
    /\ LET s == Stages[runner[r].next]
       IN  /\ Possible(r, s) \/ found = "none"
           /\ runner' = [runner EXCEPT ![r] = Done(r, [runner[r].executed EXCEPT !.analyses[s] = found])]
    /\ UNCHANGED <<baselines, results>>

UnitsSkipped(x) == \E e \in Experiments : x.fx[e] = NoFaultRun \/ "SKIPPED" \in x.fx[e].trials

\* Each of these is a reason the coverage lists.
UnitsMissing(x) == \E e \in Experiments : x.fx[e].trials # {"COMPLETED"}

AnalysesMissing(x) == \E s \in ElementsOf(Stages) : x.analyses[s] # "whole"

coverage_status(x, readable) ==
    IF UnitsMissing(x) \/ AnalysesMissing(x) \/ Excluded # {} \/ ~readable THEN "INCOMPLETE" ELSE "COMPLETE"

\* A result is identified by its evidence, not by the run that collected it.
SameEvidence(x, y) ==
    /\ x.analyses = y.analyses
    /\ \A e \in Experiments : x.fx[e].trials = y.fx[e].trials

\* The collect run, one transaction; readable: the baseline evaluation can be read, and no
\* metric or configured slice is missing from it.  An equal result of another process is kept.
Collect(r, readable) ==
    LET x == runner[r].executed
    IN  /\ runner[r].pc = "collect"
        /\ \/ results' = results \cup {[executed |-> x, coverage |-> coverage_status(x, readable)]}
           \/ UNCHANGED results /\ \E y \in results : SameEvidence(x, y.executed)
        /\ runner' = [runner EXCEPT ![r] = IdleRunner]
        /\ UNCHANGED baselines

\* The collect run fails: what was executed stays on record, but there is no result.
CollectFails(r) ==
    /\ runner[r].pc = "collect"
    /\ runner' = [runner EXCEPT ![r] = IdleRunner]
    /\ UNCHANGED <<baselines, results>>

RunnerKilled(r) ==
    /\ runner[r].pc # "dead"
    /\ runner' = [runner EXCEPT ![r] = [IdleRunner EXCEPT !.pc = "dead"]]
    /\ UNCHANGED <<baselines, results>>

BenchmarkNext ==
    \E r \in Runners :
        \/ StartBenchmark(r) \/ LaunchGrid(r) \/ LaunchCell(r)
        \/ Advance(r, "grids", Grids, "cells") \/ Advance(r, "cells", Cells, "stages")
        \/ Advance(r, "stages", Stages, "collect")
        \/ (\E found \in Analysis : RunStage(r, found))
        \/ (\E readable \in BOOLEAN : Collect(r, readable)) \/ CollectFails(r) \/ RunnerKilled(r)

BenchmarkSpec == BenchmarkInit /\ [][BenchmarkNext]_benchmarkVars
-----------------------------------------------------------------------------
\* All that a result reports was measured against the one baseline it names, whatever baseline
\* runs failed launches and other processes left behind; and it is COMPLETE only when every
\* unit of the protocol completed, nothing was excluded, and every requested analysis is there
\* with the experiments it rests on.
CompleteIsEarned ==
    \A x \in results :
        /\ x.executed.baseline \in 1..baselines
        /\ \A e \in Experiments :
            x.executed.fx[e] # NoFaultRun => x.executed.fx[e].baseline = x.executed.baseline
        /\ \A s \in ElementsOf(Stages) :
            x.executed.analyses[s] # "none" => \A e \in Requires[s] : x.executed.fx[e] # NoFaultRun
        /\ x.coverage = "COMPLETE" =>
            /\ Excluded = {}
            /\ \A e \in Experiments : x.executed.fx[e] = [baseline |-> x.executed.baseline, trials |-> {"COMPLETED"}]
            /\ \A s \in ElementsOf(Stages) : x.executed.analyses[s] = "whole"
=============================================================================
