------------------------------ MODULE MCRecords ------------------------------
(***************************************************************************)
(* Instances for TLC of the modules about records: the leaderboard, the    *)
(* lifecycles, the fault laboratory and the database file.  They share no  *)
(* state, so one run checks them side by side: a behaviour picks one part  *)
(* at first and the others stand still.                                    *)
(***************************************************************************)
EXTENDS Leaderboard, FailureLifecycle, InteractionLifecycle, FaultLaboratory, RegistryFile, TLC

CONSTANTS r1, r2,       \* benchmark results
          b1, b2,       \* baseline runs
          p, q, bp, bq, \* processes; bp and bq build snapshots
          m1, m2,       \* failure modes
          a1, a2,       \* interaction analyses
          x1, x2        \* records

\* Every result but r2 may be reproduced twice, by two processes at once.
TwoForFirst == [r \in Results |-> IF r = r1 THEN 2 ELSE 0]
CoverageOrEvidence == {[coverage |-> TRUE, reproduction |-> FALSE], [coverage |-> FALSE, reproduction |-> TRUE]}

TwoEach == [m \in Modes |-> 2]
FirstTwice == [m \in Modes |-> IF m = m1 THEN 2 ELSE 0]

OneStructure == [a \in Analyses |-> "same"]
OwnRuns == [a \in Analyses |-> {a}]
\* 4 units apart: 50 percent of either contrast allows that, 30 percent only of that of a2.
Contrasts == [a \in Analyses |-> IF a = a1 THEN 10 ELSE 14]
LooseAndTight == {[abs |-> 0, rel |-> 50], [abs |-> 0, rel |-> 30]}

SecondNeedsFirst == [x \in Records |-> IF x = x2 THEN {x1} ELSE {}]

VARIABLE part

vars == <<boardVars, failureVars, interactionVars, labVars, fileVars, part>>

Init ==
    /\ part \in {"board", "failures", "interactions", "laboratory", "file"}
    /\ BoardInit /\ FailuresInit /\ InteractionsInit /\ LabInit
    /\ IF part = "file" THEN FileInit ELSE FileInit /\ file = FileOf(0)

Next ==
    /\ UNCHANGED part
    /\ \/ /\ part = "board" /\ BoardNext
          /\ UNCHANGED <<failureVars, interactionVars, labVars, fileVars>>
       \/ /\ part = "failures" /\ FailuresNext
          /\ UNCHANGED <<boardVars, interactionVars, labVars, fileVars>>
       \/ /\ part = "interactions" /\ InteractionsNext
          /\ UNCHANGED <<boardVars, failureVars, labVars, fileVars>>
       \/ /\ part = "laboratory" /\ LabNext
          /\ UNCHANGED <<boardVars, failureVars, interactionVars, fileVars>>
       \/ /\ part = "file" /\ FileNext
          /\ UNCHANGED <<boardVars, failureVars, interactionVars, labVars>>

Spec == Init /\ [][Next]_vars

\* Processes may trade places; nothing above tells them apart.
SameProcesses == Permutations({p, q}) \cup Permutations({bp, bq})
=============================================================================
