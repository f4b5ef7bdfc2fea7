-------------------------- MODULE ScheduleContract --------------------------
(***************************************************************************)
(* What the scheduler promises to whoever reads the registry, whatever     *)
(* coordinators, crashes and operators did: a unit is armed only when all  *)
(* its dependencies SUCCEEDED, is declared SUCCEEDED only with a recorded  *)
(* successful attempt, is blocked only while a dependency has not          *)
(* succeeded, and never leaves SUCCEEDED, SKIPPED or CANCELLED.            *)
(***************************************************************************)
EXTENDS UnitStates

CONSTANTS Units, Deps

VARIABLES
    status,     \* the persisted status of every unit
    evidence    \* the units with a SUCCEEDED attempt on record

contractVars == <<status, evidence>>

ContractInit == status = [u \in Units |-> "PLANNED"] /\ evidence = {}

Becomes(u, to) == status' = [status EXCEPT ![u] = to] /\ UNCHANGED evidence

Arm(u) ==
    /\ status[u] \in {"PLANNED", "BLOCKED", "RETRY_PENDING"}
    /\ \A d \in Deps[u] : status[d] = "SUCCEEDED"
    /\ Becomes(u, "READY")

Block(u) ==
    /\ status[u] = "PLANNED"
    /\ \E d \in Deps[u] : status[d] # "SUCCEEDED"
    /\ Becomes(u, "BLOCKED")

Start(u) == status[u] = "READY" /\ Becomes(u, "RUNNING")

\* An answer is recorded while its unit runs, or after it was cancelled meanwhile.
Answered(u) ==
    /\ status[u] \in {"RUNNING", "CANCELLED"}
    /\ evidence' = evidence \cup {u} /\ UNCHANGED status

Succeed(u) == status[u] = "RUNNING" /\ u \in evidence /\ Becomes(u, "SUCCEEDED")

Fail(u) == status[u] = "RUNNING" /\ \E to \in {"FAILED", "TIMED_OUT"} : Becomes(u, to)

Retry(u) == status[u] \in {"FAILED", "TIMED_OUT"} /\ Becomes(u, "RETRY_PENDING")

\* An operator's request may reach a unit that failed since the operator looked.
Cancel(u) == status[u] \in CancellableStates \cup RetryableStates /\ Becomes(u, "CANCELLED")

ContractNext ==
    \E u \in Units :
        Arm(u) \/ Block(u) \/ Start(u) \/ Answered(u) \/ Succeed(u) \/ Fail(u) \/ Retry(u) \/ Cancel(u)

ContractSpec == ContractInit /\ [][ContractNext]_contractVars
=============================================================================
