-------------------------- MODULE ScheduleRegistry --------------------------
(***************************************************************************)
(* The scheduler's tables in the SQLite registry.  Rows are append-only    *)
(* except for the status column of units and schedule runs, which          *)
(* update_status moves along the tables of UnitStates, checking the move   *)
(* against the status the database holds at that moment.  Every operator   *)
(* below is used inside one BEGIN IMMEDIATE transaction, so an action that *)
(* uses several of them commits them together or not at all.               *)
(***************************************************************************)
EXTENDS UnitStates, Integers, Sequences, FiniteSets

CONSTANT Units          \* the ScheduleUnits of one Schedule

VARIABLES
    status,     \* ScheduleUnit.status, by unit
    attempts,   \* the ExecutionAttempts of a unit, in attempt order
    log,        \* the UnitStateTransitions of a unit, in the order they were added
    runs        \* ScheduleRun.status, by ScheduleRun.sequence (from 1)

dbVars == <<status, attempts, log, runs>>

Attempt == [outcome : {"SUCCEEDED", "FAILED", "TIMED_OUT", "CANCELLED"}, cause : Cause]

Transition == [run : Nat, seq : Nat, from : UnitState, to : UnitState]

DbTypeOK ==
    /\ status \in [Units -> UnitState]
    /\ attempts \in [Units -> Seq(Attempt)]
    /\ log \in [Units -> Seq(Transition)]
    /\ runs \in Seq(RunState)

\* A freshly materialized schedule: every unit PLANNED, nothing recorded.
DbInit ==
    /\ status = [u \in Units |-> "PLANNED"]
    /\ attempts = [u \in Units |-> <<>>]
    /\ log = [u \in Units |-> <<>>]
    /\ runs = <<>>

\* update_status re-reads the row and refuses a move the table does not have.
MayMove(u, to) == <<status[u], to>> \in UNIT_TRANSITIONS

\* A transition's identity is (unit, run, sequence): add refuses a duplicate.
IsFresh(u, run, seq) ==
    \A i \in DOMAIN log[u] : ~(log[u][i].run = run /\ log[u][i].seq = seq)

UpdateStatus(u, to) == status' = [status EXCEPT ![u] = to]

RecordAfterTheFact(u, run, seq, from, to) ==
    log' = [log EXCEPT ![u] = Append(@, [run |-> run, seq |-> seq, from |-> to, to |-> to])]

AddTransition(u, run, seq, from, to) ==
    log' = [log EXCEPT ![u] = Append(@, [run |-> run, seq |-> seq, from |-> from, to |-> to])]

AddAttempt(u, outcome, cause) ==
    attempts' = [attempts EXCEPT ![u] = Append(@, [outcome |-> outcome, cause |-> cause])]

MayCloseRun(n, to) == <<runs[n], to>> \in SCHEDULE_RUN_TRANSITIONS

UpdateRun(n, to) == runs' = [runs EXCEPT ![n] = to]

\* How many recorded attempts of u answer yes to P: dispatched or recovered ones.
Dispatched(u) == Cardinality({i \in DOMAIN attempts[u] : attempts[u][i].cause # "Interrupted"})

Interrupted(u) == Cardinality({i \in DOMAIN attempts[u] : attempts[u][i].cause = "Interrupted"})

HasEvidence(u) == \E i \in DOMAIN attempts[u] : attempts[u][i].outcome = "SUCCEEDED"
=============================================================================
