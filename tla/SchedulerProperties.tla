------------------------- MODULE SchedulerProperties -------------------------
(***************************************************************************)
(* What must be true of the orchestrator of module Scheduler, and the      *)
(* fairness under which it must also make progress.                        *)
(***************************************************************************)
EXTENDS Scheduler

\* A unit that was ever armed for a dispatch has only SUCCEEDED dependencies in
\* the database, through crashes, recoveries, retries and cancellations
\* (ready_candidates, propagate_blocked, reconcile_interrupted).
DepsSucceeded ==
    \A u \in Units : status[u] \in ArmedStates => \A d \in Deps[u] : status[d] = "SUCCEEDED"

\* A unit that is SUCCEEDED has a SUCCEEDED attempt, although the attempt and
\* the status are two transactions; so a dispatch in flight finds the
\* primary_ref of each of its dependencies (_seed, finish).
EvidenceBeforeSuccess ==
    /\ \A u \in Units : status[u] = "SUCCEEDED" => HasEvidence(u)
    /\ \A u \in Units : futures[u] # "none" => Deps[u] \subseteq refs

\* Number of times the audit log says u was started.
Launches(u) == Cardinality({i \in DOMAIN log[u] : log[u][i].to = "RUNNING"})

\* Answers for u that are still to be recorded: its future, or the write being made.
Outstanding(u) ==
    IF \/ futures[u] # "none"
       \/ cur = u /\ Handling /\ Head(agenda).kind = "attempt" /\ Head(agenda).cause # "Interrupted"
    THEN 1 ELSE 0

\* Every start is answered at most once: a late answer of a dispatch that
\* already timed out, or was recovered, is never recorded as another attempt.
OneAnswerPerDispatch == \A u \in Units : Dispatched(u) + Outstanding(u) <= Launches(u)

AttemptLimit(u) == IF Policy[u].kind = "FIXED" THEN Policy[u].max_attempts ELSE 1

\* A unit is dispatched no more often than its policy allows, plus once for
\* each recovery and each retry an operator asked for, over all runs.
RetryBudget ==
    \A u \in Units : Dispatched(u) + Outstanding(u) <= AttemptLimit(u) + Interrupted(u) + commands

Successes(u) == Cardinality({i \in DOMAIN attempts[u] : attempts[u][i].outcome = "SUCCEEDED"})

\* A success is computed a second time only where a process died between
\* recording the successful attempt and recording the status.
SuccessRedoneOnlyAfterCrash == \A u \in Units : Successes(u) <= 1 + Interrupted(u)

\* The audit records of a unit chain from PLANNED to its current status, each
\* starting where the one before ended: nothing changes status silently.
AuditChain ==
    \A u \in Units :
        /\ log[u] = <<>> => status[u] = "PLANNED"
        /\ log[u] # <<>> => log[u][1].from = "PLANNED" /\ log[u][Len(log[u])].to = status[u]
        /\ \A i \in 2 .. Len(log[u]) : log[u][i].from = log[u][i - 1].to

RunningWithMemory == {u \in Units : status[u] = "RUNNING" /\ Memory[u] # 0}

\* No other unit is RUNNING while an exclusive one is, and two units that declare
\* memory run together only within the budget: the coordinator's flag and its
\* running total never fall short of what is running.
ResourcesRespected ==
    /\ \A u, w \in Units :
          status[u] = "RUNNING" /\ u \in Exclusive /\ w # u => status[w] # "RUNNING"
    /\ \A u, w \in RunningWithMemory :
          u # w /\ MemoryBudget # 0 => Memory[u] + Memory[w] <= MemoryBudget

\* While the coordinator waits with a worker to spare, no unit it could admit is
\* left aside: an inadmissible candidate never hides an admissible one.
WorkConserving ==
    pc = "wait" /\ ~cancelEvent /\ Cardinality(Tracked) < MaxWorkers
        => \A u \in Units : Candidate(u) => ~Admissible(u)

\* A run that nobody cancelled ends with nothing it could still have done: no
\* unit is left ready, running or waiting for a retry, and one that never
\* started has a dependency that did not succeed.
NoStrandedUnit ==
    pc = "close" /\ ~cancelEvent
        => \A u \in Units :
              /\ mem[u] \notin {"READY", "RUNNING", "RETRY_PENDING"}
              /\ mem[u] \in {"PLANNED", "BLOCKED"} => \E d \in Deps[u] : mem[d] # "SUCCEEDED"

\* A run recorded COMPLETED left no unit FAILED or TIMED_OUT in the database,
\* and every unit is SUCCEEDED, CANCELLED or below one that did not succeed.
CompletedMeansDone ==
    [][\A n \in DOMAIN runs :
          runs[n] = "RUNNING" /\ runs'[n] = "COMPLETED"
              => \A u \in Units :
                    \/ status[u] \in {"SUCCEEDED", "CANCELLED"}
                    \/ status[u] \in {"PLANNED", "BLOCKED"} /\ \E d \in Deps[u] : status[d] # "SUCCEEDED"]_vars

\* The registry as the scheduler's contract sees it.
Contract == INSTANCE ScheduleContract WITH evidence <- {u \in Units : HasEvidence(u)}

\* Every behaviour of coordinator, pool and operators is one the contract allows.
ImplementsContract == Contract!ContractSpec

-----------------------------------------------------------------------------
\* The inductive invariant, by parts.

\* What the coordinator believes is what the database holds, except for a unit
\* an operator cancelled, or asked to retry, since the coordinator last wrote it.
ViewAgrees ==
    pc # "down" => \A u \in Units :
        \/ status[u] = mem[u]
        \/ status[u] = "CANCELLED" /\ mem[u] # "SUCCEEDED"
        \/ status[u] = "RETRY_PENDING" /\ mem[u] \in RetryableStates

\* Every write a handler still has to make is one the coordinator's memory justifies.
AgendaJustified ==
    Handling =>
        /\ pc \notin {"down", "opened", "submit", "wait", "close"}
        /\ \A i \in DOMAIN agenda :
              /\ agenda[i].kind = "attempt" => i = 1 /\ mem[cur] = "RUNNING"
              /\ agenda[i].kind = "move" =>
                    /\ agenda[i].to = "BLOCKED" => Stuck(cur)
                    /\ agenda[i].to \in {"READY", "RUNNING"} => DepsDone(cur)
                    /\ agenda[i].to = "RUNNING" => i = Len(agenda) /\ pc = "dispatch"
                    /\ agenda[i].to = "SUCCEEDED" =>
                          \/ HasEvidence(cur)
                          \/ i = 2 /\ agenda[1].kind = "attempt" /\ agenda[1].to = "SUCCEEDED"

\* A future belongs to a unit that is RUNNING and that no handler has taken up.
TrackedRunning ==
    /\ \A u \in Tracked : mem[u] = "RUNNING" /\ (Handling => cur # u)
    /\ pc \in {"down", "opened", "recover", "blockFirst"} => Tracked = {}

\* What a wait returned is still there when its turn comes.
BatchHeld ==
    /\ pc = "finish" => batch \subseteq Answered
    /\ pc = "expire" => batch \subseteq Tracked

\* Every SUCCEEDED unit's primary_ref is at hand.
RefsHeld == pc \notin {"down", "opened"} => \A u \in Units : mem[u] = "SUCCEEDED" => u \in refs

\* The parts together are preserved by every step.
IndInv ==
    /\ TypeOK /\ ViewAgrees /\ AgendaJustified /\ TrackedRunning /\ BatchHeld /\ RefsHeld
    /\ DepsSucceeded /\ EvidenceBeforeSuccess

-----------------------------------------------------------------------------
\* The accounts: what more is kept, so that resources, attempts and successes add up.

\* Once recovery is over, a unit taken for RUNNING has a future, or the handler
\* that let go of it has yet to move it on.
RunningHeld ==
    pc \notin {"down", "opened", "recover"}
        => \A u \in Units : mem[u] = "RUNNING" => u \in Tracked \/ (Handling /\ cur = u)

\* An attempt is recorded right before the move to its outcome; after that only
\* a start or another attempt may follow, and RETRY_PENDING is never moved on by
\* the handler that wrote it.
AgendaShaped ==
    Handling =>
        /\ agenda[Len(agenda)].kind = "move"
        /\ agenda[1].kind = "attempt" =>
              /\ Len(agenda) >= 2 /\ agenda[2].kind = "move" /\ agenda[2].to = agenda[1].to
              /\ agenda[1].cause = "Interrupted" => agenda[1].to = "FAILED"
        /\ \A i \in DOMAIN agenda :
              /\ agenda[i].to = "RETRY_PENDING" => i = Len(agenda)
              /\ i > 2 \/ (i = 2 /\ agenda[1].kind = "move") => agenda[i].to \in {"RUNNING", "RETRY_PENDING"}

\* The flag tells of an exclusive unit exactly while one is tracked, and it is alone.
FlagExact ==
    /\ runningExclusive <=> \E u \in Tracked : u \in Exclusive
    /\ \A u, w \in Tracked : u \in Exclusive => w = u

\* What was admissible when submit_more chose it still is when it starts.
AdmittedStays == Handling /\ pc = "dispatch" => Admissible(cur) /\ mem[cur] # "RUNNING"

\* As the database, so the coordinator's memory: armed only on SUCCEEDED dependencies.
MemoryOrdered == pc # "down" => \A u \in Units : mem[u] \in ArmedStates => DepsDone(u)

\* Between propagate_blocked and the next wait no BLOCKED unit could be READY.
BlockedSettled == pc \in {"submit", "dispatch"} => \A u \in Units : mem[u] = "BLOCKED" => ~DepsDone(u)

\* The loop is left early only for the caller's event.
CancelSeen == pc = "cancel" => cancelEvent

\* The course of a run: what is running, what was admitted and what is settled,
\* as submit_more, finish and propagate_blocked leave it at every point of the
\* loop; none of the parts holds by itself for long without the others.
CourseInv ==
    /\ AgendaShaped /\ RunningHeld /\ AdmittedStays /\ FlagExact
    /\ MemoryOrdered /\ BlockedSettled /\ CancelSeen

\* States from which a unit may still be started without another decision.
Startable == {"PLANNED", "READY", "BLOCKED", "RETRY_PENDING"}

\* The handler of u will grant it another attempt, by its policy or, once the
\* interrupted attempt is on record, by recovery.
RetryPlanned(u) ==
    /\ Handling /\ cur = u
    /\ \E i \in DOMAIN agenda : agenda[i].to = "RETRY_PENDING"
    /\ agenda[1].kind = "attempt" => agenda[1].cause # "Interrupted"

\* The operator has asked for another attempt of u and not written it yet.
RetryCommanded(u) == opTo = "RETRY_PENDING" /\ u \in opTodo

One(condition) == IF condition THEN 1 ELSE 0

\* Starts of u already granted and not made.
Owed(u) == One(status[u] \in Startable) + One(RetryCommanded(u)) + One(RetryPlanned(u))

\* Starts made and starts granted are within what policy, recovery and operators allow.
StartsCovered ==
    \A u \in Units :
        /\ Dispatched(u) + Outstanding(u) + Owed(u) <= AttemptLimit(u) + Interrupted(u) + commands
        /\ RetryCommanded(u) => commands >= 1

\* Nothing that is on record or in flight makes up for another success of u.
NotDone(u) ==
    \/ status[u] \in Startable \cup RetryableStates
    \/ futures[u] # "none"
    \/ /\ Handling /\ cur = u
       /\ \/ agenda[1].kind = "attempt" /\ agenda[1].cause # "Interrupted"
          \/ agenda[1].kind = "move" /\ agenda[1].to \in {"FAILED", "TIMED_OUT"}

\* Each success but the last was followed by a recovery.
SuccessesCovered == \A u \in Units : Successes(u) <= Interrupted(u) + One(~NotDone(u))

-----------------------------------------------------------------------------
\* Progress.  The coordinator's thread is scheduled once a run is asked for
\* (asking for one is the caller's choice) and so are the threads of the pool; a
\* dispatch without a timeout ends by itself, one with a timeout may hang.

BusyCoordinator == pc # "down" /\ Coordinator

UntimedAnswers == \E job \in active : job[1] \notin Timed /\ ThreadAnswers(job)

FairSpec == Spec /\ WF_vars(BusyCoordinator) /\ WF_vars(ThreadTakes) /\ WF_vars(UntimedAnswers)

\* Every run that begins is closed: waits, retries, timeouts, resource limits
\* and propagation never leave the coordinator waiting for nothing.
EveryRunEnds ==
    \A n \in 1 .. MaxRuns :
        (Len(runs) >= n /\ runs[n] = "RUNNING") ~> (Len(runs) >= n /\ runs[n] # "RUNNING")

-----------------------------------------------------------------------------
\* What the documentation says and the code does not do.

\* docs/scheduler.md on recovery: a unit found RUNNING is unconditionally moved
\* to RETRY_PENDING, one fresh attempt independent of its retry policy; so no
\* run ends with a unit FAILED by nothing but the interruption.
RecoveryGrantsAttempt ==
    pc = "close" => \A u \in Units :
        attempts[u] # <<>> /\ attempts[u][Len(attempts[u])].cause = "Interrupted" => mem[u] # "FAILED"

\* docs/scheduler.md on cancel_event: every still-open unit is marked CANCELLED.
CancelledRunLeavesNothingOpen ==
    [][\A n \in DOMAIN runs :
          runs[n] = "RUNNING" /\ runs'[n] = "CANCELLED"
              => \A u \in Units : status[u] \notin {"PLANNED", "READY", "BLOCKED", "RETRY_PENDING"}]_vars
=============================================================================
