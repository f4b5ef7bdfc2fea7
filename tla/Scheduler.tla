------------------------------ MODULE Scheduler ------------------------------
(***************************************************************************)
(* The DAG orchestrator (scheduler/engine.py): one coordinator that owns   *)
(* the bookkeeping of a schedule, the pool of threads that run dispatches, *)
(* and the operator's cancel and retry commands, which are other processes *)
(* writing the same database.                                              *)
(*                                                                         *)
(* A handler of the coordinator decides from its own memory and then       *)
(* writes one transaction after another.  agenda holds the writes the      *)
(* handler still has to make for the unit cur, so that a crash, a dispatch *)
(* that answers or an operator's command can come between any two of them. *)
(***************************************************************************)
EXTENDS ScheduleRegistry

CONSTANTS
    NoUnit,         \* stands for no unit where one is expected
    Deps,           \* unit -> the units it depends on
    PlanOrder,      \* unit -> its position in the expanded plan (topological)
    Rank,           \* unit -> its position by (-priority, key)
    Policy,         \* unit -> its retry policy
    Timed,          \* the units with a timeout_seconds
    Exclusive,      \* the units that must run alone
    Memory,         \* unit -> its declared memory_mb, 0 when it declares none
    MemoryBudget,   \* the policy's memory_budget_mb, 0 when it has none
    MaxWorkers,     \* the policy's max_workers
    Answers,        \* what dispatches may answer in this instance
    MaxRuns,        \* bound: invocations of run_schedule
    MayCrash,       \* whether the coordinator's process may be killed
    CancelEvents,   \* whether the caller may set the run's cancel_event
    Commands,       \* the operator's commands in use: "cancel", "retry"
    MaxCommands     \* bound: commands the operator issues

RetryPolicy == [kind : {"NONE", "FIXED"}, max_attempts : Nat \ {0}, retryable : SUBSET FailureCategory]

ASSUME UnitsAssumption == IsFiniteSet(Units) /\ NoUnit \notin Units
ASSUME PlanAssumption ==
    /\ Deps \in [Units -> SUBSET Units]
    /\ PlanOrder \in [Units -> Nat]
    /\ Rank \in [Units -> Nat]
    /\ \A u \in Units : \A d \in Deps[u] : PlanOrder[d] < PlanOrder[u]
    /\ \A u, w \in Units : u # w => PlanOrder[u] # PlanOrder[w] /\ Rank[u] # Rank[w]
ASSUME PolicyAssumption ==
    /\ Policy \in [Units -> RetryPolicy]
    /\ Timed \subseteq Units /\ Exclusive \subseteq Units
    /\ Memory \in [Units -> Nat] /\ MemoryBudget \in Nat
    /\ MaxWorkers \in Nat \ {0}
    /\ Answers \subseteq Answer
ASSUME BoundsAssumption ==
    /\ MaxRuns \in Nat /\ MaxCommands \in Nat
    /\ MayCrash \in BOOLEAN /\ CancelEvents \in BOOLEAN
    /\ Commands \subseteq {"cancel", "retry"}

VARIABLES
    pc,                 \* where the coordinator is; "down" when no run is in progress
    mem,                \* the coordinator's view of every unit's status
    refs,               \* units whose primary_ref the coordinator holds
    seq,                \* next UnitStateTransition sequence of a unit in this run
    cur, agenda,        \* the unit being handled and the writes still to make for it
    batch,              \* futures taken from one wait and not handled yet
    runningMemory,      \* declared memory of the units admitted
    runningExclusive,   \* an exclusive unit has been admitted
    cancelEvent,        \* the caller's threading.Event
    futures,            \* what the coordinator knows of a unit's future
    queue, active,      \* the pool: dispatches waiting for a thread, and in a thread
    opPc, opTo,         \* the operator's command: where it is, the status it sets
    opSnap, opRun,      \* what it read first: the units, and the latest run
    opTodo, opUnit, opSeq,  \* units left, the unit at hand, its number of transitions
    commands            \* commands issued

coordVars == <<pc, mem, refs, seq, cur, agenda, batch, runningMemory, runningExclusive, cancelEvent>>
poolVars  == <<futures, queue, active>>
opVars    == <<opPc, opTo, opSnap, opRun, opTodo, opUnit, opSeq, commands>>
vars      == <<dbVars, coordVars, poolVars, opVars>>

Pc == {"down", "opened", "recover", "blockFirst", "submit", "dispatch", "wait",
       "finish", "expire", "block", "cancel", "close"}

Write == [kind : {"attempt"}, to : {"SUCCEEDED", "FAILED", "TIMED_OUT"}, cause : Cause]
         \cup [kind : {"move"}, to : UnitState \ {"PLANNED", "SKIPPED"}, cause : {"OK"}]

Record(outcome, cause) == [kind |-> "attempt", to |-> outcome, cause |-> cause]

Move(to) == [kind |-> "move", to |-> to, cause |-> "OK"]

Job == Units \X Nat

CoordTypeOK ==
    /\ pc \in Pc /\ mem \in [Units -> UnitState] /\ refs \subseteq Units
    /\ seq \in [Units -> Nat] /\ cur \in Units \cup {NoUnit} /\ agenda \in Seq(Write)
    /\ (agenda # <<>> => cur \in Units) /\ batch \subseteq Units
    /\ runningMemory \in Nat /\ runningExclusive \in BOOLEAN /\ cancelEvent \in BOOLEAN

PoolTypeOK ==
    /\ futures \in [Units -> {"none", "pending"} \cup Answer]
    /\ queue \in Seq(Job) /\ active \subseteq Job

OpTypeOK ==
    /\ opPc \in {"idle", "read", "write"} /\ opTo \in {"CANCELLED", "RETRY_PENDING"}
    /\ opSnap \in [Units -> UnitState] /\ opRun \in [seq : Nat, status : RunState]
    /\ opTodo \subseteq Units /\ opUnit \in Units \cup {NoUnit} /\ opSeq \in Nat
    /\ (opPc = "write" => opUnit \in opTodo) /\ commands \in Nat

\* Type invariant.  A handler always knows the unit its writes are for.
TypeOK == DbTypeOK /\ CoordTypeOK /\ PoolTypeOK /\ OpTypeOK

-----------------------------------------------------------------------------
\* The coordinator's memory when no run is in progress, as the next run finds it.

AllPlanned == [u \in Units |-> "PLANNED"]

CoordInit ==
    /\ pc = "down" /\ mem = AllPlanned /\ refs = {} /\ seq = [u \in Units |-> 0]
    /\ cur = NoUnit /\ agenda = <<>> /\ batch = {}
    /\ runningMemory = 0 /\ runningExclusive = FALSE /\ cancelEvent = FALSE
    /\ futures = [u \in Units |-> "none"] /\ queue = <<>> /\ active = {}

OpInit ==
    /\ opPc = "idle" /\ opTo = "CANCELLED" /\ opSnap = AllPlanned
    /\ opRun = [seq |-> 0, status |-> "PLANNED"] /\ opTodo = {} /\ opUnit = NoUnit
    /\ opSeq = 0

Init == DbInit /\ CoordInit /\ OpInit /\ commands = 0

\* The invocation is over, by its return, an exception or the death of its
\* process: its memory is gone and its threads answer nobody.
GoDown ==
    /\ pc' = "down" /\ mem' = AllPlanned /\ refs' = {} /\ seq' = [u \in Units |-> 0]
    /\ cur' = NoUnit /\ agenda' = <<>> /\ batch' = {}
    /\ runningMemory' = 0 /\ runningExclusive' = FALSE /\ cancelEvent' = FALSE
    /\ futures' = [u \in Units |-> "none"] /\ queue' = <<>> /\ active' = {}

First(S) == CHOOSE u \in S : \A w \in S : PlanOrder[u] <= PlanOrder[w]

Best(S) == CHOOSE u \in S : \A w \in S : Rank[u] <= Rank[w]

\* The keys of the coordinator's futures dictionary.
Tracked == {u \in Units : futures[u] # "none"}

\* The tracked futures that are done.
Answered == {u \in Units : futures[u] \in Answer}

DepsUnblocked(u) == \A d \in Deps[u] : mem[d] \notin BLOCKING_STATES

\* Every dependency SUCCEEDED, as far as the coordinator knows.
DepsDone(u) == \A d \in Deps[u] : mem[d] = "SUCCEEDED"

RetryOnceMore(u, category, used) ==
    /\ Policy[u].kind = "FIXED" /\ used <= Policy[u].max_attempts
    /\ category \in Policy[u].retryable

\* _should_retry, asked with used attempts on record.
ShouldRetry(u, category, used) ==
    /\ Policy[u].kind = "FIXED"
    /\ used < Policy[u].max_attempts
    /\ category \in Policy[u].retryable

\* A handler takes up unit u: these are the writes it will make for it.
TakeUp(u, writes) == cur' = u /\ agenda' = writes

Handling == agenda # <<>>

-----------------------------------------------------------------------------
\* run_schedule, up to the first dispatch

\* materialize: an idempotent transaction that also reads the persisted status.
Materialize ==
    /\ pc = "down" /\ Len(runs) < MaxRuns
    /\ pc' = "opened" /\ mem' = status
    /\ UNCHANGED <<dbVars, refs, seq, cur, agenda, batch, runningMemory, runningExclusive,
                   cancelEvent, poolVars, opVars>>

\* The ScheduleRun is added and set RUNNING in one transaction; _seed then
\* reads the attempts of the units that were SUCCEEDED when they were read.
BeginRun ==
    /\ pc = "opened"
    /\ runs' = Append(runs, "RUNNING")
    /\ refs' = {u \in Units : mem[u] = "SUCCEEDED" /\ HasEvidence(u)}
    /\ pc' = "recover"
    /\ UNCHANGED <<status, attempts, log, mem, seq, cur, agenda, batch, runningMemory,
                   runningExclusive, cancelEvent, poolVars, opVars>>

RecoveryUncounted == <<Move("FAILED"), Move("RETRY_PENDING")>>

\* A recovered unit gets a failed attempt on record and a fresh one to come,
\* whatever its retry policy says.
RecoveryWrites == <<Record("FAILED", "Interrupted"), Move("FAILED"), Move("RETRY_PENDING")>>

\* reconcile_interrupted: whatever the last process left RUNNING failed.
Recover ==
    /\ pc = "recover" /\ ~Handling
    /\ LET left == {u \in Units : mem[u] = "RUNNING"} IN
       IF left # {}
       THEN TakeUp(First(left), RecoveryWrites) /\ UNCHANGED pc
       ELSE pc' = "blockFirst" /\ UNCHANGED <<cur, agenda>>
    /\ UNCHANGED <<dbVars, mem, refs, seq, batch, runningMemory, runningExclusive, cancelEvent,
                   poolVars, opVars>>

-----------------------------------------------------------------------------
\* Writing: one transaction of the handler at a time

\* _record_attempt: a transaction of its own, before the status change it explains.
WriteAttempt ==
    /\ Handling /\ Head(agenda).kind = "attempt"
    /\ AddAttempt(cur, Head(agenda).to, Head(agenda).cause)
    /\ agenda' = Tail(agenda)
    /\ UNCHANGED <<status, log, runs, pc, mem, refs, seq, cur, batch, runningMemory,
                   runningExclusive, cancelEvent, poolVars, opVars>>

\* _transition is refused when the coordinator's own view forbids it, when the
\* database no longer agrees with that view, or when the record's identity is taken.
WriteRefused ==
    /\ Handling /\ Head(agenda).kind = "move"
    /\ ~(/\ <<mem[cur], Head(agenda).to>> \in UNIT_TRANSITIONS
         /\ MayMove(cur, Head(agenda).to)
         /\ IsFresh(cur, Len(runs), seq[cur]))

\* _transition: status and audit record in one transaction, then memory.  A
\* dispatch is handed to the pool right after its unit is RUNNING; a ref is
\* remembered right after its unit SUCCEEDED.
WriteMove ==
    /\ Handling /\ Head(agenda).kind = "move" /\ ~WriteRefused
    /\ LET to == Head(agenda).to IN
       /\ UpdateStatus(cur, to)
       /\ AddTransition(cur, Len(runs), seq[cur], mem[cur], to)
       /\ mem' = [mem EXCEPT ![cur] = to]
       /\ seq' = [seq EXCEPT ![cur] = @ + 1]
       /\ refs' = IF to = "SUCCEEDED" THEN refs \cup {cur} ELSE refs
       /\ IF to = "RUNNING"
          THEN /\ runningExclusive' = (runningExclusive \/ cur \in Exclusive)
               /\ runningMemory' = runningMemory + Memory[cur]
               /\ futures' = [futures EXCEPT ![cur] = "pending"]
               /\ queue' = Append(queue, <<cur, Len(attempts[cur])>>)
          ELSE UNCHANGED <<runningExclusive, runningMemory, futures, queue>>
    /\ agenda' = Tail(agenda)
    /\ UNCHANGED <<attempts, runs, pc, cur, batch, cancelEvent, active, opVars>>

\* The refusal is an exception nothing in run_schedule catches.
Refused == WriteRefused /\ GoDown /\ UNCHANGED <<dbVars, opVars>>

-----------------------------------------------------------------------------
\* Propagation, admission and dispatch

\* Units whose status propagate_blocked changes, and what it changes it to.
Stuck(u) == \E d \in Deps[u] : mem[d] \in BLOCKING_STATES

ToBlock == {u \in Units : mem[u] \in {"PLANNED", "READY"} /\ Stuck(u)}

ToUnblock == {u \in Units : mem[u] = "BLOCKED" /\ ~Stuck(u) /\ DepsDone(u)}

\* propagate_blocked, then what follows it: the first submission, or, inside
\* the loop, the check of cancel_event.
Propagate ==
    /\ pc \in {"blockFirst", "block"} /\ ~Handling
    /\ LET changing == ToBlock \cup ToUnblock IN
       IF changing # {}
       THEN LET u == First(changing) IN
            /\ TakeUp(u, <<Move(IF u \in ToBlock THEN "BLOCKED" ELSE "READY")>>)
            /\ UNCHANGED pc
       ELSE /\ pc' = IF pc = "block" /\ cancelEvent THEN "cancel" ELSE "submit"
            /\ UNCHANGED <<cur, agenda>>
    /\ UNCHANGED <<dbVars, mem, refs, seq, batch, runningMemory, runningExclusive, cancelEvent,
                   poolVars, opVars>>

AwaitAnyway == "wait"

\* The loop goes on waiting while it has futures and leaves otherwise.
AwaitOrLeave == IF Tracked # {} THEN "wait" ELSE "close"

\* submit_more returns at once when the event is set.
Submit ==
    /\ pc = "submit"
    /\ pc' = IF cancelEvent THEN AwaitOrLeave ELSE "dispatch"
    /\ UNCHANGED <<dbVars, mem, refs, seq, cur, agenda, batch, runningMemory, runningExclusive,
                   cancelEvent, poolVars, opVars>>

Candidate(u) == mem[u] \in {"PLANNED", "READY", "RETRY_PENDING"} /\ DepsDone(u)

SomeRunning == \E u \in Units : mem[u] = "RUNNING"

AdmitAnyMemory(u) == ~runningExclusive /\ ~(u \in Exclusive /\ SomeRunning)

AdmitWithinBudget(u) ==
    /\ ~runningExclusive /\ ~(u \in Exclusive /\ SomeRunning)
    /\ ~(MemoryBudget # 0 /\ runningMemory + Memory[u] > MemoryBudget)

\* _admissible: resources only ever gate a start, and never when nothing runs.
Admissible(u) ==
    /\ ~runningExclusive
    /\ ~(u \in Exclusive /\ SomeRunning)
    /\ ~(/\ MemoryBudget # 0 /\ Memory[u] # 0 /\ SomeRunning
         /\ runningMemory + Memory[u] > MemoryBudget)

ReadyAtHead ==
    LET candidates == {u \in Units : Candidate(u)} IN
    {u \in candidates : u = Best(candidates) /\ Admissible(u)}

Ready == {u \in Units : Candidate(u) /\ Admissible(u)}

\* The body of submit_more's loop: the best candidate that is admissible.  A
\* candidate passed over stays inadmissible for the rest of the pass.
Dispatch ==
    /\ pc = "dispatch" /\ ~Handling
    /\ IF Ready # {} /\ Cardinality(Tracked) < MaxWorkers
       THEN LET u == Best(Ready) IN
            /\ TakeUp(u, IF mem[u] = "READY" THEN <<Move("RUNNING")>>
                         ELSE <<Move("READY"), Move("RUNNING")>>)
            /\ UNCHANGED pc
       ELSE pc' = AwaitOrLeave /\ UNCHANGED <<cur, agenda>>
    /\ UNCHANGED <<dbVars, mem, refs, seq, batch, runningMemory, runningExclusive, cancelEvent,
                   poolVars, opVars>>

-----------------------------------------------------------------------------
\* Waiting, and what a wait returns

\* wait returns every future that is done at that moment ...
WakeAnswered ==
    /\ pc = "wait" /\ Answered # {}
    /\ pc' = "finish" /\ batch' = Answered
    /\ UNCHANGED <<dbVars, mem, refs, seq, cur, agenda, runningMemory, runningExclusive,
                   cancelEvent, poolVars, opVars>>

\* ... or none, when the nearest deadline passes first.
WakeExpired ==
    /\ pc = "wait" /\ Answered = {}
    /\ \E late \in SUBSET (Tracked \cap Timed) \ {{}} : batch' = late
    /\ pc' = "expire"
    /\ UNCHANGED <<dbVars, mem, refs, seq, cur, agenda, runningMemory, runningExclusive,
                   cancelEvent, poolVars, opVars>>

ReleaseOnly(u) ==
    /\ batch' = batch \ {u} /\ UNCHANGED futures
    /\ runningExclusive' = (runningExclusive /\ u \notin Exclusive)
    /\ runningMemory' = IF runningMemory < Memory[u] THEN 0 ELSE runningMemory - Memory[u]

\* The unit's future leaves the coordinator's dictionary and its resources are released.
LetGo(u) ==
    /\ futures' = [futures EXCEPT ![u] = "none"]
    /\ batch' = batch \ {u}
    /\ runningExclusive' = (runningExclusive /\ u \notin Exclusive)
    /\ runningMemory' = IF runningMemory < Memory[u] THEN 0 ELSE runningMemory - Memory[u]

\* The writes that close an attempt which did not succeed.
CloseAttempt(u, outcome, category) ==
    LET again == IF ShouldRetry(u, category, Len(attempts[u]) + 1)
                 THEN <<Move("RETRY_PENDING")>> ELSE <<>>
    IN  <<Record(outcome, category), Move(outcome)>> \o again

SuccessFirst == <<Move("SUCCEEDED"), Record("SUCCEEDED", "OK")>>

SuccessWrites == <<Record("SUCCEEDED", "OK"), Move("SUCCEEDED")>>

\* finish, for the futures of the wait in any order.
Finish ==
    /\ pc = "finish" /\ ~Handling
    /\ \E u \in batch :
         /\ LetGo(u)
         /\ TakeUp(u, IF futures[u] = "OK" THEN SuccessWrites
                      ELSE CloseAttempt(u, "FAILED", futures[u]))
    /\ UNCHANGED <<dbVars, pc, mem, refs, seq, cancelEvent, queue, active, opVars>>

\* The clock is read once: any of the remaining futures with a timeout may be overdue.
ReadClock ==
    /\ pc = "finish" /\ ~Handling /\ batch = {}
    /\ \E late \in SUBSET (Tracked \cap Timed) : batch' = late
    /\ pc' = "expire"
    /\ UNCHANGED <<dbVars, mem, refs, seq, cur, agenda, runningMemory, runningExclusive,
                   cancelEvent, poolVars, opVars>>

\* timeout: the coordinator stops waiting; the job stays where it is in the pool.
Expire ==
    /\ pc = "expire" /\ ~Handling
    /\ \E u \in batch : LetGo(u) /\ TakeUp(u, CloseAttempt(u, "TIMED_OUT", "TIMEOUT"))
    /\ UNCHANGED <<dbVars, pc, mem, refs, seq, cancelEvent, queue, active, opVars>>

Expired ==
    /\ pc = "expire" /\ ~Handling /\ batch = {}
    /\ pc' = "block"
    /\ UNCHANGED <<dbVars, mem, refs, seq, cur, agenda, batch, runningMemory, runningExclusive,
                   cancelEvent, poolVars, opVars>>

\* cancel_open, then out of the loop with whatever still runs left RUNNING.
CancelOpen ==
    /\ pc = "cancel" /\ ~Handling
    /\ LET open == {u \in Units : mem[u] \in {"PLANNED", "READY", "BLOCKED", "RETRY_PENDING"}} IN
       IF open # {}
       THEN TakeUp(First(open), <<Move("CANCELLED")>>) /\ UNCHANGED pc
       ELSE pc' = "close" /\ UNCHANGED <<cur, agenda>>
    /\ UNCHANGED <<dbVars, mem, refs, seq, batch, runningMemory, runningExclusive, cancelEvent,
                   poolVars, opVars>>

VerdictIgnoringTimeouts ==
    IF cancelEvent THEN "CANCELLED"
    ELSE IF \E u \in Units : mem[u] = "FAILED" THEN "FAILED" ELSE "COMPLETED"

\* What run_schedule makes of the units' statuses when the loop is over.
Verdict ==
    IF cancelEvent THEN "CANCELLED"
    ELSE IF \E u \in Units : mem[u] \in {"FAILED", "TIMED_OUT"} THEN "FAILED" ELSE "COMPLETED"

\* The run is closed with that verdict, unless an operator closed it already:
\* then the update is refused and run_schedule raises.
Close ==
    /\ pc = "close"
    /\ IF MayCloseRun(Len(runs), Verdict) THEN UpdateRun(Len(runs), Verdict) ELSE UNCHANGED runs
    /\ GoDown
    /\ UNCHANGED <<status, attempts, log, opVars>>

-----------------------------------------------------------------------------
\* The environment of the coordinator: its death, its caller, its threads

Crash == MayCrash /\ pc # "down" /\ GoDown /\ UNCHANGED <<dbVars, opVars>>

SetCancelEvent ==
    /\ CancelEvents /\ pc # "down" /\ ~cancelEvent
    /\ cancelEvent' = TRUE
    /\ UNCHANGED <<dbVars, pc, mem, refs, seq, cur, agenda, batch, runningMemory,
                   runningExclusive, poolVars, opVars>>

\* A thread of the pool picks up the oldest dispatch waiting for one.
ThreadTakes ==
    /\ queue # <<>> /\ Cardinality(active) < MaxWorkers
    /\ active' = active \cup {Head(queue)} /\ queue' = Tail(queue)
    /\ UNCHANGED <<dbVars, coordVars, futures, opVars>>

\* The coordinator still holds the future of this job.
IsTracked(job) == futures[job[1]] = "pending" /\ job[2] = Len(attempts[job[1]])

\* A dispatch ends; the answer of one that timed out goes to a future nobody holds.
ThreadAnswers(job) ==
    /\ job \in active /\ active' = active \ {job}
    /\ \E answer \in Answers :
          futures' = IF IsTracked(job) THEN [futures EXCEPT ![job[1]] = answer] ELSE futures
    /\ UNCHANGED <<dbVars, coordVars, queue, opVars>>

-----------------------------------------------------------------------------
\* The operator's commands, each a process of its own

\* Both commands first read the units and the runs.
OpRead(to, units) ==
    /\ opPc = "idle" /\ commands < MaxCommands
    /\ commands' = commands + 1 /\ opPc' = "read"
    /\ opTo' = to /\ opTodo' = units /\ opSnap' = status
    /\ opRun' = [seq |-> Len(runs),
                 status |-> IF runs = <<>> THEN "PLANNED" ELSE runs[Len(runs)]]
    /\ opUnit' = NoUnit /\ opSeq' = 0
    /\ UNCHANGED <<dbVars, coordVars, poolVars>>

CancelCommand ==
    "cancel" \in Commands /\ OpRead("CANCELLED", {u \in Units : status[u] \in CancellableStates})

RetryCommand ==
    /\ "retry" \in Commands
    /\ \E u \in Units : status[u] \in RetryableStates /\ OpRead("RETRY_PENDING", {u})

\* cancel_schedule counts the unit's transitions before the transaction opens.
OpNext ==
    /\ opPc = "read"
    /\ \E u \in opTodo : opUnit' = u /\ opSeq' = Len(log[u])
    /\ opPc' = "write"
    /\ UNCHANGED <<dbVars, coordVars, poolVars, opTo, opSnap, opRun, opTodo, commands>>

\* The sequence the audit record will carry; retry_unit counts inside the transaction.
OpSequence == IF opTo = "CANCELLED" THEN opSeq ELSE Len(log[opUnit])

OpMayWrite ==
    /\ MayMove(opUnit, opTo)
    /\ opRun.seq = 0 \/ IsFresh(opUnit, opRun.seq, OpSequence)

OpIdle(issued) ==
    /\ opPc' = "idle" /\ opTo' = "CANCELLED" /\ opSnap' = AllPlanned
    /\ opRun' = [seq |-> 0, status |-> "PLANNED"] /\ opTodo' = {} /\ opUnit' = NoUnit
    /\ opSeq' = 0 /\ commands' = issued

\* The status change, with an audit record only when the schedule has a run.
OpWrite ==
    /\ opPc = "write" /\ OpMayWrite
    /\ UpdateStatus(opUnit, opTo)
    /\ IF opRun.seq = 0 THEN UNCHANGED log
       ELSE AddTransition(opUnit, opRun.seq, OpSequence, opSnap[opUnit], opTo)
    /\ opPc' = "read" /\ opTodo' = opTodo \ {opUnit} /\ opUnit' = NoUnit /\ opSeq' = 0
    /\ UNCHANGED <<attempts, runs, coordVars, poolVars, opTo, opSnap, opRun, commands>>

\* The registry refuses: the command ends there, what it wrote before stays.
OpRefused ==
    /\ opPc = "write" /\ ~OpMayWrite
    /\ OpIdle(commands)
    /\ UNCHANGED <<dbVars, coordVars, poolVars>>

\* cancel_schedule closes the latest run it read, if that run is still RUNNING.
OpEnd ==
    /\ opPc = "read" /\ opTodo = {}
    /\ IF /\ opTo = "CANCELLED" /\ opRun.seq # 0 /\ opRun.status = "RUNNING"
          /\ MayCloseRun(opRun.seq, "CANCELLED")
       THEN UpdateRun(opRun.seq, "CANCELLED") ELSE UNCHANGED runs
    /\ OpIdle(commands)
    /\ UNCHANGED <<status, attempts, log, coordVars, poolVars>>

-----------------------------------------------------------------------------
Coordinator ==
    \/ Materialize \/ BeginRun \/ Recover \/ WriteAttempt \/ WriteMove \/ Refused
    \/ Propagate \/ Submit \/ Dispatch \/ WakeAnswered \/ WakeExpired
    \/ Finish \/ ReadClock \/ Expire \/ Expired \/ CancelOpen \/ Close

Pool == ThreadTakes \/ \E job \in active : ThreadAnswers(job)

Operator == CancelCommand \/ RetryCommand \/ OpNext \/ OpWrite \/ OpRefused \/ OpEnd

Next == Coordinator \/ Pool \/ Crash \/ SetCancelEvent \/ Operator

Spec == Init /\ [][Next]_vars
=============================================================================
