--------------------------- MODULE SchedulerProofs ---------------------------
(***************************************************************************)
(* Theorems about the orchestrator, for every set of units, every acyclic  *)
(* dependency relation, every policy and any number of runs: first what it *)
(* does to the units, with the inductive invariant everything rests on;    *)
(* then what it accounts for, the resources of what runs, the attempts a   *)
(* unit is granted, the successes it may repeat, its audit records, and    *)
(* what is left when a run closes.                                         *)
(***************************************************************************)
EXTENDS SchedulerProperties, SequenceTheorems, WellFoundedInduction, FiniteSetTheorems, TLAPS

-----------------------------------------------------------------------------
(* Choosing a unit *)

\* A nonempty set of units, numbered by the naturals, has a unit with the least number.
LEMMA LeastUnit ==
    ASSUME NEW S \in SUBSET Units, S # {}, NEW f \in [Units -> Nat]
    PROVE  \E u \in S : \A w \in S : f[u] <= f[w]
<1> DEFINE T == {f[u] : u \in S}
           R == OpToRel(<, Nat)
<1>1. T \subseteq Nat /\ T # {}
  OBVIOUS
<1>2. IsWellFoundedOn(R, Nat)
  BY NatLessThanWellFounded
<1>3. \E x \in T : \A y \in T : ~(<<y, x>> \in R)
  <2> HIDE DEF T, R
  <2> QED
    BY <1>1, <1>2, WFMin
<1>4. PICK x \in T : \A y \in T : ~(<<y, x>> \in R)
  BY <1>3
<1>5. \A y \in T : ~(y < x)
  BY <1>1, <1>4 DEF OpToRel
<1>6. PICK u \in S : x = f[u]
  OBVIOUS
<1>7. \A w \in S : f[u] <= f[w]
  BY <1>1, <1>5, <1>6
<1> QED
  BY <1>7

\* First and Best of a nonempty set of units are members of it.
LEMMA ChosenUnit ==
    ASSUME NEW S \in SUBSET Units, S # {}
    PROVE  First(S) \in S /\ Best(S) \in S
<1>1. PlanOrder \in [Units -> Nat] /\ Rank \in [Units -> Nat]
  BY PlanAssumption
<1>2. \E u \in S : \A w \in S : PlanOrder[u] <= PlanOrder[w]
  BY <1>1, LeastUnit
<1>3. \E u \in S : \A w \in S : Rank[u] <= Rank[w]
  BY <1>1, LeastUnit
<1> QED
  BY <1>2, <1>3 DEF First, Best
-----------------------------------------------------------------------------
(* Type correctness *)

USE DEF dbVars, coordVars, poolVars, opVars

\* Appending an element of a set to a sequence over it gives a sequence over it.
LEMMA AppendTyped ==
    ASSUME NEW S, NEW s \in Seq(S), NEW e \in S
    PROVE  Append(s, e) \in Seq(S)
  OBVIOUS

\* Updating a sequence in place, or beyond its end, keeps its type.
LEMMA SeqExcept ==
    ASSUME NEW S, NEW s \in Seq(S), NEW n \in Nat, NEW e \in S
    PROVE  [s EXCEPT ![n] = e] \in Seq(S)
<1>1. CASE n \in 1 .. Len(s)
  BY <1>1, ExceptSeq
<1>2. CASE n \notin 1 .. Len(s)
  <2>1. [s EXCEPT ![n] = e] = s
    BY <1>2, LenProperties
  <2> QED
    BY <2>1
<1> QED
  BY <1>1, <1>2

\* The writes of every handler are writes.
LEMMA WritesAreWrites ==
    /\ RecoveryWrites \in Seq(Write) /\ SuccessWrites \in Seq(Write)
    /\ \A to \in UnitState \ {"PLANNED", "SKIPPED"} : <<Move(to)>> \in Seq(Write)
    /\ <<Move("READY"), Move("RUNNING")>> \in Seq(Write)
    /\ \A u \in Units, outcome \in {"FAILED", "TIMED_OUT"}, category \in FailureCategory :
          CloseAttempt(u, outcome, category) \in Seq(Write)
<1>1. \A to \in {"SUCCEEDED", "FAILED", "TIMED_OUT"}, cause \in Cause : Record(to, cause) \in Write
  BY DEF Record, Write
<1>2. \A to \in UnitState \ {"PLANNED", "SKIPPED"} : Move(to) \in Write
  BY DEF Move, Write
<1>3. {"READY", "RUNNING", "SUCCEEDED", "FAILED", "TIMED_OUT", "RETRY_PENDING"}
         \subseteq UnitState \ {"PLANNED", "SKIPPED"}
  BY DEF UnitState
<1>4. "OK" \in Cause /\ "Interrupted" \in Cause /\ FailureCategory \subseteq Cause
  BY DEF Cause, Answer
<1> HIDE DEF UnitState, Cause
<1>5. \A u \in Units, outcome \in {"FAILED", "TIMED_OUT"}, category \in FailureCategory :
         CloseAttempt(u, outcome, category) \in Seq(Write)
  <2> TAKE u \in Units, outcome \in {"FAILED", "TIMED_OUT"}, category \in FailureCategory
  <2> DEFINE first == <<Record(outcome, category), Move(outcome)>>
             again == IF ShouldRetry(u, category, Len(attempts[u]) + 1)
                      THEN <<Move("RETRY_PENDING")>> ELSE <<>>
  <2>1. first \in Seq(Write)
    BY <1>1, <1>2, <1>3, <1>4
  <2>2. again \in Seq(Write)
    BY <1>2, <1>3
  <2> HIDE DEF first, again
  <2>3. first \o again \in Seq(Write)
    BY <2>1, <2>2, ConcatProperties
  <2> QED
    BY <2>3 DEF CloseAttempt, first, again
<1> QED
  BY <1>1, <1>2, <1>3, <1>4, <1>5 DEF RecoveryWrites, SuccessWrites

\* The names the actions use are what the type invariant says they are.
LEMMA NamesTyped ==
    /\ {"PLANNED", "READY", "RUNNING", "SUCCEEDED", "FAILED", "BLOCKED", "CANCELLED",
        "TIMED_OUT", "RETRY_PENDING"} \subseteq UnitState
    /\ {"PLANNED", "RUNNING", "COMPLETED", "FAILED", "CANCELLED"} \subseteq RunState
    /\ Pc = {"down", "opened", "recover", "blockFirst", "submit", "dispatch", "wait",
             "finish", "expire", "block", "cancel", "close"}
    /\ Answer = {"OK"} \cup FailureCategory /\ "TIMEOUT" \in FailureCategory
    /\ FailureCategory \subseteq Cause /\ "OK" \in Cause
    /\ "none" \notin Answer /\ "pending" \notin Answer
  BY DEF UnitState, RunState, Pc, Answer, FailureCategory, Cause

\* The coordinator's memory and its pool are typed after the run is over.
LEMMA DownTyped == GoDown => CoordTypeOK' /\ PoolTypeOK'
<1> SUFFICES ASSUME GoDown PROVE CoordTypeOK' /\ PoolTypeOK'
  OBVIOUS
<1>1. <<>> \in Seq(Write) /\ <<>> \in Seq(Job)
  BY EmptySeq
<1>2. mem' \in [Units -> UnitState] /\ pc' \in Pc
  BY NamesTyped DEF GoDown, AllPlanned
<1>3. futures' \in [Units -> {"none", "pending"} \cup Answer] /\ seq' \in [Units -> Nat]
  BY DEF GoDown
<1> QED
  BY <1>1, <1>2, <1>3 DEF GoDown, CoordTypeOK, PoolTypeOK

\* One transaction of a handler keeps the database and the coordinator typed.
LEMMA WriteTyped ==
    ASSUME TypeOK
    PROVE  WriteAttempt \/ WriteMove => TypeOK'
<1>1. agenda # <<>> =>
        /\ Head(agenda) \in Write /\ Tail(agenda) \in Seq(Write) /\ cur \in Units
  BY HeadTailProperties DEF TypeOK, CoordTypeOK
<1>2. ASSUME WriteAttempt PROVE TypeOK'
  <2>1. cur \in Units /\ Tail(agenda) \in Seq(Write)
    BY <1>1, <1>2 DEF WriteAttempt, Handling
  <2>2. [outcome |-> Head(agenda).to, cause |-> Head(agenda).cause] \in Attempt
    BY <1>1, <1>2 DEF WriteAttempt, Handling, Write, Attempt
  <2>3. attempts' \in [Units -> Seq(Attempt)]
    BY <1>2, <2>1, <2>2 DEF WriteAttempt, AddAttempt, TypeOK, DbTypeOK
  <2> QED
    BY <1>2, <2>1, <2>3 DEF WriteAttempt, TypeOK, DbTypeOK, CoordTypeOK, PoolTypeOK, OpTypeOK
<1>3. ASSUME WriteMove PROVE TypeOK'
  <2> DEFINE to == Head(agenda).to
             row == [run |-> Len(runs), seq |-> seq[cur], from |-> mem[cur], to |-> to]
  <2>1. cur \in Units /\ Tail(agenda) \in Seq(Write)
    BY <1>1, <1>3 DEF WriteMove, Handling
  <2>2. to \in UnitState
    BY <1>1, <1>3 DEF WriteMove, Handling, Write
  <2>3. row \in Transition
    BY <2>1, <2>2 DEF Transition, TypeOK, DbTypeOK, CoordTypeOK
  <2>4. DbTypeOK'
    BY <1>3, <2>1, <2>2, <2>3 DEF WriteMove, AddTransition, UpdateStatus, TypeOK, DbTypeOK
  <2>5. CoordTypeOK'
    <3>1. mem' \in [Units -> UnitState] /\ seq' \in [Units -> Nat]
      BY <1>3, <2>1, <2>2 DEF WriteMove, TypeOK, CoordTypeOK
    <3>2. refs' \subseteq Units
      BY <1>3, <2>1 DEF WriteMove, TypeOK, CoordTypeOK
    <3>3. Memory[cur] \in Nat
      BY <2>1, PolicyAssumption
    <3>4. runningMemory' \in Nat
      BY <1>3, <3>3 DEF WriteMove, TypeOK, CoordTypeOK
    <3>5. runningExclusive' \in BOOLEAN
      <4>1. CASE to = "RUNNING"
        <5>1. runningExclusive' = (runningExclusive \/ cur \in Exclusive)
          BY <1>3, <4>1 DEF WriteMove
        <5> QED
          BY <5>1, Zenon
      <4>2. CASE to # "RUNNING"
        <5>1. runningExclusive' = runningExclusive
          BY <1>3, <4>2 DEF WriteMove
        <5> QED
          BY <5>1 DEF TypeOK, CoordTypeOK
      <4> QED
        BY <4>1, <4>2
    <3> QED
      BY <1>3, <2>1, <3>1, <3>2, <3>4, <3>5 DEF WriteMove, TypeOK, CoordTypeOK
  <2>6. PoolTypeOK'
    <3>1. Len(attempts[cur]) \in Nat
      BY <2>1, LenProperties DEF TypeOK, DbTypeOK
    <3>2. <<cur, Len(attempts[cur])>> \in Job
      BY <2>1, <3>1 DEF Job
    <3>3. queue' \in Seq(Job)
      <4>1. Append(queue, <<cur, Len(attempts[cur])>>) \in Seq(Job)
        BY <3>2, AppendTyped DEF TypeOK, PoolTypeOK
      <4> QED
        BY <1>3, <4>1 DEF WriteMove, TypeOK, PoolTypeOK
    <3>4. futures' \in [Units -> {"none", "pending"} \cup Answer]
      BY <1>3, <2>1 DEF WriteMove, TypeOK, PoolTypeOK
    <3> QED
      BY <1>3, <3>3, <3>4 DEF WriteMove, TypeOK, PoolTypeOK
  <2>7. OpTypeOK'
    BY <1>3 DEF WriteMove, TypeOK, OpTypeOK
  <2> QED
    BY <2>4, <2>5, <2>6, <2>7 DEF TypeOK
<1> QED
  BY <1>2, <1>3

\* A handler that takes up a unit of its choice keeps the coordinator typed.
LEMMA DecisionTyped ==
    ASSUME TypeOK, BatchHeld
    PROVE  Recover \/ Propagate \/ Dispatch \/ CancelOpen \/ Finish \/ Expire => TypeOK'
<1> USE NamesTyped, WritesAreWrites
<1>1. ASSUME Recover PROVE TypeOK'
  <2> DEFINE left == {u \in Units : mem[u] = "RUNNING"}
  <2>1. left # {} => First(left) \in Units
    BY ChosenUnit
  <2> QED
    BY <1>1, <2>1 DEF Recover, TakeUp, TypeOK, DbTypeOK, CoordTypeOK, PoolTypeOK, OpTypeOK
<1>2. ASSUME Propagate PROVE TypeOK'
  <2> DEFINE changing == ToBlock \cup ToUnblock
  <2>1. changing # {} => First(changing) \in Units
    BY ChosenUnit DEF ToBlock, ToUnblock
  <2>2. <<Move("BLOCKED")>> \in Seq(Write) /\ <<Move("READY")>> \in Seq(Write)
    OBVIOUS
  <2> QED
    BY <1>2, <2>1, <2>2 DEF Propagate, TakeUp, TypeOK, DbTypeOK, CoordTypeOK, PoolTypeOK, OpTypeOK
<1>3. ASSUME Dispatch PROVE TypeOK'
  <2>1. Ready # {} => Best(Ready) \in Units
    BY ChosenUnit DEF Ready
  <2>2. <<Move("RUNNING")>> \in Seq(Write)
    OBVIOUS
  <2> QED
    BY <1>3, <2>1, <2>2
       DEF Dispatch, TakeUp, AwaitOrLeave, TypeOK, DbTypeOK, CoordTypeOK, PoolTypeOK, OpTypeOK
<1>4. ASSUME CancelOpen PROVE TypeOK'
  <2> DEFINE open == {u \in Units : mem[u] \in {"PLANNED", "READY", "BLOCKED", "RETRY_PENDING"}}
  <2>1. open # {} => First(open) \in Units
    BY ChosenUnit
  <2>2. <<Move("CANCELLED")>> \in Seq(Write)
    OBVIOUS
  <2> QED
    BY <1>4, <2>1, <2>2 DEF CancelOpen, TakeUp, TypeOK, DbTypeOK, CoordTypeOK, PoolTypeOK, OpTypeOK
<1>5. ASSUME NEW u \in Units, LetGo(u)
      PROVE  /\ futures' \in [Units -> {"none", "pending"} \cup Answer] /\ batch' \subseteq Units
             /\ runningMemory' \in Nat /\ runningExclusive' \in BOOLEAN
  <2>1. Memory[u] \in Nat
    BY PolicyAssumption
  <2>2. runningExclusive' \in BOOLEAN
    <3>1. runningExclusive' = (runningExclusive /\ u \notin Exclusive)
      BY <1>5 DEF LetGo
    <3> QED
      BY <3>1, Zenon
  <2> QED
    BY <1>5, <2>1, <2>2 DEF LetGo, TypeOK, CoordTypeOK, PoolTypeOK
<1>6. ASSUME Finish PROVE TypeOK'
  <2>1. PICK u \in batch :
          /\ LetGo(u)
          /\ TakeUp(u, IF futures[u] = "OK" THEN SuccessWrites
                       ELSE CloseAttempt(u, "FAILED", futures[u]))
    BY <1>6 DEF Finish
  <2>2. u \in Units /\ futures[u] \in Answer
    BY <1>6, <2>1 DEF Finish, BatchHeld, Answered
  <2>3. futures[u] # "OK" => futures[u] \in FailureCategory
    BY <2>2
  <2> QED
    BY <1>5, <1>6, <2>1, <2>2, <2>3 DEF Finish, TakeUp, TypeOK, DbTypeOK, CoordTypeOK, PoolTypeOK, OpTypeOK
<1>7. ASSUME Expire PROVE TypeOK'
  <2>1. PICK u \in batch : LetGo(u) /\ TakeUp(u, CloseAttempt(u, "TIMED_OUT", "TIMEOUT"))
    BY <1>7 DEF Expire
  <2> QED
    BY <1>5, <1>7, <2>1 DEF Expire, TakeUp, TypeOK, DbTypeOK, CoordTypeOK, PoolTypeOK, OpTypeOK
<1> QED
  BY <1>1, <1>2, <1>3, <1>4, <1>6, <1>7

\* So do the steps that only move the coordinator on, open a run or close it.
LEMMA PhaseTyped ==
    ASSUME TypeOK
    PROVE  \/ Materialize \/ BeginRun \/ Submit \/ WakeAnswered \/ WakeExpired \/ ReadClock
           \/ Expired \/ Close \/ Refused \/ Crash \/ SetCancelEvent
           => TypeOK'
<1> USE NamesTyped
<1>1. Materialize => TypeOK'
  BY DEF Materialize, TypeOK, DbTypeOK, CoordTypeOK, PoolTypeOK, OpTypeOK
<1>2. ASSUME BeginRun PROVE TypeOK'
  <2>1. runs' \in Seq(RunState)
    BY <1>2, AppendTyped DEF BeginRun, TypeOK, DbTypeOK
  <2> QED
    BY <1>2, <2>1 DEF BeginRun, TypeOK, DbTypeOK, CoordTypeOK, PoolTypeOK, OpTypeOK
<1>3. Submit => TypeOK'
  BY DEF Submit, AwaitOrLeave, TypeOK, DbTypeOK, CoordTypeOK, PoolTypeOK, OpTypeOK
<1>4. WakeAnswered => TypeOK'
  BY DEF WakeAnswered, Answered, TypeOK, DbTypeOK, CoordTypeOK, PoolTypeOK, OpTypeOK
<1>5. WakeExpired => TypeOK'
  BY DEF WakeExpired, Tracked, TypeOK, DbTypeOK, CoordTypeOK, PoolTypeOK, OpTypeOK
<1>6. ReadClock => TypeOK'
  BY DEF ReadClock, Tracked, TypeOK, DbTypeOK, CoordTypeOK, PoolTypeOK, OpTypeOK
<1>7. Expired => TypeOK'
  BY DEF Expired, TypeOK, DbTypeOK, CoordTypeOK, PoolTypeOK, OpTypeOK
<1>8. ASSUME Close PROVE TypeOK'
  <2>1. Len(runs) \in Nat /\ Verdict \in RunState
    BY LenProperties DEF TypeOK, DbTypeOK, Verdict
  <2>2. runs' \in Seq(RunState)
    BY <1>8, <2>1, SeqExcept DEF Close, UpdateRun, TypeOK, DbTypeOK
  <2> QED
    BY <1>8, <2>2, DownTyped DEF Close, TypeOK, DbTypeOK, OpTypeOK
<1>9. Refused => TypeOK'
  BY DownTyped DEF Refused, TypeOK, DbTypeOK, OpTypeOK
<1>10. Crash => TypeOK'
  BY DownTyped DEF Crash, TypeOK, DbTypeOK, OpTypeOK
<1>11. SetCancelEvent => TypeOK'
  BY DEF SetCancelEvent, TypeOK, DbTypeOK, CoordTypeOK, PoolTypeOK, OpTypeOK
<1> QED
  BY <1>1, <1>2, <1>3, <1>4, <1>5, <1>6, <1>7, <1>8, <1>9, <1>10, <1>11

\* Threads and operators keep the state typed.
LEMMA EnvironmentTyped ==
    ASSUME TypeOK
    PROVE  Pool \/ Operator => TypeOK'
<1> USE NamesTyped
<1>1. ASSUME ThreadTakes PROVE TypeOK'
  <2>1. Head(queue) \in Job /\ Tail(queue) \in Seq(Job)
    BY <1>1, HeadTailProperties DEF ThreadTakes, TypeOK, PoolTypeOK
  <2> QED
    BY <1>1, <2>1 DEF ThreadTakes, TypeOK, DbTypeOK, CoordTypeOK, PoolTypeOK, OpTypeOK
<1>2. ASSUME NEW job \in active, ThreadAnswers(job) PROVE TypeOK'
  <2>1. futures' \in [Units -> {"none", "pending"} \cup Answer]
    BY <1>2, PolicyAssumption DEF ThreadAnswers, TypeOK, PoolTypeOK
  <2> QED
    BY <1>2, <2>1 DEF ThreadAnswers, TypeOK, DbTypeOK, CoordTypeOK, PoolTypeOK, OpTypeOK
<1>3. ASSUME NEW to \in {"CANCELLED", "RETRY_PENDING"}, NEW todo \in SUBSET Units, OpRead(to, todo)
      PROVE  TypeOK'
  <2>1. opRun' \in [seq : Nat, status : RunState]
    <3>1. Len(runs) \in Nat
      BY LenProperties DEF TypeOK, DbTypeOK
    <3>2. runs # <<>> => runs[Len(runs)] \in RunState
      BY EmptySeq, ElementOfSeq DEF TypeOK, DbTypeOK
    <3> QED
      BY <1>3, <3>1, <3>2 DEF OpRead
  <2>2. OpTypeOK'
    BY <1>3, <2>1 DEF OpRead, TypeOK, DbTypeOK, OpTypeOK
  <2> QED
    BY <1>3, <2>2 DEF OpRead, TypeOK, DbTypeOK, CoordTypeOK, PoolTypeOK
<1>4. CancelCommand => TypeOK'
  BY <1>3 DEF CancelCommand
<1>5. RetryCommand => TypeOK'
  BY <1>3 DEF RetryCommand
<1>6. ASSUME OpNext PROVE TypeOK'
  <2>1. \A u \in Units : Len(log[u]) \in Nat
    BY LenProperties DEF TypeOK, DbTypeOK
  <2>2. OpTypeOK'
    BY <1>6, <2>1 DEF OpNext, TypeOK, OpTypeOK
  <2> QED
    BY <1>6, <2>2 DEF OpNext, TypeOK, DbTypeOK, CoordTypeOK, PoolTypeOK
<1>7. ASSUME NEW issued \in Nat, OpIdle(issued) PROVE OpTypeOK'
  BY <1>7 DEF OpIdle, OpTypeOK, AllPlanned
<1>8. ASSUME OpWrite PROVE TypeOK'
  <2> DEFINE row == [run |-> opRun.seq, seq |-> OpSequence, from |-> opSnap[opUnit], to |-> opTo]
  <2>1. opUnit \in Units
    BY <1>8 DEF OpWrite, TypeOK, OpTypeOK
  <2>2. OpSequence \in Nat
    BY <2>1, LenProperties DEF OpSequence, TypeOK, DbTypeOK, OpTypeOK
  <2>3. row \in Transition
    BY <2>1, <2>2 DEF Transition, TypeOK, OpTypeOK
  <2>4. Append(log[opUnit], row) \in Seq(Transition)
    BY <2>1, <2>3, AppendTyped DEF TypeOK, DbTypeOK
  <2>5. DbTypeOK'
    BY <1>8, <2>1, <2>4 DEF OpWrite, AddTransition, UpdateStatus, TypeOK, DbTypeOK, OpTypeOK
  <2>6. OpTypeOK'
    BY <1>8 DEF OpWrite, TypeOK, OpTypeOK
  <2> QED
    BY <1>8, <2>5, <2>6 DEF OpWrite, TypeOK, CoordTypeOK, PoolTypeOK
<1>9. ASSUME OpRefused PROVE TypeOK'
  <2>1. OpTypeOK'
    BY <1>7, <1>9 DEF OpRefused, TypeOK, OpTypeOK
  <2> QED
    BY <1>9, <2>1 DEF OpRefused, TypeOK, DbTypeOK, CoordTypeOK, PoolTypeOK
<1>10. ASSUME OpEnd PROVE TypeOK'
  <2>1. OpTypeOK'
    BY <1>7, <1>10 DEF OpEnd, TypeOK, OpTypeOK
  <2>2. runs' \in Seq(RunState)
    BY <1>10, SeqExcept DEF OpEnd, UpdateRun, TypeOK, DbTypeOK, OpTypeOK
  <2> QED
    BY <1>10, <2>1, <2>2 DEF OpEnd, TypeOK, DbTypeOK, CoordTypeOK, PoolTypeOK
<1> QED
  BY <1>1, <1>2, <1>4, <1>5, <1>6, <1>8, <1>9, <1>10 DEF Pool, Operator

\* TypeOK is preserved.
LEMMA TypeStep == IndInv /\ [Next]_vars => TypeOK'
<1> SUFFICES ASSUME IndInv, [Next]_vars PROVE TypeOK'
  OBVIOUS
<1>1. TypeOK /\ BatchHeld
  BY DEF IndInv
<1>2. CASE Coordinator
  BY <1>1, <1>2, WriteTyped, DecisionTyped, PhaseTyped DEF Coordinator
<1>3. CASE Pool \/ Operator
  BY <1>1, <1>3, EnvironmentTyped
<1>4. CASE Crash \/ SetCancelEvent
  BY <1>1, <1>4, PhaseTyped
<1>5. CASE UNCHANGED vars
  BY <1>1, <1>5 DEF vars, TypeOK, DbTypeOK, CoordTypeOK, PoolTypeOK, OpTypeOK
<1> QED
  BY <1>2, <1>3, <1>4, <1>5 DEF Next

-----------------------------------------------------------------------------
(* What the tables alone give *)

\* The rows of the transition table the proofs need.
LEMMA TableFacts ==
    /\ \A from, to \in UnitState : <<from, to>> \in UNIT_TRANSITIONS =>
          /\ from \notin {"SUCCEEDED", "SKIPPED", "CANCELLED"}
          /\ to \in ArmedStates => from \in ArmedStates \/ to = "READY"
          /\ to = "BLOCKED" => from \in {"PLANNED", "READY"}
          /\ to = "READY" => from \in {"PLANNED", "BLOCKED", "RETRY_PENDING"}
          /\ to = "RUNNING" => from = "READY"
          /\ to \in {"SUCCEEDED", "FAILED", "TIMED_OUT"} => from = "RUNNING"
          /\ to = "RETRY_PENDING" => from \in RetryableStates
          /\ to = "CANCELLED" => from \in CancellableStates \cup RetryableStates
    /\ "SUCCEEDED" \notin BLOCKING_STATES
  BY DEF UNIT_TRANSITIONS, UnitState, ArmedStates, RetryableStates, CancellableStates, BLOCKING_STATES

\* Steps that change neither the statuses nor the coordinator's view of them.
Looks ==
    \/ BeginRun \/ Recover \/ WriteAttempt \/ Propagate \/ Submit \/ Dispatch
    \/ WakeAnswered \/ WakeExpired \/ Finish \/ ReadClock \/ Expire \/ Expired \/ CancelOpen
    \/ SetCancelEvent \/ Pool
    \/ CancelCommand \/ RetryCommand \/ OpNext \/ OpRefused \/ OpEnd

\* Steps after which no run is in progress.
Falls == Close \/ Refused \/ Crash

\* Every step looks, ends the run, or is one of the three that write a status or read them.
LEMMA NextCases ==
    [Next]_vars => Looks \/ Falls \/ Materialize \/ WriteMove \/ OpWrite \/ UNCHANGED vars
  BY DEF Next, Coordinator, Operator, Looks, Falls

\* Looking changes no status, no view of one, and starts no run.
LEMMA LooksFrame ==
    Looks => /\ UNCHANGED <<status, mem>>
             /\ pc = "down" => pc' = "down"
<1>1. Pool => UNCHANGED <<status, mem, pc>>
  BY DEF Pool, ThreadTakes, ThreadAnswers
<1>2. CancelCommand \/ RetryCommand \/ OpNext \/ OpRefused \/ OpEnd => UNCHANGED <<status, mem, pc>>
  BY DEF CancelCommand, RetryCommand, OpRead, OpNext, OpRefused, OpEnd
<1>3. WriteAttempt \/ SetCancelEvent => UNCHANGED <<status, mem, pc>>
  BY DEF WriteAttempt, SetCancelEvent
<1>4. BeginRun \/ Recover \/ Propagate \/ Submit \/ Dispatch \/ CancelOpen =>
        UNCHANGED <<status, mem>> /\ pc # "down"
  BY DEF BeginRun, Recover, Propagate, Submit, Dispatch, CancelOpen
<1>5. WakeAnswered \/ WakeExpired \/ Finish \/ ReadClock \/ Expire \/ Expired =>
        UNCHANGED <<status, mem>> /\ pc # "down"
  BY DEF WakeAnswered, WakeExpired, Finish, ReadClock, Expire, Expired
<1> QED
  BY <1>1, <1>2, <1>3, <1>4, <1>5 DEF Looks

\* The end of a run leaves the units and their attempts as they were.
LEMMA FallsFrame == Falls => GoDown /\ UNCHANGED <<status, attempts>>
  BY DEF Falls, Close, Refused, Crash

\* What WriteMove does to the unit it writes and to the others.
LEMMA WriteMoveFrame ==
    ASSUME IndInv, WriteMove
    PROVE  /\ cur \in Units /\ pc # "down" /\ pc' = pc
           /\ <<status[cur], Head(agenda).to>> \in UNIT_TRANSITIONS
           /\ Head(agenda).to \in UnitState \ {"PLANNED", "SKIPPED"}
           /\ agenda[1] = Head(agenda) /\ agenda[1].kind = "move" /\ 1 \in DOMAIN agenda
           /\ status' = [status EXCEPT ![cur] = agenda[1].to]
           /\ mem' = [mem EXCEPT ![cur] = agenda[1].to]
<1>1. agenda \in Seq(Write) /\ agenda # <<>>
  BY DEF WriteMove, Handling, IndInv, TypeOK, CoordTypeOK
<1>2. Head(agenda) = agenda[1] /\ 1 \in DOMAIN agenda /\ Head(agenda) \in Write
  BY <1>1, HeadTailProperties, EmptySeq, LenProperties
<1>3. Head(agenda).to \in UnitState \ {"PLANNED", "SKIPPED"}
  BY <1>2 DEF WriteMove, Write
<1> QED
  BY <1>1, <1>2, <1>3
     DEF WriteMove, WriteRefused, MayMove, UpdateStatus, Handling, IndInv, TypeOK, CoordTypeOK,
         AgendaJustified

\* A unit the coordinator takes for SUCCEEDED is; it stays so.
LEMMA SucceededKnown ==
    ASSUME IndInv, pc # "down", NEW u \in Units, mem[u] = "SUCCEEDED"
    PROVE  status[u] = "SUCCEEDED"
  BY DEF IndInv, ViewAgrees, RetryableStates

\* No step takes a unit out of SUCCEEDED (the table has no way out of it).
LEMMA SucceededStays ==
    ASSUME IndInv, [Next]_vars, NEW u \in Units, status[u] = "SUCCEEDED"
    PROVE  status'[u] = "SUCCEEDED"
<1>1. status \in [Units -> UnitState]
  BY DEF IndInv, TypeOK, DbTypeOK
<1>2. CASE WriteMove
  <2>1. status[cur] # "SUCCEEDED"
    BY <1>1, <1>2, WriteMoveFrame, TableFacts
  <2> QED
    BY <1>1, <1>2, <2>1, WriteMoveFrame
<1>3. CASE OpWrite
  <2>1. opUnit \in Units /\ opTo \in UnitState
    BY <1>3, NamesTyped DEF OpWrite, IndInv, TypeOK, OpTypeOK
  <2>2. status[opUnit] # "SUCCEEDED"
    BY <1>1, <1>3, <2>1, TableFacts DEF OpWrite, OpMayWrite, MayMove
  <2> QED
    BY <1>1, <1>3, <2>2 DEF OpWrite, UpdateStatus
<1> QED
  BY <1>2, <1>3, NextCases, LooksFrame, FallsFrame DEF Materialize, vars

-----------------------------------------------------------------------------
(* The parts of the inductive invariant, one step lemma each *)

\* ViewAgrees is preserved: only an operator's command comes between the two.
LEMMA ViewStep == IndInv /\ [Next]_vars => ViewAgrees'
<1> SUFFICES ASSUME IndInv, [Next]_vars, pc' # "down", NEW u \in Units
             PROVE  \/ status'[u] = mem'[u]
                    \/ status'[u] = "CANCELLED" /\ mem'[u] # "SUCCEEDED"
                    \/ status'[u] = "RETRY_PENDING" /\ mem'[u] \in RetryableStates
  BY DEF ViewAgrees
<1>1. /\ status \in [Units -> UnitState] /\ mem \in [Units -> UnitState]
      /\ ViewAgrees
  BY DEF IndInv, TypeOK, DbTypeOK, CoordTypeOK
<1>2. CASE Looks
  BY <1>1, <1>2, LooksFrame DEF ViewAgrees
<1>3. CASE Falls
  BY <1>3, FallsFrame DEF GoDown
<1>4. CASE Materialize
  BY <1>4 DEF Materialize
<1>5. CASE WriteMove
  BY <1>1, <1>5, WriteMoveFrame DEF ViewAgrees
<1>6. CASE OpWrite
  <2>1. /\ opUnit \in Units /\ opTo \in {"CANCELLED", "RETRY_PENDING"} /\ opTo \in UnitState
        /\ <<status[opUnit], opTo>> \in UNIT_TRANSITIONS
        /\ status' = [status EXCEPT ![opUnit] = opTo] /\ UNCHANGED <<mem, pc>>
    BY <1>6, NamesTyped DEF OpWrite, OpMayWrite, MayMove, UpdateStatus, IndInv, TypeOK, OpTypeOK
  <2>2. CASE u = opUnit
    <3>1. status[u] # "SUCCEEDED" /\ status[u] # "CANCELLED"
          /\ (opTo = "RETRY_PENDING" => status[u] \in RetryableStates)
      BY <1>1, <2>1, <2>2, TableFacts
    <3>2. mem[u] # "SUCCEEDED"
      BY <3>1, <2>1, SucceededKnown
    <3> QED
      BY <1>1, <2>1, <2>2, <3>1, <3>2 DEF ViewAgrees, RetryableStates
  <2>3. CASE u # opUnit
    BY <1>1, <2>1, <2>3 DEF ViewAgrees
  <2> QED
    BY <2>2, <2>3
<1>7. CASE UNCHANGED vars
  BY <1>1, <1>7 DEF ViewAgrees, vars
<1> QED
  BY <1>2, <1>3, <1>4, <1>5, <1>6, <1>7, NextCases

\* DepsSucceeded is preserved: a unit is armed on DepsDone, and SUCCEEDED stays.
LEMMA DepsStep == IndInv /\ [Next]_vars => DepsSucceeded'
<1> SUFFICES ASSUME IndInv, [Next]_vars, NEW u \in Units, status'[u] \in ArmedStates, NEW d \in Deps[u]
             PROVE  status'[d] = "SUCCEEDED"
  BY DEF DepsSucceeded
<1>1. d \in Units /\ status \in [Units -> UnitState] /\ mem \in [Units -> UnitState]
  BY PlanAssumption DEF IndInv, TypeOK, DbTypeOK, CoordTypeOK
<1>2. CASE status[u] \in ArmedStates
  BY <1>1, <1>2, SucceededStays DEF IndInv, DepsSucceeded
<1>3. CASE WriteMove /\ status[u] \notin ArmedStates
  <2>1. u = cur /\ agenda[1].to = "READY"
    BY <1>1, <1>3, WriteMoveFrame, TableFacts, NamesTyped
  <2>2. mem[d] = "SUCCEEDED"
    BY <1>3, <2>1, WriteMoveFrame DEF IndInv, AgendaJustified, DepsDone, WriteMove
  <2>3. status[d] = "SUCCEEDED"
    BY <1>1, <1>3, <2>2, WriteMoveFrame, SucceededKnown
  <2> QED
    BY <1>1, <2>3, SucceededStays
<1>4. CASE OpWrite /\ status[u] \notin ArmedStates
  <2>1. opUnit \in Units /\ opTo \in {"CANCELLED", "RETRY_PENDING"} /\ opTo \in UnitState
    BY <1>4, NamesTyped DEF OpWrite, IndInv, TypeOK, OpTypeOK
  <2> QED
    BY <1>1, <1>4, <2>1, TableFacts
       DEF OpWrite, OpMayWrite, MayMove, UpdateStatus, ArmedStates, RetryableStates
<1> QED
  BY <1>2, <1>3, <1>4, NextCases, LooksFrame, FallsFrame DEF Materialize, vars

\* What a handler that closes an attempt without success will write.
LEMMA CloseAttemptWrites ==
    ASSUME NEW u \in Units, NEW outcome \in {"FAILED", "TIMED_OUT"}, NEW category \in FailureCategory,
           NEW i \in DOMAIN CloseAttempt(u, outcome, category)
    PROVE  LET w == CloseAttempt(u, outcome, category)[i] IN
           \/ i = 1 /\ w.kind = "attempt"
           \/ w.kind = "move" /\ w.to \in {"FAILED", "TIMED_OUT", "RETRY_PENDING"}
<1> DEFINE first == <<Record(outcome, category), Move(outcome)>>
           again == <<Move("RETRY_PENDING")>>
<1>1. CloseAttempt(u, outcome, category) = first \o again
      \/ CloseAttempt(u, outcome, category) = first \o <<>>
  BY DEF CloseAttempt
<1>2. first \in Seq(Write) /\ again \in Seq(Write) /\ <<>> \in Seq(Write)
  <2>1. Record(outcome, category) \in Write /\ Move(outcome) \in Write /\ Move("RETRY_PENDING") \in Write
    BY NamesTyped DEF Record, Move, Write, UnitState
  <2> QED
    BY <2>1
<1>3. /\ Len(first) = 2 /\ first[1].kind = "attempt"
      /\ first[2].kind = "move" /\ first[2].to = outcome
      /\ Len(again) = 1 /\ again[1].kind = "move" /\ again[1].to = "RETRY_PENDING"
  BY DEF Record, Move
<1> HIDE DEF first, again
<1>4. CASE CloseAttempt(u, outcome, category) = first \o again
  <2>1. first \o again \in Seq(Write) /\ Len(first \o again) = 3
    BY <1>2, <1>3, ConcatProperties
  <2>2. DOMAIN (first \o again) = 1 .. 3
    BY <2>1, LenProperties
  <2>3. \A j \in 1 .. 3 : (first \o again)[j] = IF j <= 2 THEN first[j] ELSE again[j - 2]
    BY <1>2, <1>3, <2>1, ConcatProperties
  <2>4. CASE i <= 2
    BY <1>3, <1>4, <2>2, <2>3, <2>4
  <2>5. CASE i = 3
    BY <1>3, <1>4, <2>2, <2>3, <2>5
  <2> QED
    BY <1>4, <2>2, <2>4, <2>5
<1>5. CASE CloseAttempt(u, outcome, category) = first \o <<>>
  <2>1. first \o <<>> = first /\ DOMAIN first = 1 .. 2
    BY <1>2, <1>3, ConcatEmptySeq, LenProperties
  <2> QED
    BY <1>3, <1>5, <2>1
<1> QED
  BY <1>1, <1>4, <1>5

\* Taking up a unit whose writes the coordinator's memory justifies.
JustifiedWrites(u, writes) ==
    \A i \in DOMAIN writes :
        /\ writes[i].kind = "attempt" => i = 1 /\ mem[u] = "RUNNING"
        /\ writes[i].kind = "move" =>
              /\ writes[i].to = "BLOCKED" => Stuck(u)
              /\ writes[i].to \in {"READY", "RUNNING"} => DepsDone(u)
              /\ writes[i].to = "RUNNING" => i = Len(writes) /\ pc = "dispatch"
              /\ writes[i].to = "SUCCEEDED" =>
                    \/ HasEvidence(u)
                    \/ i = 2 /\ writes[1].kind = "attempt" /\ writes[1].to = "SUCCEEDED"

\* Taking up a unit with justified writes establishes AgendaJustified.
LEMMA TakeUpJustified ==
    ASSUME NEW u \in Units, NEW writes, TakeUp(u, writes), JustifiedWrites(u, writes),
           UNCHANGED <<pc, mem, attempts>>,
           pc \notin {"down", "opened", "submit", "wait", "close"}
    PROVE  AgendaJustified'
  BY DEF TakeUp, JustifiedWrites, AgendaJustified, Stuck, DepsDone, HasEvidence, Handling

\* The unit whose future the coordinator lets go of is RUNNING.
LEMMA BatchRunning ==
    ASSUME IndInv, NEW u \in batch, pc \in {"finish", "expire"}
    PROVE  u \in Units /\ mem[u] = "RUNNING" /\ futures[u] # "none" /\ (Handling => cur # u)
           /\ (pc = "finish" => futures[u] \in Answer)
  BY NamesTyped DEF IndInv, BatchHeld, TrackedRunning, Tracked, Answered

\* The writes every handler decides on are justified when it takes up its unit.
LEMMA DecisionJustified ==
    ASSUME IndInv
    PROVE  Recover \/ Propagate \/ Dispatch \/ CancelOpen \/ Finish \/ Expire => AgendaJustified'
<1>1. ASSUME Recover PROVE AgendaJustified'
  <2> DEFINE left == {u \in Units : mem[u] = "RUNNING"}
  <2>1. CASE left # {}
    <3>1. First(left) \in left
      BY <2>1, ChosenUnit
    <3>2. JustifiedWrites(First(left), RecoveryWrites)
      BY <3>1 DEF JustifiedWrites, RecoveryWrites, Record, Move
    <3> QED
      BY <1>1, <2>1, <3>1, <3>2, TakeUpJustified DEF Recover
  <2>2. CASE left = {}
    BY <1>1, <2>2 DEF Recover, Handling, AgendaJustified
  <2> QED
    BY <2>1, <2>2
<1>2. ASSUME Propagate PROVE AgendaJustified'
  <2> DEFINE changing == ToBlock \cup ToUnblock
             u == First(changing)
             to == IF u \in ToBlock THEN "BLOCKED" ELSE "READY"
  <2>1. CASE changing # {}
    <3>1. u \in changing /\ u \in Units
      BY <2>1, ChosenUnit DEF ToBlock, ToUnblock
    <3>2. JustifiedWrites(u, <<Move(to)>>)
      BY <3>1 DEF JustifiedWrites, Move, ToBlock, ToUnblock
    <3>3. TakeUp(u, <<Move(to)>>) /\ UNCHANGED <<pc, mem, attempts>> /\ pc \in {"blockFirst", "block"}
      BY <1>2, <2>1 DEF Propagate
    <3> HIDE DEF u, to
    <3> QED
      BY <3>1, <3>2, <3>3, TakeUpJustified
  <2>2. CASE changing = {}
    BY <1>2, <2>2 DEF Propagate, Handling, AgendaJustified
  <2> QED
    BY <2>1, <2>2
<1>3. ASSUME Dispatch PROVE AgendaJustified'
  <2> DEFINE u == Best(Ready)
             writes == IF mem[u] = "READY" THEN <<Move("RUNNING")>> ELSE <<Move("READY"), Move("RUNNING")>>
  <2>1. CASE Ready # {} /\ Cardinality(Tracked) < MaxWorkers
    <3>1. u \in Ready /\ u \in Units /\ DepsDone(u)
      BY <2>1, ChosenUnit DEF Ready, Candidate
    <3>2. JustifiedWrites(u, writes)
      BY <1>3, <3>1 DEF JustifiedWrites, Move, Dispatch
    <3>3. TakeUp(u, writes) /\ UNCHANGED <<pc, mem, attempts>> /\ pc = "dispatch"
      BY <1>3, <2>1 DEF Dispatch
    <3> HIDE DEF u, writes
    <3> QED
      BY <3>1, <3>2, <3>3, TakeUpJustified
  <2>2. CASE ~(Ready # {} /\ Cardinality(Tracked) < MaxWorkers)
    BY <1>3, <2>2 DEF Dispatch, Handling, AgendaJustified
  <2> QED
    BY <2>1, <2>2
<1>4. ASSUME CancelOpen PROVE AgendaJustified'
  <2> DEFINE open == {u \in Units : mem[u] \in {"PLANNED", "READY", "BLOCKED", "RETRY_PENDING"}}
  <2>1. CASE open # {}
    <3>1. First(open) \in open
      BY <2>1, ChosenUnit
    <3>2. JustifiedWrites(First(open), <<Move("CANCELLED")>>)
      BY DEF JustifiedWrites, Move
    <3> QED
      BY <1>4, <2>1, <3>1, <3>2, TakeUpJustified DEF CancelOpen
  <2>2. CASE open = {}
    BY <1>4, <2>2 DEF CancelOpen, Handling, AgendaJustified
  <2> QED
    BY <2>1, <2>2
<1>5. ASSUME NEW u \in Units, NEW outcome \in {"FAILED", "TIMED_OUT"}, NEW category \in FailureCategory,
             mem[u] = "RUNNING"
      PROVE  JustifiedWrites(u, CloseAttempt(u, outcome, category))
  BY <1>5, CloseAttemptWrites DEF JustifiedWrites
<1>6. ASSUME Finish PROVE AgendaJustified'
  <2>1. PICK u \in batch : TakeUp(u, IF futures[u] = "OK" THEN SuccessWrites
                                     ELSE CloseAttempt(u, "FAILED", futures[u]))
    BY <1>6 DEF Finish
  <2>2. pc = "finish" /\ UNCHANGED <<pc, mem, attempts>>
    BY <1>6 DEF Finish
  <2>3. u \in Units /\ mem[u] = "RUNNING" /\ futures[u] \in Answer
    BY <2>2, BatchRunning
  <2>4. CASE futures[u] = "OK"
    <3>1. JustifiedWrites(u, SuccessWrites)
      BY <2>3 DEF JustifiedWrites, SuccessWrites, Record, Move
    <3> QED
      BY <2>1, <2>2, <2>3, <2>4, <3>1, TakeUpJustified
  <2>5. CASE futures[u] # "OK"
    <3>1. futures[u] \in FailureCategory
      BY <2>3, <2>5, NamesTyped
    <3> QED
      BY <1>5, <2>1, <2>2, <2>3, <2>5, <3>1, TakeUpJustified
  <2> QED
    BY <2>4, <2>5
<1>7. ASSUME Expire PROVE AgendaJustified'
  <2>1. PICK u \in batch : TakeUp(u, CloseAttempt(u, "TIMED_OUT", "TIMEOUT"))
    BY <1>7 DEF Expire
  <2>2. pc = "expire" /\ UNCHANGED <<pc, mem, attempts>>
    BY <1>7 DEF Expire
  <2>3. u \in Units /\ mem[u] = "RUNNING"
    BY <2>2, BatchRunning
  <2> QED
    BY <1>5, <2>1, <2>2, <2>3, NamesTyped, TakeUpJustified
<1> QED
  BY <1>1, <1>2, <1>3, <1>4, <1>6, <1>7
\* What is left of a handler's writes after the first one.
LEMMA TailShift ==
    ASSUME TypeOK, Handling
    PROVE  /\ Len(Tail(agenda)) = Len(agenda) - 1 /\ Len(agenda) \in Nat
           /\ DOMAIN agenda = 1 .. Len(agenda) /\ agenda[1] = Head(agenda) /\ 1 \in DOMAIN agenda
           /\ \A i \in DOMAIN Tail(agenda) :
                 i \in Nat /\ i >= 1 /\ i + 1 \in DOMAIN agenda /\ Tail(agenda)[i] = agenda[i + 1]
<1>1. agenda \in Seq(Write) /\ agenda # <<>>
  BY DEF Handling, TypeOK, CoordTypeOK
<1>2. Tail(agenda) \in Seq(Write) /\ Len(Tail(agenda)) = Len(agenda) - 1
      /\ \A i \in 1 .. Len(Tail(agenda)) : Tail(agenda)[i] = agenda[i + 1]
  BY <1>1, HeadTailProperties
<1>3. Len(agenda) \in Nat /\ DOMAIN agenda = 1 .. Len(agenda)
      /\ DOMAIN Tail(agenda) = 1 .. Len(Tail(agenda)) /\ Len(agenda) > 0
  BY <1>1, <1>2, LenProperties, EmptySeq
<1>4. agenda[1] = Head(agenda)
  BY <1>1, HeadTailProperties
<1> QED
  BY <1>2, <1>3, <1>4

\* Attempts are only ever added; a successful one is evidence from then on.
LEMMA EvidenceGrows ==
    ASSUME TypeOK, WriteAttempt
    PROVE  /\ \A u \in Units : HasEvidence(u) => HasEvidence(u)'
           /\ Head(agenda).to = "SUCCEEDED" => HasEvidence(cur)'
<1> DEFINE row == [outcome |-> Head(agenda).to, cause |-> Head(agenda).cause]
<1>1. cur \in Units /\ attempts \in [Units -> Seq(Attempt)]
  BY DEF WriteAttempt, TypeOK, DbTypeOK, CoordTypeOK, Handling
<1>2. attempts' = [attempts EXCEPT ![cur] = Append(@, row)]
  BY DEF WriteAttempt, AddAttempt
<1>3. row \in Attempt
  BY TailShift, <1>1 DEF WriteAttempt, Handling, TypeOK, CoordTypeOK, Write, Attempt
<1> HIDE DEF row
<1>4. ASSUME NEW s \in Seq(Attempt)
      PROVE  /\ DOMAIN s \subseteq DOMAIN Append(s, row)
             /\ \A i \in DOMAIN s : Append(s, row)[i] = s[i]
             /\ Len(s) + 1 \in DOMAIN Append(s, row) /\ Append(s, row)[Len(s) + 1] = row
  BY <1>3, AppendProperties, LenProperties
<1>5. \A u \in Units : HasEvidence(u) => HasEvidence(u)'
  BY <1>1, <1>2, <1>4 DEF HasEvidence
<1>6. row.outcome = "SUCCEEDED" => HasEvidence(cur)'
  <2>1. cur' = cur
    BY DEF WriteAttempt
  <2>2. attempts'[cur] = Append(attempts[cur], row) /\ attempts[cur] \in Seq(Attempt)
    BY <1>1, <1>2
  <2>3. Len(attempts[cur]) + 1 \in DOMAIN attempts'[cur] /\ attempts'[cur][Len(attempts[cur]) + 1] = row
    BY <1>4, <2>2
  <2> QED
    BY <2>1, <2>3 DEF HasEvidence
<1> QED
  BY <1>5, <1>6 DEF row

\* AgendaJustified is preserved.
LEMMA AgendaStep == IndInv /\ [Next]_vars => AgendaJustified'
<1> SUFFICES ASSUME IndInv, [Next]_vars PROVE AgendaJustified'
  OBVIOUS
<1>1. TypeOK /\ AgendaJustified /\ mem \in [Units -> UnitState]
  BY DEF IndInv, TypeOK, CoordTypeOK
<1>2. CASE Recover \/ Propagate \/ Dispatch \/ CancelOpen \/ Finish \/ Expire
  BY <1>2, DecisionJustified
<1>3. CASE WriteAttempt
  <2>1. Handling /\ cur \in Units /\ agenda' = Tail(agenda) /\ UNCHANGED <<pc, mem, cur>>
        /\ agenda[1].kind = "attempt"
    BY <1>1, <1>3, TailShift DEF WriteAttempt, Handling, TypeOK, CoordTypeOK
  <2>2. ASSUME NEW i \in DOMAIN agenda', agenda'[i].kind = "move" , agenda'[i].to = "SUCCEEDED"
        PROVE  HasEvidence(cur)'
    <3>1. i + 1 \in DOMAIN agenda /\ agenda'[i] = agenda[i + 1]
      BY <1>1, <2>1, TailShift
    <3>2. HasEvidence(cur) \/ agenda[1].to = "SUCCEEDED"
      BY <1>1, <2>1, <2>2, <3>1 DEF AgendaJustified
    <3> QED
      BY <1>1, <1>3, <2>1, <3>2, EvidenceGrows, TailShift
  <2>3. (Stuck(cur) => Stuck(cur)') /\ (DepsDone(cur) => DepsDone(cur)')
    BY <2>1 DEF Stuck, DepsDone
  <2>4. ASSUME NEW i \in DOMAIN agenda'
        PROVE  /\ agenda'[i].kind # "attempt"
               /\ agenda'[i].kind = "move" =>
                     /\ agenda'[i].to = "BLOCKED" => Stuck(cur)'
                     /\ agenda'[i].to \in {"READY", "RUNNING"} => DepsDone(cur)'
                     /\ agenda'[i].to = "RUNNING" => i = Len(agenda') /\ pc = "dispatch"
    <3>1. i \in Nat /\ i >= 1 /\ i + 1 \in DOMAIN agenda /\ agenda'[i] = agenda[i + 1]
          /\ Len(agenda') = Len(agenda) - 1 /\ Len(agenda) \in Nat
      BY <1>1, <2>1, TailShift
    <3>2. agenda[i + 1].kind # "attempt"
      BY <1>1, <2>1, <3>1 DEF AgendaJustified
    <3> QED
      BY <1>1, <2>1, <2>3, <3>1, <3>2 DEF AgendaJustified
  <2> QED
    BY <1>1, <2>1, <2>2, <2>4 DEF AgendaJustified
<1>4. CASE WriteMove
  <2>1. Handling /\ cur \in Units /\ agenda' = Tail(agenda) /\ UNCHANGED <<pc, attempts, cur>>
        /\ agenda[1].kind = "move" /\ mem' = [mem EXCEPT ![cur] = agenda[1].to]
    BY <1>4, WriteMoveFrame DEF WriteMove
  <2>2. \A d \in Deps[cur] : d \in Units /\ d # cur
    BY <2>1, PlanAssumption
  <2>3. (Stuck(cur) => Stuck(cur)') /\ (DepsDone(cur) => DepsDone(cur)')
        /\ (HasEvidence(cur) => HasEvidence(cur)')
    BY <1>1, <2>1, <2>2 DEF Stuck, DepsDone, HasEvidence
  <2>4. ASSUME NEW i \in DOMAIN agenda'
        PROVE  /\ agenda'[i].kind # "attempt"
               /\ agenda'[i].kind = "move" =>
                     /\ agenda'[i].to = "BLOCKED" => Stuck(cur)'
                     /\ agenda'[i].to \in {"READY", "RUNNING"} => DepsDone(cur)'
                     /\ agenda'[i].to = "RUNNING" => i = Len(agenda') /\ pc = "dispatch"
                     /\ agenda'[i].to = "SUCCEEDED" => HasEvidence(cur)'
    <3>1. i \in Nat /\ i >= 1 /\ i + 1 \in DOMAIN agenda /\ agenda'[i] = agenda[i + 1]
          /\ Len(agenda') = Len(agenda) - 1 /\ Len(agenda) \in Nat
      BY <1>1, <2>1, TailShift
    <3>2. agenda[i + 1].kind # "attempt"
      BY <1>1, <2>1, <3>1 DEF AgendaJustified
    <3> QED
      BY <1>1, <2>1, <2>3, <3>1, <3>2 DEF AgendaJustified
  <2> QED
    BY <1>1, <2>1, <2>4 DEF AgendaJustified
<1>5. CASE Falls
  BY <1>5, FallsFrame DEF GoDown, AgendaJustified, Handling
<1>6. CASE Materialize \/ BeginRun \/ Submit \/ WakeAnswered \/ WakeExpired \/ ReadClock \/ Expired
  BY <1>1, <1>6
     DEF Materialize, BeginRun, Submit, WakeAnswered, WakeExpired, ReadClock, Expired,
         AgendaJustified, Handling
<1>7. CASE SetCancelEvent \/ Pool \/ Operator \/ UNCHANGED vars
  <2>1. UNCHANGED <<agenda, pc, mem, cur, attempts>>
    BY <1>7 DEF SetCancelEvent, Pool, ThreadTakes, ThreadAnswers, Operator, CancelCommand, RetryCommand,
                OpRead, OpNext, OpWrite, OpRefused, OpEnd, vars
  <2> QED
    BY <1>1, <2>1 DEF AgendaJustified, Handling, Stuck, DepsDone, HasEvidence
<1> QED
  BY <1>2, <1>3, <1>4, <1>5, <1>6, <1>7 DEF Next, Coordinator, Falls

\* What WriteMove does to the futures: a unit is handed to the pool by the last
\* write of its dispatch, and by no other.
LEMMA HandOver ==
    ASSUME IndInv, WriteMove
    PROVE  \/ /\ agenda[1].to = "RUNNING" /\ pc = "dispatch" /\ ~Handling' /\ DepsDone(cur)
              /\ futures' = [futures EXCEPT ![cur] = "pending"]
           \/ agenda[1].to # "RUNNING" /\ UNCHANGED futures
<1>1. CASE agenda[1].to = "RUNNING"
  <2>1. 1 = Len(agenda) /\ pc = "dispatch" /\ DepsDone(cur)
    BY <1>1, WriteMoveFrame DEF IndInv, AgendaJustified, WriteMove
  <2>2. agenda' = Tail(agenda) /\ Tail(agenda) \in Seq(Write) /\ Len(Tail(agenda)) = 0
    <3>1. agenda \in Seq(Write) /\ agenda # <<>>
      BY DEF IndInv, TypeOK, CoordTypeOK, WriteMove, Handling
    <3> QED
      BY <2>1, <3>1, HeadTailProperties DEF WriteMove
  <2>3. ~Handling'
    BY <2>2, EmptySeq DEF Handling
  <2> QED
    BY <1>1, <2>1, <2>3, WriteMoveFrame DEF WriteMove
<1>2. CASE agenda[1].to # "RUNNING"
  BY <1>2, WriteMoveFrame DEF WriteMove
<1> QED
  BY <1>1, <1>2

\* An answer arrives on a future that was pending, and keeps it in the dictionary.
LEMMA AnswerFrame ==
    ASSUME TypeOK, NEW job \in active, ThreadAnswers(job)
    PROVE  \A u \in Units :
              /\ futures'[u] # "none" <=> futures[u] # "none"
              /\ futures[u] \in Answer => futures'[u] \in Answer
<1>1. PICK answer \in Answers :
        futures' = IF IsTracked(job) THEN [futures EXCEPT ![job[1]] = answer] ELSE futures
  BY DEF ThreadAnswers
<1>2. answer \in Answer /\ answer # "none"
  BY NamesTyped, PolicyAssumption
<1>3. job \in Job /\ job[1] \in Units /\ futures \in [Units -> {"none", "pending"} \cup Answer]
  BY DEF TypeOK, PoolTypeOK, Job
<1> QED
  BY <1>1, <1>2, <1>3 DEF IsTracked

\* Handlers that take up a unit, letting go of its future first if it had one.
LEMMA TakeUpTracked ==
    ASSUME IndInv, Recover \/ Propagate \/ Dispatch \/ CancelOpen \/ Finish \/ Expire
    PROVE  TrackedRunning'
<1>1. TrackedRunning /\ UNCHANGED mem /\ pc # "down" /\ pc # "opened"
  BY DEF IndInv, Recover, Propagate, Dispatch, CancelOpen, Finish, Expire
<1>2. CASE Recover
  BY <1>1, <1>2 DEF Recover, TrackedRunning, Tracked
<1>3. CASE Propagate
  <2> DEFINE changing == ToBlock \cup ToUnblock
  <2>1. changing # {} => First(changing) \in Units /\ mem[First(changing)] # "RUNNING"
    BY ChosenUnit DEF ToBlock, ToUnblock
  <2> QED
    BY <1>1, <1>3, <2>1 DEF Propagate, TakeUp, TrackedRunning, Tracked, Handling
<1>4. CASE Dispatch
  <2>1. Ready # {} => Best(Ready) \in Units /\ mem[Best(Ready)] # "RUNNING"
    BY ChosenUnit DEF Ready, Candidate
  <2> QED
    BY <1>1, <1>4, <2>1 DEF Dispatch, TakeUp, TrackedRunning, Tracked, Handling, AwaitOrLeave
<1>5. CASE CancelOpen
  <2> DEFINE open == {u \in Units : mem[u] \in {"PLANNED", "READY", "BLOCKED", "RETRY_PENDING"}}
  <2>1. open # {} => First(open) \in Units /\ mem[First(open)] # "RUNNING"
    BY ChosenUnit
  <2> QED
    BY <1>1, <1>5, <2>1 DEF CancelOpen, TakeUp, TrackedRunning, Tracked, Handling
<1>6. CASE Finish \/ Expire
  <2>1. PICK u \in batch : LetGo(u) /\ cur' = u
    BY <1>6 DEF Finish, Expire, TakeUp
  <2>2. u \in Units /\ futures \in [Units -> {"none", "pending"} \cup Answer]
    BY <2>1 DEF IndInv, TypeOK, CoordTypeOK, PoolTypeOK
  <2>3. pc' = pc /\ pc \in {"finish", "expire"}
    BY <1>6 DEF Finish, Expire
  <2> QED
    BY <1>1, <2>1, <2>2, <2>3 DEF LetGo, TrackedRunning, Tracked
<1> QED
  BY <1>2, <1>3, <1>4, <1>5, <1>6

\* TrackedRunning is preserved.
LEMMA TrackedStep == IndInv /\ [Next]_vars => TrackedRunning'
<1> SUFFICES ASSUME IndInv, [Next]_vars PROVE TrackedRunning'
  OBVIOUS
<1>1. TypeOK /\ TrackedRunning /\ mem \in [Units -> UnitState]
      /\ futures \in [Units -> {"none", "pending"} \cup Answer]
  BY DEF IndInv, TypeOK, CoordTypeOK, PoolTypeOK
<1>2. CASE Recover \/ Propagate \/ Dispatch \/ CancelOpen \/ Finish \/ Expire
  BY <1>2, TakeUpTracked
<1>3. CASE WriteAttempt
  BY <1>1, <1>3 DEF WriteAttempt, TrackedRunning, Tracked, Handling
<1>4. CASE WriteMove
  <2>1. cur \in Units /\ cur \notin Tracked /\ pc' = pc /\ cur' = cur
        /\ mem' = [mem EXCEPT ![cur] = agenda[1].to]
    BY <1>1, <1>4, WriteMoveFrame DEF WriteMove, TrackedRunning
  <2>2. CASE agenda[1].to = "RUNNING"
    BY <1>1, <1>4, <2>1, <2>2, HandOver DEF TrackedRunning, Tracked
  <2>3. CASE agenda[1].to # "RUNNING"
    BY <1>1, <1>4, <2>1, <2>3, HandOver DEF TrackedRunning, Tracked
  <2> QED
    BY <2>2, <2>3
<1>5. CASE Falls
  BY <1>5, FallsFrame DEF GoDown, TrackedRunning, Tracked
<1>6. CASE Materialize
  BY <1>1, <1>6 DEF Materialize, TrackedRunning, Tracked
<1>7. CASE BeginRun \/ Submit \/ WakeAnswered \/ WakeExpired \/ ReadClock \/ Expired
  BY <1>1, <1>7
     DEF BeginRun, Submit, WakeAnswered, WakeExpired, ReadClock, Expired, AwaitOrLeave,
         TrackedRunning, Tracked, Handling
<1>8. ASSUME NEW job \in active, ThreadAnswers(job) PROVE TrackedRunning'
  <2>1. Tracked' = Tracked
    BY <1>1, <1>8, AnswerFrame DEF Tracked
  <2> QED
    BY <1>1, <1>8, <2>1 DEF ThreadAnswers, TrackedRunning, Handling
<1>9. CASE SetCancelEvent \/ ThreadTakes \/ Operator \/ UNCHANGED vars
  <2>1. UNCHANGED <<agenda, pc, mem, cur, futures>>
    BY <1>9 DEF SetCancelEvent, ThreadTakes, Operator, CancelCommand, RetryCommand,
                OpRead, OpNext, OpWrite, OpRefused, OpEnd, vars
  <2> QED
    BY <1>1, <2>1 DEF TrackedRunning, Tracked, Handling
<1> QED
  BY <1>2, <1>3, <1>4, <1>5, <1>6, <1>7, <1>8, <1>9 DEF Next, Coordinator, Pool, Falls

\* BatchHeld is preserved: only the handler of a future takes it away.
LEMMA BatchStep == IndInv /\ [Next]_vars => BatchHeld'
<1> SUFFICES ASSUME IndInv, [Next]_vars PROVE BatchHeld'
  OBVIOUS
<1>1. TypeOK /\ BatchHeld /\ batch \subseteq Units
      /\ futures \in [Units -> {"none", "pending"} \cup Answer]
  BY DEF IndInv, TypeOK, CoordTypeOK, PoolTypeOK
<1>2. CASE Finish \/ Expire
  <2>1. PICK u \in batch : LetGo(u)
    BY <1>2 DEF Finish, Expire
  <2>2. pc' = pc
    BY <1>2 DEF Finish, Expire
  <2> QED
    BY <1>1, <2>1, <2>2 DEF LetGo, BatchHeld, Answered, Tracked
<1>3. CASE WakeAnswered \/ WakeExpired \/ ReadClock \/ Expired
  BY <1>3 DEF WakeAnswered, WakeExpired, ReadClock, Expired, BatchHeld, Answered, Tracked
<1>4. CASE WriteMove
  BY <1>1, <1>4, HandOver, WriteMoveFrame DEF WriteMove, BatchHeld, Answered, Tracked
<1>5. CASE Materialize \/ BeginRun \/ Recover \/ Propagate \/ Submit \/ Dispatch \/ CancelOpen \/ Falls
  <2>1. pc' \notin {"finish", "expire"}
    BY <1>5, FallsFrame
       DEF Materialize, BeginRun, Recover, Propagate, Submit, Dispatch, CancelOpen, AwaitOrLeave, GoDown
  <2> QED
    BY <2>1 DEF BatchHeld
<1>6. ASSUME NEW job \in active, ThreadAnswers(job) PROVE BatchHeld'
  BY <1>1, <1>6, AnswerFrame DEF ThreadAnswers, BatchHeld, Answered, Tracked
<1>7. CASE WriteAttempt \/ SetCancelEvent \/ ThreadTakes \/ Operator \/ UNCHANGED vars
  <2>1. UNCHANGED <<pc, batch, futures>>
    BY <1>7 DEF WriteAttempt, SetCancelEvent, ThreadTakes, Operator, CancelCommand, RetryCommand,
                OpRead, OpNext, OpWrite, OpRefused, OpEnd, vars
  <2> QED
    BY <1>1, <2>1 DEF BatchHeld, Answered, Tracked
<1> QED
  BY <1>2, <1>3, <1>4, <1>5, <1>6, <1>7 DEF Next, Coordinator, Pool, Falls

\* RefsHeld is preserved: _seed finds the ref of every unit that is SUCCEEDED
\* when a run begins, and finish adds that of every unit that succeeds later.
LEMMA RefsStep == IndInv /\ [Next]_vars => RefsHeld'
<1> SUFFICES ASSUME IndInv, [Next]_vars, pc' \notin {"down", "opened"},
                    NEW u \in Units, mem'[u] = "SUCCEEDED"
             PROVE  u \in refs'
  BY DEF RefsHeld
<1>1. CASE BeginRun
  <2>1. mem[u] = "SUCCEEDED" /\ pc # "down"
    BY <1>1 DEF BeginRun
  <2>2. HasEvidence(u)
    BY <2>1, SucceededKnown DEF IndInv, EvidenceBeforeSuccess
  <2> QED
    BY <1>1, <2>1, <2>2 DEF BeginRun
<1>2. CASE WriteMove
  <2>1. mem \in [Units -> UnitState] /\ mem' = [mem EXCEPT ![cur] = agenda[1].to] /\ cur \in Units
        /\ pc \notin {"down", "opened"}
    BY <1>2, WriteMoveFrame DEF IndInv, TypeOK, CoordTypeOK, WriteMove
  <2>2. refs' = IF agenda[1].to = "SUCCEEDED" THEN refs \cup {cur} ELSE refs
    BY <1>2, WriteMoveFrame DEF WriteMove
  <2> QED
    BY <2>1, <2>2 DEF IndInv, RefsHeld
<1>3. CASE Materialize \/ Falls
  BY <1>3, FallsFrame DEF Materialize, GoDown
<1>4. CASE (Looks /\ ~BeginRun) \/ OpWrite \/ UNCHANGED vars
  <2>1. UNCHANGED <<mem, refs>> /\ (pc \in {"down", "opened"} => pc' = pc)
    <3>1. Pool \/ Operator \/ UNCHANGED vars => UNCHANGED <<mem, refs, pc>>
      BY DEF Pool, ThreadTakes, ThreadAnswers, Operator, CancelCommand, RetryCommand,
             OpRead, OpNext, OpWrite, OpRefused, OpEnd, vars
    <3>2. WriteAttempt \/ SetCancelEvent => UNCHANGED <<mem, refs, pc>>
      BY DEF WriteAttempt, SetCancelEvent
    <3>3. Recover \/ Propagate \/ Submit \/ Dispatch \/ CancelOpen =>
            UNCHANGED <<mem, refs>> /\ pc \notin {"down", "opened"}
      BY DEF Recover, Propagate, Submit, Dispatch, CancelOpen
    <3>4. WakeAnswered \/ WakeExpired \/ Finish \/ ReadClock \/ Expire \/ Expired =>
            UNCHANGED <<mem, refs>> /\ pc \notin {"down", "opened"}
      BY DEF WakeAnswered, WakeExpired, Finish, ReadClock, Expire, Expired
    <3> QED
      BY <1>4, <3>1, <3>2, <3>3, <3>4 DEF Looks, Operator
  <2> QED
    BY <2>1 DEF IndInv, RefsHeld
<1> QED
  BY <1>1, <1>2, <1>3, <1>4, NextCases

\* While a run goes on, no ref the coordinator holds is lost.
LEMMA RefsGrow ==
    ASSUME IndInv, [Next]_vars, pc \notin {"down", "opened"}, pc' # "down"
    PROVE  refs \subseteq refs'
<1>1. CASE Falls \/ Materialize \/ BeginRun
  BY <1>1, FallsFrame DEF GoDown, Materialize, BeginRun
<1>2. CASE WriteMove
  BY <1>2 DEF WriteMove
<1>3. CASE Pool \/ Operator \/ UNCHANGED vars
  BY <1>3 DEF Pool, ThreadTakes, ThreadAnswers, Operator, CancelCommand, RetryCommand,
              OpRead, OpNext, OpWrite, OpRefused, OpEnd, vars
<1>4. CASE Recover \/ WriteAttempt \/ SetCancelEvent \/ Propagate \/ Submit \/ Dispatch \/ CancelOpen
  BY <1>4 DEF Recover, WriteAttempt, SetCancelEvent, Propagate, Submit, Dispatch, CancelOpen
<1>5. CASE WakeAnswered \/ WakeExpired \/ Finish \/ ReadClock \/ Expire \/ Expired
  BY <1>5 DEF WakeAnswered, WakeExpired, Finish, ReadClock, Expire, Expired
<1> QED
  BY <1>1, <1>2, <1>3, <1>4, <1>5, NextCases DEF Looks, Operator

\* A future that is tracked after a step was tracked before it, unless the step
\* handed its unit to the pool.
LEMMA FuturesFrame ==
    ASSUME IndInv, [Next]_vars, ~WriteMove, NEW u \in Units, futures'[u] # "none"
    PROVE  futures[u] # "none" /\ pc' # "down"
<1>1. futures \in [Units -> {"none", "pending"} \cup Answer] /\ TypeOK
      /\ (pc = "down" => futures[u] = "none")
  BY DEF IndInv, TypeOK, PoolTypeOK, TrackedRunning, Tracked
<1>2. CASE Falls
  BY <1>2, FallsFrame DEF GoDown
<1>3. CASE Materialize \/ BeginRun \/ Recover \/ WriteAttempt \/ SetCancelEvent \/ Propagate
           \/ Submit \/ Dispatch \/ CancelOpen
  BY <1>1, <1>3
     DEF Materialize, BeginRun, Recover, WriteAttempt, SetCancelEvent, Propagate, Submit, Dispatch,
         CancelOpen, AwaitOrLeave
<1>4. CASE WakeAnswered \/ WakeExpired \/ ReadClock \/ Expired
  BY <1>4 DEF WakeAnswered, WakeExpired, ReadClock, Expired
<1>5. CASE Finish \/ Expire
  <2>1. PICK w \in batch : LetGo(w)
    BY <1>5 DEF Finish, Expire
  <2> QED
    BY <1>1, <1>5, <2>1 DEF LetGo, Finish, Expire
<1>6. ASSUME NEW job \in active, ThreadAnswers(job) PROVE futures[u] # "none" /\ pc' # "down"
  BY <1>1, <1>6, AnswerFrame DEF ThreadAnswers
<1>7. CASE ThreadTakes \/ Operator \/ UNCHANGED vars
  BY <1>1, <1>7 DEF ThreadTakes, Operator, CancelCommand, RetryCommand,
              OpRead, OpNext, OpWrite, OpRefused, OpEnd, vars
<1> QED
  BY <1>2, <1>3, <1>4, <1>5, <1>6, <1>7 DEF Next, Coordinator, Pool, Falls

\* Attempts are written by WriteAttempt alone.
LEMMA EvidenceFrame ==
    ASSUME IndInv, [Next]_vars, ~WriteAttempt
    PROVE  UNCHANGED attempts
<1>1. Falls \/ WriteMove \/ OpWrite \/ Materialize => UNCHANGED attempts
  BY FallsFrame DEF WriteMove, OpWrite, Materialize
<1>2. Pool \/ CancelCommand \/ RetryCommand \/ OpNext \/ OpRefused \/ OpEnd \/ UNCHANGED vars
        => UNCHANGED attempts
  BY DEF Pool, ThreadTakes, ThreadAnswers, CancelCommand, RetryCommand, OpRead, OpNext,
         OpRefused, OpEnd, vars
<1>3. BeginRun \/ Recover \/ SetCancelEvent \/ Propagate \/ Submit \/ Dispatch \/ CancelOpen
        => UNCHANGED attempts
  BY DEF BeginRun, Recover, SetCancelEvent, Propagate, Submit, Dispatch, CancelOpen
<1>4. WakeAnswered \/ WakeExpired \/ Finish \/ ReadClock \/ Expire \/ Expired => UNCHANGED attempts
  BY DEF WakeAnswered, WakeExpired, Finish, ReadClock, Expire, Expired
<1> QED
  BY <1>1, <1>2, <1>3, <1>4, NextCases DEF Looks

\* Attempts are never lost.
LEMMA EvidenceKept ==
    ASSUME IndInv, [Next]_vars, NEW u \in Units, HasEvidence(u)
    PROVE  HasEvidence(u)'
<1>1. CASE WriteAttempt
  BY <1>1, EvidenceGrows DEF IndInv
<1>2. CASE ~WriteAttempt
  BY <1>2, EvidenceFrame DEF HasEvidence
<1> QED
  BY <1>1, <1>2

\* EvidenceBeforeSuccess is preserved.
LEMMA EvidenceStep == IndInv /\ [Next]_vars => EvidenceBeforeSuccess'
<1> SUFFICES ASSUME IndInv, [Next]_vars PROVE EvidenceBeforeSuccess'
  OBVIOUS
<1>1. ASSUME NEW u \in Units, status'[u] = "SUCCEEDED" PROVE HasEvidence(u)'
  <2>1. status \in [Units -> UnitState]
    BY DEF IndInv, TypeOK, DbTypeOK
  <2>2. CASE status[u] = "SUCCEEDED"
    BY <2>2, EvidenceKept DEF IndInv, EvidenceBeforeSuccess
  <2>3. CASE WriteMove /\ status[u] # "SUCCEEDED"
    <3>1. u = cur /\ agenda[1].to = "SUCCEEDED"
      BY <1>1, <2>1, <2>3, WriteMoveFrame
    <3>2. HasEvidence(u)
      BY <2>3, <3>1, WriteMoveFrame DEF WriteMove, IndInv, AgendaJustified
    <3> QED
      BY <3>2, EvidenceKept
  <2>4. CASE OpWrite /\ status[u] # "SUCCEEDED"
    BY <1>1, <2>1, <2>4 DEF OpWrite, UpdateStatus, IndInv, TypeOK, OpTypeOK
  <2> QED
    BY <1>1, <2>2, <2>3, <2>4, NextCases, LooksFrame, FallsFrame DEF Materialize, vars
<1>2. ASSUME NEW u \in Units, futures'[u] # "none" PROVE Deps[u] \subseteq refs'
  <2>1. CASE futures[u] # "none"
    <3>1. pc \notin {"down", "opened"} /\ Deps[u] \subseteq refs
      BY <2>1 DEF IndInv, TrackedRunning, Tracked, EvidenceBeforeSuccess
    <3>2. pc' # "down"
      BY <1>2, <2>1, <3>1, FuturesFrame, WriteMoveFrame
    <3> QED
      BY <3>1, <3>2, RefsGrow
  <2>2. CASE futures[u] = "none"
    <3>1. WriteMove
      BY <1>2, <2>2, FuturesFrame
    <3>2. u = cur /\ pc = "dispatch" /\ DepsDone(cur)
      BY <1>2, <2>2, <3>1, HandOver DEF IndInv, TypeOK, PoolTypeOK
    <3>3. Deps[u] \subseteq refs
      BY <3>2, PlanAssumption DEF DepsDone, IndInv, RefsHeld
    <3> QED
      BY <3>1, <3>3 DEF WriteMove
  <2> QED
    BY <2>1, <2>2
<1> QED
  BY <1>1, <1>2 DEF EvidenceBeforeSuccess

-----------------------------------------------------------------------------
(* The theorems *)

\* A freshly materialized schedule satisfies the inductive invariant.
LEMMA IndInvInit == Init => IndInv
<1> SUFFICES ASSUME Init PROVE IndInv
  OBVIOUS
<1>1. TypeOK
  BY NamesTyped, EmptySeq
     DEF Init, DbInit, CoordInit, OpInit, AllPlanned, TypeOK, DbTypeOK, CoordTypeOK, PoolTypeOK, OpTypeOK
<1>2. DepsSucceeded /\ EvidenceBeforeSuccess
  BY DEF Init, DbInit, CoordInit, DepsSucceeded, EvidenceBeforeSuccess, ArmedStates
<1>3. ViewAgrees /\ AgendaJustified /\ TrackedRunning /\ BatchHeld /\ RefsHeld
  BY DEF Init, CoordInit, ViewAgrees, AgendaJustified, TrackedRunning, Tracked, BatchHeld, RefsHeld, Handling
<1> QED
  BY <1>1, <1>2, <1>3 DEF IndInv

\* Every step of coordinator, pool and operators preserves it.
LEMMA IndInvStep == IndInv /\ [Next]_vars => IndInv'
  BY TypeStep, ViewStep, AgendaStep, TrackedStep, BatchStep, RefsStep, DepsStep, EvidenceStep DEF IndInv

\* The inductive invariant holds throughout, whatever crashes, answers late or
\* is commanded by an operator (engine.py).
THEOREM Inductive == Spec => []IndInv
<1>1. Init => IndInv
  BY IndInvInit
<1>2. IndInv /\ [Next]_vars => IndInv'
  BY IndInvStep
<1> QED
  BY <1>1, <1>2, PTL DEF Spec

\* The database, the coordinator, its pool and the operators stay typed.
THEOREM TypeCorrect == Spec => []TypeOK
<1>1. IndInv => TypeOK
  BY DEF IndInv
<1> QED
  BY <1>1, Inductive, PTL

\* No unit is ever armed, running or finished on top of a dependency that did
\* not succeed (ready_candidates, propagate_blocked, reconcile_interrupted).
THEOREM DependenciesFirst == Spec => []DepsSucceeded
<1>1. IndInv => DepsSucceeded
  BY DEF IndInv
<1> QED
  BY <1>1, Inductive, PTL

\* SUCCEEDED is only ever written over a recorded successful attempt, and every
\* dispatch in flight has the refs of its dependencies (finish, _seed).
THEOREM EvidenceFirst == Spec => []EvidenceBeforeSuccess
<1>1. IndInv => EvidenceBeforeSuccess
  BY DEF IndInv
<1> QED
  BY <1>1, Inductive, PTL

-----------------------------------------------------------------------------
(* The orchestrator implements its contract *)

\* An attempt adds its own unit to the units with evidence, and only when it succeeded.
LEMMA EvidenceAdded ==
    ASSUME TypeOK, WriteAttempt
    PROVE  /\ \A u \in Units \ {cur} : HasEvidence(u)' <=> HasEvidence(u)
           /\ Head(agenda).to # "SUCCEEDED" => (HasEvidence(cur)' <=> HasEvidence(cur))
<1> DEFINE row == [outcome |-> Head(agenda).to, cause |-> Head(agenda).cause]
<1>1. cur \in Units /\ attempts \in [Units -> Seq(Attempt)] /\ cur' = cur
  BY DEF WriteAttempt, TypeOK, DbTypeOK, CoordTypeOK, Handling
<1>2. attempts' = [attempts EXCEPT ![cur] = Append(@, row)]
  BY DEF WriteAttempt, AddAttempt
<1>3. row \in Attempt
  BY TailShift, <1>1 DEF WriteAttempt, Handling, TypeOK, CoordTypeOK, Write, Attempt
<1>4. \A u \in Units \ {cur} : HasEvidence(u)' <=> HasEvidence(u)
  BY <1>1, <1>2 DEF HasEvidence
<1>5. ASSUME row.outcome # "SUCCEEDED", HasEvidence(cur)' PROVE HasEvidence(cur)
  <2> DEFINE s == attempts[cur]
  <2>1. s \in Seq(Attempt) /\ attempts'[cur] = Append(s, row)
    BY <1>1, <1>2
  <2>2. PICK i \in DOMAIN attempts'[cur] : attempts'[cur][i].outcome = "SUCCEEDED"
    BY <1>1, <1>5 DEF HasEvidence
  <2> HIDE DEF s, row
  <2>3. DOMAIN s = 1 .. Len(s) /\ Len(s) \in Nat /\ DOMAIN Append(s, row) = 1 .. Len(s) + 1
    <3>1. Append(s, row) \in Seq(Attempt) /\ Len(Append(s, row)) = Len(s) + 1
      BY <1>3, <2>1, AppendProperties
    <3> QED
      BY <2>1, <3>1, LenProperties
  <2>4. Append(s, row)[Len(s) + 1] = row
    BY <1>3, <2>1, AppendProperties
  <2>5. i \in DOMAIN s
    BY <1>5, <2>1, <2>2, <2>3, <2>4
  <2>6. Append(s, row)[i] = s[i]
    BY <1>3, <2>1, <2>3, <2>5, AppendProperties
  <2>7. s[i].outcome = "SUCCEEDED"
    BY <2>1, <2>2, <2>6
  <2> QED
    BY <2>5, <2>7 DEF HasEvidence, s
<1> QED
  BY <1>4, <1>5, EvidenceGrows, <1>1

\* The registry starts as the contract does.
LEMMA ContractStarts == Init => Contract!ContractInit
<1> SUFFICES ASSUME Init PROVE Contract!ContractInit
  OBVIOUS
<1>1. \A u \in Units : ~HasEvidence(u)
  BY EmptySeq DEF Init, DbInit, HasEvidence
<1> QED
  BY <1>1 DEF Init, DbInit, Contract!ContractInit

\* A status the coordinator writes is one the contract allows.
LEMMA MoveAllowed ==
    ASSUME IndInv, WriteMove
    PROVE  Contract!ContractNext
<1> DEFINE to == agenda[1].to
<1>1. /\ cur \in Units /\ pc # "down" /\ <<status[cur], to>> \in UNIT_TRANSITIONS
      /\ to \in UnitState \ {"PLANNED", "SKIPPED"}
      /\ status' = [status EXCEPT ![cur] = to] /\ status[cur] \in UnitState
      /\ 1 \in DOMAIN agenda /\ agenda[1].kind = "move" /\ Handling
  BY WriteMoveFrame DEF IndInv, TypeOK, DbTypeOK, WriteMove
<1>2. UNCHANGED {u \in Units : HasEvidence(u)}
  BY DEF WriteMove, HasEvidence
<1>3. Contract!Becomes(cur, to)
  BY <1>1, <1>2 DEF Contract!Becomes
<1>4. \A d \in Deps[cur] : d \in Units
  BY <1>1, PlanAssumption
<1> HIDE DEF to
<1>5. CASE to = "BLOCKED"
  <2>1. Stuck(cur)
    BY <1>1, <1>5 DEF IndInv, AgendaJustified, to
  <2>2. PICK d \in Deps[cur] : mem[d] \in BLOCKING_STATES
    BY <2>1 DEF Stuck
  <2>3. status[d] # "SUCCEEDED"
    BY <1>1, <1>4, <2>2, TableFacts DEF IndInv, ViewAgrees
  <2>4. status[cur] # "READY"
    BY <1>1, <1>4, <2>3 DEF IndInv, DepsSucceeded, ArmedStates
  <2>5. status[cur] = "PLANNED"
    BY <1>1, <1>5, <2>4, TableFacts
  <2> QED
    BY <1>1, <1>3, <1>5, <2>3, <2>5 DEF Contract!ContractNext, Contract!Block
<1>6. CASE to = "READY"
  <2>1. DepsDone(cur)
    BY <1>1, <1>6 DEF IndInv, AgendaJustified, to
  <2>2. \A d \in Deps[cur] : status[d] = "SUCCEEDED"
    BY <1>1, <1>4, <2>1, SucceededKnown DEF DepsDone
  <2>3. status[cur] \in {"PLANNED", "BLOCKED", "RETRY_PENDING"}
    BY <1>1, <1>6, TableFacts
  <2> QED
    BY <1>1, <1>3, <1>6, <2>2, <2>3 DEF Contract!ContractNext, Contract!Arm
<1>7. CASE to = "RUNNING"
  BY <1>1, <1>3, <1>7, TableFacts DEF Contract!ContractNext, Contract!Start
<1>8. CASE to = "SUCCEEDED"
  <2>1. HasEvidence(cur)
    BY <1>1, <1>8 DEF IndInv, AgendaJustified, to
  <2> QED
    BY <1>1, <1>3, <1>8, <2>1, TableFacts DEF Contract!ContractNext, Contract!Succeed
<1>9. CASE to \in {"FAILED", "TIMED_OUT"}
  BY <1>1, <1>3, <1>9, TableFacts DEF Contract!ContractNext, Contract!Fail
<1>10. CASE to = "RETRY_PENDING"
  BY <1>1, <1>3, <1>10, TableFacts DEF Contract!ContractNext, Contract!Retry, RetryableStates
<1>11. CASE to = "CANCELLED"
  BY <1>1, <1>3, <1>11, TableFacts
     DEF Contract!ContractNext, Contract!Cancel, Contract!CancellableStates,
         Contract!RetryableStates, CancellableStates, RetryableStates
<1> QED
  BY <1>1, <1>5, <1>6, <1>7, <1>8, <1>9, <1>10, <1>11 DEF UnitState

\* So is a status an operator's command writes.
LEMMA CommandAllowed ==
    ASSUME IndInv, OpWrite
    PROVE  Contract!ContractNext
<1>1. /\ opUnit \in Units /\ <<status[opUnit], opTo>> \in UNIT_TRANSITIONS
      /\ opTo \in {"CANCELLED", "RETRY_PENDING"} /\ opTo \in UnitState /\ status[opUnit] \in UnitState
      /\ status' = [status EXCEPT ![opUnit] = opTo]
  BY NamesTyped DEF OpWrite, OpMayWrite, MayMove, UpdateStatus, IndInv, TypeOK, DbTypeOK, OpTypeOK
<1>2. UNCHANGED {u \in Units : HasEvidence(u)}
  BY DEF OpWrite, HasEvidence
<1>3. Contract!Becomes(opUnit, opTo)
  BY <1>1, <1>2 DEF Contract!Becomes
<1>4. CASE opTo = "CANCELLED"
  BY <1>1, <1>3, <1>4, TableFacts
     DEF Contract!ContractNext, Contract!Cancel, Contract!CancellableStates,
         Contract!RetryableStates, CancellableStates, RetryableStates
<1>5. CASE opTo = "RETRY_PENDING"
  BY <1>1, <1>3, <1>5, TableFacts DEF Contract!ContractNext, Contract!Retry, RetryableStates
<1> QED
  BY <1>1, <1>4, <1>5

\* An attempt is recorded for a unit that runs, or was cancelled meanwhile.
LEMMA AttemptAllowed ==
    ASSUME IndInv, WriteAttempt
    PROVE  [Contract!ContractNext]_(Contract!contractVars)
<1> DEFINE evidence == {u \in Units : HasEvidence(u)}
<1>1. cur \in Units /\ TypeOK /\ UNCHANGED status /\ Handling /\ 1 \in DOMAIN agenda
      /\ agenda[1].kind = "attempt" /\ agenda[1] = Head(agenda)
  BY TailShift DEF WriteAttempt, Handling, IndInv, TypeOK, CoordTypeOK
<1>2. CASE Head(agenda).to = "SUCCEEDED"
  <2>1. evidence' = evidence \cup {cur}
    <3>1. cur' = cur /\ HasEvidence(cur)'
      BY <1>1, <1>2, EvidenceGrows DEF WriteAttempt
    <3>2. \A u \in Units : HasEvidence(u)' <=> (HasEvidence(u) \/ u = cur)
      BY <1>1, <3>1, EvidenceAdded DEF HasEvidence
    <3> QED
      BY <1>1, <3>2
  <2>2. mem[cur] = "RUNNING" /\ pc # "down"
    BY <1>1 DEF IndInv, AgendaJustified
  <2>3. status[cur] \in {"RUNNING", "CANCELLED"}
    BY <1>1, <2>2 DEF IndInv, ViewAgrees, RetryableStates
  <2> QED
    BY <1>1, <2>1, <2>3 DEF Contract!ContractNext, Contract!Answered
<1>3. CASE Head(agenda).to # "SUCCEEDED"
  <2>1. \A u \in Units : HasEvidence(u)' <=> HasEvidence(u)
    <3>1. cur' = cur
      BY DEF WriteAttempt
    <3>2. HasEvidence(cur)' <=> HasEvidence(cur)
      BY <1>1, <1>3, EvidenceAdded
    <3>3. \A u \in Units \ {cur} : HasEvidence(u)' <=> HasEvidence(u)
      BY <1>1, EvidenceAdded
    <3> QED
      BY <3>1, <3>2, <3>3 DEF HasEvidence
  <2>2. UNCHANGED evidence
    BY <2>1
  <2> QED
    BY <1>1, <2>2 DEF Contract!contractVars
<1> QED
  BY <1>2, <1>3

\* Every step of the orchestrator is one of the contract, or changes nothing it sees.
LEMMA ContractStep == IndInv /\ [Next]_vars => [Contract!ContractNext]_(Contract!contractVars)
<1> SUFFICES ASSUME IndInv, [Next]_vars PROVE [Contract!ContractNext]_(Contract!contractVars)
  OBVIOUS
<1>1. CASE WriteMove
  BY <1>1, MoveAllowed
<1>2. CASE OpWrite
  BY <1>2, CommandAllowed
<1>3. CASE WriteAttempt
  BY <1>3, AttemptAllowed
<1>4. CASE ~WriteMove /\ ~OpWrite /\ ~WriteAttempt
  <2>1. UNCHANGED <<status, attempts>>
    BY <1>4, EvidenceFrame, NextCases, LooksFrame, FallsFrame DEF Materialize, vars
  <2>2. UNCHANGED {u \in Units : HasEvidence(u)}
    BY <2>1 DEF HasEvidence
  <2> QED
    BY <2>1, <2>2 DEF Contract!contractVars
<1> QED
  BY <1>1, <1>2, <1>3, <1>4

\* Coordinator, pool, crashes and operators together do only what the contract
\* of module ScheduleContract allows.
THEOREM Implements == Spec => ImplementsContract
<1>1. Init => Contract!ContractInit
  BY ContractStarts
<1>2. IndInv /\ [Next]_vars => [Contract!ContractNext]_(Contract!contractVars)
  BY ContractStep
<1> QED
  BY <1>1, <1>2, Inductive, PTL DEF Spec, ImplementsContract, Contract!ContractSpec

-----------------------------------------------------------------------------
(* What is accounted for.  A step decides on the writes of a handler, makes one
   of them, walks on, ends the run, or is taken by somebody else; each lemma goes
   through these. *)

\* A handler takes up a unit, or finds none left and walks on.
Decide == Recover \/ Propagate \/ Dispatch \/ CancelOpen \/ Finish \/ Expire

\* The coordinator goes from one part of its loop to the next.
Walk == BeginRun \/ Submit \/ WakeAnswered \/ WakeExpired \/ ReadClock \/ Expired

\* Somebody else's step: the caller, a thread, an operator.
Aside == SetCancelEvent \/ ThreadTakes \/ (\E job \in active : ThreadAnswers(job)) \/ CancelCommand
         \/ RetryCommand \/ OpNext \/ OpWrite \/ OpRefused \/ OpEnd \/ UNCHANGED vars

\* Every step is the coordinator's decision, its walk, one of its two writes, the
\* start or the end of a run, or somebody else's.
LEMMA StepCases ==
    [Next]_vars => Decide \/ Walk \/ Aside \/ Falls \/ Materialize \/ WriteAttempt \/ WriteMove
  BY DEF Next, Coordinator, Pool, Operator, Decide, Walk, Aside, Falls

\* A decision changes nothing but the coordinator's own account of its futures.
LEMMA DecideFrame ==
    Decide => /\ UNCHANGED <<status, attempts, log, mem, cancelEvent, opTo, opTodo, opPc, commands>>
              /\ ~Handling /\ pc \in {"recover", "blockFirst", "block", "dispatch", "cancel", "finish", "expire"}
<1>1. Recover \/ Propagate \/ Dispatch => UNCHANGED <<dbVars, mem, cancelEvent, opVars>> /\ ~Handling
      /\ pc \in {"recover", "blockFirst", "block", "dispatch"}
  BY DEF Recover, Propagate, Dispatch
<1>2. CancelOpen \/ Finish \/ Expire => UNCHANGED <<dbVars, mem, cancelEvent, opVars>> /\ ~Handling
      /\ pc \in {"cancel", "finish", "expire"}
  BY DEF CancelOpen, Finish, Expire
<1> QED
  BY <1>1, <1>2 DEF Decide

\* Walking changes nothing the accounts are about, but where the coordinator is.
LEMMA WalkFrame ==
    Walk => /\ UNCHANGED <<status, attempts, log, mem, cur, agenda, futures, runningMemory, runningExclusive,
                           cancelEvent, opTo, opTodo, opPc, commands>>
            /\ pc \in {"opened", "submit", "wait", "finish", "expire"}
            /\ pc' = "recover" <=> pc = "opened"
            /\ pc' = "dispatch" => pc = "submit"
  BY DEF Walk, BeginRun, Submit, WakeAnswered, WakeExpired, ReadClock, Expired, AwaitOrLeave

\* Nobody else touches the coordinator's own memory, and an answer is not lost.
LEMMA AsideFrame ==
    ASSUME TypeOK, Aside
    PROVE  /\ UNCHANGED <<attempts, pc, mem, seq, cur, agenda, runningMemory, runningExclusive>>
           /\ Tracked' = Tracked
           /\ cancelEvent => cancelEvent'
           /\ ~OpWrite => UNCHANGED <<status, log>>
           /\ \A u \in Units : futures'[u] # "none" <=> futures[u] # "none"
<1>1. CASE SetCancelEvent \/ ThreadTakes \/ UNCHANGED vars
  BY <1>1 DEF SetCancelEvent, ThreadTakes, vars, Tracked
<1>2. ASSUME NEW job \in active, ThreadAnswers(job)
      PROVE  /\ UNCHANGED <<attempts, pc, mem, seq, cur, agenda, runningMemory, runningExclusive, status, log,
                            cancelEvent>>
             /\ Tracked' = Tracked
             /\ \A u \in Units : futures'[u] # "none" <=> futures[u] # "none"
  BY <1>2, AnswerFrame DEF ThreadAnswers, Tracked
<1>3. CASE CancelCommand \/ RetryCommand \/ OpNext \/ OpRefused \/ OpEnd
  BY <1>3 DEF CancelCommand, RetryCommand, OpRead, OpNext, OpRefused, OpEnd, Tracked
<1>4. CASE OpWrite
  BY <1>4 DEF OpWrite, Tracked
<1> QED
  BY <1>1, <1>2, <1>3, <1>4 DEF Aside

\* A step that ends the run leaves an idle coordinator.
LEMMA DownFrame ==
    Falls => /\ pc' = "down" /\ agenda' = <<>> /\ Tracked' = {} /\ runningMemory' = 0
             /\ runningExclusive' = FALSE /\ UNCHANGED <<status, attempts, log, opTo, opTodo, opPc, commands>>
             /\ \A u \in Units : futures'[u] = "none"
<1>1. Falls => GoDown /\ UNCHANGED <<status, attempts, log, opVars>>
  BY DEF Falls, Close, Refused, Crash
<1> QED
  BY <1>1 DEF GoDown, Tracked

-----------------------------------------------------------------------------
(* The shape of what a handler writes *)

ShapedWrites(writes) ==
    /\ writes # <<>> /\ writes[Len(writes)].kind = "move"
    /\ writes[1].kind = "attempt" =>
          /\ Len(writes) >= 2 /\ writes[2].kind = "move" /\ writes[2].to = writes[1].to
          /\ writes[1].cause = "Interrupted" => writes[1].to = "FAILED"
    /\ \A i \in DOMAIN writes :
          /\ writes[i].to = "RETRY_PENDING" => i = Len(writes)
          /\ i > 2 \/ (i = 2 /\ writes[1].kind = "move") => writes[i].to \in {"RUNNING", "RETRY_PENDING"}

\* Three writes, put together from two and one.
LEMMA ThreeWrites ==
    ASSUME NEW S, NEW a \in S, NEW b \in S, NEW c \in S
    PROVE  <<a, b>> \o <<c>> = <<a, b, c>>
<1>1. <<a, b>> \in Seq(S) /\ <<c>> \in Seq(S) /\ <<a, b, c>> \in Seq(S)
      /\ Len(<<a, b>>) = 2 /\ Len(<<c>>) = 1 /\ Len(<<a, b, c>>) = 3
  OBVIOUS
<1>2. <<a, b>> \o <<c>> \in Seq(S) /\ Len(<<a, b>> \o <<c>>) = 3
      /\ \A i \in 1 .. 3 : (<<a, b>> \o <<c>>)[i] = IF i <= 2 THEN <<a, b>>[i] ELSE <<c>>[i - 2]
  BY <1>1, ConcatProperties
<1>3. \A i \in 1 .. 3 : (<<a, b>> \o <<c>>)[i] = <<a, b, c>>[i]
  <2>1. \A i \in 1 .. 3 : i = 1 \/ i = 2 \/ i = 3
    OBVIOUS
  <2> QED
    BY <1>2, <2>1
<1> QED
  BY <1>1, <1>2, <1>3, SeqEqual

\* The writes of an attempt that did not succeed, and whether another is granted.
LEMMA CloseAttemptShape ==
    ASSUME NEW u \in Units, NEW outcome \in {"FAILED", "TIMED_OUT"}, NEW category \in FailureCategory
    PROVE  LET writes == CloseAttempt(u, outcome, category) IN
           /\ ShapedWrites(writes)
           /\ writes[1] = Record(outcome, category)
           /\ (\E i \in DOMAIN writes : writes[i].to = "RETRY_PENDING")
                 => ShouldRetry(u, category, Len(attempts[u]) + 1)
<1>1. CASE ShouldRetry(u, category, Len(attempts[u]) + 1)
  <2>1. CloseAttempt(u, outcome, category) = <<Record(outcome, category), Move(outcome), Move("RETRY_PENDING")>>
    <3>1. Record(outcome, category) \in Write /\ Move(outcome) \in Write /\ Move("RETRY_PENDING") \in Write
      BY NamesTyped DEF Record, Move, Write, UnitState
    <3> QED
      BY <1>1, <3>1, ThreeWrites DEF CloseAttempt
  <2> QED
    BY <1>1, <2>1 DEF ShapedWrites, Record, Move, FailureCategory
<1>2. CASE ~ShouldRetry(u, category, Len(attempts[u]) + 1)
  <2>1. CloseAttempt(u, outcome, category) = <<Record(outcome, category), Move(outcome)>>
    <3>1. <<Record(outcome, category), Move(outcome)>> \in Seq(Write)
      BY NamesTyped DEF Record, Move, Write, UnitState
    <3> QED
      BY <1>2, <3>1, ConcatEmptySeq DEF CloseAttempt
  <2> QED
    BY <1>2, <2>1 DEF ShapedWrites, Record, Move, FailureCategory
<1> QED
  BY <1>1, <1>2

\* The writes that are fixed have the shape.
LEMMA PlainWritesShaped ==
    /\ ShapedWrites(RecoveryWrites) /\ ShapedWrites(SuccessWrites)
    /\ \A to \in UnitState : ShapedWrites(<<Move(to)>>)
    /\ ShapedWrites(<<Move("READY"), Move("RUNNING")>>)
  BY DEF ShapedWrites, RecoveryWrites, SuccessWrites, Move, Record

-----------------------------------------------------------------------------
(* What a handler may decide *)

UnchangedAccounts == UNCHANGED <<futures, runningMemory, runningExclusive>>

\* It finds no unit to take up, and walks on.
FindsNone ==
    /\ UNCHANGED <<cur, agenda>> /\ UnchangedAccounts
    /\ \/ pc = "recover" /\ pc' = "blockFirst" /\ \A u \in Units : mem[u] # "RUNNING"
       \/ pc \in {"blockFirst", "block"} /\ pc' = "cancel" /\ cancelEvent
       \/ pc \in {"blockFirst", "block"} /\ pc' = "submit" /\ \A u \in Units : mem[u] = "BLOCKED" => ~DepsDone(u)
       \/ pc = "dispatch" /\ pc' = AwaitOrLeave /\ ~(Ready # {} /\ Cardinality(Tracked) < MaxWorkers)
       \/ pc = "cancel" /\ pc' = "close"

\* It starts a unit that is ready and admissible.
Starts(u) ==
    /\ pc = "dispatch" /\ pc' = pc /\ u \in Ready
    /\ \E writes \in {<<Move("RUNNING")>>, <<Move("READY"), Move("RUNNING")>>} : TakeUp(u, writes)
    /\ UnchangedAccounts

\* It blocks, unblocks or cancels a unit that is not RUNNING.
Settles(u) ==
    /\ pc \in {"blockFirst", "block", "cancel"} /\ pc' = pc /\ mem[u] # "RUNNING"
    /\ \E to \in {"BLOCKED", "READY", "CANCELLED"} : TakeUp(u, <<Move(to)>>)
    /\ UnchangedAccounts

\* It takes up a unit the last process left RUNNING.
Recovers(u) ==
    /\ pc = "recover" /\ pc' = pc /\ mem[u] = "RUNNING" /\ TakeUp(u, RecoveryWrites) /\ UnchangedAccounts

\* It lets go of a unit that answered, or timed out.
Releases(u) ==
    /\ pc \in {"finish", "expire"} /\ pc' = pc /\ mem[u] = "RUNNING" /\ u \in Tracked /\ LetGo(u)
    /\ \/ TakeUp(u, SuccessWrites)
       \/ \E outcome \in {"FAILED", "TIMED_OUT"}, category \in FailureCategory :
             TakeUp(u, CloseAttempt(u, outcome, category))

\* A decision is one of these.
LEMMA DecideCases ==
    ASSUME IndInv, Decide
    PROVE  FindsNone \/ \E u \in Units : Starts(u) \/ Settles(u) \/ Recovers(u) \/ Releases(u)
<1>1. CASE Recover
  <2> DEFINE left == {u \in Units : mem[u] = "RUNNING"}
  <2>1. left # {} => First(left) \in left
    BY ChosenUnit
  <2> QED
    BY <1>1, <2>1 DEF Recover, Recovers, FindsNone, UnchangedAccounts
<1>2. CASE Propagate
  <2> DEFINE changing == ToBlock \cup ToUnblock
             u == First(changing)
  <2>1. CASE changing # {}
    <3>1. u \in Units /\ mem[u] # "RUNNING"
      BY <2>1, ChosenUnit DEF ToBlock, ToUnblock
    <3>2. /\ pc \in {"blockFirst", "block"} /\ pc' = pc /\ UnchangedAccounts
          /\ TakeUp(u, <<Move(IF u \in ToBlock THEN "BLOCKED" ELSE "READY")>>)
      BY <1>2, <2>1 DEF Propagate, UnchangedAccounts
    <3> HIDE DEF u
    <3> QED
      BY <3>1, <3>2 DEF Settles
  <2>2. CASE changing = {}
    <3>1. \A w \in Units : mem[w] = "BLOCKED" => ~DepsDone(w)
      BY <2>2, TableFacts DEF ToUnblock, Stuck, DepsDone
    <3> QED
      BY <1>2, <2>2, <3>1 DEF Propagate, FindsNone, UnchangedAccounts
  <2> QED
    BY <2>1, <2>2
<1>3. CASE Dispatch
  <2> DEFINE u == Best(Ready)
             writes == IF mem[u] = "READY" THEN <<Move("RUNNING")>> ELSE <<Move("READY"), Move("RUNNING")>>
  <2>1. CASE Ready # {} /\ Cardinality(Tracked) < MaxWorkers
    <3>1. u \in Ready /\ u \in Units
      BY <2>1, ChosenUnit DEF Ready
    <3>2. TakeUp(u, writes) /\ pc = "dispatch" /\ pc' = pc /\ UnchangedAccounts
      BY <1>3, <2>1 DEF Dispatch, UnchangedAccounts
    <3>3. writes \in {<<Move("RUNNING")>>, <<Move("READY"), Move("RUNNING")>>}
      OBVIOUS
    <3> HIDE DEF u, writes
    <3> QED
      BY <3>1, <3>2, <3>3 DEF Starts
  <2>2. CASE ~(Ready # {} /\ Cardinality(Tracked) < MaxWorkers)
    BY <1>3, <2>2 DEF Dispatch, FindsNone, UnchangedAccounts
  <2> QED
    BY <2>1, <2>2
<1>4. CASE CancelOpen
  <2> DEFINE open == {u \in Units : mem[u] \in {"PLANNED", "READY", "BLOCKED", "RETRY_PENDING"}}
  <2>1. open # {} => First(open) \in open
    BY ChosenUnit
  <2> QED
    BY <1>4, <2>1 DEF CancelOpen, Settles, FindsNone, UnchangedAccounts
<1>5. CASE Finish
  <2>1. PICK u \in batch : LetGo(u) /\ TakeUp(u, IF futures[u] = "OK" THEN SuccessWrites
                                                ELSE CloseAttempt(u, "FAILED", futures[u]))
    BY <1>5 DEF Finish
  <2>2. pc = "finish" /\ pc' = pc
    BY <1>5 DEF Finish
  <2>3. u \in Units /\ mem[u] = "RUNNING" /\ u \in Tracked /\ futures[u] \in Answer
    BY <2>2, BatchRunning DEF Tracked
  <2>4. futures[u] # "OK" => futures[u] \in FailureCategory
    BY <2>3, NamesTyped
  <2> QED
    BY <2>1, <2>2, <2>3, <2>4 DEF Releases
<1>6. CASE Expire
  <2>1. PICK u \in batch : LetGo(u) /\ TakeUp(u, CloseAttempt(u, "TIMED_OUT", "TIMEOUT"))
    BY <1>6 DEF Expire
  <2>2. pc = "expire" /\ pc' = pc
    BY <1>6 DEF Expire
  <2>3. u \in Units /\ mem[u] = "RUNNING" /\ u \in Tracked
    BY <2>2, BatchRunning DEF Tracked
  <2> QED
    BY <2>1, <2>2, <2>3, NamesTyped DEF Releases
<1> QED
  BY <1>1, <1>2, <1>3, <1>4, <1>5, <1>6 DEF Decide

\* Whatever a handler takes up, its writes have their shape.
LEMMA TakenShaped ==
    ASSUME NEW u \in Units, Starts(u) \/ Settles(u) \/ Recovers(u) \/ Releases(u)
    PROVE  \E writes : TakeUp(u, writes) /\ ShapedWrites(writes)
  BY PlainWritesShaped, CloseAttemptShape, NamesTyped DEF Starts, Settles, Recovers, Releases

\* AgendaShaped is preserved.
LEMMA ShapeStep == IndInv /\ AgendaShaped /\ [Next]_vars => AgendaShaped'
<1> SUFFICES ASSUME IndInv, AgendaShaped, [Next]_vars PROVE AgendaShaped'
  OBVIOUS
<1>1. TypeOK /\ AgendaJustified
  BY DEF IndInv
<1>2. CASE Decide
  <2>1. CASE FindsNone
    BY <2>1 DEF FindsNone, AgendaShaped, Handling
  <2>2. ASSUME NEW writes, agenda' = writes, ShapedWrites(writes) PROVE AgendaShaped'
    BY <2>2 DEF ShapedWrites, AgendaShaped, Handling
  <2> QED
    BY <1>2, <2>1, <2>2, DecideCases, TakenShaped DEF TakeUp
<1>3. CASE WriteAttempt
  <2>1. Handling /\ agenda' = Tail(agenda) /\ agenda[1].kind = "attempt"
    BY <1>1, <1>3, TailShift DEF WriteAttempt
  <2>2. Len(agenda) >= 2 /\ agenda[Len(agenda)].kind = "move"
    BY <2>1 DEF AgendaShaped
  <2> QED
    BY <1>1, <2>1, <2>2, TailShift DEF AgendaShaped, AgendaJustified
<1>4. CASE WriteMove
  <2>1. Handling /\ agenda' = Tail(agenda)
    BY <1>4 DEF WriteMove
  <2>2. Handling' => Len(agenda) >= 2 /\ Len(agenda') >= 1
    <3>1. Tail(agenda) # <<>> => Len(Tail(agenda)) >= 1
      BY <1>1, <2>1, HeadTailProperties, EmptySeq DEF Handling, TypeOK, CoordTypeOK
    <3> QED
      BY <1>1, <2>1, <3>1, TailShift DEF Handling
  <2> QED
    BY <1>1, <2>1, <2>2, TailShift DEF AgendaShaped, AgendaJustified
<1>5. CASE Falls
  BY <1>5, DownFrame DEF AgendaShaped, Handling
<1>6. CASE Walk \/ Aside \/ Materialize
  BY <1>1, <1>6, WalkFrame, AsideFrame DEF Materialize, AgendaShaped, Handling
<1> QED
  BY <1>2, <1>3, <1>4, <1>5, <1>6, StepCases

-----------------------------------------------------------------------------
(* The coordinator's account of what runs *)

\* What the futures are after each step.
LEMMA TrackedFrame ==
    ASSUME IndInv, [Next]_vars
    PROVE  \/ Tracked' = Tracked
           \/ pc' = "down" /\ Tracked' = {}
           \/ \E u \in Units : Decide /\ Releases(u) /\ Tracked' = Tracked \ {u}
           \/ /\ WriteMove /\ agenda[1].to = "RUNNING" /\ pc = "dispatch" /\ ~Handling'
              /\ Tracked' = Tracked \cup {cur}
<1>1. futures \in [Units -> {"none", "pending"} \cup Answer] /\ TypeOK
  BY DEF IndInv, TypeOK, PoolTypeOK
<1>2. CASE Decide
  <2>1. ASSUME NEW u \in Units, Releases(u) PROVE Tracked' = Tracked \ {u}
    BY <1>1, <2>1 DEF Releases, LetGo, Tracked
  <2>2. ASSUME UnchangedAccounts PROVE Tracked' = Tracked
    BY <2>2 DEF UnchangedAccounts, Tracked
  <2> QED
    BY <1>2, <2>1, <2>2, DecideCases DEF FindsNone, Starts, Settles, Recovers
<1>3. CASE WriteMove
  <2>1. CASE agenda[1].to = "RUNNING"
    BY <1>1, <1>3, <2>1, HandOver, WriteMoveFrame DEF Tracked
  <2>2. CASE agenda[1].to # "RUNNING"
    BY <1>3, <2>2, HandOver DEF Tracked
  <2> QED
    BY <2>1, <2>2
<1>4. CASE Falls
  BY <1>4, DownFrame
<1>5. CASE Walk \/ Aside \/ Materialize \/ WriteAttempt
  BY <1>1, <1>5, WalkFrame, AsideFrame DEF Materialize, WriteAttempt, Tracked
<1> QED
  BY <1>2, <1>3, <1>4, <1>5, StepCases

\* RunningHeld is preserved: the last write of a handler moves its unit on, or
\* hands it to the pool.
LEMMA HeldStep == IndInv /\ AgendaShaped /\ RunningHeld /\ [Next]_vars => RunningHeld'
<1> SUFFICES ASSUME IndInv, AgendaShaped, RunningHeld, [Next]_vars,
                    pc' \notin {"down", "opened", "recover"},
                    NEW u \in Units, mem'[u] = "RUNNING", u \notin Tracked'
             PROVE  Handling' /\ cur' = u
  BY DEF RunningHeld
<1>1. TypeOK /\ AgendaJustified /\ mem \in [Units -> UnitState]
  BY DEF IndInv, TypeOK, CoordTypeOK
<1>2. CASE Decide
  <2>1. mem[u] = "RUNNING" /\ ~Handling
    BY <1>2, DecideFrame
  <2>2. ASSUME NEW w \in Units, Releases(w), u # w PROVE FALSE
    <3>1. Tracked' = Tracked \ {w} \/ Tracked' = Tracked
      BY <2>2 DEF Releases, LetGo, Tracked, IndInv, TypeOK, PoolTypeOK
    <3> QED
      BY <2>1, <2>2, <3>1 DEF Releases, RunningHeld
  <2>3. ASSUME UnchangedAccounts, pc \notin {"recover", "down", "opened"} PROVE FALSE
    BY <2>1, <2>3 DEF UnchangedAccounts, Tracked, RunningHeld
  <2>4. ASSUME NEW w \in Units, Releases(w) PROVE cur' = w /\ Handling'
    <3>1. PICK writes : TakeUp(w, writes) /\ ShapedWrites(writes)
      BY <2>4, TakenShaped
    <3> QED
      BY <3>1 DEF TakeUp, ShapedWrites, Handling
  <2> QED
    BY <1>2, <2>1, <2>2, <2>3, <2>4, DecideCases DEF FindsNone, Starts, Settles, Recovers
<1>3. CASE WriteAttempt
  <2>1. Handling /\ agenda' = Tail(agenda) /\ agenda[1].kind = "attempt" /\ UNCHANGED <<mem, pc, cur, futures>>
    BY <1>1, <1>3, TailShift DEF WriteAttempt
  <2>2. Len(Tail(agenda)) >= 1 /\ Len(<<>>) = 0
    BY <1>1, <2>1, TailShift, EmptySeq DEF AgendaShaped
  <2>3. Handling'
    BY <2>1, <2>2 DEF Handling
  <2>4. Tracked' = Tracked
    BY <2>1 DEF Tracked
  <2> QED
    BY <2>1, <2>3, <2>4 DEF RunningHeld
<1>4. CASE WriteMove
  <2>1. mem' = [mem EXCEPT ![cur] = agenda[1].to] /\ pc' = pc /\ cur \in Units /\ Handling /\ cur' = cur
    BY <1>4, WriteMoveFrame DEF WriteMove
  <2>2. CASE agenda[1].to = "RUNNING"
    <3>1. futures' = [futures EXCEPT ![cur] = "pending"]
      BY <1>4, <2>2, HandOver
    <3>2. u # cur
      BY <1>1, <2>1, <3>1 DEF Tracked, TypeOK, PoolTypeOK
    <3> QED
      BY <1>1, <2>1, <3>1, <3>2 DEF RunningHeld, Tracked, TypeOK, PoolTypeOK
  <2>3. CASE agenda[1].to # "RUNNING"
    BY <1>1, <1>4, <2>1, <2>3, HandOver DEF RunningHeld, Tracked
  <2> QED
    BY <2>2, <2>3
<1>5. CASE Falls
  BY <1>5, DownFrame
<1>6. CASE Materialize
  BY <1>6 DEF Materialize
<1>7. CASE Walk
  BY <1>7, WalkFrame DEF Walk, BeginRun, RunningHeld, Tracked, Handling
<1>8. CASE Aside
  BY <1>1, <1>8, AsideFrame DEF RunningHeld, Handling
<1> QED
  BY <1>2, <1>3, <1>4, <1>5, <1>6, <1>7, <1>8, StepCases

\* AdmittedStays is preserved: arming the unit changes nothing its admission rests on.
LEMMA AdmittedStep == IndInv /\ AdmittedStays /\ [Next]_vars => AdmittedStays'
<1> SUFFICES ASSUME IndInv, AdmittedStays, [Next]_vars, Handling', pc' = "dispatch"
             PROVE  Admissible(cur)' /\ mem'[cur'] # "RUNNING"
  BY DEF AdmittedStays
<1>1. TypeOK /\ AgendaJustified /\ mem \in [Units -> UnitState]
  BY DEF IndInv, TypeOK, CoordTypeOK
<1>2. CASE Decide
  <2>1. UNCHANGED mem /\ ~Handling
    BY <1>2, DecideFrame
  <2>2. ASSUME NEW u \in Units, Starts(u) PROVE Admissible(cur)' /\ mem'[cur'] # "RUNNING"
    <3>1. cur' = u /\ Admissible(u) /\ mem[u] # "RUNNING" /\ UNCHANGED <<runningExclusive, runningMemory>>
      BY <2>2 DEF Starts, Ready, Candidate, TakeUp, UnchangedAccounts
    <3> QED
      BY <2>1, <3>1 DEF Admissible, SomeRunning
  <2>3. ~FindsNone
    BY <2>1 DEF FindsNone, Handling
  <2> QED
    BY <1>2, <2>2, <2>3, DecideCases DEF Settles, Recovers, Releases
<1>3. CASE WriteMove
  <2>1. mem' = [mem EXCEPT ![cur] = agenda[1].to] /\ pc' = pc /\ cur \in Units /\ Handling /\ cur' = cur
    BY <1>3, WriteMoveFrame DEF WriteMove
  <2>2. agenda[1].to # "RUNNING"
    BY <1>3, HandOver
  <2>3. UNCHANGED <<runningExclusive, runningMemory>>
    BY <1>3, <2>2, WriteMoveFrame DEF WriteMove
  <2>4. SomeRunning' = SomeRunning
    BY <1>1, <2>1, <2>2 DEF SomeRunning, AdmittedStays
  <2> QED
    BY <1>1, <2>1, <2>2, <2>3, <2>4 DEF AdmittedStays, Admissible
<1>4. CASE WriteAttempt
  BY <1>4 DEF WriteAttempt, AdmittedStays, Admissible, SomeRunning
<1>5. CASE Falls
  BY <1>5, DownFrame
<1>6. CASE Materialize
  BY <1>6 DEF Materialize
<1>7. CASE Walk
  BY <1>7, WalkFrame DEF AgendaJustified, IndInv, Handling
<1>8. CASE Aside
  <2>1. UNCHANGED <<agenda, pc, cur, mem, runningExclusive, runningMemory>>
    BY <1>1, <1>8, AsideFrame
  <2> QED
    BY <2>1 DEF AdmittedStays, Admissible, SomeRunning, Handling
<1> QED
  BY <1>2, <1>3, <1>4, <1>5, <1>6, <1>7, <1>8, StepCases

\* FlagExact is preserved.
LEMMA FlagStep == IndInv /\ AdmittedStays /\ FlagExact /\ [Next]_vars => FlagExact'
<1> SUFFICES ASSUME IndInv, AdmittedStays, FlagExact, [Next]_vars PROVE FlagExact'
  OBVIOUS
<1>1. TypeOK /\ AgendaJustified /\ mem \in [Units -> UnitState] /\ Tracked \subseteq Units
      /\ futures \in [Units -> {"none", "pending"} \cup Answer]
  BY DEF IndInv, TypeOK, CoordTypeOK, PoolTypeOK, Tracked
<1>2. CASE Decide
  <2>1. CASE UnchangedAccounts
    BY <2>1 DEF UnchangedAccounts, FlagExact, Tracked
  <2>2. ASSUME NEW u \in Units, Releases(u) PROVE FlagExact'
    <3>1. Tracked' = Tracked \ {u} /\ u \in Tracked
          /\ runningExclusive' = (runningExclusive /\ u \notin Exclusive)
      BY <1>1, <2>2 DEF Releases, LetGo, Tracked
    <3>2. \A v, w \in Tracked' : v \in Exclusive => w = v
      BY <3>1 DEF FlagExact
    <3>3. runningExclusive' <=> \E w \in Tracked' : w \in Exclusive
      BY <3>1 DEF FlagExact
    <3> QED
      BY <3>2, <3>3 DEF FlagExact
  <2> QED
    BY <1>2, <2>1, <2>2, DecideCases DEF FindsNone, Starts, Settles, Recovers
<1>3. CASE WriteMove
  <2>1. CASE agenda[1].to = "RUNNING"
    <3>1. /\ Tracked' = Tracked \cup {cur} /\ pc = "dispatch" /\ Handling /\ cur \in Units
          /\ runningExclusive' = (runningExclusive \/ cur \in Exclusive)
      BY <1>1, <1>3, <2>1, HandOver, WriteMoveFrame DEF Tracked, WriteMove
    <3>2. \A w \in Tracked : mem[w] = "RUNNING"
      BY DEF IndInv, TrackedRunning
    <3>3. ~runningExclusive /\ (cur \in Exclusive => Tracked = {})
      BY <1>1, <3>1, <3>2 DEF AdmittedStays, Admissible, SomeRunning
    <3>4. \A w \in Tracked : w \notin Exclusive
      BY <3>3 DEF FlagExact
    <3>5. \A v, w \in Tracked' : v \in Exclusive => w = v
      BY <3>1, <3>3, <3>4
    <3>6. runningExclusive' <=> \E w \in Tracked' : w \in Exclusive
      BY <3>1, <3>3, <3>4
    <3> QED
      BY <3>5, <3>6 DEF FlagExact
  <2>2. CASE agenda[1].to # "RUNNING"
    <3>1. UNCHANGED <<futures, runningExclusive>>
      BY <1>3, <2>2, WriteMoveFrame DEF WriteMove
    <3> QED
      BY <3>1 DEF FlagExact, Tracked
  <2> QED
    BY <2>1, <2>2
<1>4. CASE Falls
  BY <1>4, DownFrame DEF FlagExact
<1>5. CASE Walk \/ Aside \/ Materialize \/ WriteAttempt
  <2>1. Tracked' = Tracked /\ runningExclusive' = runningExclusive
    BY <1>1, <1>5, WalkFrame, AsideFrame DEF Materialize, WriteAttempt, Tracked
  <2> QED
    BY <2>1 DEF FlagExact
<1> QED
  BY <1>2, <1>3, <1>4, <1>5, StepCases

-----------------------------------------------------------------------------
(* The memory of a set of units *)

\* A family of sets of units that, with a set, has the set with one unit more
\* reaches every larger set: Units is finite.
LEMMA GrowTo ==
    ASSUME NEW T \in SUBSET Units, NEW F, NEW S \in SUBSET T, S \in F,
           \A W \in SUBSET T : W \in F => \A x \in T \ W : W \cup {x} \in F
    PROVE  T \in F
<1> DEFINE Missing == {Cardinality(T \ W) : W \in {W \in SUBSET T : W \in F}}
           R == OpToRel(<, Nat)
<1>1. IsFiniteSet(T)
  BY UnitsAssumption, FS_Subset
<1>2. \A W \in SUBSET T : IsFiniteSet(T \ W) /\ Cardinality(T \ W) \in Nat
  BY <1>1, FS_Subset, FS_CardinalityType
<1>3. Missing \subseteq Nat /\ Missing # {}
  BY <1>2
<1>4. \E n \in Missing : \A m \in Missing : ~(<<m, n>> \in R)
  <2>1. IsWellFoundedOn(R, Nat)
    BY NatLessThanWellFounded
  <2> HIDE DEF Missing, R
  <2> QED
    BY <1>3, <2>1, WFMin
<1>5. PICK W \in SUBSET T : W \in F /\ \A V \in SUBSET T : V \in F => ~(Cardinality(T \ V) < Cardinality(T \ W))
  <2>1. PICK n \in Missing : \A m \in Missing : ~(<<m, n>> \in R)
    BY <1>4
  <2>2. \A m \in Missing : ~(m < n)
    BY <1>3, <2>1 DEF OpToRel
  <2> QED
    BY <2>2
<1>6. CASE W # T
  <2>1. PICK x \in T \ W : TRUE
    BY <1>6
  <2>2. (T \ (W \cup {x})) = (T \ W) \ {x}
    OBVIOUS
  <2>3. Cardinality((T \ W) \ {x}) = Cardinality(T \ W) - 1
    BY <1>2, <2>1, FS_RemoveElement
  <2>4. W \cup {x} \in F /\ W \cup {x} \in SUBSET T
    BY <1>5, <2>1
  <2>5. ~(Cardinality(T \ (W \cup {x})) < Cardinality(T \ W))
    BY <1>5, <2>4
  <2>6. ~(Cardinality(T \ W) - 1 < Cardinality(T \ W))
    BY <2>2, <2>3, <2>5
  <2>7. Cardinality(T \ W) \in Nat
    BY <1>2
  <2> QED
    BY <2>6, <2>7
<1> QED
  BY <1>5, <1>6

\* f adds up the declared memory of the subsets of S.
AddsUp(f, S) ==
    /\ f \in [SUBSET S -> Nat] /\ f[{}] = 0
    /\ \A T \in SUBSET S, u \in S : u \notin T => f[T \cup {u}] = f[T] + Memory[u]

\* There is such a function on all units.
LEMMA SomethingAddsUp == \E f : AddsUp(f, Units)
<1> DEFINE F == {S \in SUBSET Units : \E f : AddsUp(f, S)}
<1>1. Memory \in [Units -> Nat]
  BY PolicyAssumption
<1>2. {} \in F
  <2> DEFINE f == [T \in SUBSET {} |-> 0]
  <2>1. AddsUp(f, {})
    BY DEF AddsUp
  <2> QED
    BY <2>1
<1>3. ASSUME NEW W \in SUBSET Units, W \in F, NEW x \in Units \ W PROVE W \cup {x} \in F
  <2>1. PICK f : AddsUp(f, W)
    BY <1>3
  <2> DEFINE g == [T \in SUBSET (W \cup {x}) |-> f[T \ {x}] + (IF x \in T THEN Memory[x] ELSE 0)]
  <2>2. f \in [SUBSET W -> Nat] /\ f[{}] = 0
    BY <2>1 DEF AddsUp
  <2>3. \A T \in SUBSET (W \cup {x}) : T \ {x} \in SUBSET W
    OBVIOUS
  <2>4. g \in [SUBSET (W \cup {x}) -> Nat]
        /\ \A T \in SUBSET (W \cup {x}) : g[T] = f[T \ {x}] + (IF x \in T THEN Memory[x] ELSE 0)
    BY <1>1, <2>2, <2>3
  <2>5. g[{}] = 0
    <3>1. {} \ {x} = {} /\ {} \in SUBSET (W \cup {x}) /\ x \notin {}
      OBVIOUS
    <3> QED
      BY <2>2, <2>4, <3>1
  <2>6. ASSUME NEW T \in SUBSET (W \cup {x}), NEW u \in W \cup {x}, u \notin T
        PROVE  g[T \cup {u}] = g[T] + Memory[u]
    <3>1. T \cup {u} \in SUBSET (W \cup {x}) /\ T \ {x} \in SUBSET W
      OBVIOUS
    <3>2. f[T \ {x}] \in Nat /\ Memory[u] \in Nat /\ Memory[x] \in Nat
      BY <1>1, <2>2, <3>1
    <3> HIDE DEF g
    <3>5. /\ g[T \cup {u}] = f[(T \cup {u}) \ {x}] + (IF x \in T \cup {u} THEN Memory[x] ELSE 0)
          /\ g[T] = f[T \ {x}] + (IF x \in T THEN Memory[x] ELSE 0)
      BY <2>4, <3>1
    <3>3. CASE u = x
      <4>1. (T \cup {u}) \ {x} = T \ {x}
        BY <3>3
      <4>2. x \in T \cup {u} /\ x \notin T
        BY <2>6, <3>3
      <4>3. g[T \cup {u}] = f[T \ {x}] + Memory[x] /\ g[T] = f[T \ {x}] + 0
        BY <3>5, <4>1, <4>2, Zenon
      <4> QED
        BY <3>2, <3>3, <4>3
    <3>4. CASE u # x
      <4>1. (T \cup {u}) \ {x} = (T \ {x}) \cup {u} /\ u \in W /\ u \notin T \ {x}
        BY <2>6, <3>4
      <4>2. f[(T \ {x}) \cup {u}] = f[T \ {x}] + Memory[u]
        BY <2>1, <3>1, <4>1 DEF AddsUp
      <4>3. x \in T \cup {u} <=> x \in T
        BY <3>4
      <4>4. CASE x \in T
        <5>1. g[T \cup {u}] = f[T \ {x}] + Memory[u] + Memory[x] /\ g[T] = f[T \ {x}] + Memory[x]
          BY <3>5, <4>1, <4>2, <4>3, <4>4, Zenon
        <5> QED
          BY <3>2, <5>1
      <4>5. CASE x \notin T
        <5>1. g[T \cup {u}] = f[T \ {x}] + Memory[u] + 0 /\ g[T] = f[T \ {x}] + 0
          BY <3>5, <4>1, <4>2, <4>3, <4>5, Zenon
        <5> QED
          BY <3>2, <5>1
      <4> QED
        BY <4>4, <4>5
    <3> QED
      BY <3>3, <3>4
  <2> HIDE DEF g
  <2>7. AddsUp(g, W \cup {x})
    BY <2>4, <2>5, <2>6 DEF AddsUp
  <2> QED
    BY <2>7
<1> HIDE DEF F
<1>4. \A W \in SUBSET Units : W \in F => \A x \in Units \ W : W \cup {x} \in F
  BY <1>3
<1>5. {} \in SUBSET Units /\ Units \in SUBSET Units
  OBVIOUS
<1>6. Units \in F
  BY <1>2, <1>4, <1>5, GrowTo
<1> QED
  BY <1>6 DEF F

\* The declared memory of a set of units.
Total == CHOOSE f : AddsUp(f, Units)

\* The total of a set of units is the sum of what they declare.
LEMMA TotalAddsUp ==
    /\ Total \in [SUBSET Units -> Nat] /\ Total[{}] = 0
    /\ \A T \in SUBSET Units, u \in Units : u \notin T => Total[T \cup {u}] = Total[T] + Memory[u]
  BY SomethingAddsUp DEF Total, AddsUp

\* More units declare no less.
LEMMA TotalGrows ==
    ASSUME NEW T \in SUBSET Units, NEW S \in SUBSET T
    PROVE  Total[S] <= Total[T]
<1> DEFINE F == {W \in SUBSET Units : Total[S] <= Total[W]}
<1>1. Memory \in [Units -> Nat]
  BY PolicyAssumption
<1>2. S \in F
  BY TotalAddsUp
<1>3. ASSUME NEW W \in SUBSET T, W \in F, NEW x \in T \ W PROVE W \cup {x} \in F
  <2>1. W \in SUBSET Units /\ x \in Units /\ S \in SUBSET Units /\ W \cup {x} \in SUBSET Units
    OBVIOUS
  <2>2. Total[W \cup {x}] = Total[W] + Memory[x]
    BY <1>3, <2>1, TotalAddsUp
  <2> QED
    BY <1>1, <1>3, <2>1, <2>2, TotalAddsUp
<1> HIDE DEF F
<1>4. T \in F
  BY <1>2, <1>3, GrowTo
<1> QED
  BY <1>4 DEF F

\* Taking out a unit takes out its memory.
LEMMA TotalWithout ==
    ASSUME NEW T \in SUBSET Units, NEW u \in T
    PROVE  Total[T \ {u}] = Total[T] - Memory[u] /\ Memory[u] <= Total[T]
<1>1. T \ {u} \in SUBSET Units /\ u \in Units /\ (T \ {u}) \cup {u} = T /\ u \notin T \ {u}
  OBVIOUS
<1>2. Total[T] = Total[T \ {u}] + Memory[u] /\ Total[T \ {u}] \in Nat /\ Memory[u] \in Nat
  BY <1>1, TotalAddsUp, PolicyAssumption
<1> QED
  BY <1>2

-----------------------------------------------------------------------------
(* Resources *)

\* The running total is the declared memory of what is tracked.
TotalExact == runningMemory = Total[Tracked]

\* TotalExact is preserved: a start adds what the unit declares, and letting go
\* of it takes the same away, so that the subtraction never stops at 0.
LEMMA TotalStep == IndInv /\ TotalExact /\ [Next]_vars => TotalExact'
<1> SUFFICES ASSUME IndInv, TotalExact, [Next]_vars PROVE TotalExact'
  OBVIOUS
<1>1. TypeOK /\ Tracked \subseteq Units /\ futures \in [Units -> {"none", "pending"} \cup Answer]
  BY DEF IndInv, TypeOK, PoolTypeOK, Tracked
<1>2. CASE Decide
  <2>1. CASE UnchangedAccounts
    BY <2>1 DEF UnchangedAccounts, TotalExact, Tracked
  <2>2. ASSUME NEW u \in Units, Releases(u) PROVE TotalExact'
    <3>1. Tracked' = Tracked \ {u} /\ u \in Tracked
          /\ runningMemory' = IF runningMemory < Memory[u] THEN 0 ELSE runningMemory - Memory[u]
      BY <1>1, <2>2 DEF Releases, LetGo, Tracked
    <3>2. Total[Tracked \ {u}] = Total[Tracked] - Memory[u] /\ Memory[u] <= Total[Tracked]
      BY <1>1, <3>1, TotalWithout
    <3>3. Total[Tracked] \in Nat /\ Memory[u] \in Nat
      BY <1>1, TotalAddsUp, PolicyAssumption
    <3> QED
      BY <3>1, <3>2, <3>3 DEF TotalExact
  <2> QED
    BY <1>2, <2>1, <2>2, DecideCases DEF FindsNone, Starts, Settles, Recovers
<1>3. CASE WriteMove
  <2>1. CASE agenda[1].to = "RUNNING"
    <3>1. /\ Tracked' = Tracked \cup {cur} /\ cur \in Units /\ Handling
          /\ runningMemory' = runningMemory + Memory[cur]
      BY <1>1, <1>3, <2>1, HandOver, WriteMoveFrame DEF Tracked, WriteMove
    <3>2. cur \notin Tracked
      BY <3>1 DEF IndInv, TrackedRunning
    <3> QED
      BY <1>1, <3>1, <3>2, TotalAddsUp DEF TotalExact
  <2>2. CASE agenda[1].to # "RUNNING"
    <3>1. UNCHANGED <<futures, runningMemory>>
      BY <1>3, <2>2, WriteMoveFrame DEF WriteMove
    <3> QED
      BY <3>1 DEF TotalExact, Tracked
  <2> QED
    BY <2>1, <2>2
<1>4. CASE Falls
  BY <1>4, DownFrame, TotalAddsUp DEF TotalExact
<1>5. CASE Walk \/ Aside \/ Materialize \/ WriteAttempt
  <2>1. Tracked' = Tracked /\ runningMemory' = runningMemory
    BY <1>1, <1>5, WalkFrame, AsideFrame DEF Materialize, WriteAttempt, Tracked
  <2> QED
    BY <2>1 DEF TotalExact
<1> QED
  BY <1>2, <1>3, <1>4, <1>5, StepCases

\* The memory of what is RUNNING with declared memory is within the budget, or
\* one unit has it all: one that exceeds the budget by itself still runs.
WithinBudget ==
    MemoryBudget # 0 =>
        \/ Total[RunningWithMemory] <= MemoryBudget
        \/ \E u \in Units : RunningWithMemory \subseteq {u}

\* A unit becomes RUNNING only when a handler of submit_more hands it to the pool.
LEMMA RunningFrame ==
    ASSUME IndInv, [Next]_vars, NEW u \in Units, status'[u] = "RUNNING"
    PROVE  status[u] = "RUNNING" \/ (WriteMove /\ agenda[1].to = "RUNNING" /\ u = cur)
<1>1. status \in [Units -> UnitState] /\ TypeOK
  BY DEF IndInv, TypeOK, DbTypeOK
<1>2. CASE WriteMove
  BY <1>1, <1>2, WriteMoveFrame
<1>3. CASE OpWrite
  BY <1>1, <1>3 DEF OpWrite, UpdateStatus, TypeOK, OpTypeOK
<1>4. CASE Falls
  BY <1>4, DownFrame
<1>5. CASE Decide \/ Walk \/ Materialize \/ WriteAttempt \/ (Aside /\ ~OpWrite)
  BY <1>1, <1>5, DecideFrame, WalkFrame, AsideFrame DEF Materialize, WriteAttempt
<1> QED
  BY <1>2, <1>3, <1>4, <1>5, StepCases

\* What runs when a unit is handed over: nothing that excludes it, and what the total counts.
LEMMA AdmissionHolds ==
    ASSUME IndInv, AdmittedStays, FlagExact, TotalExact, RunningHeld, WriteMove, agenda[1].to = "RUNNING"
    PROVE  LET others == {w \in Units : status[w] = "RUNNING"} IN
           /\ cur \in Units /\ cur \notin others /\ others \subseteq Tracked
           /\ \A w \in others : w \notin Exclusive
           /\ cur \in Exclusive => others = {}
           /\ MemoryBudget # 0 /\ Memory[cur] # 0 /\ others # {}
                 => Total[Tracked] + Memory[cur] <= MemoryBudget
<1> DEFINE others == {w \in Units : status[w] = "RUNNING"}
<1>1. pc = "dispatch" /\ Handling /\ cur \in Units
      /\ <<status[cur], "RUNNING">> \in UNIT_TRANSITIONS /\ "RUNNING" \in UnitState
  BY HandOver, WriteMoveFrame, NamesTyped DEF WriteMove
<1>2. status \in [Units -> UnitState] /\ mem \in [Units -> UnitState]
  BY DEF IndInv, TypeOK, DbTypeOK, CoordTypeOK
<1>3. status[cur] = "READY"
  BY <1>1, <1>2, TableFacts
<1>4. \A w \in others : mem[w] = "RUNNING"
  BY <1>1 DEF IndInv, ViewAgrees
<1>5. others \subseteq Tracked
  BY <1>1, <1>3, <1>4 DEF RunningHeld
<1>6. Admissible(cur)
  BY <1>1 DEF AdmittedStays
<1>7. \A w \in others : w \notin Exclusive
  BY <1>5, <1>6 DEF Admissible, FlagExact
<1>8. others # {} => SomeRunning
  BY <1>4 DEF SomeRunning
<1>9. cur \notin others
  BY <1>3
<1>10. cur \in Exclusive => others = {}
  BY <1>6, <1>8 DEF Admissible
<1>11. MemoryBudget # 0 /\ Memory[cur] # 0 /\ others # {} => Total[Tracked] + Memory[cur] <= MemoryBudget
  <2>1. MemoryBudget \in Nat /\ Memory[cur] \in Nat /\ Total[Tracked] \in Nat
    BY <1>1, PolicyAssumption, TotalAddsUp DEF Tracked
  <2> QED
    BY <1>6, <1>8, <2>1 DEF Admissible, TotalExact
<1> QED
  BY <1>1, <1>5, <1>7, <1>9, <1>10, <1>11

\* ResourcesRespected and WithinBudget are preserved: what was admitted when the
\* unit was chosen still fits when it starts.
LEMMA ResourceStep ==
    IndInv /\ AdmittedStays /\ FlagExact /\ TotalExact /\ RunningHeld /\ ResourcesRespected /\ WithinBudget
        /\ [Next]_vars => ResourcesRespected' /\ WithinBudget'
<1> SUFFICES ASSUME IndInv, AdmittedStays, FlagExact, TotalExact, RunningHeld, ResourcesRespected, WithinBudget,
                    [Next]_vars
             PROVE  ResourcesRespected' /\ WithinBudget'
  OBVIOUS
<1> DEFINE others == {w \in Units : status[w] = "RUNNING"}
<1>1. status \in [Units -> UnitState] /\ Tracked \subseteq Units /\ Memory \in [Units -> Nat]
      /\ MemoryBudget \in Nat /\ RunningWithMemory \in SUBSET Units /\ RunningWithMemory' \in SUBSET Units
  BY PolicyAssumption DEF IndInv, TypeOK, DbTypeOK, Tracked, RunningWithMemory
<1>2. CASE WriteMove /\ agenda[1].to = "RUNNING"
  <2>1. /\ cur \in Units /\ cur \notin others /\ others \subseteq Tracked
        /\ \A w \in others : w \notin Exclusive
        /\ cur \in Exclusive => others = {}
        /\ MemoryBudget # 0 /\ Memory[cur] # 0 /\ others # {}
              => Total[Tracked] + Memory[cur] <= MemoryBudget
    BY <1>2, AdmissionHolds
  <2>2. status' = [status EXCEPT ![cur] = "RUNNING"]
    BY <1>2, WriteMoveFrame
  <2>3. \A u, w \in Units : status'[u] = "RUNNING" /\ u \in Exclusive /\ w # u => status'[w] # "RUNNING"
    BY <1>1, <2>1, <2>2 DEF ResourcesRespected
  <2>4. \A w \in others : Memory[w] <= Total[Tracked]
    BY <1>1, <2>1, TotalWithout
  <2>5. \A u, w \in RunningWithMemory' : u # w /\ MemoryBudget # 0 => Memory[u] + Memory[w] <= MemoryBudget
    <3> SUFFICES ASSUME NEW u \in RunningWithMemory', NEW w \in RunningWithMemory', u # w, MemoryBudget # 0
                 PROVE  Memory[u] + Memory[w] <= MemoryBudget
      OBVIOUS
    <3>1. u \in Units /\ w \in Units /\ Memory[u] # 0 /\ Memory[w] # 0
          /\ (u = cur \/ u \in others) /\ (w = cur \/ w \in others)
      BY <1>1, <2>2 DEF RunningWithMemory
    <3>2. CASE u = cur \/ w = cur
      BY <1>1, <2>1, <2>4, <3>1, <3>2, TotalAddsUp
    <3>3. CASE u # cur /\ w # cur
      BY <3>1, <3>3 DEF ResourcesRespected, RunningWithMemory
    <3> QED
      BY <3>2, <3>3
  <2>6. WithinBudget'
    <3>1. CASE Memory[cur] = 0
      <4>1. RunningWithMemory' = RunningWithMemory
        BY <1>1, <2>1, <2>2, <3>1 DEF RunningWithMemory
      <4> QED
        BY <4>1 DEF WithinBudget
    <3>2. CASE others = {}
      <4>1. RunningWithMemory' \subseteq {cur}
        BY <1>1, <2>2, <3>2 DEF RunningWithMemory
      <4> QED
        BY <2>1, <4>1 DEF WithinBudget
    <3>3. CASE Memory[cur] # 0 /\ others # {}
      <4>1. RunningWithMemory' = RunningWithMemory \cup {cur} /\ cur \notin RunningWithMemory
            /\ RunningWithMemory \in SUBSET Tracked
        BY <1>1, <2>1, <2>2, <3>3 DEF RunningWithMemory
      <4>2. Total[RunningWithMemory'] = Total[RunningWithMemory] + Memory[cur]
        BY <1>1, <2>1, <4>1, TotalAddsUp
      <4>3. Total[RunningWithMemory] <= Total[Tracked]
        BY <1>1, <4>1, TotalGrows
      <4>4. Total[RunningWithMemory] \in Nat /\ Total[Tracked] \in Nat /\ Memory[cur] \in Nat
        BY <1>1, <2>1, TotalAddsUp
      <4> QED
        BY <1>1, <2>1, <3>3, <4>2, <4>3, <4>4 DEF WithinBudget
    <3> QED
      BY <3>1, <3>2, <3>3
  <2> QED
    BY <2>3, <2>5, <2>6 DEF ResourcesRespected
<1>3. CASE ~(WriteMove /\ agenda[1].to = "RUNNING")
  <2>1. \A u \in Units : status'[u] = "RUNNING" => status[u] = "RUNNING"
    BY <1>3, RunningFrame
  <2>2. RunningWithMemory' \in SUBSET RunningWithMemory
    BY <2>1 DEF RunningWithMemory
  <2>3. Total[RunningWithMemory'] <= Total[RunningWithMemory]
    BY <1>1, <2>2, TotalGrows
  <2>4. Total[RunningWithMemory'] \in Nat /\ Total[RunningWithMemory] \in Nat
    BY <1>1, TotalAddsUp
  <2>5. WithinBudget'
    BY <1>1, <2>2, <2>3, <2>4 DEF WithinBudget
  <2>6. ResourcesRespected'
    BY <2>1, <2>2 DEF ResourcesRespected
  <2> QED
    BY <2>5, <2>6
<1> QED
  BY <1>2, <1>3

-----------------------------------------------------------------------------
(* What is left when the loop is left *)

\* DepsDone of a unit outlives every step that leaves the run going.
LEMMA DoneStays ==
    ASSUME IndInv, [Next]_vars, pc # "down", pc' # "down", NEW u \in Units, DepsDone(u)
    PROVE  DepsDone(u)'
<1>1. mem \in [Units -> UnitState] /\ status \in [Units -> UnitState] /\ TypeOK
      /\ \A d \in Deps[u] : d \in Units /\ mem[d] = "SUCCEEDED"
  BY PlanAssumption DEF IndInv, TypeOK, DbTypeOK, CoordTypeOK, DepsDone
<1>2. CASE WriteMove
  <2>1. mem[cur] # "SUCCEEDED"
    BY <1>1, <1>2, WriteMoveFrame, TableFacts, SucceededKnown
  <2> QED
    BY <1>1, <1>2, <2>1, WriteMoveFrame DEF DepsDone
<1>3. CASE Falls \/ Materialize
  BY <1>3, DownFrame DEF Materialize
<1>4. CASE Decide \/ Walk \/ Aside \/ WriteAttempt
  <2>1. UNCHANGED mem
    BY <1>1, <1>4, DecideFrame, WalkFrame, AsideFrame DEF WriteAttempt
  <2> QED
    BY <1>1, <2>1 DEF DepsDone
<1> QED
  BY <1>2, <1>3, <1>4, StepCases

\* MemoryOrdered is preserved: as in the database, so in the coordinator's memory.
LEMMA OrderedStep == IndInv /\ MemoryOrdered /\ [Next]_vars => MemoryOrdered'
<1> SUFFICES ASSUME IndInv, MemoryOrdered, [Next]_vars, pc' # "down",
                    NEW u \in Units, mem'[u] \in ArmedStates
             PROVE  DepsDone(u)'
  BY DEF MemoryOrdered
<1>1. mem \in [Units -> UnitState] /\ status \in [Units -> UnitState] /\ TypeOK
  BY DEF IndInv, TypeOK, DbTypeOK, CoordTypeOK
<1>2. CASE Materialize
  BY <1>2 DEF Materialize, IndInv, DepsSucceeded, DepsDone
<1>3. CASE Falls
  BY <1>3, DownFrame
<1>4. CASE pc = "down" /\ ~Materialize
  <2>1. ~Decide /\ ~Walk
    BY <1>4, DecideFrame, WalkFrame
  <2>2. ~WriteAttempt /\ ~WriteMove
    BY <1>4 DEF IndInv, AgendaJustified, WriteAttempt, WriteMove
  <2>3. pc' = "down" \/ Falls
    BY <1>1, <1>4, <2>1, <2>2, AsideFrame, StepCases
  <2> QED
    BY <2>3, <1>3
<1>5. CASE pc # "down" /\ WriteMove
  <2>1. mem[u] \in ArmedStates \/ (u = cur /\ agenda[1].to = "READY")
    <3>1. <<mem[cur], agenda[1].to>> \in UNIT_TRANSITIONS /\ agenda[1].to \in UnitState /\ cur \in Units
      BY <1>5, WriteMoveFrame DEF WriteMove, WriteRefused
    <3> QED
      BY <1>1, <1>5, <3>1, WriteMoveFrame, TableFacts
  <2>2. agenda[1].to = "READY" => DepsDone(cur)
    BY <1>5, WriteMoveFrame DEF IndInv, AgendaJustified, WriteMove
  <2> QED
    BY <1>5, <2>1, <2>2, DoneStays DEF MemoryOrdered
<1>6. CASE pc # "down" /\ (Decide \/ Walk \/ Aside \/ WriteAttempt)
  <2>1. UNCHANGED mem
    BY <1>1, <1>6, DecideFrame, WalkFrame, AsideFrame DEF WriteAttempt
  <2> QED
    BY <1>6, <2>1, DoneStays DEF MemoryOrdered
<1> QED
  BY <1>2, <1>3, <1>4, <1>5, <1>6, StepCases

\* BlockedSettled is preserved: starting units neither blocks one nor completes one.
LEMMA SettledStep == IndInv /\ AdmittedStays /\ BlockedSettled /\ [Next]_vars => BlockedSettled'
<1> SUFFICES ASSUME IndInv, AdmittedStays, BlockedSettled, [Next]_vars, pc' \in {"submit", "dispatch"},
                    NEW u \in Units, mem'[u] = "BLOCKED", DepsDone(u)'
             PROVE  FALSE
  BY DEF BlockedSettled
<1>1. mem \in [Units -> UnitState] /\ status \in [Units -> UnitState] /\ TypeOK /\ AgendaJustified
      /\ \A d \in Deps[u] : d \in Units
  BY PlanAssumption DEF IndInv, TypeOK, DbTypeOK, CoordTypeOK
<1>2. CASE Decide
  <2>1. UNCHANGED mem
    BY <1>2, DecideFrame
  <2> QED
    BY <1>2, <2>1, DecideCases
       DEF FindsNone, Starts, Settles, Recovers, Releases, BlockedSettled, DepsDone, AwaitOrLeave
<1>3. CASE Walk
  BY <1>3, WalkFrame DEF Walk, BeginRun, Submit, WakeAnswered, WakeExpired, ReadClock, Expired,
                         BlockedSettled, DepsDone
<1>4. CASE WriteMove
  <2>1. pc = "dispatch" /\ cur \in Units /\ Handling /\ mem' = [mem EXCEPT ![cur] = agenda[1].to]
    BY <1>1, <1>4, WriteMoveFrame DEF WriteMove, AgendaJustified
  <2>2. DepsDone(cur) \/ agenda[1].to \notin {"READY", "RUNNING"}
    BY <1>1, <1>4, <2>1, WriteMoveFrame DEF AgendaJustified
  <2>3. <<mem[cur], agenda[1].to>> \in UNIT_TRANSITIONS /\ agenda[1].to \in UnitState
    BY <1>4, WriteMoveFrame DEF WriteMove, WriteRefused
  <2>4. CASE u = cur
    <3>1. agenda[1].to = "BLOCKED"
      BY <1>1, <2>1, <2>4
    <3>2. Stuck(cur)
      BY <1>1, <1>4, <2>1, <3>1, WriteMoveFrame DEF AgendaJustified
    <3>3. PICK d \in Deps[cur] : mem[d] \in BLOCKING_STATES
      BY <3>2 DEF Stuck
    <3>4. d # cur /\ d \in Units
      BY <2>1, <3>3, PlanAssumption
    <3> QED
      BY <1>1, <2>1, <2>4, <3>3, <3>4, TableFacts DEF DepsDone
  <2>5. CASE u # cur
    <3>1. mem[u] = "BLOCKED" /\ ~DepsDone(u)
      BY <1>1, <2>1, <2>5 DEF BlockedSettled
    <3>2. PICK d \in Deps[u] : mem[d] # "SUCCEEDED"
      BY <3>1 DEF DepsDone
    <3>3. d = cur /\ agenda[1].to = "SUCCEEDED"
      BY <1>1, <2>1, <3>2 DEF DepsDone
    <3>4. mem[cur] = "RUNNING"
      BY <1>1, <2>1, <2>3, <3>3, TableFacts, NamesTyped
    <3> QED
      BY <2>1, <3>4 DEF AdmittedStays
  <2> QED
    BY <2>4, <2>5
<1>5. CASE Falls \/ Materialize
  BY <1>5, DownFrame DEF Materialize
<1>6. CASE Aside \/ WriteAttempt
  <2>1. UNCHANGED <<mem, pc>>
    BY <1>1, <1>6, AsideFrame DEF WriteAttempt
  <2> QED
    BY <2>1 DEF BlockedSettled, DepsDone
<1> QED
  BY <1>2, <1>3, <1>4, <1>5, <1>6, StepCases


\* CancelSeen is preserved: the event is never cleared while a run goes on.
LEMMA CancelStep == IndInv /\ CancelSeen /\ [Next]_vars => CancelSeen'
<1> SUFFICES ASSUME IndInv, CancelSeen, [Next]_vars, pc' = "cancel" PROVE cancelEvent'
  BY DEF CancelSeen
<1>1. TypeOK
  BY DEF IndInv
<1>2. CASE Decide
  BY <1>2, DecideCases, DecideFrame
     DEF FindsNone, Starts, Settles, Recovers, Releases, AwaitOrLeave, CancelSeen
<1>3. CASE Walk
  BY <1>3 DEF Walk, BeginRun, Submit, WakeAnswered, WakeExpired, ReadClock, Expired, AwaitOrLeave
<1>4. CASE Falls \/ Materialize
  BY <1>4, DownFrame DEF Materialize
<1>5. CASE WriteAttempt \/ WriteMove
  BY <1>5 DEF WriteAttempt, WriteMove, CancelSeen
<1>6. CASE Aside
  BY <1>1, <1>6, AsideFrame DEF CancelSeen
<1> QED
  BY <1>2, <1>3, <1>4, <1>5, <1>6, StepCases

\* WorkConserving is preserved: waiting begins when no admissible candidate is
\* left or no worker is, and while it lasts neither comes back.
LEMMA ConservingStep == IndInv /\ WorkConserving /\ [Next]_vars => WorkConserving'
<1> SUFFICES ASSUME IndInv, WorkConserving, [Next]_vars,
                    pc' = "wait", ~cancelEvent', Cardinality(Tracked') < MaxWorkers,
                    NEW u \in Units, Candidate(u)'
             PROVE  ~Admissible(u)'
  BY DEF WorkConserving
<1>1. TypeOK
  BY DEF IndInv
<1>2. CASE Decide
  <2>1. FindsNone /\ pc = "dispatch" /\ UNCHANGED mem
    BY <1>2, DecideCases, DecideFrame DEF FindsNone, Starts, Settles, Recovers, Releases
  <2>2. Tracked' = Tracked /\ UNCHANGED <<runningMemory, runningExclusive>>
    BY <2>1 DEF FindsNone, UnchangedAccounts, Tracked
  <2>3. u \notin Ready
    BY <2>1, <2>2 DEF FindsNone
  <2> QED
    BY <2>1, <2>2, <2>3 DEF Ready, Candidate, Admissible, DepsDone, SomeRunning
<1>3. CASE Walk
  BY <1>3 DEF Walk, BeginRun, Submit, WakeAnswered, WakeExpired, ReadClock, Expired, AwaitOrLeave
<1>4. CASE Falls \/ Materialize
  BY <1>4, DownFrame DEF Materialize
<1>5. CASE WriteAttempt \/ WriteMove
  BY <1>5 DEF WriteAttempt, WriteMove, IndInv, AgendaJustified
<1>6. CASE Aside
  <2>1. UNCHANGED <<pc, mem, runningMemory, runningExclusive>> /\ Tracked' = Tracked /\ ~cancelEvent
    BY <1>1, <1>6, AsideFrame
  <2> QED
    BY <2>1 DEF WorkConserving, Candidate, Admissible, DepsDone, SomeRunning
<1> QED
  BY <1>2, <1>3, <1>4, <1>5, <1>6, StepCases

\* SKIPPED is a state of the table that nothing in the scheduler moves a unit to.
NoneSkipped == \A u \in Units : status[u] # "SKIPPED" /\ mem[u] # "SKIPPED"

\* NoneSkipped is preserved: nothing the engine writes is SKIPPED.
LEMMA SkippedStep == IndInv /\ NoneSkipped /\ [Next]_vars => NoneSkipped'
<1> SUFFICES ASSUME IndInv, NoneSkipped, [Next]_vars, NEW u \in Units
             PROVE  status'[u] # "SKIPPED" /\ mem'[u] # "SKIPPED"
  BY DEF NoneSkipped
<1>1. TypeOK /\ status \in [Units -> UnitState] /\ mem \in [Units -> UnitState]
  BY DEF IndInv, TypeOK, DbTypeOK, CoordTypeOK
<1>2. CASE WriteMove
  BY <1>1, <1>2, WriteMoveFrame DEF NoneSkipped
<1>3. CASE OpWrite
  BY <1>1, <1>3 DEF OpWrite, UpdateStatus, TypeOK, OpTypeOK, NoneSkipped
<1>4. CASE Falls
  BY <1>4, FallsFrame DEF GoDown, AllPlanned, NoneSkipped
<1>5. CASE Materialize
  BY <1>5 DEF Materialize, NoneSkipped
<1>6. CASE Decide \/ Walk \/ WriteAttempt \/ (Aside /\ ~OpWrite)
  BY <1>1, <1>6, DecideFrame, WalkFrame, AsideFrame DEF WriteAttempt, NoneSkipped
<1> QED
  BY <1>2, <1>3, <1>4, <1>5, <1>6, StepCases

\* CourseInv is preserved, part by part.
LEMMA CourseStep == IndInv /\ CourseInv /\ [Next]_vars => CourseInv'
  BY ShapeStep, HeldStep, AdmittedStep, FlagStep, OrderedStep, SettledStep, CancelStep DEF CourseInv

\* CourseInv holds before the first run.
LEMMA CourseInit == Init => CourseInv
  BY DEF Init, CoordInit, CourseInv, AgendaShaped, RunningHeld, AdmittedStays, FlagExact, MemoryOrdered,
         BlockedSettled, CancelSeen, Handling, Tracked

\* NoStrandedUnit is preserved: a run that nobody cancelled is left with nothing
\* running, so that every candidate would have been admissible.
LEMMA StrandedStep == IndInv /\ CourseInv /\ NoStrandedUnit /\ [Next]_vars => NoStrandedUnit'
<1> SUFFICES ASSUME IndInv, CourseInv, NoStrandedUnit, [Next]_vars, pc' = "close", ~cancelEvent',
                    NEW u \in Units
             PROVE  /\ mem'[u] \notin {"READY", "RUNNING", "RETRY_PENDING"}
                    /\ mem'[u] \in {"PLANNED", "BLOCKED"} => \E d \in Deps[u] : mem'[d] # "SUCCEEDED"
  BY DEF NoStrandedUnit
<1>1. TypeOK /\ mem \in [Units -> UnitState]
  BY DEF IndInv, TypeOK, CoordTypeOK
<1>2. CASE Decide
  <2>1. UNCHANGED <<mem, cancelEvent>> /\ ~Handling
    BY <1>2, DecideFrame
  <2>2. FindsNone /\ pc = "dispatch" /\ AwaitOrLeave = "close"
    BY <1>2, <2>1, DecideCases
       DEF FindsNone, Starts, Settles, Recovers, Releases, CourseInv, CancelSeen
  <2>3. Tracked = {}
    BY <2>2 DEF AwaitOrLeave
  <2>4. Cardinality(Tracked) < MaxWorkers
    BY <2>3, FS_EmptySet, PolicyAssumption
  <2>5. Ready = {}
    BY <2>2, <2>4 DEF FindsNone
  <2>6. \A w \in Units : mem[w] # "RUNNING"
    BY <2>1, <2>2, <2>3 DEF CourseInv, RunningHeld
  <2>7. ~runningExclusive /\ ~SomeRunning
    BY <2>3, <2>6 DEF CourseInv, FlagExact, SomeRunning
  <2>8. ~Candidate(u)
    BY <2>5, <2>7 DEF Ready, Admissible
  <2>9. mem[u] \in {"READY", "RETRY_PENDING"} => DepsDone(u)
    BY <2>2 DEF CourseInv, MemoryOrdered, ArmedStates
  <2>10. mem[u] = "BLOCKED" => ~DepsDone(u)
    BY <2>2 DEF CourseInv, BlockedSettled
  <2> QED
    BY <2>1, <2>6, <2>8, <2>9, <2>10 DEF Candidate, DepsDone
<1>3. CASE Walk
  <2>1. Submit /\ cancelEvent
    BY <1>3 DEF Walk, BeginRun, Submit, WakeAnswered, WakeExpired, ReadClock, Expired, AwaitOrLeave
  <2> QED
    BY <2>1 DEF Submit
<1>4. CASE Falls \/ Materialize
  BY <1>4, DownFrame DEF Materialize
<1>5. CASE WriteAttempt \/ WriteMove
  BY <1>5 DEF WriteAttempt, WriteMove, IndInv, AgendaJustified
<1>6. CASE Aside
  <2>1. UNCHANGED <<pc, mem>> /\ ~cancelEvent
    BY <1>1, <1>6, AsideFrame
  <2> QED
    BY <2>1 DEF NoStrandedUnit
<1> QED
  BY <1>2, <1>3, <1>4, <1>5, <1>6, StepCases

\* A run is closed COMPLETED on what NoStrandedUnit says of the coordinator's
\* memory, which the database bears out but for what an operator cancelled.
LEMMA CompletedStep ==
    ASSUME IndInv, NoneSkipped, NoStrandedUnit, [Next]_vars, NEW n \in DOMAIN runs, runs[n] = "RUNNING",
           runs'[n] = "COMPLETED", NEW u \in Units
    PROVE  \/ status[u] \in {"SUCCEEDED", "CANCELLED"}
           \/ status[u] \in {"PLANNED", "BLOCKED"} /\ \E d \in Deps[u] : status[d] # "SUCCEEDED"
<1>1. TypeOK /\ ViewAgrees /\ mem \in [Units -> UnitState] /\ runs \in Seq(RunState)
  BY DEF IndInv, TypeOK, CoordTypeOK, DbTypeOK
<1>2. Close /\ Verdict = "COMPLETED"
  <2>1. CASE Close
    <3>1. runs' = [runs EXCEPT ![Len(runs)] = Verdict]
      BY <2>1 DEF Close, UpdateRun
    <3> QED
      BY <1>1, <2>1, <3>1
  <2>2. CASE BeginRun
    <3>1. runs' = Append(runs, "RUNNING") /\ "RUNNING" \in RunState
      BY <2>2, NamesTyped DEF BeginRun
    <3>2. runs'[n] = runs[n]
      BY <1>1, <3>1, AppendProperties, LenProperties
    <3> QED
      BY <3>2
  <2>3. CASE OpEnd
    <3>1. runs' = runs \/ runs' = [runs EXCEPT ![opRun.seq] = "CANCELLED"]
      BY <2>3 DEF OpEnd, UpdateRun
    <3> QED
      BY <1>1, <3>1
  <2>4. CASE Decide \/ Materialize \/ WriteAttempt \/ WriteMove \/ Refused \/ Crash \/ UNCHANGED vars
    BY <2>4 DEF Decide, Recover, Propagate, Dispatch, CancelOpen, Finish, Expire, Materialize, WriteAttempt,
                WriteMove, Refused, Crash, vars
  <2>5. CASE Walk /\ ~BeginRun
    BY <2>5 DEF Walk, Submit, WakeAnswered, WakeExpired, ReadClock, Expired
  <2>6. CASE Aside /\ ~OpEnd
    BY <2>6 DEF Aside, SetCancelEvent, ThreadTakes, ThreadAnswers, CancelCommand, RetryCommand, OpRead, OpNext,
                OpWrite, OpRefused, vars
  <2> QED
    BY <2>1, <2>2, <2>3, <2>4, <2>5, <2>6, StepCases DEF Falls
<1>3. pc = "close" /\ ~cancelEvent /\ \A w \in Units : mem[w] \notin {"FAILED", "TIMED_OUT"}
  BY <1>2 DEF Close, Verdict
<1>4. /\ mem[u] \notin {"READY", "RUNNING", "RETRY_PENDING"}
      /\ mem[u] \in {"PLANNED", "BLOCKED"} => \E d \in Deps[u] : mem[d] # "SUCCEEDED"
  BY <1>3 DEF NoStrandedUnit
<1>5. \A d \in Deps[u] : mem[d] # "SUCCEEDED" => status[d] # "SUCCEEDED"
  BY <1>1, <1>3, PlanAssumption DEF ViewAgrees
<1>6. status[u] = mem[u] \/ status[u] = "CANCELLED"
  BY <1>1, <1>3 DEF ViewAgrees, RetryableStates
<1>7. mem[u] # "SKIPPED"
  BY DEF NoneSkipped
<1> QED
  BY <1>1, <1>3, <1>4, <1>5, <1>6, <1>7 DEF UnitState

-----------------------------------------------------------------------------
(* Counting records *)

\* The records of s that are in K.
Count(s, K) == Cardinality({i \in DOMAIN s : s[i] \in K})

\* Adding a record counts it when it is in K.
LEMMA CountAppend ==
    ASSUME NEW S, NEW s \in Seq(S), NEW e \in S, NEW K
    PROVE  Count(s, K) \in Nat /\ Count(Append(s, e), K) = Count(s, K) + One(e \in K)
<1> DEFINE A == {i \in 1 .. Len(s) : s[i] \in K}
           B == {i \in 1 .. Len(s) + 1 : Append(s, e)[i] \in K}
<1>1. Len(s) \in Nat /\ DOMAIN s = 1 .. Len(s) /\ DOMAIN Append(s, e) = 1 .. Len(s) + 1
      /\ \A i \in 1 .. Len(s) : Append(s, e)[i] = s[i]
      /\ Append(s, e)[Len(s) + 1] = e
  BY AppendProperties, LenProperties
<1>2. IsFiniteSet(A) /\ Cardinality(A) \in Nat
  <2>1. IsFiniteSet(1 .. Len(s)) /\ A \subseteq 1 .. Len(s)
    BY <1>1, FS_Interval
  <2> QED
    BY <2>1, FS_Subset, FS_CardinalityType
<1>5. Count(s, K) = Cardinality(A) /\ Count(Append(s, e), K) = Cardinality(B)
  BY <1>1 DEF Count
<1>3. CASE e \in K
  <2>1. B = A \cup {Len(s) + 1} /\ Len(s) + 1 \notin A
    BY <1>1, <1>3
  <2>2. Cardinality(B) = Cardinality(A) + 1
    BY <1>2, <2>1, FS_AddElement
  <2> HIDE DEF A, B
  <2> QED
    BY <1>2, <1>3, <1>5, <2>2 DEF One
<1>4. CASE e \notin K
  <2>1. B = A
    BY <1>1, <1>4
  <2> HIDE DEF A, B
  <2> QED
    BY <1>2, <1>4, <1>5, <2>1 DEF One
<1> QED
  BY <1>3, <1>4

\* A record is in K or in the rest.
LEMMA CountSplit ==
    ASSUME NEW S, NEW s \in Seq(S), NEW K
    PROVE  Count(s, K) + Count(s, S \ K) = Len(s)
<1> DEFINE A == {i \in 1 .. Len(s) : s[i] \in K}
           B == {i \in 1 .. Len(s) : s[i] \in S \ K}
<1>1. Len(s) \in Nat /\ DOMAIN s = 1 .. Len(s) /\ \A i \in 1 .. Len(s) : s[i] \in S
  BY LenProperties, ElementOfSeq
<1>2. A \cup B = 1 .. Len(s) /\ A \cap B = {}
  BY <1>1
<1>3. IsFiniteSet(1 .. Len(s)) /\ Cardinality(1 .. Len(s)) = Len(s)
  <2>1. 1 \in Int /\ Len(s) \in Int
    BY <1>1
  <2>2. IsFiniteSet(1 .. Len(s)) /\ Cardinality(1 .. Len(s)) = IF 1 > Len(s) THEN 0 ELSE Len(s) - 1 + 1
    BY <2>1, FS_Interval
  <2> QED
    BY <1>1, <2>2
<1>4. IsFiniteSet(A) /\ IsFiniteSet(B)
  BY <1>2, <1>3, FS_Subset
<1>5. Cardinality(A \cup B) = Cardinality(A) + Cardinality(B) - Cardinality(A \cap B)
      /\ Cardinality(A) \in Nat /\ Cardinality(B) \in Nat
  BY <1>4, FS_Union, FS_CardinalityType
<1>6. Cardinality(A \cap B) = 0
  BY <1>2, FS_EmptySet
<1>7. Count(s, K) = Cardinality(A) /\ Count(s, S \ K) = Cardinality(B)
  BY <1>1 DEF Count
<1>8. Cardinality(A \cup B) = Len(s)
  BY <1>2, <1>3
<1> HIDE DEF A, B
<1> QED
  BY <1>1, <1>5, <1>6, <1>7, <1>8

OfDispatch == {a \in Attempt : a.cause # "Interrupted"}
OfRecovery == {a \in Attempt : a.cause = "Interrupted"}
OfSuccess == {a \in Attempt : a.outcome = "SUCCEEDED"}
ToRunning == {t \in Transition : t.to = "RUNNING"}

\* The counts of one unit's rows are counts of records of these kinds.
LEMMA CountsOf ==
    ASSUME NEW a \in Seq(Attempt), NEW l \in Seq(Transition)
    PROVE  /\ Cardinality({i \in DOMAIN a : a[i].cause # "Interrupted"}) = Count(a, OfDispatch)
           /\ Cardinality({i \in DOMAIN a : a[i].cause = "Interrupted"}) = Count(a, OfRecovery)
           /\ Cardinality({i \in DOMAIN a : a[i].outcome = "SUCCEEDED"}) = Count(a, OfSuccess)
           /\ Cardinality({i \in DOMAIN l : l[i].to = "RUNNING"}) = Count(l, ToRunning)
           /\ Count(a, OfDispatch) + Count(a, OfRecovery) = Len(a)
           /\ Count(a, OfDispatch) \in Nat /\ Count(a, OfRecovery) \in Nat
           /\ Count(a, OfSuccess) \in Nat /\ Count(l, ToRunning) \in Nat
<1>1. /\ \A i \in DOMAIN a : a[i] \in Attempt
      /\ \A i \in DOMAIN l : l[i] \in Transition
  BY ElementOfSeq, LenProperties
<1>2. /\ {i \in DOMAIN a : a[i].cause # "Interrupted"} = {i \in DOMAIN a : a[i] \in OfDispatch}
      /\ {i \in DOMAIN a : a[i].cause = "Interrupted"} = {i \in DOMAIN a : a[i] \in OfRecovery}
      /\ {i \in DOMAIN a : a[i].outcome = "SUCCEEDED"} = {i \in DOMAIN a : a[i] \in OfSuccess}
  BY <1>1 DEF OfDispatch, OfRecovery, OfSuccess
<1>3. {i \in DOMAIN l : l[i].to = "RUNNING"} = {i \in DOMAIN l : l[i] \in ToRunning}
  BY <1>1 DEF ToRunning
<1>4. OfDispatch = Attempt \ OfRecovery
  BY DEF OfDispatch, OfRecovery
<1>5. Count(a, OfRecovery) + Count(a, OfDispatch) = Len(a)
  BY <1>4, CountSplit
<1>6. Count(a, OfDispatch) \in Nat /\ Count(a, OfRecovery) \in Nat /\ Count(a, OfSuccess) \in Nat
  <2>1. [outcome |-> "FAILED", cause |-> "OK"] \in Attempt
    BY NamesTyped DEF Attempt
  <2> QED
    BY <2>1, CountAppend
<1>7. Count(l, ToRunning) \in Nat
  <2>1. [run |-> 0, seq |-> 0, from |-> "READY", to |-> "READY"] \in Transition
    BY NamesTyped DEF Transition
  <2> QED
    BY <2>1, CountAppend
<1>8. Count(a, OfDispatch) + Count(a, OfRecovery) = Len(a)
  BY <1>5, <1>6
<1> QED
  BY <1>2, <1>3, <1>6, <1>7, <1>8 DEF Count

\* The counts the accounts are made of.
LEMMA CountsAre ==
    ASSUME TypeOK, NEW u \in Units
    PROVE  /\ attempts[u] \in Seq(Attempt) /\ log[u] \in Seq(Transition)
           /\ Dispatched(u) = Count(attempts[u], OfDispatch)
           /\ Interrupted(u) = Count(attempts[u], OfRecovery)
           /\ Successes(u) = Count(attempts[u], OfSuccess)
           /\ Launches(u) = Count(log[u], ToRunning)
           /\ Dispatched(u) + Interrupted(u) = Len(attempts[u])
           /\ Dispatched(u) \in Nat /\ Interrupted(u) \in Nat /\ Successes(u) \in Nat /\ Launches(u) \in Nat
<1>1. attempts[u] \in Seq(Attempt) /\ log[u] \in Seq(Transition)
  BY DEF TypeOK, DbTypeOK
<1> QED
  BY <1>1, CountsOf DEF Dispatched, Interrupted, Successes, Launches

\* The same of the counts after a step.
LEMMA CountsAreNext ==
    ASSUME TypeOK', NEW u \in Units
    PROVE  /\ attempts'[u] \in Seq(Attempt) /\ log'[u] \in Seq(Transition)
           /\ Dispatched(u)' = Count(attempts'[u], OfDispatch)
           /\ Interrupted(u)' = Count(attempts'[u], OfRecovery)
           /\ Successes(u)' = Count(attempts'[u], OfSuccess)
           /\ Launches(u)' = Count(log'[u], ToRunning)
           /\ Dispatched(u)' + Interrupted(u)' = Len(attempts'[u])
           /\ Dispatched(u)' \in Nat /\ Interrupted(u)' \in Nat /\ Successes(u)' \in Nat /\ Launches(u)' \in Nat
<1>1. attempts'[u] \in Seq(Attempt) /\ log'[u] \in Seq(Transition)
  BY DEF TypeOK, DbTypeOK
<1> QED
  BY <1>1, CountsOf DEF Dispatched, Interrupted, Successes, Launches

\* What recording an attempt does to them.
LEMMA AttemptCounted ==
    ASSUME IndInv, WriteAttempt, NEW u \in Units
    PROVE  /\ u # cur => attempts'[u] = attempts[u]
           /\ Dispatched(u)' = Dispatched(u) + One(u = cur /\ agenda[1].cause # "Interrupted")
           /\ Interrupted(u)' = Interrupted(u) + One(u = cur /\ agenda[1].cause = "Interrupted")
           /\ Successes(u)' = Successes(u) + One(u = cur /\ agenda[1].to = "SUCCEEDED")
<1> DEFINE row == [outcome |-> agenda[1].to, cause |-> agenda[1].cause]
<1>1. TypeOK /\ TypeOK' /\ cur \in Units /\ Handling
  <2>1. TypeOK /\ TypeOK'
    BY WriteTyped DEF IndInv
  <2> QED
    BY <2>1 DEF WriteAttempt, TypeOK, CoordTypeOK, Handling
<1>2. agenda[1] = Head(agenda)
  BY <1>1, TailShift
<1>3. row \in Attempt
  <2>1. agenda[1] \in Write
    BY <1>1, <1>2, HeadTailProperties DEF TypeOK, CoordTypeOK, Handling
  <2> QED
    BY <1>2, <2>1 DEF WriteAttempt, Write, Attempt
<1>4. attempts' = [attempts EXCEPT ![cur] = Append(@, row)]
  BY <1>2 DEF WriteAttempt, AddAttempt
<1>5. attempts \in [Units -> Seq(Attempt)]
  BY <1>1 DEF TypeOK, DbTypeOK
<1>6. row.outcome = agenda[1].to /\ row.cause = agenda[1].cause
  OBVIOUS
<1> HIDE DEF row
<1>7. CASE u = cur
  <2>1. attempts'[u] = Append(attempts[u], row) /\ attempts[u] \in Seq(Attempt)
    BY <1>4, <1>5, <1>7
  <2>2. \A K : Count(attempts'[u], K) = Count(attempts[u], K) + One(row \in K)
    BY <1>3, <2>1, CountAppend
  <2>3. /\ row \in OfDispatch <=> u = cur /\ agenda[1].cause # "Interrupted"
        /\ row \in OfRecovery <=> u = cur /\ agenda[1].cause = "Interrupted"
        /\ row \in OfSuccess <=> u = cur /\ agenda[1].to = "SUCCEEDED"
    BY <1>3, <1>6, <1>7 DEF OfDispatch, OfRecovery, OfSuccess
  <2>4. /\ Dispatched(u)' = Count(attempts'[u], OfDispatch)
        /\ Interrupted(u)' = Count(attempts'[u], OfRecovery)
        /\ Successes(u)' = Count(attempts'[u], OfSuccess)
    BY <1>1, CountsAreNext
  <2>5. /\ Dispatched(u) = Count(attempts[u], OfDispatch)
        /\ Interrupted(u) = Count(attempts[u], OfRecovery)
        /\ Successes(u) = Count(attempts[u], OfSuccess)
    BY <1>1, CountsAre
  <2> QED
    BY <1>7, <2>2, <2>3, <2>4, <2>5 DEF One
<1>8. CASE u # cur
  <2>1. attempts'[u] = attempts[u]
    BY <1>4, <1>5, <1>8
  <2>2. Dispatched(u)' = Dispatched(u) /\ Interrupted(u)' = Interrupted(u) /\ Successes(u)' = Successes(u)
    BY <2>1 DEF Dispatched, Interrupted, Successes
  <2>3. Dispatched(u) \in Nat /\ Interrupted(u) \in Nat /\ Successes(u) \in Nat
    BY <1>1, CountsAre
  <2> QED
    BY <1>8, <2>1, <2>2, <2>3 DEF One
<1> QED
  BY <1>7, <1>8

\* What a step that records no attempt does to them, and one that writes a transition.
LEMMA CountsFrame ==
    ASSUME IndInv, [Next]_vars, NEW u \in Units
    PROVE  /\ ~WriteAttempt => /\ UNCHANGED attempts /\ Dispatched(u)' = Dispatched(u)
                               /\ Interrupted(u)' = Interrupted(u) /\ Successes(u)' = Successes(u)
           /\ Launches(u)' = Launches(u) + One(WriteMove /\ u = cur /\ agenda[1].to = "RUNNING")
<1>1. TypeOK /\ TypeOK'
  BY TypeStep DEF IndInv
<1>2. ~WriteAttempt => /\ UNCHANGED attempts /\ Dispatched(u)' = Dispatched(u)
                       /\ Interrupted(u)' = Interrupted(u) /\ Successes(u)' = Successes(u)
  BY EvidenceFrame DEF Dispatched, Interrupted, Successes
<1>7. Launches(u) \in Nat /\ (log'[u] = log[u] => Launches(u)' = Launches(u) + 0)
  <2>1. Launches(u) \in Nat
    BY <1>1, CountsAre
  <2> QED
    BY <2>1 DEF Launches
<1>3. ASSUME NEW who \in Units, NEW row, log' = [log EXCEPT ![who] = Append(@, row)]
      PROVE  Launches(u)' = Launches(u) + One(u = who /\ row.to = "RUNNING")
  <2>1. log \in [Units -> Seq(Transition)] /\ log' \in [Units -> Seq(Transition)]
    BY <1>1 DEF TypeOK, DbTypeOK
  <2>2. CASE u = who
    <3>1. log'[u] = Append(log[u], row) /\ log[u] \in Seq(Transition) /\ log'[u] \in Seq(Transition)
      BY <1>3, <2>1, <2>2
    <3>2. row \in Transition
      <4>1. Append(log[u], row)[Len(log[u]) + 1] = row /\ Len(Append(log[u], row)) = Len(log[u]) + 1
        BY <3>1
      <4>2. Len(log[u]) + 1 \in 1 .. Len(log'[u])
        BY <3>1, <4>1, LenProperties
      <4> QED
        BY <3>1, <4>1, <4>2, ElementOfSeq
    <3>3. Count(log'[u], ToRunning) = Count(log[u], ToRunning) + One(row \in ToRunning)
      BY <3>1, <3>2, CountAppend
    <3>4. Launches(u)' = Count(log'[u], ToRunning) /\ Launches(u) = Count(log[u], ToRunning)
      BY <1>1, CountsAre, CountsAreNext
    <3> QED
      BY <2>2, <3>2, <3>3, <3>4 DEF ToRunning, One
  <2>3. CASE u # who
    <3>1. log'[u] = log[u]
      BY <1>3, <2>1, <2>3
    <3> QED
      BY <1>7, <2>3, <3>1 DEF One
  <2> QED
    BY <2>2, <2>3
<1>4. CASE WriteMove
  <2> DEFINE row == [run |-> Len(runs), seq |-> seq[cur], from |-> mem[cur], to |-> agenda[1].to]
  <2>1. log' = [log EXCEPT ![cur] = Append(@, row)] /\ cur \in Units
    BY <1>4, WriteMoveFrame DEF WriteMove, AddTransition
  <2>2. row.to = agenda[1].to
    OBVIOUS
  <2> HIDE DEF row
  <2> QED
    BY <1>2, <1>3, <1>4, <2>1, <2>2 DEF One
<1>5. CASE OpWrite
  <2>1. opUnit \in Units /\ opTo # "RUNNING" /\ ~WriteMove
    BY <1>1, <1>5 DEF OpWrite, TypeOK, OpTypeOK, WriteMove
  <2>2. log' = log \/ \E run, n, from : log' = [log EXCEPT ![opUnit] =
                                          Append(@, [run |-> run, seq |-> n, from |-> from, to |-> opTo])]
    BY <1>5 DEF OpWrite, AddTransition
  <2>3. CASE log' = log
    BY <1>2, <1>7, <2>1, <2>3 DEF One
  <2>4. ASSUME NEW run, NEW n, NEW from,
               log' = [log EXCEPT ![opUnit] = Append(@, [run |-> run, seq |-> n, from |-> from, to |-> opTo])]
        PROVE  Launches(u)' = Launches(u) + 0
    <3> DEFINE row == [run |-> run, seq |-> n, from |-> from, to |-> opTo]
    <3>1. Launches(u)' = Launches(u) + One(u = opUnit /\ row.to = "RUNNING")
      BY <1>3, <2>1, <2>4
    <3>2. row.to = opTo
      OBVIOUS
    <3> QED
      BY <2>1, <3>1, <3>2 DEF One
  <2> QED
    BY <1>2, <2>1, <2>2, <2>3, <2>4 DEF One
<1>6. CASE ~WriteMove /\ ~OpWrite
  <2>1. UNCHANGED log
    BY <1>1, <1>6, StepCases, DecideFrame, WalkFrame, AsideFrame, DownFrame DEF Materialize, WriteAttempt
  <2> QED
    BY <1>2, <1>6, <1>7, <2>1 DEF One
<1> QED
  BY <1>4, <1>5, <1>6


-----------------------------------------------------------------------------
(* Starts and answers *)

\* The first write of a handler's agenda is at its head, and the rest follow.
LEMMA AgendaRows ==
    ASSUME TypeOK, Handling, [Next]_vars, WriteAttempt \/ WriteMove
    PROVE  /\ agenda[1] = Head(agenda) /\ agenda' = Tail(agenda) /\ cur' = cur /\ cur \in Units
           /\ Len(agenda) \in Nat /\ DOMAIN agenda = 1 .. Len(agenda) /\ 1 \in DOMAIN agenda
           /\ \A i \in DOMAIN agenda' : i + 1 \in DOMAIN agenda /\ agenda'[i] = agenda[i + 1] /\ i >= 1
           /\ Handling' => /\ 1 \in DOMAIN agenda' /\ 2 \in DOMAIN agenda /\ agenda'[1] = agenda[2]
                           /\ Head(agenda') = agenda'[1]
           /\ Len(agenda) >= 2 => Handling'
<1>1. agenda \in Seq(Write) /\ agenda # <<>> /\ cur \in Units
  BY DEF Handling, TypeOK, CoordTypeOK
<1>2. agenda' = Tail(agenda) /\ cur' = cur
  BY DEF WriteAttempt, WriteMove
<1>3. Tail(agenda) \in Seq(Write) /\ Len(Tail(agenda)) = Len(agenda) - 1 /\ Len(agenda) \in Nat
  BY <1>1, HeadTailProperties, TailShift
<1>4. Tail(agenda) # <<>> => Len(Tail(agenda)) >= 1 /\ Head(Tail(agenda)) = Tail(agenda)[1]
  BY <1>3, EmptySeq
<1>5. Len(agenda) >= 2 => Tail(agenda) # <<>>
  <2>1. Tail(agenda) = <<>> => Len(Tail(agenda)) = 0
    BY EmptySeq
  <2> QED
    BY <1>3, <2>1
<1> QED
  BY <1>1, <1>2, <1>3, <1>4, <1>5, TailShift DEF Handling

\* A handler that writes gets on with its agenda.
LEMMA TailDiffers ==
    ASSUME TypeOK, Handling
    PROVE  Tail(agenda) # agenda
<1>1. Len(Tail(agenda)) = Len(agenda) - 1 /\ Len(agenda) \in Nat
  BY TailShift
<1> HIDE DEF Handling
<1>2. Len(Tail(agenda)) # Len(agenda)
  BY <1>1
<1> QED
  BY <1>2

\* The write being made is an answer of a dispatch.
Answering(u) ==
    cur = u /\ Handling /\ Head(agenda).kind = "attempt" /\ Head(agenda).cause # "Interrupted"

\* What becomes of an answer that is still to be recorded.
LEMMA OutstandingFrame ==
    ASSUME IndInv, AgendaShaped, [Next]_vars, NEW u \in Units
    PROVE  /\ Outstanding(u) \in {0, 1} /\ Outstanding(u)' \in {0, 1}
           /\ WriteAttempt /\ u = cur => /\ Outstanding(u) = One(agenda[1].cause # "Interrupted")
                                         /\ Outstanding(u)' = 0
           /\ WriteMove /\ u = cur => /\ Outstanding(u) = 0
                                      /\ Outstanding(u)' = One(agenda[1].to = "RUNNING")
           /\ ~((WriteAttempt \/ WriteMove) /\ u = cur) => Outstanding(u)' <= Outstanding(u)
           /\ \A w \in Units : Decide /\ Releases(w) => Outstanding(w) = 1
<1>1. TypeOK /\ futures \in [Units -> {"none", "pending"} \cup Answer]
  BY DEF IndInv, TypeOK, PoolTypeOK
<1>2. /\ Outstanding(u) \in {0, 1} /\ Outstanding(u)' \in {0, 1}
      /\ Outstanding(u) = One(futures[u] # "none" \/ Answering(u))
      /\ Outstanding(u)' = One(futures'[u] # "none" \/ Answering(u)')
  BY DEF Outstanding, Answering, One
<1>3. Handling /\ cur = u => futures[u] = "none"
  BY DEF IndInv, TrackedRunning, Tracked
<1>4. CASE WriteAttempt
  <2>1. Handling /\ Head(agenda).kind = "attempt" /\ UNCHANGED futures
    BY <1>4 DEF WriteAttempt
  <2>2. agenda[1] = Head(agenda) /\ cur' = cur /\ (Handling' => Head(agenda') = agenda[2])
    BY <1>1, <1>4, <2>1, AgendaRows
  <2>3. agenda[2].kind = "move"
    BY <2>1, <2>2 DEF AgendaShaped
  <2>4. CASE u = cur
    <3>1. ~Answering(u)' /\ futures'[u] = "none"
      BY <1>3, <2>1, <2>2, <2>3, <2>4 DEF Answering
    <3>2. Answering(u) <=> agenda[1].cause # "Interrupted"
      BY <2>1, <2>2, <2>4 DEF Answering
    <3>3. Outstanding(u)' = 0 /\ Outstanding(u) = One(agenda[1].cause # "Interrupted")
      BY <1>2, <1>3, <2>1, <2>4, <3>1, <3>2 DEF One
    <3>4. ~Decide /\ ~WriteMove
      BY <1>4, <2>1, DecideFrame DEF WriteMove
    <3> QED
      BY <1>2, <2>4, <3>3, <3>4
  <2>5. CASE u # cur
    <3>1. Outstanding(u)' = Outstanding(u) /\ Outstanding(u) >= 0
      BY <1>2, <2>1, <2>2, <2>5 DEF Answering, One
    <3>2. ~Decide
      BY <2>1, DecideFrame
    <3> QED
      BY <1>2, <2>5, <3>1, <3>2
  <2> QED
    BY <2>4, <2>5
<1>5. CASE WriteMove
  <2>1. Handling /\ Head(agenda).kind = "move" /\ agenda[1] = Head(agenda) /\ cur' = cur
        /\ (Handling' => Head(agenda') = agenda[2] /\ 2 \in DOMAIN agenda)
    BY <1>1, <1>5, AgendaRows DEF WriteMove
  <2>2. 2 \in DOMAIN agenda => agenda[2].kind = "move"
    BY <1>1, <2>1 DEF IndInv, AgendaJustified, TypeOK, CoordTypeOK, Write
  <2>3. ~Answering(u) /\ ~Answering(u)'
    BY <2>1, <2>2 DEF Answering
  <2>4. futures'[u] = IF u = cur /\ agenda[1].to = "RUNNING" THEN "pending" ELSE futures[u]
    BY <1>1, <1>5, HandOver
  <2>5. ~Decide /\ ~WriteAttempt
    BY <2>1, DecideFrame DEF WriteAttempt
  <2>6. u = cur => Outstanding(u) = 0 /\ Outstanding(u)' = One(agenda[1].to = "RUNNING")
    BY <1>2, <1>3, <2>1, <2>3, <2>4 DEF One
  <2>7. u # cur => Outstanding(u)' <= Outstanding(u)
    BY <1>2, <2>3, <2>4 DEF One
  <2>8. WriteMove /\ u = cur => Outstanding(u) = 0 /\ Outstanding(u)' = One(agenda[1].to = "RUNNING")
    BY <2>6
  <2>9. ~((WriteAttempt \/ WriteMove) /\ u = cur) => Outstanding(u)' <= Outstanding(u)
    BY <1>5, <2>7
  <2> QED
    BY <1>2, <2>5, <2>8, <2>9
<1>6. CASE Decide
  <2>1. ~Handling /\ ~WriteAttempt /\ ~WriteMove
    BY <1>6, DecideFrame DEF WriteAttempt, WriteMove
  <2>2. ASSUME NEW w \in Units, Releases(w)
        PROVE  Outstanding(w) = 1 /\ Outstanding(u)' <= Outstanding(u)
    <3>1. futures[w] # "none" /\ futures' = [futures EXCEPT ![w] = "none"]
      BY <2>2 DEF Releases, Tracked, LetGo
    <3>2. cur' = w
      BY <2>2 DEF Releases, TakeUp
    <3>3. Outstanding(w) = 1
      BY <3>1 DEF Outstanding
    <3>4. CASE u = w
      BY <1>2, <3>3, <3>4
    <3>5. CASE u # w
      <4>1. futures'[u] = futures[u] /\ ~Answering(u)'
        BY <1>1, <3>1, <3>2, <3>5 DEF Answering
      <4> QED
        BY <1>2, <3>3, <4>1 DEF One
    <3> QED
      BY <3>3, <3>4, <3>5
  <2>3. ASSUME NEW w \in Units, Starts(w) \/ Settles(w) \/ Recovers(w)
        PROVE  Outstanding(u)' <= Outstanding(u)
    <3>1. UNCHANGED futures /\ cur' = w
      BY <2>3 DEF Starts, Settles, Recovers, TakeUp, UnchangedAccounts
    <3>2. ~Answering(u)'
      BY <2>3 DEF Answering, Starts, Settles, Recovers, TakeUp, RecoveryWrites, Move, Record
    <3> QED
      BY <1>2, <3>1, <3>2 DEF One
  <2>4. FindsNone => Outstanding(u)' <= Outstanding(u)
    BY <1>2, <2>1 DEF FindsNone, UnchangedAccounts, Answering, Handling, One
  <2> QED
    BY <1>2, <1>6, <2>1, <2>2, <2>3, <2>4, DecideCases
<1>7. CASE Walk \/ Materialize
  <2>1. UNCHANGED <<futures, cur, agenda>> /\ (Handling => ~Decide)
    BY <1>7, WalkFrame, DecideFrame DEF Materialize
  <2>2. pc \in {"down", "opened", "submit", "wait"} \/ ~Handling
    BY <1>7 DEF Walk, BeginRun, Submit, WakeAnswered, WakeExpired, ReadClock, Expired, Materialize
  <2>3. ~Handling
    BY <2>2 DEF IndInv, AgendaJustified
  <2> QED
    BY <1>2, <1>6, <2>1, <2>3 DEF Answering, Handling, One, WriteAttempt, WriteMove
<1>8. CASE Aside
  <2>1. UNCHANGED <<cur, agenda>> /\ (futures'[u] # "none" <=> futures[u] # "none")
    BY <1>1, <1>8, AsideFrame
  <2> QED
    BY <1>2, <1>4, <1>5, <1>6, <2>1 DEF Answering, Handling, One
<1>9. CASE Falls
  <2>1. futures'[u] = "none" /\ ~Handling'
    BY <1>9, DownFrame DEF Handling
  <2>2. Outstanding(u)' = 0
    BY <1>2, <2>1 DEF Answering, One
  <2> QED
    BY <1>2, <1>4, <1>5, <1>6, <2>2
<1> QED
  BY <1>4, <1>5, <1>6, <1>7, <1>8, <1>9, StepCases

\* OneAnswerPerDispatch is preserved: a start makes way for one answer, which is
\* outstanding until it is recorded.
LEMMA AnswerStep ==
    IndInv /\ AgendaShaped /\ OneAnswerPerDispatch /\ [Next]_vars => OneAnswerPerDispatch'
<1> SUFFICES ASSUME IndInv, AgendaShaped, OneAnswerPerDispatch, [Next]_vars, NEW u \in Units
             PROVE  Dispatched(u)' + Outstanding(u)' <= Launches(u)'
  BY DEF OneAnswerPerDispatch
<1>1. Dispatched(u) + Outstanding(u) <= Launches(u)
  BY DEF OneAnswerPerDispatch
<1>2. Dispatched(u) \in Nat /\ Launches(u) \in Nat
  BY CountsAre DEF IndInv
<1>3. Outstanding(u) \in {0, 1} /\ Outstanding(u)' \in {0, 1}
  BY OutstandingFrame
<1>4. CASE WriteAttempt
  <2>1. Dispatched(u)' = Dispatched(u) + One(u = cur /\ agenda[1].cause # "Interrupted")
    BY <1>4, AttemptCounted
  <2>2. Launches(u)' = Launches(u) + 0
    <3>1. ~WriteMove
      BY <1>4 DEF WriteAttempt, WriteMove
    <3> QED
      BY <3>1, CountsFrame DEF One
  <2>3. CASE u = cur
    BY <1>1, <1>2, <1>3, <1>4, <2>1, <2>2, <2>3, OutstandingFrame DEF One
  <2>4. CASE u # cur
    <3>1. Outstanding(u)' <= Outstanding(u)
      BY <2>4, OutstandingFrame
    <3> QED
      BY <1>1, <1>2, <1>3, <2>1, <2>2, <2>4, <3>1 DEF One
  <2> QED
    BY <2>3, <2>4
<1>5. CASE ~WriteAttempt
  <2>1. Dispatched(u)' = Dispatched(u)
    BY <1>5, CountsFrame
  <2>2. Launches(u)' = Launches(u) + One(WriteMove /\ u = cur /\ agenda[1].to = "RUNNING")
    BY CountsFrame
  <2>3. Outstanding(u)' <= Outstanding(u) + One(WriteMove /\ u = cur /\ agenda[1].to = "RUNNING")
    BY <1>3, <1>5, OutstandingFrame DEF One
  <2>4. One(WriteMove /\ u = cur /\ agenda[1].to = "RUNNING") \in {0, 1}
    BY DEF One
  <2> QED
    BY <1>1, <1>2, <1>3, <2>1, <2>2, <2>3, <2>4
<1> QED
  BY <1>4, <1>5


-----------------------------------------------------------------------------
(* Starts granted *)

\* What others' steps do to the grants of u: a command adds one, which its write uses.
LEMMA CommandedFrame ==
    ASSUME IndInv, Aside, NEW u \in Units
    PROVE  /\ commands \in Nat /\ commands' \in Nat
           /\ One(status'[u] \in Startable) + One(RetryCommanded(u)') + commands
                 <= One(status[u] \in Startable) + One(RetryCommanded(u)) + commands'
           /\ RetryCommanded(u)' => RetryCommanded(u) \/ commands' >= 1
           /\ commands' >= commands
<1>1. TypeOK /\ TypeOK' /\ status \in [Units -> UnitState] /\ status' \in [Units -> UnitState]
  <2>1. TypeOK /\ [Next]_vars
    BY DEF IndInv, Aside, Next, Pool, Operator
  <2> QED
    BY <2>1, TypeStep DEF TypeOK, DbTypeOK
<1>2. commands \in Nat /\ commands' \in Nat
  BY <1>1 DEF TypeOK, OpTypeOK
<1>3. CASE OpWrite
  <2>1. /\ UNCHANGED <<opTo, commands>> /\ opTodo' = opTodo \ {opUnit} /\ opUnit \in opTodo
        /\ status' = [status EXCEPT ![opUnit] = opTo] /\ opUnit \in Units
        /\ opTo \in {"CANCELLED", "RETRY_PENDING"}
    BY <1>1, <1>3 DEF OpWrite, UpdateStatus, TypeOK, OpTypeOK
  <2>2. CASE u = opUnit
    <3>1. status'[u] \in Startable => RetryCommanded(u)
      BY <1>1, <2>1, <2>2 DEF RetryCommanded, Startable
    <3>2. ~RetryCommanded(u)'
      BY <2>1, <2>2 DEF RetryCommanded
    <3> QED
      BY <1>2, <2>1, <3>1, <3>2 DEF One
  <2>3. CASE u # opUnit
    <3>1. status'[u] = status[u] /\ (RetryCommanded(u)' <=> RetryCommanded(u))
      BY <1>1, <2>1, <2>3 DEF RetryCommanded
    <3> QED
      BY <1>2, <2>1, <3>1 DEF One
  <2> QED
    BY <2>2, <2>3
<1>4. CASE ~OpWrite
  <2>1. UNCHANGED status
    BY <1>1, <1>4, AsideFrame
  <2>2. \/ UNCHANGED <<opTo, opTodo, commands>>
        \/ opTo' = "CANCELLED" /\ commands' = commands
        \/ commands' = commands + 1
    BY <1>4 DEF Aside, SetCancelEvent, ThreadTakes, ThreadAnswers, CancelCommand, RetryCommand, OpRead, OpNext,
                OpRefused, OpEnd, OpIdle, vars
  <2>3. CASE UNCHANGED <<opTo, opTodo, commands>>
    BY <1>2, <2>1, <2>3 DEF One, RetryCommanded
  <2>4. CASE opTo' = "CANCELLED" /\ commands' = commands
    BY <1>2, <2>1, <2>4 DEF One, RetryCommanded
  <2>5. CASE commands' = commands + 1
    BY <1>2, <2>1, <2>5 DEF One
  <2> QED
    BY <2>2, <2>3, <2>4, <2>5
<1> QED
  BY <1>3, <1>4

\* A decision grants another attempt only to a unit it lets go of, within the policy.
LEMMA PlannedByDecision ==
    ASSUME IndInv, Decide, NEW u \in Units, RetryPlanned(u)'
    PROVE  /\ Releases(u) /\ status[u] \notin Startable
           /\ Len(attempts[u]) + 1 < AttemptLimit(u)
<1>1. TypeOK /\ ~Handling /\ status \in [Units -> UnitState]
  BY DecideFrame DEF IndInv, TypeOK, DbTypeOK
<1>2. ~FindsNone
  BY <1>1 DEF FindsNone, RetryPlanned, Handling
<1>3. PICK w \in Units : Starts(w) \/ Settles(w) \/ Recovers(w) \/ Releases(w)
  BY <1>2, DecideCases
<1>4. cur' = w /\ u = w
  BY <1>3 DEF Starts, Settles, Recovers, Releases, TakeUp, RetryPlanned
<1>5. ~(Starts(w) \/ Settles(w))
  BY DEF Starts, Settles, TakeUp, RetryPlanned, Move
<1>6. ~Recovers(w)
  BY DEF Recovers, TakeUp, RetryPlanned, RecoveryWrites, Record, Move
<1>7. Releases(u)
  BY <1>3, <1>4, <1>5, <1>6
<1>8. ~TakeUp(u, SuccessWrites)
  BY DEF TakeUp, RetryPlanned, SuccessWrites, Record, Move
<1>9. PICK outcome \in {"FAILED", "TIMED_OUT"}, category \in FailureCategory :
        agenda' = CloseAttempt(u, outcome, category)
  BY <1>7, <1>8 DEF Releases, TakeUp
<1>10. ShouldRetry(u, category, Len(attempts[u]) + 1)
  BY <1>9, CloseAttemptShape DEF RetryPlanned
<1>11. mem[u] = "RUNNING" /\ pc # "down"
  BY <1>7 DEF Releases
<1>12. status[u] \in {"RUNNING", "CANCELLED"}
  BY <1>11 DEF IndInv, ViewAgrees, RetryableStates
<1> QED
  BY <1>7, <1>10, <1>12 DEF ShouldRetry, AttemptLimit, Startable

\* A unit's limit, and what it is compared with, are numbers.
LEMMA LimitIs ==
    ASSUME NEW u \in Units
    PROVE  AttemptLimit(u) \in Nat /\ AttemptLimit(u) >= 1
  BY PolicyAssumption DEF AttemptLimit, RetryPolicy

\* The grants of u, where only the coordinator moves: each write of a handler
\* turns a grant into a start, or into another grant.
LEMMA OwedFrame ==
    ASSUME IndInv, AgendaShaped, [Next]_vars, ~Aside, NEW u \in Units
    PROVE  /\ UNCHANGED commands /\ (RetryCommanded(u)' <=> RetryCommanded(u))
           /\ WriteAttempt => /\ UNCHANGED status
                              /\ One(RetryPlanned(u)') <= One(RetryPlanned(u))
                                    + One(u = cur /\ agenda[1].cause = "Interrupted")
           /\ WriteMove => One(status'[u] \in Startable) + One(RetryPlanned(u)')
                              + One(u = cur /\ agenda[1].to = "RUNNING")
                              <= One(status[u] \in Startable) + One(RetryPlanned(u))
           /\ ~WriteAttempt /\ ~WriteMove => UNCHANGED status
           /\ ~WriteAttempt /\ ~WriteMove /\ ~Decide => One(RetryPlanned(u)') <= One(RetryPlanned(u))
<1>1. TypeOK /\ status \in [Units -> UnitState] /\ AgendaJustified
  BY DEF IndInv, TypeOK, DbTypeOK
<1>2. UNCHANGED commands /\ (RetryCommanded(u)' <=> RetryCommanded(u))
      /\ (~WriteMove => UNCHANGED status)
  <2>1. UNCHANGED <<commands, opTo, opTodo>>
    BY StepCases, DecideFrame, WalkFrame, DownFrame DEF Materialize, WriteAttempt, WriteMove
  <2>2. ~WriteMove => UNCHANGED status
    BY StepCases, DecideFrame, WalkFrame, DownFrame DEF Materialize, WriteAttempt
  <2> QED
    BY <2>1, <2>2 DEF RetryCommanded
<1>3. CASE WriteAttempt
  <2>1. Handling /\ Head(agenda).kind = "attempt" /\ ~WriteMove /\ ~Decide
    BY <1>3, DecideFrame DEF WriteAttempt, WriteMove
  <2>2. /\ cur' = cur /\ agenda[1] = Head(agenda)
        /\ \A i \in DOMAIN agenda' : i + 1 \in DOMAIN agenda /\ agenda'[i] = agenda[i + 1]
    BY <1>1, <1>3, <2>1, AgendaRows
  <2>3. RetryPlanned(u)' => RetryPlanned(u) \/ (u = cur /\ agenda[1].cause = "Interrupted")
    BY <2>1, <2>2 DEF RetryPlanned
  <2> QED
    BY <1>2, <1>3, <2>1, <2>3 DEF One
<1>4. CASE WriteMove
  <2>1. Handling /\ agenda[1].kind = "move" /\ ~WriteAttempt
    BY <1>4, WriteMoveFrame DEF WriteMove, WriteAttempt
  <2>2. /\ cur' = cur /\ cur \in Units /\ 1 \in DOMAIN agenda
        /\ Len(agenda) \in Nat /\ DOMAIN agenda = 1 .. Len(agenda)
        /\ \A i \in DOMAIN agenda' : i + 1 \in DOMAIN agenda /\ agenda'[i] = agenda[i + 1] /\ i >= 1
        /\ Handling' => 1 \in DOMAIN agenda' /\ 2 \in DOMAIN agenda
    BY <1>1, <1>4, <2>1, AgendaRows
  <2>3. /\ status' = [status EXCEPT ![cur] = agenda[1].to]
        /\ <<status[cur], agenda[1].to>> \in UNIT_TRANSITIONS /\ agenda[1].to \in UnitState
    BY <1>4, WriteMoveFrame
  <2>4. CASE u # cur
    <3>1. status'[u] = status[u] /\ ~RetryPlanned(u)'
      BY <1>1, <2>2, <2>3, <2>4 DEF RetryPlanned
    <3> QED
      BY <1>2, <1>4, <2>1, <2>4, <3>1 DEF One
  <2>5. CASE u = cur /\ agenda[1].to = "RUNNING"
    <3>1. ~Handling'
      BY <1>4, <2>5, HandOver
    <3>2. status'[u] = "RUNNING" /\ status[u] = "READY"
      BY <1>1, <2>2, <2>3, <2>5, TableFacts
    <3>3. ~RetryPlanned(u)'
      BY <3>1 DEF RetryPlanned
    <3> QED
      BY <1>2, <1>4, <2>1, <2>5, <3>2, <3>3 DEF One, Startable
  <2>6. CASE u = cur /\ agenda[1].to = "RETRY_PENDING"
    <3>1. 1 = Len(agenda)
      BY <2>1, <2>2, <2>6 DEF AgendaShaped
    <3>5. 2 \notin DOMAIN agenda
      <4>1. DOMAIN agenda = 1 .. 1
        BY <2>2, <3>1
      <4> QED
        BY <4>1
    <3>4. ~Handling'
      BY <2>2, <3>5
    <3>2. ~RetryPlanned(u)'
      BY <3>4 DEF RetryPlanned
    <3>3. RetryPlanned(u)
      BY <2>1, <2>2, <2>6 DEF RetryPlanned
    <3> QED
      BY <1>2, <1>4, <2>1, <2>6, <3>2, <3>3 DEF One
  <2>7. CASE u = cur /\ agenda[1].to \notin {"RUNNING", "RETRY_PENDING"}
    <3>1. status'[u] = agenda[1].to
      BY <1>1, <2>2, <2>3, <2>7
    <3>2. status'[u] \in Startable => status[u] \in Startable
      <4>1. agenda[1].to # "PLANNED"
        BY <1>4, WriteMoveFrame
      <4> QED
        BY <1>1, <2>2, <2>3, <2>7, <3>1, <4>1, TableFacts DEF Startable
    <3>3. RetryPlanned(u)' => RetryPlanned(u)
      BY <2>1, <2>2, <2>7 DEF RetryPlanned
    <3> QED
      BY <1>2, <1>4, <2>1, <2>7, <3>2, <3>3 DEF One
  <2> QED
    BY <2>4, <2>5, <2>6, <2>7
<1>5. CASE Walk \/ Materialize \/ Falls
  <2>1. RetryPlanned(u)' => RetryPlanned(u)
    <3>1. CASE Walk \/ Materialize
      BY <3>1, WalkFrame DEF Materialize, RetryPlanned, Handling
    <3>2. CASE Falls
      BY <3>2, DownFrame DEF RetryPlanned, Handling
    <3> QED
      BY <1>5, <3>1, <3>2
  <2>2. One(RetryPlanned(u)') <= One(RetryPlanned(u))
    BY <2>1 DEF One
  <2>3. WriteAttempt => FALSE
    <3>1. WriteAttempt => agenda' # agenda /\ Handling
      <4> SUFFICES ASSUME WriteAttempt PROVE agenda' # agenda /\ Handling
        OBVIOUS
      <4>1. Handling /\ agenda' = Tail(agenda)
        BY DEF WriteAttempt
      <4> QED
        BY <1>1, <4>1, TailDiffers
    <3>2. WriteAttempt => UNCHANGED pc
      BY DEF WriteAttempt
    <3>3. Walk \/ Materialize => UNCHANGED agenda
      BY WalkFrame DEF Materialize
    <3>4. WriteAttempt => pc # "down"
      BY <1>1 DEF WriteAttempt, AgendaJustified
    <3> QED
      BY <1>5, <3>1, <3>2, <3>3, <3>4, DownFrame
  <2> QED
    BY <1>2, <1>3, <1>4, <2>2, <2>3
<1>6. CASE Decide /\ ~WriteAttempt /\ ~WriteMove
  BY <1>2, <1>6
<1> QED
  BY <1>2, <1>3, <1>4, <1>5, <1>6, StepCases

\* The three parts of what is owed to u.
Waiting(u) == One(status[u] \in Startable)

Asked(u) == One(RetryCommanded(u))

Planned(u) == One(RetryPlanned(u))

\* StartsCovered is preserved.
LEMMA CoveredStep == IndInv /\ AgendaShaped /\ StartsCovered /\ [Next]_vars => StartsCovered'
<1> SUFFICES ASSUME IndInv, AgendaShaped, StartsCovered, [Next]_vars, NEW u \in Units
             PROVE  /\ Dispatched(u)' + Outstanding(u)' + Owed(u)'
                           <= AttemptLimit(u) + Interrupted(u)' + commands'
                    /\ RetryCommanded(u)' => commands' >= 1
  BY DEF StartsCovered, AttemptLimit
<1>1. /\ Dispatched(u) + Outstanding(u) + (Waiting(u) + Asked(u) + Planned(u)) <= AttemptLimit(u) + Interrupted(u) + commands
      /\ RetryCommanded(u) => commands >= 1
  BY DEF StartsCovered, Owed, Waiting, Asked, Planned
<1>9. Dispatched(u) + Outstanding(u) + (Waiting(u) + Asked(u) + Planned(u))
        <= AttemptLimit(u) + Interrupted(u) + commands
  BY <1>1
<1>2. Owed(u)' = Waiting(u)' + Asked(u)' + Planned(u)'
  BY DEF Owed, Waiting, Asked, Planned
<1>3. /\ Dispatched(u) \in Nat /\ Interrupted(u) \in Nat /\ commands \in Nat
      /\ AttemptLimit(u) \in Nat /\ AttemptLimit(u) >= 1
      /\ Dispatched(u) + Interrupted(u) = Len(attempts[u])
  <2>1. TypeOK /\ commands \in Nat
    BY DEF IndInv, TypeOK, OpTypeOK
  <2> QED
    BY <2>1, CountsAre, LimitIs
<1>4. /\ Waiting(u) \in {0, 1} /\ Asked(u) \in {0, 1} /\ Planned(u) \in {0, 1}
      /\ Waiting(u)' \in {0, 1} /\ Asked(u)' \in {0, 1} /\ Planned(u)' \in {0, 1}
      /\ Outstanding(u) \in {0, 1} /\ Outstanding(u)' \in {0, 1}
  BY OutstandingFrame DEF One, Waiting, Asked, Planned
<1>8. /\ Waiting(u) \in Nat /\ Asked(u) \in Nat /\ Planned(u) \in Nat
      /\ Waiting(u)' \in Nat /\ Asked(u)' \in Nat /\ Planned(u)' \in Nat
      /\ Outstanding(u) \in Nat /\ Outstanding(u)' \in Nat
  BY <1>4
<1>10. /\ Dispatched(u) \in Nat /\ Interrupted(u) \in Nat /\ commands \in Nat
       /\ AttemptLimit(u) \in Nat
  BY <1>3
<1>5. ~WriteAttempt => Dispatched(u)' = Dispatched(u) /\ Interrupted(u)' = Interrupted(u)
  BY CountsFrame
<1>6. CASE Aside
  <2>1. UNCHANGED <<agenda, cur>> /\ UNCHANGED attempts
    BY <1>6, AsideFrame DEF IndInv
  <2>2. Planned(u)' = Planned(u)
    BY <2>1 DEF Planned, RetryPlanned, Handling
  <2>3. Dispatched(u)' = Dispatched(u) /\ Interrupted(u)' = Interrupted(u)
    BY <2>1 DEF Dispatched, Interrupted
  <2>4. Outstanding(u)' <= Outstanding(u)
    <3>1. ~WriteAttempt /\ ~WriteMove
      <4>1. ASSUME Handling, agenda' = Tail(agenda) PROVE FALSE
        BY <2>1, <4>1, TailDiffers DEF IndInv
      <4> QED
        BY <4>1 DEF WriteAttempt, WriteMove
    <3> QED
      BY <3>1, OutstandingFrame
  <2>5. /\ commands' \in Nat /\ Waiting(u)' + Asked(u)' + commands <= Waiting(u) + Asked(u) + commands' /\ commands' >= commands
        /\ RetryCommanded(u)' => RetryCommanded(u) \/ commands' >= 1
    BY <1>6, CommandedFrame DEF Waiting, Asked
  <2>6. Dispatched(u)' + Outstanding(u)' + Owed(u)' <= AttemptLimit(u) + Interrupted(u)' + commands'
    BY <1>2, <1>8, <1>9, <1>10, <2>2, <2>3, <2>4, <2>5
  <2> QED
    BY <1>1, <1>3, <2>5, <2>6
<1>7. CASE ~Aside
  <2>1. commands' = commands /\ Asked(u)' = Asked(u) /\ (RetryCommanded(u)' <=> RetryCommanded(u))
    BY <1>7, OwedFrame DEF Asked, One
  <2>2. CASE WriteAttempt
    <3>1. /\ Dispatched(u)' = Dispatched(u) + One(u = cur /\ agenda[1].cause # "Interrupted")
          /\ Interrupted(u)' = Interrupted(u) + One(u = cur /\ agenda[1].cause = "Interrupted")
      BY <2>2, AttemptCounted
    <3>2. Waiting(u)' = Waiting(u) /\ Planned(u)' <= Planned(u) + One(u = cur /\ agenda[1].cause = "Interrupted")
      BY <1>7, <2>2, OwedFrame DEF Waiting, Asked, Planned
    <3>3. Outstanding(u)' + One(u = cur /\ agenda[1].cause # "Interrupted") <= Outstanding(u)
      <4>1. ~WriteMove
        BY <2>2 DEF WriteAttempt, WriteMove
      <4>2. CASE u = cur
        BY <1>4, <2>2, <4>2, OutstandingFrame DEF One
      <4>3. CASE u # cur
        <5>1. Outstanding(u)' <= Outstanding(u)
          BY <4>3, OutstandingFrame
        <5> QED
          BY <1>4, <4>3, <5>1 DEF One
      <4> QED
        BY <4>2, <4>3
    <3>4. /\ One(u = cur /\ agenda[1].cause # "Interrupted") \in {0, 1}
          /\ One(u = cur /\ agenda[1].cause = "Interrupted") \in {0, 1}
      BY DEF One
    <3>5. Dispatched(u)' + Outstanding(u)' + Owed(u)' <= AttemptLimit(u) + Interrupted(u)' + commands'
      BY <1>2, <1>8, <1>9, <1>10, <2>1, <3>1, <3>2, <3>3, <3>4
    <3> QED
      BY <1>1, <2>1, <3>5
  <2>3. CASE WriteMove
    <3>1. Waiting(u)' + Planned(u)' + One(u = cur /\ agenda[1].to = "RUNNING") <= Waiting(u) + Planned(u)
      BY <1>7, <2>3, OwedFrame DEF Waiting, Asked, Planned
    <3>2. ~WriteAttempt
      BY <2>3 DEF WriteAttempt, WriteMove
    <3>3. Outstanding(u)' <= Outstanding(u) + One(u = cur /\ agenda[1].to = "RUNNING")
      BY <1>4, <2>3, OutstandingFrame DEF One
    <3>4. One(u = cur /\ agenda[1].to = "RUNNING") \in {0, 1}
      BY DEF One
    <3>5. Dispatched(u)' + Outstanding(u)' + Owed(u)' <= AttemptLimit(u) + Interrupted(u)' + commands'
      BY <1>2, <1>8, <1>9, <1>10, <1>5, <2>1, <3>1, <3>2, <3>3, <3>4
    <3> QED
      BY <1>1, <2>1, <3>5
  <2>4. CASE ~WriteAttempt /\ ~WriteMove
    <3>1. Waiting(u)' = Waiting(u)
      BY <1>7, <2>4, OwedFrame DEF Waiting, Asked, Planned
    <3>2. Outstanding(u)' <= Outstanding(u)
      BY <2>4, OutstandingFrame
    <3>3. CASE Planned(u)' <= Planned(u)
      <4> QED
        BY <1>1, <1>2, <1>3, <1>4, <1>5, <2>1, <2>4, <3>1, <3>2, <3>3
    <3>4. CASE ~(Planned(u)' <= Planned(u))
      <4>1. Decide
        BY <1>7, <2>4, <3>4, OwedFrame DEF Planned
      <4>2. RetryPlanned(u)'
        BY <1>4, <3>4 DEF One, Planned
      <4>3. Releases(u) /\ Waiting(u) = 0 /\ Len(attempts[u]) + 1 < AttemptLimit(u)
        BY <4>1, <4>2, PlannedByDecision DEF One, Waiting
      <4>4. Asked(u) <= commands
        BY <1>1, <1>3 DEF One, Asked
      <4>5. Dispatched(u)' + Outstanding(u)' + (Waiting(u)' + Asked(u)' + Planned(u)') <= AttemptLimit(u) + Interrupted(u) + commands
        BY <1>3, <1>4, <1>5, <2>1, <2>4, <3>1, <4>3, <4>4
      <4> QED
        BY <1>1, <1>2, <1>5, <2>1, <2>4, <4>5
    <3> QED
      BY <3>3, <3>4
  <2> QED
    BY <2>2, <2>3, <2>4
<1> QED
  BY <1>6, <1>7


-----------------------------------------------------------------------------
(* Successes *)

\* Only the record of a success settles what was open about a unit the other way
\* round: every other step that opens a unit finds it open.
LEMMA NotDoneFrame ==
    ASSUME IndInv, AgendaShaped, [Next]_vars, ~WriteAttempt, NEW u \in Units, NotDone(u)'
    PROVE  NotDone(u)
<1>1. /\ TypeOK /\ TypeOK' /\ status \in [Units -> UnitState]
      /\ futures \in [Units -> {"none", "pending"} \cup Answer]
  BY TypeStep DEF IndInv, TypeOK, DbTypeOK, PoolTypeOK
<1>2. CASE Decide
  <2>1. UNCHANGED status /\ ~Handling
    BY <1>2, DecideFrame
  <2>2. CASE FindsNone
    BY <2>1, <2>2 DEF FindsNone, UnchangedAccounts, NotDone, Handling
  <2>3. ASSUME NEW w \in Units, Starts(w) \/ Settles(w) \/ Recovers(w) PROVE NotDone(u)
    <3>1. UNCHANGED futures
      BY <2>3 DEF Starts, Settles, Recovers, UnchangedAccounts
    <3>2. /\ agenda'[1].kind = "attempt" => agenda'[1].cause = "Interrupted"
          /\ agenda'[1].kind = "move" => agenda'[1].to \notin {"FAILED", "TIMED_OUT"}
      BY <2>3 DEF Starts, Settles, Recovers, TakeUp, RecoveryWrites, Move, Record
    <3> QED
      BY <2>1, <3>1, <3>2 DEF NotDone
  <2>4. ASSUME NEW w \in Units, Releases(w) PROVE NotDone(u)
    <3>1. futures[w] # "none" /\ cur' = w /\ futures' = [futures EXCEPT ![w] = "none"]
      BY <2>4 DEF Releases, Tracked, LetGo, TakeUp
    <3>2. CASE u = w
      BY <3>1, <3>2 DEF NotDone
    <3>3. CASE u # w
      BY <1>1, <2>1, <3>1, <3>3 DEF NotDone
    <3> QED
      BY <3>2, <3>3
  <2> QED
    BY <1>2, <2>2, <2>3, <2>4, DecideCases
<1>3. CASE WriteMove
  <2>1. Handling /\ agenda[1].kind = "move" /\ cur \in Units
    BY <1>3, WriteMoveFrame DEF WriteMove
  <2>2. /\ cur' = cur /\ 1 \in DOMAIN agenda
        /\ Handling' => 2 \in DOMAIN agenda /\ agenda'[1] = agenda[2]
    BY <1>1, <1>3, <2>1, AgendaRows
  <2>3. /\ status' = [status EXCEPT ![cur] = agenda[1].to]
        /\ <<status[cur], agenda[1].to>> \in UNIT_TRANSITIONS /\ agenda[1].to \in UnitState \ {"PLANNED", "SKIPPED"}
    BY <1>3, WriteMoveFrame
  <2>4. futures'[u] = IF u = cur /\ agenda[1].to = "RUNNING" THEN "pending" ELSE futures[u]
    BY <1>1, <1>3, HandOver
  <2>5. Handling' => agenda'[1].kind = "move" /\ agenda'[1].to \in {"RUNNING", "RETRY_PENDING"}
    <3>1. 2 \in DOMAIN agenda => agenda[2].kind = "move"
      BY <1>1, <2>1 DEF IndInv, AgendaJustified, TypeOK, CoordTypeOK, Write
    <3>2. 2 \in DOMAIN agenda => agenda[2].to \in {"RUNNING", "RETRY_PENDING"}
      BY <2>1 DEF AgendaShaped
    <3> QED
      BY <2>2, <3>1, <3>2
  <2>6. status'[u] \in Startable \cup RetryableStates \/ futures'[u] # "none"
    BY <2>5 DEF NotDone
  <2>7. CASE u # cur
    BY <1>1, <2>3, <2>4, <2>6, <2>7 DEF NotDone
  <2>8. CASE u = cur
    <3>1. status'[u] = agenda[1].to
      BY <1>1, <2>3, <2>8
    <3>2. CASE agenda[1].to \in {"FAILED", "TIMED_OUT"}
      BY <2>1, <2>8, <3>2 DEF NotDone
    <3>3. CASE agenda[1].to \in {"BLOCKED", "READY", "RUNNING", "RETRY_PENDING"}
      BY <1>1, <2>1, <2>3, <2>8, <3>3, TableFacts DEF NotDone, Startable, RetryableStates
    <3>4. CASE agenda[1].to \notin {"FAILED", "TIMED_OUT", "BLOCKED", "READY", "RUNNING", "RETRY_PENDING"}
      BY <2>3, <2>4, <2>6, <2>8, <3>1, <3>4 DEF NotDone, Startable, RetryableStates
    <3> QED
      BY <3>2, <3>3, <3>4
  <2> QED
    BY <2>7, <2>8
<1>4. CASE Aside
  <2>1. UNCHANGED <<cur, agenda>> /\ (futures'[u] # "none" <=> futures[u] # "none")
    BY <1>1, <1>4, AsideFrame
  <2>2. status'[u] \in Startable \cup RetryableStates => status[u] \in Startable \cup RetryableStates
    <3>1. CASE OpWrite
      <4>1. status' = [status EXCEPT ![opUnit] = opTo] /\ opUnit \in Units
            /\ <<status[opUnit], opTo>> \in UNIT_TRANSITIONS /\ opTo \in {"CANCELLED", "RETRY_PENDING"}
        BY <1>1, <3>1 DEF OpWrite, OpMayWrite, MayMove, UpdateStatus, TypeOK, OpTypeOK
      <4>2. opTo = "RETRY_PENDING" => status[opUnit] \in RetryableStates
        BY <1>1, <4>1, TableFacts, NamesTyped
      <4> QED
        BY <1>1, <4>1, <4>2 DEF Startable, RetryableStates
    <3>2. CASE ~OpWrite
      BY <1>1, <1>4, <3>2, AsideFrame
    <3> QED
      BY <3>1, <3>2
  <2> QED
    BY <2>1, <2>2 DEF NotDone, Handling
<1>5. CASE Falls
  <2>1. futures'[u] = "none" /\ ~Handling' /\ UNCHANGED status
    BY <1>5, DownFrame DEF Handling
  <2> QED
    BY <2>1 DEF NotDone
<1>6. CASE Walk \/ Materialize
  <2>1. UNCHANGED <<status, futures, cur, agenda>>
    BY <1>6, WalkFrame DEF Materialize
  <2> QED
    BY <2>1 DEF NotDone, Handling
<1> QED
  BY <1>2, <1>3, <1>4, <1>5, <1>6, StepCases

\* SuccessesCovered is preserved: a success is recorded only for a unit all of
\* whose earlier successes a recovery has followed, and closes it.
LEMMA SuccessStep == IndInv /\ AgendaShaped /\ SuccessesCovered /\ [Next]_vars => SuccessesCovered'
<1> SUFFICES ASSUME IndInv, AgendaShaped, SuccessesCovered, [Next]_vars, NEW u \in Units
             PROVE  Successes(u)' <= Interrupted(u)' + One(~NotDone(u)')
  BY DEF SuccessesCovered
<1>1. Successes(u) <= Interrupted(u) + One(~NotDone(u))
  BY DEF SuccessesCovered
<1>2. TypeOK /\ Successes(u) \in Nat /\ Interrupted(u) \in Nat
  BY CountsAre DEF IndInv
<1>3. CASE WriteAttempt
  <2>1. Handling /\ Head(agenda).kind = "attempt" /\ UNCHANGED <<status, futures, mem>>
    BY <1>3 DEF WriteAttempt
  <2>2. agenda[1] = Head(agenda) /\ cur' = cur /\ cur \in Units /\ 1 \in DOMAIN agenda
        /\ Len(agenda) \in Nat /\ (Len(agenda) >= 2 => Handling') /\ (Handling' => agenda'[1] = agenda[2])
    BY <1>2, <1>3, <2>1, AgendaRows
  <2>3. /\ Successes(u)' = Successes(u) + One(u = cur /\ agenda[1].to = "SUCCEEDED")
        /\ Interrupted(u)' = Interrupted(u) + One(u = cur /\ agenda[1].cause = "Interrupted")
    BY <1>3, AttemptCounted
  <2>4. CASE u # cur
    <3>1. NotDone(u)' => NotDone(u)
      BY <2>1, <2>2, <2>4 DEF NotDone
    <3> QED
      BY <1>1, <1>2, <2>3, <2>4, <3>1 DEF One
  <2>5. CASE u = cur /\ agenda[1].cause = "Interrupted"
    <3>1. agenda[1].to = "FAILED"
      BY <2>1, <2>2, <2>5 DEF AgendaShaped
    <3> QED
      BY <1>1, <1>2, <2>3, <2>5, <3>1 DEF One
  <2>6. CASE u = cur /\ agenda[1].cause # "Interrupted"
    <3>1. NotDone(u)
      BY <2>1, <2>2, <2>6 DEF NotDone
    <3>2. Successes(u) <= Interrupted(u) /\ Interrupted(u)' = Interrupted(u)
      BY <1>1, <1>2, <2>3, <2>6, <3>1 DEF One
    <3>3. CASE agenda[1].to # "SUCCEEDED"
      BY <1>2, <2>3, <3>2, <3>3 DEF One
    <3>4. CASE agenda[1].to = "SUCCEEDED"
      <4>1. mem[cur] = "RUNNING" /\ pc # "down"
        BY <2>1, <2>2 DEF IndInv, AgendaJustified
      <4>2. status[u] \in {"RUNNING", "CANCELLED"}
        BY <2>2, <2>6, <4>1 DEF IndInv, ViewAgrees, RetryableStates
      <4>3. futures[u] = "none"
        BY <2>1, <2>6, <2>2 DEF IndInv, TrackedRunning, Tracked
      <4>4. agenda'[1].kind = "move" /\ agenda'[1].to = "SUCCEEDED"
        BY <2>1, <2>2, <3>4 DEF AgendaShaped
      <4>5. ~NotDone(u)'
        BY <2>1, <4>2, <4>3, <4>4 DEF NotDone, Startable, RetryableStates
      <4> QED
        BY <1>2, <2>3, <2>6, <3>2, <3>4, <4>5 DEF One
    <3> QED
      BY <3>3, <3>4
  <2> QED
    BY <2>4, <2>5, <2>6
<1>4. CASE ~WriteAttempt
  <2>1. Successes(u)' = Successes(u) /\ Interrupted(u)' = Interrupted(u)
    BY <1>4, CountsFrame
  <2>2. NotDone(u)' => NotDone(u)
    BY <1>4, NotDoneFrame
  <2> QED
    BY <1>1, <1>2, <2>1, <2>2 DEF One
<1> QED
  BY <1>3, <1>4


-----------------------------------------------------------------------------
(* The audit records *)

\* With no operator at work, the coordinator's memory is what the database holds.
Unattended == opPc = "idle" /\ (pc # "down" => status = mem)

\* Unattended is preserved when there are no commands.
LEMMA UnattendedStep == Commands = {} /\ IndInv /\ Unattended /\ [Next]_vars => Unattended'
<1> SUFFICES ASSUME Commands = {}, IndInv, Unattended, [Next]_vars PROVE Unattended'
  OBVIOUS
<1>1. TypeOK
  BY DEF IndInv
<1>2. ~(CancelCommand \/ RetryCommand \/ OpNext \/ OpWrite \/ OpRefused \/ OpEnd)
  BY DEF Unattended, CancelCommand, RetryCommand, OpNext, OpWrite, OpRefused, OpEnd
<1>3. CASE Decide
  BY <1>3, DecideFrame DEF Unattended
<1>4. CASE Walk
  <2>1. pc # "down"
    BY <1>4, WalkFrame
  <2> QED
    BY <1>4, <2>1, WalkFrame DEF Unattended
<1>5. CASE Falls
  BY <1>5, DownFrame DEF Unattended
<1>6. CASE Materialize
  BY <1>6 DEF Materialize, Unattended
<1>7. CASE WriteAttempt
  BY <1>7 DEF WriteAttempt, Unattended
<1>8. CASE WriteMove
  <2>1. status' = [status EXCEPT ![cur] = agenda[1].to] /\ mem' = [mem EXCEPT ![cur] = agenda[1].to] /\ pc # "down"
    BY <1>8, WriteMoveFrame
  <2> QED
    BY <1>8, <2>1 DEF Unattended, WriteMove
<1>9. CASE Aside
  <2>1. UNCHANGED <<status, mem, pc, opPc>>
    BY <1>2, <1>9 DEF Aside, SetCancelEvent, ThreadTakes, ThreadAnswers, vars
  <2> QED
    BY <2>1 DEF Unattended
<1> QED
  BY <1>3, <1>4, <1>5, <1>6, <1>7, <1>8, <1>9, StepCases

\* AuditChain is preserved: a record starts at the status the coordinator
\* believes in, which is then the status the last record left.
LEMMA ChainStep == Commands = {} /\ IndInv /\ Unattended /\ AuditChain /\ [Next]_vars => AuditChain'
<1> SUFFICES ASSUME Commands = {}, IndInv, Unattended, AuditChain, [Next]_vars, NEW u \in Units
             PROVE  /\ log'[u] = <<>> => status'[u] = "PLANNED"
                    /\ log'[u] # <<>> => log'[u][1].from = "PLANNED" /\ log'[u][Len(log'[u])].to = status'[u]
                    /\ \A i \in 2 .. Len(log'[u]) : log'[u][i].from = log'[u][i - 1].to
  BY DEF AuditChain
<1>1. /\ TypeOK /\ status \in [Units -> UnitState] /\ log \in [Units -> Seq(Transition)]
      /\ log[u] \in Seq(Transition) /\ Len(log[u]) \in Nat
  BY LenProperties DEF IndInv, TypeOK, DbTypeOK
<1>2. /\ log[u] = <<>> => status[u] = "PLANNED"
      /\ log[u] # <<>> => log[u][1].from = "PLANNED" /\ log[u][Len(log[u])].to = status[u]
      /\ \A i \in 2 .. Len(log[u]) : log[u][i].from = log[u][i - 1].to
  BY DEF AuditChain
<1>3. ~OpWrite
  BY DEF Unattended, OpWrite
<1>4. CASE WriteMove /\ u = cur
  <2> DEFINE row == [run |-> Len(runs), seq |-> seq[cur], from |-> mem[cur], to |-> agenda[1].to]
  <2>1. /\ status' = [status EXCEPT ![cur] = agenda[1].to] /\ pc # "down"
        /\ log' = [log EXCEPT ![cur] = Append(@, row)]
    BY <1>4, WriteMoveFrame DEF WriteMove, AddTransition
  <2>2. row.from = status[u] /\ row.to = status'[u]
    BY <1>1, <1>4, <2>1 DEF Unattended
  <2>3. log'[u] = Append(log[u], row)
    BY <1>1, <1>4, <2>1
  <2> HIDE DEF row
  <2>4. /\ Len(log'[u]) = Len(log[u]) + 1 /\ log'[u][Len(log[u]) + 1] = row
        /\ \A i \in 1 .. Len(log[u]) : log'[u][i] = log[u][i]
    BY <1>1, <2>3
  <2>5. log'[u] # <<>>
    <3>1. log'[u] = <<>> => Len(log'[u]) = 0
      BY EmptySeq
    <3> QED
      BY <1>1, <2>4, <3>1
  <2>6. log[u] = <<>> => Len(log[u]) = 0
    BY EmptySeq
  <2>7. log[u] # <<>> => Len(log[u]) >= 1
    BY <1>1, EmptySeq
  <2>8. log'[u][1].from = "PLANNED"
    BY <1>1, <1>2, <2>2, <2>4, <2>6, <2>7
  <2>9. ASSUME NEW i \in 2 .. Len(log'[u]) PROVE log'[u][i].from = log'[u][i - 1].to
    <3>1. CASE i = Len(log[u]) + 1
      <4>1. log[u] # <<>>
        BY <1>1, <2>4, <2>6, <3>1
      <4>2. i - 1 = Len(log[u]) /\ i - 1 \in 1 .. Len(log[u])
        BY <1>1, <2>7, <3>1, <4>1
      <4> QED
        BY <1>2, <2>2, <2>4, <3>1, <4>1, <4>2
    <3>2. CASE i # Len(log[u]) + 1
      <4>1. i \in 2 .. Len(log[u]) /\ i \in 1 .. Len(log[u]) /\ i - 1 \in 1 .. Len(log[u])
        BY <1>1, <2>4, <2>9, <3>2
      <4> QED
        BY <1>2, <2>4, <4>1
    <3> QED
      BY <3>1, <3>2
  <2> QED
    BY <2>2, <2>4, <2>5, <2>8, <2>9
<1>5. CASE WriteMove /\ u # cur
  <2>1. /\ status' = [status EXCEPT ![cur] = agenda[1].to]
        /\ \E row : log' = [log EXCEPT ![cur] = Append(@, row)]
    BY <1>5, WriteMoveFrame DEF WriteMove, AddTransition
  <2>2. status'[u] = status[u] /\ log'[u] = log[u]
    BY <1>1, <1>5, <2>1
  <2> QED
    BY <1>2, <2>2
<1>6. CASE ~WriteMove
  <2>1. UNCHANGED <<status, log>>
    BY <1>1, <1>3, <1>6, StepCases, DecideFrame, WalkFrame, AsideFrame, DownFrame DEF Materialize, WriteAttempt
  <2> QED
    BY <1>2, <2>1
<1> QED
  BY <1>4, <1>5, <1>6

-----------------------------------------------------------------------------
(* The theorems *)

\* Before the first run nothing is recorded, granted or promised.
LEMMA AccountsInit ==
    Init => /\ TotalExact /\ ResourcesRespected /\ WithinBudget /\ WorkConserving /\ NoStrandedUnit
            /\ NoneSkipped /\ OneAnswerPerDispatch /\ StartsCovered /\ SuccessesCovered
            /\ Unattended /\ AuditChain
<1> SUFFICES ASSUME Init
             PROVE  /\ TotalExact /\ ResourcesRespected /\ WithinBudget /\ WorkConserving /\ NoStrandedUnit
                    /\ NoneSkipped /\ OneAnswerPerDispatch /\ StartsCovered /\ SuccessesCovered
                    /\ Unattended /\ AuditChain
  OBVIOUS
<1>1. /\ status = [w \in Units |-> "PLANNED"] /\ mem = [w \in Units |-> "PLANNED"] /\ pc = "down"
      /\ attempts = [w \in Units |-> <<>>] /\ log = [w \in Units |-> <<>>] /\ agenda = <<>>
      /\ futures = [w \in Units |-> "none"] /\ runningMemory = 0 /\ commands = 0
      /\ opPc = "idle" /\ opTo = "CANCELLED" /\ opTodo = {}
  BY DEF Init, DbInit, CoordInit, OpInit, AllPlanned
<1>2. Tracked = {} /\ RunningWithMemory = {}
  BY <1>1 DEF Tracked, RunningWithMemory
<1>3. TotalExact
  BY <1>1, <1>2, TotalAddsUp DEF TotalExact, AddsUp
<1>4. ResourcesRespected /\ WithinBudget
  <2>1. WithinBudget
    <3>1. Total[RunningWithMemory] = 0 /\ MemoryBudget \in Nat
      BY <1>2, TotalAddsUp, PolicyAssumption DEF AddsUp
    <3> QED
      BY <3>1 DEF WithinBudget
  <2> QED
    BY <1>1, <1>2, <2>1 DEF ResourcesRespected
<1>5. WorkConserving /\ NoStrandedUnit /\ NoneSkipped /\ Unattended
  BY <1>1 DEF WorkConserving, NoStrandedUnit, NoneSkipped, Unattended
<1>6. AuditChain
  BY <1>1 DEF AuditChain
<1>7. ASSUME NEW u \in Units
      PROVE  /\ Dispatched(u) = 0 /\ Interrupted(u) = 0 /\ Successes(u) = 0 /\ Launches(u) = 0
             /\ Outstanding(u) = 0 /\ Owed(u) = 1 /\ ~RetryCommanded(u) /\ NotDone(u)
  <2>1. attempts[u] = <<>> /\ log[u] = <<>> /\ DOMAIN attempts[u] = {} /\ DOMAIN log[u] = {}
    BY <1>1
  <2>2. Dispatched(u) = 0 /\ Interrupted(u) = 0 /\ Successes(u) = 0 /\ Launches(u) = 0
    BY <2>1, FS_EmptySet DEF Dispatched, Interrupted, Successes, Launches
  <2>3. Outstanding(u) = 0 /\ ~RetryCommanded(u) /\ ~RetryPlanned(u) /\ status[u] \in Startable
    BY <1>1 DEF Outstanding, Handling, RetryCommanded, RetryPlanned, Startable
  <2> QED
    BY <2>2, <2>3 DEF Owed, One, NotDone
<1>8. OneAnswerPerDispatch
  BY <1>7 DEF OneAnswerPerDispatch
<1>9. StartsCovered
  BY <1>1, <1>7, LimitIs DEF StartsCovered
<1>10. SuccessesCovered
  BY <1>7 DEF SuccessesCovered, One
<1> QED
  BY <1>3, <1>4, <1>5, <1>6, <1>8, <1>9, <1>10

\* The course of a run: what the coordinator knows of what runs, what it has
\* admitted and what it has settled, at every point of its loop.
THEOREM Course == Spec => []CourseInv
  BY CourseInit, CourseStep, Inductive, PTL DEF Spec

\* Whatever is RUNNING, an exclusive unit is alone and two units that declare
\* memory are within the budget together.
THEOREM ResourcesHold == Spec => []ResourcesRespected
<1>1. IndInv /\ CourseInv /\ TotalExact /\ [Next]_vars => TotalExact'
  BY TotalStep
<1>2. IndInv /\ CourseInv /\ TotalExact /\ ResourcesRespected /\ WithinBudget /\ [Next]_vars
        => ResourcesRespected' /\ WithinBudget'
  BY ResourceStep DEF CourseInv
<1> QED
  BY <1>1, <1>2, AccountsInit, Course, Inductive, PTL DEF Spec

\* All the memory declared by what is RUNNING is within the budget, unless a
\* single unit runs that is larger than the budget by itself.
THEOREM MemoryWithinBudget == Spec => []WithinBudget
<1>1. IndInv /\ CourseInv /\ TotalExact /\ [Next]_vars => TotalExact'
  BY TotalStep
<1>2. IndInv /\ CourseInv /\ TotalExact /\ ResourcesRespected /\ WithinBudget /\ [Next]_vars
        => ResourcesRespected' /\ WithinBudget'
  BY ResourceStep DEF CourseInv
<1> QED
  BY <1>1, <1>2, AccountsInit, Course, Inductive, PTL DEF Spec

\* The coordinator never waits while it could start something more.
THEOREM NeverIdle == Spec => []WorkConserving
  BY AccountsInit, ConservingStep, Inductive, PTL DEF Spec

\* A run that nobody cancelled leaves behind nothing it could still have done.
THEOREM NothingStranded == Spec => []NoStrandedUnit
  BY AccountsInit, StrandedStep, Course, Inductive, PTL DEF Spec

\* COMPLETED is recorded of a run only when all that could succeed did.
THEOREM CompletedIsDone == Spec => CompletedMeansDone
<1>1. Init => NoneSkipped
  BY AccountsInit
<1>2. IndInv /\ NoneSkipped /\ [Next]_vars => NoneSkipped'
  BY SkippedStep
<1>3. IndInv /\ NoneSkipped /\ NoStrandedUnit /\ [Next]_vars
        => [\A n \in DOMAIN runs :
              runs[n] = "RUNNING" /\ runs'[n] = "COMPLETED"
                  => \A u \in Units :
                        \/ status[u] \in {"SUCCEEDED", "CANCELLED"}
                        \/ status[u] \in {"PLANNED", "BLOCKED"} /\ \E d \in Deps[u] : status[d] # "SUCCEEDED"]_vars
  BY CompletedStep
<1> QED
  BY <1>1, <1>2, <1>3, NothingStranded, Inductive, PTL DEF Spec, CompletedMeansDone

\* A dispatch is answered at most once on record.
THEOREM AnsweredOnce == Spec => []OneAnswerPerDispatch
<1>1. IndInv /\ CourseInv /\ OneAnswerPerDispatch /\ [Next]_vars => OneAnswerPerDispatch'
  BY AnswerStep DEF CourseInv
<1> QED
  BY <1>1, AccountsInit, Course, Inductive, PTL DEF Spec

\* Every dispatch of a unit is one its policy, a recovery or an operator granted.
THEOREM BudgetKept == Spec => []RetryBudget
<1>1. IndInv /\ CourseInv /\ StartsCovered /\ [Next]_vars => StartsCovered'
  BY CoveredStep DEF CourseInv
<1>2. IndInv /\ StartsCovered => RetryBudget
  <2> SUFFICES ASSUME IndInv, StartsCovered, NEW u \in Units
               PROVE  Dispatched(u) + Outstanding(u) <= AttemptLimit(u) + Interrupted(u) + commands
    BY DEF RetryBudget
  <2>1. Dispatched(u) + Outstanding(u) + Owed(u) <= AttemptLimit(u) + Interrupted(u) + commands
    BY DEF StartsCovered
  <2>2. Owed(u) \in Nat /\ Outstanding(u) \in Nat
    BY DEF Owed, Outstanding, One
  <2>3. Dispatched(u) \in Nat /\ Interrupted(u) \in Nat /\ AttemptLimit(u) \in Nat /\ commands \in Nat
    BY CountsAre, LimitIs DEF IndInv, TypeOK, OpTypeOK
  <2> QED
    BY <2>1, <2>2, <2>3
<1> QED
  BY <1>1, <1>2, AccountsInit, Course, Inductive, PTL DEF Spec

\* A success is computed once more only for a recovery that came between.
THEOREM SuccessOnce == Spec => []SuccessRedoneOnlyAfterCrash
<1>1. IndInv /\ CourseInv /\ SuccessesCovered /\ [Next]_vars => SuccessesCovered'
  BY SuccessStep DEF CourseInv
<1>2. IndInv /\ SuccessesCovered => SuccessRedoneOnlyAfterCrash
  <2> SUFFICES ASSUME IndInv, SuccessesCovered, NEW u \in Units
               PROVE  Successes(u) <= 1 + Interrupted(u)
    BY DEF SuccessRedoneOnlyAfterCrash
  <2>1. Successes(u) <= Interrupted(u) + One(~NotDone(u))
    BY DEF SuccessesCovered
  <2>2. Successes(u) \in Nat /\ Interrupted(u) \in Nat
    BY CountsAre DEF IndInv
  <2> QED
    BY <2>1, <2>2 DEF One
<1> QED
  BY <1>1, <1>2, AccountsInit, Course, Inductive, PTL DEF Spec

\* Where no operator interferes, through any number of crashes, the audit records
\* of a unit chain from PLANNED to its status.
THEOREM AuditChained == Commands = {} => (Spec => []AuditChain)
<1> SUFFICES ASSUME Commands = {} PROVE Spec => []AuditChain
  OBVIOUS
<1>1. Init => Unattended /\ AuditChain
  BY AccountsInit
<1>2. IndInv /\ Unattended /\ [Next]_vars => Unattended'
  BY UnattendedStep
<1>3. IndInv /\ Unattended /\ AuditChain /\ [Next]_vars => AuditChain'
  BY ChainStep
<1> QED
  BY <1>1, <1>2, <1>3, Inductive, PTL DEF Spec
=============================================================================
