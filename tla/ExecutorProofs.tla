---------------------------- MODULE ExecutorProofs ----------------------------
(***************************************************************************)
(* Theorems about the executor, for any processes, threads, pids, files    *)
(* and bounds.                                                             *)
(***************************************************************************)
EXTENDS ExecutorProperties, SequenceTheorems, TLAPS

-----------------------------------------------------------------------------
(* What the registry operations do to runs *)

\* The records the operations write are well typed.
LEMMA RecordsTyped ==
    /\ NewRun \in Run /\ NoOutcome \in Outcome /\ NoEvidence \in Evidence
    /\ \A status \in {"COMPLETED", "FAILED"}, stage \in FailureStage \cup {"NONE"}, lists \in Evidence :
          [status |-> status, stage |-> stage, lists |-> lists] \in Outcome
BY DEF NewRun, Run, RunStatus, NoOutcome, Outcome, NoEvidence, Evidence

\* A run is replaced in place; the others stay what they are.
LEMMA Replaced ==
    ASSUME runs \in Seq(Run), NEW n \in DOMAIN runs, NEW r \in Run, runs' = [runs EXCEPT ![n] = r]
    PROVE  /\ runs' \in Seq(Run) /\ DOMAIN runs' = DOMAIN runs /\ Len(runs') = Len(runs)
           /\ runs'[n] = r
           /\ \A k \in DOMAIN runs : k # n => runs'[k] = runs[k]
<1>1. n \in 1 .. Len(runs)
  BY LenProperties
<1> QED
  BY <1>1, ExceptSeq, LenProperties

\* The new run comes last; the others stay what they are.
LEMMA Created ==
    ASSUME runs \in Seq(Run), runs' = Append(runs, NewRun)
    PROVE  /\ runs' \in Seq(Run) /\ DOMAIN runs' = DOMAIN runs \cup {Len(runs) + 1}
           /\ Len(runs) + 1 \notin DOMAIN runs /\ Len(runs) \in Nat
           /\ runs'[Len(runs) + 1] = NewRun
           /\ \A k \in DOMAIN runs : runs'[k] = runs[k] /\ k \in Nat /\ k < Len(runs) + 1
<1>1. NewRun \in Run
  BY RecordsTyped
<1> QED
  BY <1>1, LenProperties, AppendProperties

\* An outcome is written.
LEMMA OutcomeWritten ==
    ASSUME ExecTypeOK, NEW n \in DOMAIN runs, NEW status \in {"COMPLETED", "FAILED"},
           NEW stage \in FailureStage \cup {"NONE"}, NEW lists \in Evidence,
           FinishRun(n, status, stage, lists)
    PROVE  /\ runs' \in Seq(Run) /\ DOMAIN runs' = DOMAIN runs /\ Len(runs') = Len(runs)
           /\ runs'[n].status = status /\ runs'[n].pid = runs[n].pid
           /\ runs'[n].replayOf = runs[n].replayOf /\ runs'[n].evidence = runs[n].evidence
           /\ runs'[n].outcome = [status |-> status, stage |-> stage, lists |-> lists]
           /\ \A k \in DOMAIN runs : k # n => runs'[k] = runs[k]
<1> DEFINE o == [status |-> status, stage |-> stage, lists |-> lists]
           r == [runs[n] EXCEPT !.status = status, !.outcome = o]
<1>1. runs \in Seq(Run) /\ runs[n] \in Run
  BY LenProperties, ElementOfSeq DEF ExecTypeOK
<1>2. o \in Outcome
  BY RecordsTyped
<1>3. r \in Run /\ r.status = status /\ r.pid = runs[n].pid /\ r.replayOf = runs[n].replayOf
      /\ r.evidence = runs[n].evidence /\ r.outcome = o
  BY <1>1, <1>2 DEF Run, RunStatus
<1>4. runs' = [runs EXCEPT ![n] = r]
  BY <1>1 DEF FinishRun, Run
<1> HIDE DEF r
<1> QED
  BY <1>1, <1>3, <1>4, Replaced

\* Provenance is written and the run is RUNNING.
LEMMA Started ==
    ASSUME ExecTypeOK, NEW t \in Threads, Start(t), mine[t] \in DOMAIN runs, Home \in [Threads -> Processes]
    PROVE  LET n == mine[t] IN
           /\ runs' \in Seq(Run) /\ DOMAIN runs' = DOMAIN runs /\ Len(runs') = Len(runs)
           /\ runs'[n].status = "RUNNING" /\ runs'[n].pid = pid[Home[t]]
           /\ runs'[n].replayOf = replayOf[t] /\ runs'[n].evidence = runs[n].evidence
           /\ runs'[n].outcome = runs[n].outcome
           /\ \A k \in DOMAIN runs : k # n => runs'[k] = runs[k]
<1> DEFINE n == mine[t]
           r == [runs[n] EXCEPT !.status = "RUNNING", !.pid = pid[Home[t]], !.replayOf = replayOf[t]]
<1>1. runs \in Seq(Run) /\ runs[n] \in Run /\ pid[Home[t]] \in Nat /\ replayOf[t] \in Nat
  BY LenProperties, ElementOfSeq DEF ExecTypeOK, ThreadTypeOK
<1>2. r \in Run /\ r.status = "RUNNING" /\ r.pid = pid[Home[t]] /\ r.replayOf = replayOf[t]
      /\ r.evidence = runs[n].evidence /\ r.outcome = runs[n].outcome
  BY <1>1 DEF Run, RunStatus
<1>3. runs' = [runs EXCEPT ![n] = r]
  BY <1>1 DEF Start, Run
<1> HIDE DEF r
<1> QED
  BY <1>1, <1>2, <1>3, Replaced

\* Evidence is added, and the thread knows it.
LEMMA EvidenceAdded ==
    ASSUME ExecTypeOK, NEW t \in Threads, mine[t] \in DOMAIN runs,
           NEW observations \in Nat, NEW artifacts \in SUBSET Artifact,
           AddToEvidence(t, observations, artifacts), seen[t] = runs[mine[t]].evidence
    PROVE  LET n == mine[t] IN
           /\ runs' \in Seq(Run) /\ DOMAIN runs' = DOMAIN runs /\ Len(runs') = Len(runs)
           /\ runs'[n].status = runs[n].status /\ runs'[n].pid = runs[n].pid
           /\ runs'[n].replayOf = runs[n].replayOf /\ runs'[n].outcome = runs[n].outcome
           /\ runs'[n].evidence \in Evidence
           /\ seen' = [seen EXCEPT ![t] = runs'[n].evidence]
           /\ \A k \in DOMAIN runs : k # n => runs'[k] = runs[k]
<1> DEFINE n == mine[t]
           e == [observations |-> runs[n].evidence.observations + observations,
                 artifacts |-> runs[n].evidence.artifacts \cup artifacts]
           r == [runs[n] EXCEPT !.evidence = e]
<1>1. runs \in Seq(Run) /\ runs[n] \in Run /\ seen \in [Threads -> Evidence]
  BY LenProperties, ElementOfSeq DEF ExecTypeOK, ThreadTypeOK
<1>2. e \in Evidence
  BY <1>1 DEF Evidence, Run
<1> HIDE DEF e
<1>3. r \in Run /\ r.status = runs[n].status /\ r.pid = runs[n].pid /\ r.replayOf = runs[n].replayOf
      /\ r.outcome = runs[n].outcome /\ r.evidence = e
  BY <1>1, <1>2 DEF Run
<1>4. runs' = [runs EXCEPT ![n] = r] /\ seen' = [seen EXCEPT ![t] = e]
  BY <1>1 DEF AddToEvidence, Run, e
<1> HIDE DEF r
<1> QED
  BY <1>1, <1>2, <1>3, <1>4, Replaced

-----------------------------------------------------------------------------
(* The registry half of the invariant *)

\* Runs are numbered from 1, and every one is a well-typed record.
LEMMA RunsNumbered ==
    ASSUME ExecInv
    PROVE  /\ 0 \notin DOMAIN runs /\ DOMAIN runs \subseteq Nat /\ DOMAIN runs = 1 .. Len(runs)
           /\ \A k \in DOMAIN runs : runs[k] \in Run
<1>1. runs \in Seq(Run)
  BY DEF ExecInv, ExecTypeOK
<1> QED
  BY <1>1, LenProperties, ElementOfSeq

\* Original runs of replays, recorded or about to be, are runs.
LEMMA Originals ==
    ASSUME ExecInv
    PROVE  /\ \A k \in DOMAIN runs : runs[k].replayOf # 0 => runs[k].replayOf \in DOMAIN runs
           /\ \A t \in Threads : pc[t] = "created" /\ replayOf[t] # 0 => replayOf[t] \in DOMAIN runs
<1>1. \A k \in DOMAIN runs : runs[k].replayOf \in Nat
  BY RunsNumbered DEF Run
<1>2. \A k \in DOMAIN runs : runs[k].replayOf # 0 => runs[k].replayOf \in DOMAIN runs
  BY <1>1, RunsNumbered DEF ExecInv, ReplayOfFinished
<1>3. \A t \in Threads : pc[t] = "created" => replayOf[t] \in Nat /\ mine[t] \in DOMAIN runs
  BY DEF ExecInv, ExecTypeOK, ThreadTypeOK
<1>4. \A t \in Threads : pc[t] = "created" /\ replayOf[t] # 0 => replayOf[t] \in DOMAIN runs
  BY <1>3, RunsNumbered DEF ExecInv, CreatedPending
<1> QED
  BY <1>2, <1>4

\* A run, once started, does not become PENDING again; once finished, it stays so.
Forward ==
    \A k \in DOMAIN runs :
        /\ k \in DOMAIN runs'
        /\ runs[k].status # "PENDING" => runs'[k].status # "PENDING"
        /\ Finished(k) => Finished(k)' /\ runs'[k].pid = runs[k].pid

\* Replays refer to finished runs as long as runs go forward, and a run that is new
\* or gets a new original refers to such a run.
LEMMA ReplaysForward ==
    ASSUME ExecInv, Forward,
           \A k \in DOMAIN runs' : LET original == runs'[k].replayOf IN
               \/ original = 0
               \/ k \in DOMAIN runs /\ original = runs[k].replayOf
               \/ original < k /\ original \in DOMAIN runs /\ Replayable(original)
    PROVE  ReplayOfFinished'
  BY Originals DEF ExecInv, ReplayOfFinished, Forward, Finished, Replayable

\* Finishing a run that is not finished, with the evidence it has, keeps the registry right.
LEMMA FinishKeeps ==
    ASSUME ExecInv, NEW n \in DOMAIN runs, NEW status \in {"COMPLETED", "FAILED"},
           NEW stage \in FailureStage \cup {"NONE"}, FinishRun(n, status, stage, runs[n].evidence),
           ~Finished(n), stage = "PREPARATION" <=> runs[n].pid = 0,
           status = "COMPLETED" => runs[n].pid # 0
    PROVE  Forward /\ Lifecycle' /\ OutcomeTellsAll' /\ ReplayOfFinished'
<1>1. runs[n].evidence \in Evidence
  BY RunsNumbered DEF Run
<1>2. /\ DOMAIN runs' = DOMAIN runs
      /\ runs'[n].status = status /\ runs'[n].pid = runs[n].pid
      /\ runs'[n].replayOf = runs[n].replayOf /\ runs'[n].evidence = runs[n].evidence
      /\ runs'[n].outcome = [status |-> status, stage |-> stage, lists |-> runs[n].evidence]
      /\ \A k \in DOMAIN runs : k # n => runs'[k] = runs[k]
  BY <1>1, OutcomeWritten DEF ExecInv
<1>3. Forward
  BY <1>2 DEF Forward, Finished
<1>4. Lifecycle'
  BY <1>2 DEF ExecInv, Lifecycle
<1>5. OutcomeTellsAll'
  <2>1. \A k \in DOMAIN runs' \ {n} : runs'[k] = runs[k]
    BY <1>2
  <2>2. ASSUME NEW k \in DOMAIN runs', k # n
        PROVE  /\ Finished(k)' <=> runs'[k].outcome # NoOutcome
               /\ Finished(k)' => /\ runs'[k].outcome.status = runs'[k].status
                                  /\ runs'[k].outcome.lists = runs'[k].evidence
               /\ runs'[k].outcome.stage = "PREPARATION" <=> (Finished(k)' /\ runs'[k].pid = 0)
    BY <1>2, <2>1, <2>2 DEF ExecInv, OutcomeTellsAll, Finished
  <2>3. /\ Finished(n)' /\ runs'[n].outcome # NoOutcome
        /\ runs'[n].outcome.status = runs'[n].status
        /\ runs'[n].outcome.lists = runs'[n].evidence
        /\ runs'[n].outcome.stage = "PREPARATION" <=> (Finished(n)' /\ runs'[n].pid = 0)
    BY <1>2 DEF Finished, NoOutcome
  <2> QED
    BY <2>2, <2>3 DEF OutcomeTellsAll
<1>6. ReplayOfFinished'
  BY <1>2, <1>3, ReplaysForward
<1> QED
  BY <1>3, <1>4, <1>5, <1>6

\* Starting a PENDING run under a process that is up keeps the registry right.
LEMMA StartKeeps ==
    ASSUME ExecInv, NEW t \in Threads, Start(t)
    PROVE  Forward /\ Lifecycle' /\ OutcomeTellsAll' /\ ReplayOfFinished'
<1> DEFINE n == mine[t]
<1>1. /\ n \in DOMAIN runs /\ pc[t] = "created" /\ pid[Home[t]] # 0 /\ runs[n].status = "PENDING"
      /\ replayOf[t] # 0 => replayOf[t] < n /\ Replayable(replayOf[t])
  BY DEF ExecInv, ExecTypeOK, ThreadTypeOK, Start, CreatedPending, Up
<1>2. /\ DOMAIN runs' = DOMAIN runs
      /\ runs'[n].status = "RUNNING" /\ runs'[n].pid = pid[Home[t]]
      /\ runs'[n].replayOf = replayOf[t] /\ runs'[n].evidence = runs[n].evidence
      /\ runs'[n].outcome = runs[n].outcome
      /\ \A k \in DOMAIN runs : k # n => runs'[k] = runs[k]
  BY <1>1, Started, HostAssumption DEF ExecInv
<1>3. Forward
  BY <1>1, <1>2 DEF Forward, Finished
<1>4. Lifecycle'
  BY <1>1, <1>2 DEF ExecInv, Lifecycle
<1>5. OutcomeTellsAll'
  BY <1>1, <1>2 DEF ExecInv, OutcomeTellsAll, Finished
<1>6. ReplayOfFinished'
  BY <1>1, <1>2, <1>3, ReplaysForward, Originals
<1> QED
  BY <1>3, <1>4, <1>5, <1>6

\* Adding evidence to a RUNNING run keeps the registry right.
LEMMA EvidenceKeeps ==
    ASSUME ExecInv, NEW n \in DOMAIN runs, runs[n].status = "RUNNING",
           DOMAIN runs' = DOMAIN runs, runs'[n].status = runs[n].status, runs'[n].pid = runs[n].pid,
           runs'[n].replayOf = runs[n].replayOf, runs'[n].outcome = runs[n].outcome,
           \A k \in DOMAIN runs : k # n => runs'[k] = runs[k]
    PROVE  Forward /\ Lifecycle' /\ OutcomeTellsAll' /\ ReplayOfFinished'
<1>1. Forward
  BY DEF Forward, Finished
<1>2. Lifecycle'
  BY DEF ExecInv, Lifecycle
<1>3. OutcomeTellsAll'
  BY DEF ExecInv, OutcomeTellsAll, Finished
<1>4. ReplayOfFinished'
  BY <1>1, ReplaysForward
<1> QED
  BY <1>1, <1>2, <1>3, <1>4

\* Creating a run keeps the registry right.
LEMMA CreateKeeps ==
    ASSUME ExecInv, runs' = Append(runs, NewRun)
    PROVE  Forward /\ Lifecycle' /\ OutcomeTellsAll' /\ ReplayOfFinished'
<1> DEFINE n == Len(runs) + 1
<1>1. /\ DOMAIN runs' = DOMAIN runs \cup {n} /\ n \notin DOMAIN runs /\ runs'[n] = NewRun
      /\ \A k \in DOMAIN runs : runs'[k] = runs[k]
  BY Created DEF ExecInv, ExecTypeOK
<1>2. Forward
  BY <1>1 DEF Forward, Finished
<1>3. Lifecycle'
  BY <1>1 DEF ExecInv, Lifecycle, NewRun
<1>4. OutcomeTellsAll'
  BY <1>1 DEF ExecInv, OutcomeTellsAll, Finished, NewRun, NoOutcome
<1>5. ReplayOfFinished'
  BY <1>1, <1>2, ReplaysForward DEF NewRun
<1> QED
  BY <1>2, <1>3, <1>4, <1>5

\* A step that leaves the registry alone keeps it right.
LEMMA RegistryUnchanged ==
    ASSUME ExecInv, UNCHANGED runs
    PROVE  Forward /\ Lifecycle' /\ OutcomeTellsAll' /\ ReplayOfFinished'
  BY DEF ExecInv, Forward, Lifecycle, OutcomeTellsAll, ReplayOfFinished, Finished

-----------------------------------------------------------------------------
(* The threads' half of the invariant *)

\* Phases in which a thread has a run to itself.
Owning == Executing \cup {"created"}

\* Of the threads, only t moves, and no other thread's own run is touched or taken.
Alone(t) ==
    /\ \A u \in Threads \ {t} :
          /\ pc'[u] = pc[u] /\ mine'[u] = mine[u] /\ replayOf'[u] = replayOf[u]
          /\ error'[u] = error[u] /\ seen'[u] = seen[u] /\ todo'[u] = todo[u]
    /\ \A u \in Threads \ {t} : pc[u] \in Owning =>
          /\ mine'[t] # mine[u] /\ runs'[mine[u]] = runs[mine[u]] /\ files'[mine[u]] = files[mine[u]]
    /\ \A u \in Threads \ {t} : pc[u] = "close" => runs'[mine[u]].evidence = runs[mine[u]].evidence

\* What the invariant says of t after its step.
OwnClauses(t) ==
    /\ pc'[t] \in Owning =>
          /\ pid[Home[t]] # 0
          /\ \A u \in Threads \ {t} : pc[u] # "idle" => mine[u] # mine'[t]
    /\ pc'[t] \in Executing =>
          /\ runs'[mine'[t]].status = "RUNNING" /\ runs'[mine'[t]].pid = pid[Home[t]]
    /\ pc'[t] \in Executing \cup {"close"} => seen'[t] = runs'[mine'[t]].evidence
    /\ pc'[t] = "commit" /\ error'[t] = "NONE" =>
          \A artifact \in seen'[t].artifacts : files'[mine'[t]][artifact[1]] = artifact[2]
    /\ pc'[t] = "created" =>
          /\ runs'[mine'[t]].status = "PENDING"
          /\ replayOf'[t] # 0 => replayOf'[t] < mine'[t] /\ replayOf'[t] \in DOMAIN runs /\ Replayable(replayOf'[t])
    /\ \A n \in todo'[t] : n \in DOMAIN runs /\ runs[n].status # "PENDING"
    /\ pc'[t] \in {"idle", "recover"} => mine'[t] = 0
    /\ pc'[t] = "close" => runs'[mine'[t]].status # "PENDING"
    /\ pc'[t] = "diagnose" => error'[t] # "NONE"
    /\ error'[t] # "PREPARATION"
    /\ pc'[t] \in {"idle", "created"} => seen'[t] = NoEvidence

\* A step of one thread keeps what the invariant says of every thread.
LEMMA OneThreadMoves ==
    ASSUME ExecInv, NEW t \in Threads, Forward, UNCHANGED pid, Alone(t), OwnClauses(t)
    PROVE  SeenAll' /\ CreatedPending' /\ ThreadsConsistent' /\ InFlightUntouched'
<1>1. \A u \in Threads : pc[u] \in Owning \cup {"close"} => mine[u] \in DOMAIN runs
  BY DEF ExecInv, ExecTypeOK, ThreadTypeOK, Owning, Executing
<1>2. \A u \in Threads : todo[u] \subseteq DOMAIN runs
  BY DEF ExecInv, ExecTypeOK, ThreadTypeOK
<1>3. SeenAll'
  BY DEF ExecInv, SeenAll, Alone, OwnClauses, Intact, Owning, Executing
<1>4. CreatedPending'
  <2>1. ASSUME NEW u \in Threads, u # t, pc'[u] = "created"
        PROVE  /\ Up(u)' /\ runs'[mine'[u]].status = "PENDING"
               /\ \A w \in Threads \ {u} : pc'[w] # "idle" => mine'[w] # mine'[u]
               /\ (replayOf[u] # 0 => replayOf[u] < mine[u] /\ Replayable(replayOf[u]))'
    <3>1. pc[u] = "created" /\ mine'[u] = mine[u] /\ replayOf'[u] = replayOf[u]
      BY <2>1 DEF Alone
    <3>2. Up(u)' /\ runs'[mine'[u]].status = "PENDING"
      BY <3>1, <2>1 DEF ExecInv, CreatedPending, Alone, Owning, Up
    <3>3. \A w \in Threads \ {u} : pc'[w] # "idle" => mine'[w] # mine'[u]
      BY <3>1, <2>1 DEF ExecInv, CreatedPending, Alone, Owning
    <3>4. ASSUME replayOf[u] # 0
          PROVE  replayOf[u] < mine[u] /\ replayOf[u] \in DOMAIN runs /\ Replayable(replayOf[u])
      BY <3>1, <3>4, <2>1, Originals DEF ExecInv, CreatedPending
    <3> QED
      BY <3>1, <3>2, <3>3, <3>4 DEF Forward, Replayable
  <2>2. ASSUME pc'[t] = "created"
        PROVE  /\ Up(t)' /\ runs'[mine'[t]].status = "PENDING"
               /\ \A w \in Threads \ {t} : pc'[w] # "idle" => mine'[w] # mine'[t]
               /\ (replayOf[t] # 0 => replayOf[t] < mine[t] /\ Replayable(replayOf[t]))'
    <3>1. Up(t)' /\ runs'[mine'[t]].status = "PENDING"
      BY <2>2 DEF OwnClauses, Owning, Up
    <3>2. \A w \in Threads \ {t} : pc'[w] # "idle" => mine'[w] # mine'[t]
      BY <2>2 DEF Alone, OwnClauses, Owning
    <3>3. (replayOf[t] # 0 => replayOf[t] < mine[t] /\ Replayable(replayOf[t]))'
      BY <2>2 DEF OwnClauses, Forward, Replayable, Finished
    <3> QED
      BY <3>1, <3>2, <3>3
  <2> QED
    BY <2>1, <2>2 DEF CreatedPending
<1>5. ThreadsConsistent'
  <2>1. ASSUME NEW u \in Threads, u # t
        PROVE  /\ \A n \in todo'[u] : runs'[n].status # "PENDING"
               /\ pc'[u] \in {"idle", "recover"} => mine'[u] = 0
               /\ pc'[u] = "close" => runs'[mine'[u]].status # "PENDING"
               /\ pc'[u] = "diagnose" => error'[u] # "NONE"
               /\ error'[u] # "PREPARATION"
               /\ pc'[u] \in {"idle", "created"} => seen'[u] = NoEvidence
    BY <1>1, <1>2, <2>1 DEF ExecInv, ThreadsConsistent, Alone, Forward
  <2>2. /\ \A n \in todo'[t] : runs'[n].status # "PENDING"
        /\ pc'[t] \in {"idle", "recover"} => mine'[t] = 0
        /\ pc'[t] = "close" => runs'[mine'[t]].status # "PENDING"
        /\ pc'[t] = "diagnose" => error'[t] # "NONE"
        /\ error'[t] # "PREPARATION"
        /\ pc'[t] \in {"idle", "created"} => seen'[t] = NoEvidence
    BY DEF OwnClauses, Forward
  <2> QED
    BY <2>1, <2>2 DEF ThreadsConsistent
<1>6. InFlightUntouched'
  <2>1. ASSUME NEW u \in Threads, u # t, pc'[u] \in Executing
        PROVE  /\ Up(u)' /\ runs'[mine'[u]].status = "RUNNING" /\ runs'[mine'[u]].pid = pid'[Home[u]]
               /\ \A w \in Threads \ {u} : pc'[w] # "idle" => mine'[w] # mine'[u]
    BY <2>1 DEF ExecInv, InFlightUntouched, Alone, Owning, Up
  <2>2. ASSUME pc'[t] \in Executing
        PROVE  /\ Up(t)' /\ runs'[mine'[t]].status = "RUNNING" /\ runs'[mine'[t]].pid = pid'[Home[t]]
               /\ \A w \in Threads \ {t} : pc'[w] # "idle" => mine'[w] # mine'[t]
    BY <2>2 DEF Alone, OwnClauses, Owning, Up
  <2> QED
    BY <2>1, <2>2 DEF InFlightUntouched
<1> QED
  BY <1>3, <1>4, <1>5, <1>6

\* A run that a thread has to itself is no other busy thread's.
LEMMA Bystanders ==
    ASSUME ExecInv, NEW t \in Threads, pc[t] # "idle"
    PROVE  /\ \A u \in Threads \ {t} : pc[u] \in Owning => mine[u] \in DOMAIN runs /\ mine[u] # mine[t]
           /\ \A u \in Threads : pc[u] = "close" => mine[u] \in DOMAIN runs
           /\ pc[t] \in Owning => \A u \in Threads \ {t} : pc[u] # "idle" => mine[u] # mine[t]
  BY DEF ExecInv, ExecTypeOK, ThreadTypeOK, CreatedPending, InFlightUntouched, Owning, Executing

-----------------------------------------------------------------------------
(* Steps that leave registry, files and processes alone *)

\* Such a step keeps the invariant if it keeps the threads' half of it.
LEMMA LooksOnly ==
    ASSUME ExecInv, NEW t \in Threads, UNCHANGED <<runs, files, pid>>,
           Alone(t), OwnClauses(t), ThreadTypeOK'
    PROVE  ExecInv'
<1>1. Forward /\ Lifecycle' /\ OutcomeTellsAll' /\ ReplayOfFinished'
  BY RegistryUnchanged
<1>2. SeenAll' /\ CreatedPending' /\ ThreadsConsistent' /\ InFlightUntouched'
  BY <1>1, OneThreadMoves
<1>3. ExecTypeOK' /\ CompletedIntact'
  BY DEF ExecInv, ExecTypeOK, CompletedIntact, Intact
<1> QED
  BY <1>1, <1>2, <1>3 DEF ExecInv

\* A thread that returns to its caller has nothing left to keep.
LEMMA BackKeeps ==
    ASSUME ExecInv, NEW t \in Threads, BackToCaller({t}), DOMAIN runs' = DOMAIN runs
    PROVE  ThreadTypeOK'
  BY RecordsTyped DEF ExecInv, ExecTypeOK, ThreadTypeOK, BackToCaller, Executing

\* A thread gives up on its run, or ends its recovery.
LEMMA GivesUp ==
    ASSUME ExecInv, NEW t \in Threads, UNCHANGED <<runs, files, pid>>, BackToCaller({t})
    PROVE  ExecInv'
<1>1. ThreadTypeOK'
  BY BackKeeps
<1>2. Alone(t)
  <2>1. \A u \in Threads : pc[u] \in Owning => mine[u] # 0
    BY RunsNumbered DEF ExecInv, ExecTypeOK, ThreadTypeOK, Owning
  <2> QED
    BY <2>1 DEF Alone, BackToCaller
<1>3. OwnClauses(t)
  BY DEF OwnClauses, BackToCaller, Owning, Executing
<1> QED
  BY <1>1, <1>2, <1>3, LooksOnly

\* The procedure returns or raises; the artifacts are verified.
LEMMA ProcedureEnds ==
    ASSUME ExecInv, NEW t \in Threads, Return(t) \/ Raise(t) \/ Verify(t)
    PROVE  ExecInv'
<1>1. pc[t] \in {"procedure", "verify"} /\ UNCHANGED <<runs, files, pid, mine, replayOf, seen, todo>>
  BY DEF Return, Raise, Verify
<1>2. ThreadTypeOK'
  BY <1>1 DEF ExecInv, ExecTypeOK, ThreadTypeOK, Executing, FailureStage, Return, Raise, Verify, Goto
<1>3. Alone(t)
  <2>1. \A u \in Threads \ {t} : pc'[u] = pc[u] /\ error'[u] = error[u]
    BY DEF ExecInv, ExecTypeOK, ThreadTypeOK, Return, Raise, Verify, Goto
  <2> QED
    BY <1>1, <2>1, Bystanders DEF Alone
<1>4. OwnClauses(t)
  <2>1. /\ pc[t] \in Executing /\ pc[t] \in Owning /\ Up(t) /\ pc'[t] \in {"verify", "commit", "diagnose"}
        /\ runs[mine[t]].status = "RUNNING" /\ runs[mine[t]].pid = pid[Home[t]] /\ seen[t] = runs[mine[t]].evidence
        /\ \A n \in todo[t] : n \in DOMAIN runs /\ runs[n].status # "PENDING"
    BY <1>1 DEF ExecInv, ExecTypeOK, ThreadTypeOK, InFlightUntouched, SeenAll, ThreadsConsistent, Executing,
                Owning, Return, Raise, Verify, Goto
  <2>2. pc'[t] = "commit" => Verified(t)
    BY <1>1, <2>1 DEF ExecInv, ExecTypeOK, ThreadTypeOK, Return, Raise, Verify, Goto
  <2>3. /\ pc'[t] = "diagnose" => error'[t] # "NONE"
        /\ error'[t] # "PREPARATION"
    BY DEF ExecInv, ExecTypeOK, ThreadTypeOK, ThreadsConsistent, Return, Raise, Verify, Goto
  <2> QED
    BY <1>1, <2>1, <2>2, <2>3, Bystanders DEF OwnClauses, Verified, Intact, Up
<1> QED
  BY <1>1, <1>2, <1>3, <1>4, LooksOnly

\* Diagnosis without the traceback.
LEMMA DiagnosisGivenUp ==
    ASSUME ExecInv, NEW t \in Threads, Diagnose(t), UNCHANGED <<runs, seen>>
    PROVE  ExecInv'
<1>1. /\ pc[t] = "diagnose" /\ pc' = [pc EXCEPT ![t] = "commit"]
      /\ UNCHANGED <<runs, files, pid, mine, replayOf, error, seen, todo>>
  BY DEF Diagnose, Goto
<1>2. ThreadTypeOK'
  BY <1>1 DEF ExecInv, ExecTypeOK, ThreadTypeOK, Executing
<1>3. Alone(t)
  BY <1>1, Bystanders DEF Alone, ExecInv, ExecTypeOK, ThreadTypeOK
<1>4. OwnClauses(t)
  <2>1. /\ pc[t] \in Executing /\ pc[t] \in Owning /\ Up(t) /\ pc'[t] = "commit"
        /\ runs[mine[t]].status = "RUNNING" /\ runs[mine[t]].pid = pid[Home[t]] /\ seen[t] = runs[mine[t]].evidence
        /\ \A n \in todo[t] : n \in DOMAIN runs /\ runs[n].status # "PENDING"
        /\ error[t] # "NONE" /\ error[t] # "PREPARATION"
    BY <1>1 DEF ExecInv, ExecTypeOK, ThreadTypeOK, InFlightUntouched, SeenAll, ThreadsConsistent, Executing, Owning
  <2> QED
    BY <1>1, <2>1, Bystanders DEF OwnClauses, Up
<1> QED
  BY <1>1, <1>2, <1>3, <1>4, LooksOnly

\* A recovery reads which runs are RUNNING.
LEMMA RecoverKeeps ==
    ASSUME ExecInv, NEW t \in Threads, Recover(t)
    PROVE  ExecInv'
<1>1. /\ pc[t] = "idle" /\ pc' = [pc EXCEPT ![t] = "recover"] /\ mine[t] = 0
      /\ todo' = [todo EXCEPT ![t] = {n \in DOMAIN runs : runs[n].status = "RUNNING"}]
      /\ UNCHANGED <<runs, files, pid, mine, replayOf, error, seen>>
  BY DEF Recover, Goto, ExecInv, ThreadsConsistent
<1>2. ThreadTypeOK'
  BY <1>1, RunsNumbered DEF ExecInv, ExecTypeOK, ThreadTypeOK, Executing
<1>3. Alone(t)
  <2>1. \A u \in Threads : pc[u] \in Owning => mine[u] # 0
    BY RunsNumbered DEF ExecInv, ExecTypeOK, ThreadTypeOK, Owning
  <2> QED
    BY <1>1, <2>1 DEF Alone, ExecInv, ExecTypeOK, ThreadTypeOK
<1>4. OwnClauses(t)
  BY <1>1 DEF OwnClauses, ExecInv, ExecTypeOK, ThreadTypeOK, ThreadsConsistent, Owning, Executing
<1> QED
  BY <1>1, <1>2, <1>3, <1>4, LooksOnly

\* A recovery takes up a run only when no process has its pid, so no thread executes it.
LEMMA ExamineKeeps ==
    ASSUME ExecInv, NEW t \in Threads, Examine(t)
    PROVE  ExecInv'
<1>1. PICK n \in todo[t] :
        /\ todo' = [todo EXCEPT ![t] = @ \ {n}]
        /\ IF ProcessGone(n)
           THEN /\ mine' = [mine EXCEPT ![t] = n]
                /\ seen' = [seen EXCEPT ![t] = runs[n].evidence] /\ Goto(t, "close")
           ELSE UNCHANGED <<mine, seen, pc>>
  BY DEF Examine
<1>2. /\ pc[t] = "recover" /\ UNCHANGED <<runs, files, pid, replayOf, error>>
      /\ n \in DOMAIN runs /\ n \in Nat /\ runs[n].evidence \in Evidence /\ runs[n].status # "PENDING"
  BY <1>1, RunsNumbered DEF Examine, ExecInv, ExecTypeOK, ThreadTypeOK, ThreadsConsistent, Run
<1>3. ThreadTypeOK'
  BY <1>1, <1>2 DEF ExecInv, ExecTypeOK, ThreadTypeOK, Executing, Goto
<1>4. ASSUME NEW u \in Threads \ {t}, pc[u] \in Owning, ProcessGone(n)
      PROVE  mine[u] # n
  <2>1. CASE pc[u] = "created"
    BY <1>2, <2>1 DEF ExecInv, CreatedPending
  <2>2. CASE pc[u] \in Executing
    <3>1. Up(u) /\ runs[mine[u]].pid = pid[Home[u]] /\ Home[u] \in Processes
      BY <2>2, HostAssumption DEF ExecInv, InFlightUntouched
    <3> QED
      BY <1>4, <3>1 DEF ProcessGone, Alive, Up
  <2> QED
    BY <1>4, <2>1, <2>2 DEF Owning
<1>5. Alone(t)
  BY <1>1, <1>2, <1>4, Bystanders DEF Alone, ExecInv, ExecTypeOK, ThreadTypeOK, Goto
<1>6. OwnClauses(t)
  BY <1>1, <1>2 DEF OwnClauses, ExecInv, ExecTypeOK, ThreadTypeOK, ThreadsConsistent, Owning, Executing, Goto
<1> QED
  BY <1>2, <1>3, <1>5, <1>6, LooksOnly

-----------------------------------------------------------------------------
(* Steps that write *)

\* COMPLETED runs stay intact when a step only touches runs that are not, or completes
\* one whose artifacts are intact.
LEMMA IntactStays ==
    ASSUME ExecInv,
           \A k \in DOMAIN runs' : runs'[k].status = "COMPLETED" =>
               \/ k \in DOMAIN runs /\ runs'[k] = runs[k] /\ files'[k] = files[k]
               \/ \A artifact \in runs'[k].evidence.artifacts : files'[k][artifact[1]] = artifact[2]
    PROVE  CompletedIntact'
  BY DEF ExecInv, CompletedIntact, Intact

\* The run is started.
LEMMA StartInvariant ==
    ASSUME ExecInv, NEW t \in Threads, Start(t)
    PROVE  ExecInv'
<1> DEFINE n == mine[t]
<1>1. /\ n \in DOMAIN runs /\ pc[t] = "created" /\ pid[Home[t]] # 0 /\ pc[t] \in Owning
      /\ runs[n].status = "PENDING" /\ runs[n].evidence = NoEvidence /\ seen[t] = NoEvidence
      /\ error[t] # "PREPARATION" /\ \A k \in todo[t] : k \in DOMAIN runs /\ runs[k].status # "PENDING"
  BY DEF ExecInv, ExecTypeOK, ThreadTypeOK, Start, CreatedPending, Up, Lifecycle, ThreadsConsistent, Owning
<1>2. /\ runs' \in Seq(Run) /\ DOMAIN runs' = DOMAIN runs
      /\ runs'[n].status = "RUNNING" /\ runs'[n].pid = pid[Home[t]]
      /\ runs'[n].evidence = runs[n].evidence
      /\ \A k \in DOMAIN runs : k # n => runs'[k] = runs[k]
  BY <1>1, Started, HostAssumption DEF ExecInv
<1>3. /\ pc' = [pc EXCEPT ![t] = "procedure"]
      /\ UNCHANGED <<files, pid, mine, replayOf, error, seen, todo>>
  BY DEF Start, Goto
<1>4. Forward /\ Lifecycle' /\ OutcomeTellsAll' /\ ReplayOfFinished'
  BY StartKeeps
<1>5. ExecTypeOK'
  BY <1>1, <1>2, <1>3 DEF ExecInv, ExecTypeOK, ThreadTypeOK, Executing
<1>6. Alone(t)
  BY <1>1, <1>2, <1>3, Bystanders DEF Alone, ExecInv, ExecTypeOK, ThreadTypeOK
<1>7. OwnClauses(t)
  BY <1>1, <1>2, <1>3, Bystanders DEF OwnClauses, ExecInv, ExecTypeOK, ThreadTypeOK, CreatedPending, Owning, Executing
<1>8. SeenAll' /\ CreatedPending' /\ ThreadsConsistent' /\ InFlightUntouched'
  BY <1>3, <1>4, <1>6, <1>7, OneThreadMoves
<1>9. CompletedIntact'
  BY <1>2, <1>3, IntactStays
<1> QED
  BY <1>4, <1>5, <1>8, <1>9 DEF ExecInv

\* Evidence is added by the procedure, or the traceback by the diagnosis.
LEMMA EvidenceInvariant ==
    ASSUME ExecInv, NEW t \in Threads,
           \/ Observe(t) \/ RegisterArtifact(t)
           \/ Diagnose(t) /\ AddToEvidence(t, 0, {Traceback})
    PROVE  ExecInv'
<1> DEFINE n == mine[t]
<1>1. /\ n \in DOMAIN runs /\ pc[t] \in {"procedure", "diagnose"} /\ pid[Home[t]] # 0
      /\ pc[t] \in Owning /\ pc[t] \in Executing
      /\ runs[n].status = "RUNNING" /\ runs[n].pid = pid[Home[t]] /\ seen[t] = runs[n].evidence
      /\ error[t] # "PREPARATION" /\ (pc[t] = "diagnose" => error[t] # "NONE")
      /\ \A k \in todo[t] : k \in DOMAIN runs /\ runs[k].status # "PENDING"
  BY DEF ExecInv, ExecTypeOK, ThreadTypeOK, Observe, RegisterArtifact, Diagnose, InFlightUntouched, SeenAll,
         Up, ThreadsConsistent, Owning, Executing
<1>2. /\ pc' = IF pc[t] = "diagnose" THEN [pc EXCEPT ![t] = "commit"] ELSE pc
      /\ UNCHANGED <<files, pid, mine, replayOf, error, todo>>
  BY DEF Observe, RegisterArtifact, Diagnose, Goto
<1>3. \E observations \in Nat, artifacts \in SUBSET Artifact : AddToEvidence(t, observations, artifacts)
  <2>1. CASE Observe(t)
    BY <2>1 DEF Observe
  <2>2. CASE RegisterArtifact(t)
    <3>1. files[n] \in [Paths -> Contents \cup {"none"}]
      BY <1>1, ElementOfSeq, LenProperties DEF ExecInv, ExecTypeOK
    <3>2. PICK f \in Paths : files[n][f] # "none" /\ AddToEvidence(t, 0, {<<f, files[n][f]>>})
      BY <2>2 DEF RegisterArtifact
    <3>3. {<<f, files[n][f]>>} \in SUBSET Artifact
      BY <3>1, <3>2 DEF Artifact
    <3> QED
      BY <3>2, <3>3
  <2>3. CASE Diagnose(t) /\ AddToEvidence(t, 0, {Traceback})
    BY <2>3 DEF Artifact
  <2> QED
    BY <2>1, <2>2, <2>3
<1>4. /\ runs' \in Seq(Run) /\ DOMAIN runs' = DOMAIN runs
      /\ runs'[n].status = runs[n].status /\ runs'[n].pid = runs[n].pid
      /\ runs'[n].replayOf = runs[n].replayOf /\ runs'[n].outcome = runs[n].outcome
      /\ runs'[n].evidence \in Evidence /\ seen' = [seen EXCEPT ![t] = runs'[n].evidence]
      /\ \A k \in DOMAIN runs : k # n => runs'[k] = runs[k]
  BY <1>1, <1>3, EvidenceAdded DEF ExecInv
<1>5. Forward /\ Lifecycle' /\ OutcomeTellsAll' /\ ReplayOfFinished'
  BY <1>1, <1>4, EvidenceKeeps
<1>6. ExecTypeOK'
  BY <1>1, <1>2, <1>4 DEF ExecInv, ExecTypeOK, ThreadTypeOK, Executing
<1>7. Alone(t)
  BY <1>1, <1>2, <1>4, Bystanders DEF Alone, ExecInv, ExecTypeOK, ThreadTypeOK
<1>8. OwnClauses(t)
  BY <1>1, <1>2, <1>4, Bystanders DEF OwnClauses, ExecInv, ExecTypeOK, ThreadTypeOK, Owning, Executing
<1>9. SeenAll' /\ CreatedPending' /\ ThreadsConsistent' /\ InFlightUntouched'
  BY <1>2, <1>5, <1>7, <1>8, OneThreadMoves
<1>10. CompletedIntact'
  BY <1>1, <1>2, <1>4, IntactStays
<1> QED
  BY <1>5, <1>6, <1>9, <1>10 DEF ExecInv

\* The procedure writes a file of its own run.
LEMMA WriteFileInvariant ==
    ASSUME ExecInv, NEW t \in Threads, WriteFile(t)
    PROVE  ExecInv'
<1> DEFINE n == mine[t]
<1>1. /\ n \in DOMAIN runs /\ pc[t] = "procedure" /\ pc[t] \in Owning /\ pid[Home[t]] # 0
      /\ runs[n].status = "RUNNING" /\ runs[n].pid = pid[Home[t]] /\ seen[t] = runs[n].evidence
      /\ error[t] # "PREPARATION" /\ \A k \in todo[t] : k \in DOMAIN runs /\ runs[k].status # "PENDING"
  BY DEF ExecInv, ExecTypeOK, ThreadTypeOK, WriteFile, InFlightUntouched, SeenAll, Up, ThreadsConsistent,
         Owning, Executing
<1>2. UNCHANGED <<runs, pid, pc, mine, replayOf, error, seen, todo>>
  BY DEF WriteFile, threadVars
<1>3. PICK f \in Paths, c \in Contents : files' = [files EXCEPT ![n][f] = c]
  BY DEF WriteFile
<1> DEFINE disk == [files[n] EXCEPT ![f] = c]
<1>4. /\ files \in Seq([Paths -> Contents \cup {"none"}]) /\ DOMAIN files = DOMAIN runs
      /\ n \in 1 .. Len(files) /\ files[n] \in [Paths -> Contents \cup {"none"}]
  BY <1>1, ElementOfSeq, LenProperties DEF ExecInv, ExecTypeOK
<1>5. disk \in [Paths -> Contents \cup {"none"}] /\ files' = [files EXCEPT ![n] = disk]
  BY <1>3, <1>4
<1>6. /\ files' \in Seq([Paths -> Contents \cup {"none"}]) /\ DOMAIN files' = DOMAIN runs
      /\ \A k \in DOMAIN runs : k # n => files'[k] = files[k]
  <2> HIDE DEF disk
  <2> QED
    BY <1>4, <1>5, ExceptSeq, LenProperties
<1>7. Forward /\ Lifecycle' /\ OutcomeTellsAll' /\ ReplayOfFinished'
  BY <1>2, RegistryUnchanged
<1>8. ExecTypeOK'
  BY <1>2, <1>6 DEF ExecInv, ExecTypeOK, ThreadTypeOK
<1>9. Alone(t)
  BY <1>1, <1>2, <1>6, Bystanders DEF Alone
<1>10. OwnClauses(t)
  BY <1>1, <1>2, Bystanders DEF OwnClauses, Owning, Executing
<1>11. SeenAll' /\ CreatedPending' /\ ThreadsConsistent' /\ InFlightUntouched'
  BY <1>2, <1>7, <1>9, <1>10, OneThreadMoves
<1>12. CompletedIntact'
  BY <1>1, <1>2, <1>6, IntactStays
<1> QED
  BY <1>7, <1>8, <1>11, <1>12 DEF ExecInv

\* The thread finalizes its run, or records that it could not be started.
LEMMA FinalizeInvariant ==
    ASSUME ExecInv, NEW t \in Threads, NEW status \in {"COMPLETED", "FAILED"},
           NEW stage \in FailureStage \cup {"NONE"}, pc[t] \in Owning,
           FinishRun(mine[t], status, stage, runs[mine[t]].evidence),
           stage = "PREPARATION" <=> pc[t] = "created",
           status = "COMPLETED" => pc[t] = "commit" /\ error[t] = "NONE",
           BackToCaller({t}), UNCHANGED <<files, pid>>
    PROVE  ExecInv'
<1> DEFINE n == mine[t]
<1>1. n \in DOMAIN runs /\ pc[t] # "idle" /\ runs[n].evidence \in Evidence
  BY RunsNumbered DEF ExecInv, ExecTypeOK, ThreadTypeOK, Owning, Executing, Run
<1>2. ~Finished(n) /\ (pc[t] = "created" <=> runs[n].pid = 0)
  <2>1. CASE pc[t] = "created"
    BY <1>1, <2>1 DEF ExecInv, CreatedPending, Lifecycle, Finished
  <2>2. CASE pc[t] \in Executing
    BY <1>1, <2>2 DEF ExecInv, InFlightUntouched, Finished, Up, Executing
  <2> QED
    BY <2>1, <2>2 DEF Owning
<1>3. Forward /\ Lifecycle' /\ OutcomeTellsAll' /\ ReplayOfFinished'
  BY <1>1, <1>2, FinishKeeps DEF Owning, Executing
<1>4. /\ runs' \in Seq(Run) /\ DOMAIN runs' = DOMAIN runs
      /\ runs'[n].status = status /\ runs'[n].evidence = runs[n].evidence
      /\ \A k \in DOMAIN runs : k # n => runs'[k] = runs[k]
  BY <1>1, OutcomeWritten DEF ExecInv
<1>5. ExecTypeOK'
  BY <1>4, BackKeeps DEF ExecInv, ExecTypeOK
<1>6. Alone(t)
  <2>1. \A u \in Threads : pc[u] \in Owning => mine[u] # 0
    BY RunsNumbered DEF ExecInv, ExecTypeOK, ThreadTypeOK, Owning
  <2> QED
    BY <1>1, <1>4, <2>1, Bystanders DEF Alone, BackToCaller
<1>7. OwnClauses(t)
  BY DEF OwnClauses, BackToCaller, Owning, Executing
<1>8. SeenAll' /\ CreatedPending' /\ ThreadsConsistent' /\ InFlightUntouched'
  BY <1>3, <1>6, <1>7, OneThreadMoves
<1>9. CompletedIntact'
  <2>1. status = "COMPLETED" =>
          \A artifact \in runs[n].evidence.artifacts : files'[n][artifact[1]] = artifact[2]
    BY DEF ExecInv, SeenAll, Intact, Executing
  <2> QED
    BY <1>4, <2>1, IntactStays
<1> QED
  BY <1>3, <1>5, <1>8, <1>9 DEF ExecInv

\* The thread commits its outcome: it knows all the evidence of its run.
LEMMA CommitInvariant ==
    ASSUME ExecInv, NEW t \in Threads, Commit(t)
    PROVE  ExecInv'
<1>1. /\ pc[t] = "commit" /\ pc[t] \in Owning /\ seen[t] = runs[mine[t]].evidence
      /\ error[t] \in FailureStage \cup {"NONE"} /\ error[t] # "PREPARATION"
      /\ FinishRun(mine[t], FinalStatus(t), error[t], seen[t])
      /\ BackToCaller({t}) /\ UNCHANGED <<files, pid>>
  BY DEF Commit, ExecInv, SeenAll, ExecTypeOK, ThreadTypeOK, ThreadsConsistent, Owning, Executing
<1>2. FinalStatus(t) \in {"COMPLETED", "FAILED"} /\ (FinalStatus(t) = "COMPLETED" => error[t] = "NONE")
  BY DEF FinalStatus
<1> QED
  BY <1>1, <1>2, FinalizeInvariant

\* A run that cannot be started is failed, or left PENDING.
LEMMA UnstartedInvariant ==
    ASSUME ExecInv, NEW t \in Threads, Unstarted(t)
    PROVE  ExecInv'
<1>1. CASE UNCHANGED runs
  BY <1>1, GivesUp DEF Unstarted
<1>2. CASE FinishRun(mine[t], "FAILED", "PREPARATION", NoEvidence)
  <2>1. /\ pc[t] = "created" /\ pc[t] \in Owning /\ runs[mine[t]].evidence = NoEvidence
        /\ BackToCaller({t}) /\ UNCHANGED <<files, pid>>
    BY DEF Unstarted, ExecInv, ExecTypeOK, ThreadTypeOK, CreatedPending, Lifecycle, Owning
  <2> QED
    BY <1>2, <2>1, FinalizeInvariant DEF FailureStage
<1> QED
  BY <1>1, <1>2 DEF Unstarted

\* A recovery closes a run: one that has not finished meanwhile.
LEMMA CloseInvariant ==
    ASSUME ExecInv, NEW t \in Threads, Close(t)
    PROVE  ExecInv'
<1> DEFINE n == mine[t]
<1>1. /\ n \in DOMAIN runs /\ pc[t] = "close" /\ runs[n].status = "RUNNING" /\ runs[n].pid # 0
      /\ error[t] # "PREPARATION" /\ \A k \in todo[t] : k \in DOMAIN runs /\ runs[k].status # "PENDING"
      /\ seen[t] \in Evidence
  BY RunsNumbered DEF Close, Accepts, RUN_TRANSITIONS, ExecInv, ExecTypeOK, ThreadTypeOK, ThreadsConsistent,
                      Lifecycle, Run, RunStatus
<1>2. /\ FinishRun(n, "FAILED", "INTERRUPTED", seen[t])
      /\ pc' = [pc EXCEPT ![t] = "recover"] /\ mine' = [mine EXCEPT ![t] = 0]
      /\ seen' = [seen EXCEPT ![t] = NoEvidence]
      /\ UNCHANGED <<files, pid, replayOf, error, todo>>
  BY DEF Close, Goto
<1>3. seen[t] = runs[n].evidence
  BY <1>1 DEF ExecInv, SeenAll
<1>4. Forward /\ Lifecycle' /\ OutcomeTellsAll' /\ ReplayOfFinished'
  BY <1>1, <1>2, <1>3, FinishKeeps DEF FailureStage, Finished
<1>5. /\ runs' \in Seq(Run) /\ DOMAIN runs' = DOMAIN runs /\ runs'[n].status = "FAILED"
      /\ runs'[n].evidence = runs[n].evidence
      /\ \A k \in DOMAIN runs : k # n => runs'[k] = runs[k]
  BY <1>1, <1>2, OutcomeWritten DEF ExecInv, FailureStage
<1>6. ExecTypeOK'
  BY <1>1, <1>2, <1>5, RecordsTyped DEF ExecInv, ExecTypeOK, ThreadTypeOK, Executing
<1>7. Alone(t)
  <2>1. \A u \in Threads : pc[u] \in Owning => mine[u] # 0
    BY RunsNumbered DEF ExecInv, ExecTypeOK, ThreadTypeOK, Owning
  <2> QED
    BY <1>1, <1>2, <1>5, <2>1, Bystanders DEF Alone, ExecInv, ExecTypeOK, ThreadTypeOK
<1>8. OwnClauses(t)
  BY <1>1, <1>2 DEF OwnClauses, ExecInv, ExecTypeOK, ThreadTypeOK, Owning, Executing
<1>9. SeenAll' /\ CreatedPending' /\ ThreadsConsistent' /\ InFlightUntouched'
  BY <1>2, <1>4, <1>7, <1>8, OneThreadMoves
<1>10. CompletedIntact'
  BY <1>2, <1>5, IntactStays
<1> QED
  BY <1>4, <1>6, <1>9, <1>10 DEF ExecInv

\* A run is created: nobody has it yet.
LEMMA ExecuteInvariant ==
    ASSUME ExecInv, NEW t \in Threads, Execute(t)
    PROVE  ExecInv'
<1> DEFINE n == Len(runs) + 1
           clean == [f \in Paths |-> "none"]
<1>1. /\ runs' \in Seq(Run) /\ DOMAIN runs' = DOMAIN runs \cup {n} /\ n \notin DOMAIN runs /\ n \in Nat
      /\ runs'[n] = NewRun
      /\ \A k \in DOMAIN runs : runs'[k] = runs[k] /\ k < n
  BY Created DEF ExecInv, ExecTypeOK, Execute
<1>2. PICK original \in {0} \cup {k \in DOMAIN runs : Replayable(k)} : replayOf' = [replayOf EXCEPT ![t] = original]
  BY DEF Execute
<1>3. /\ pc[t] = "idle" /\ pid[Home[t]] # 0 /\ n # 0 /\ seen[t] = NoEvidence /\ original \in Nat
      /\ pc' = [pc EXCEPT ![t] = "created"] /\ mine' = [mine EXCEPT ![t] = n]
      /\ runs' = Append(runs, NewRun) /\ files' = Append(files, clean)
      /\ UNCHANGED <<pid, error, seen, todo>>
  BY RunsNumbered, <1>1 DEF Execute, Goto, Up, ExecInv, ThreadsConsistent
<1>4. /\ files' \in Seq([Paths -> Contents \cup {"none"}]) /\ DOMAIN files' = DOMAIN runs \cup {n}
      /\ \A k \in DOMAIN runs : files'[k] = files[k]
  <2>1. clean \in [Paths -> Contents \cup {"none"}]
    OBVIOUS
  <2>2. files \in Seq([Paths -> Contents \cup {"none"}]) /\ DOMAIN files = DOMAIN runs
        /\ runs \in Seq(Run)
    BY DEF ExecInv, ExecTypeOK
  <2>3. Len(files) = Len(runs) /\ DOMAIN files = 1 .. Len(files)
    BY <2>2, LenProperties
  <2> HIDE DEF clean
  <2> QED
    BY <1>3, <2>1, <2>2, <2>3, AppendProperties
<1>5. Forward /\ Lifecycle' /\ OutcomeTellsAll' /\ ReplayOfFinished'
  BY <1>3, CreateKeeps
<1>6. ExecTypeOK'
  BY <1>1, <1>2, <1>3, <1>4 DEF ExecInv, ExecTypeOK, ThreadTypeOK, Executing
<1>7. Alone(t)
  <2>1. \A u \in Threads : pc[u] \in Owning \cup {"close"} => mine[u] \in DOMAIN runs
    BY DEF ExecInv, ExecTypeOK, ThreadTypeOK, Owning
  <2> QED
    BY <1>1, <1>2, <1>3, <1>4, <2>1 DEF Alone, ExecInv, ExecTypeOK, ThreadTypeOK
<1>8. OwnClauses(t)
  <2>1. \A u \in Threads : pc[u] # "idle" => mine[u] # n
    BY <1>1, <1>3 DEF ExecInv, ExecTypeOK, ThreadTypeOK, ThreadsConsistent, Executing
  <2> QED
    BY <1>1, <1>2, <1>3, <2>1
       DEF OwnClauses, ExecInv, ExecTypeOK, ThreadTypeOK, ThreadsConsistent, NewRun, Owning, Executing
<1>9. SeenAll' /\ CreatedPending' /\ ThreadsConsistent' /\ InFlightUntouched'
  BY <1>3, <1>5, <1>7, <1>8, OneThreadMoves
<1>10. CompletedIntact'
  BY <1>1, <1>4, IntactStays DEF NewRun
<1> QED
  BY <1>5, <1>6, <1>9, <1>10 DEF ExecInv

\* A process dies with its threads, or comes up under a free pid: no run is touched.
LEMMA HostInvariant ==
    ASSUME ExecInv, NEW p \in Processes, Die(p) \/ Boot(p)
    PROVE  ExecInv'
<1> DEFINE gone == {t \in Threads : pid'[Home[t]] = 0}
<1>1. /\ UNCHANGED <<runs, files>> /\ pid' \in [Processes -> Nat]
      /\ \A q \in Processes : pid[q] # 0 => pid'[q] \in {0, pid[q]}
  BY HostAssumption DEF Die, Boot, ExecInv, ExecTypeOK
<1>2. Forward /\ Lifecycle' /\ OutcomeTellsAll' /\ ReplayOfFinished' /\ CompletedIntact'
  BY <1>1, RegistryUnchanged DEF ExecInv, CompletedIntact, Intact
<1>3. \A t \in Threads :
        \/ /\ pc'[t] = "idle" /\ mine'[t] = 0 /\ replayOf'[t] = 0 /\ error'[t] = "NONE"
           /\ seen'[t] = NoEvidence /\ todo'[t] = {}
        \/ /\ pc'[t] = pc[t] /\ mine'[t] = mine[t] /\ replayOf'[t] = replayOf[t] /\ error'[t] = error[t]
           /\ seen'[t] = seen[t] /\ todo'[t] = todo[t]
           /\ pid[Home[t]] # 0 => pid'[Home[t]] = pid[Home[t]]
  BY HostAssumption DEF Die, Boot, BackToCaller, ExecInv, ExecTypeOK, ThreadTypeOK, threadVars
<1>4. ExecTypeOK'
  <2>1. ThreadTypeOK'
    <3>1. CASE Boot(p)
      BY <1>1, <3>1 DEF Boot, threadVars, ExecInv, ExecTypeOK, ThreadTypeOK
    <3>2. CASE Die(p)
      BY <1>1, <3>2, RecordsTyped DEF Die, BackToCaller, ExecInv, ExecTypeOK, ThreadTypeOK, Executing
    <3> QED
      BY <3>1, <3>2
  <2> QED
    BY <1>1, <2>1 DEF ExecInv, ExecTypeOK
<1>5. SeenAll'
  BY <1>1, <1>3 DEF ExecInv, SeenAll, Intact, Executing
<1>6. CreatedPending'
  BY <1>1, <1>3 DEF ExecInv, CreatedPending, Up, Replayable, Finished
<1>7. ThreadsConsistent'
  BY <1>1, <1>3 DEF ExecInv, ThreadsConsistent
<1>8. InFlightUntouched'
  BY <1>1, <1>3 DEF ExecInv, InFlightUntouched, Up, Executing
<1> QED
  BY <1>2, <1>4, <1>5, <1>6, <1>7, <1>8 DEF ExecInv

-----------------------------------------------------------------------------
(* The theorems *)

\* No run and no busy thread: the invariant holds.
LEMMA ExecInvInit == ExecInit => ExecInv
<1> SUFFICES ASSUME ExecInit PROVE ExecInv
  OBVIOUS
<1>1. runs = <<>> /\ files = <<>> /\ DOMAIN runs = {} /\ DOMAIN files = {}
  BY DEF ExecInit
<1>2. pid \in [Processes -> Nat]
  BY HostAssumption DEF ExecInit
<1>3. ExecTypeOK
  BY <1>1, <1>2, RecordsTyped DEF ExecInit, ExecTypeOK, ThreadTypeOK, Executing
<1>4. SeenAll /\ CreatedPending /\ ThreadsConsistent /\ InFlightUntouched
  BY DEF ExecInit, SeenAll, CreatedPending, ThreadsConsistent, InFlightUntouched, Executing
<1>5. Lifecycle /\ OutcomeTellsAll /\ CompletedIntact /\ ReplayOfFinished
  BY <1>1 DEF Lifecycle, OutcomeTellsAll, CompletedIntact, ReplayOfFinished
<1> QED
  BY <1>3, <1>4, <1>5 DEF ExecInv

\* Every step keeps the invariant.
LEMMA ExecInvStep == ExecInv /\ [ExecNext]_execVars => ExecInv'
<1> SUFFICES ASSUME ExecInv, [ExecNext]_execVars PROVE ExecInv'
  OBVIOUS
<1>1. ASSUME NEW t \in Threads, Execute(t) PROVE ExecInv'
  BY <1>1, ExecuteInvariant
<1>2. ASSUME NEW t \in Threads, Unstarted(t) PROVE ExecInv'
  BY <1>2, UnstartedInvariant
<1>3. ASSUME NEW t \in Threads, Start(t) PROVE ExecInv'
  BY <1>3, StartInvariant
<1>4. ASSUME NEW t \in Threads, Observe(t) \/ RegisterArtifact(t) PROVE ExecInv'
  BY <1>4, EvidenceInvariant
<1>5. ASSUME NEW t \in Threads, WriteFile(t) PROVE ExecInv'
  BY <1>5, WriteFileInvariant
<1>6. ASSUME NEW t \in Threads, Return(t) \/ Raise(t) \/ Verify(t) PROVE ExecInv'
  BY <1>6, ProcedureEnds
<1>7. ASSUME NEW t \in Threads, Diagnose(t) PROVE ExecInv'
  <2>1. AddToEvidence(t, 0, {Traceback}) \/ UNCHANGED <<runs, seen>>
    BY <1>7 DEF Diagnose
  <2> QED
    BY <1>7, <2>1, EvidenceInvariant, DiagnosisGivenUp
<1>8. ASSUME NEW t \in Threads, Commit(t) PROVE ExecInv'
  BY <1>8, CommitInvariant
<1>9. ASSUME NEW t \in Threads, CommitFails(t) \/ CloseFails(t) \/ RecoverDone(t) PROVE ExecInv'
  <2>1. UNCHANGED <<runs, files, pid>> /\ BackToCaller({t})
    BY <1>9 DEF CommitFails, CloseFails, RecoverDone
  <2> QED
    BY <2>1, GivesUp
<1>10. ASSUME NEW t \in Threads, Recover(t) PROVE ExecInv'
  BY <1>10, RecoverKeeps
<1>11. ASSUME NEW t \in Threads, Examine(t) PROVE ExecInv'
  BY <1>11, ExamineKeeps
<1>12. ASSUME NEW t \in Threads, Close(t) PROVE ExecInv'
  BY <1>12, CloseInvariant
<1>13. ASSUME NEW p \in Processes, Die(p) \/ Boot(p) PROVE ExecInv'
  BY <1>13, HostInvariant
<1>14. CASE UNCHANGED execVars
  BY <1>14 DEF execVars, threadVars, ExecInv, ExecTypeOK, ThreadTypeOK, Lifecycle, SeenAll, CreatedPending,
               ThreadsConsistent, InFlightUntouched, OutcomeTellsAll, CompletedIntact, ReplayOfFinished,
               Up, Intact, Replayable, Finished
<1> QED
  BY <1>1, <1>2, <1>3, <1>4, <1>5, <1>6, <1>7, <1>8, <1>9, <1>10, <1>11, <1>12, <1>13, <1>14 DEF ExecNext

\* The inductive invariant of executors, recoveries and the processes they run in.
THEOREM ExecutorInductive == ExecSpec => []ExecInv
<1> QED
  BY ExecInvInit, ExecInvStep, PTL DEF ExecSpec

\* No recovery ever closes a run that a thread is executing (recover_interrupted).
THEOREM NoRunClosedInFlight == ExecSpec => []InFlightUntouched
<1>1. ExecInv => InFlightUntouched
  BY DEF ExecInv
<1> QED
  BY <1>1, ExecutorInductive, PTL

\* Finished runs have exactly one outcome, and it lists all the evidence on record.
THEOREM OutcomesComplete == ExecSpec => []OutcomeTellsAll
<1>1. ExecInv => OutcomeTellsAll
  BY DEF ExecInv
<1> QED
  BY <1>1, ExecutorInductive, PTL

\* The artifacts of a COMPLETED run are what they were when they were registered.
THEOREM CompletedStaysIntact == ExecSpec => []CompletedIntact
<1>1. ExecInv => CompletedIntact
  BY DEF ExecInv
<1> QED
  BY <1>1, ExecutorInductive, PTL

\* A replay's original was finished, and had been started.
THEOREM ReplaysAreOfFinished == ExecSpec => []ReplayOfFinished
<1>1. ExecInv => ReplayOfFinished
  BY DEF ExecInv
<1> QED
  BY <1>1, ExecutorInductive, PTL

-----------------------------------------------------------------------------
(* The contract *)

\* A step that leaves a run's contract view alone is a stutter of the contract.
LEMMA ContractFrame ==
    ASSUME UNCHANGED runs
    PROVE  UNCHANGED Contract!contractVars
  BY DEF Contract!contractVars

\* One more element, at the end.
LEMMA Appended ==
    ASSUME NEW n \in Nat, NEW f, NEW g, NEW x,
           f = [k \in 1 .. n |-> f[k]], g = [k \in 1 .. n + 1 |-> g[k]],
           \A k \in 1 .. n : g[k] = f[k], g[n + 1] = x
    PROVE  g = Append(f, x)
<1> DEFINE S == {f[k] : k \in 1 .. n} \cup {x}
<1>1. x \in S /\ \A k \in 1 .. n : f[k] \in S /\ g[k] \in S
  OBVIOUS
<1>2. n + 1 \in Nat /\ \A k \in 1 .. n + 1 : k \in 1 .. n \/ k = n + 1
  OBVIOUS
<1> HIDE DEF S
<1>3. f \in Seq(S) /\ Len(f) = n
  <2>1. f \in [1 .. n -> S]
    BY <1>1
  <2>2. f \in Seq(S) /\ DOMAIN f = 1 .. n
    BY <2>1, SeqDef
  <2> QED
    BY <2>2, LenProperties
<1>4. g \in Seq(S) /\ Len(g) = n + 1
  <2>1. \A k \in 1 .. n + 1 : g[k] \in S
    BY <1>1, <1>2
  <2>2. g \in [1 .. n + 1 -> S]
    BY <2>1
  <2>3. g \in Seq(S) /\ DOMAIN g = 1 .. n + 1
    BY <1>2, <2>2, SeqDef
  <2> QED
    BY <1>2, <2>3, LenProperties
<1>5. /\ Append(f, x) \in Seq(S) /\ Len(Append(f, x)) = n + 1
      /\ \A k \in 1 .. n : Append(f, x)[k] = f[k]
      /\ Append(f, x)[n + 1] = x
  BY <1>1, <1>3, AppendProperties
<1>6. \A k \in 1 .. n + 1 : g[k] = Append(f, x)[k]
  BY <1>2, <1>5
<1> QED
  BY <1>4, <1>5, <1>6, SeqEqual

\* Creating a run is the contract's NewRun.
LEMMA ContractNew ==
    ASSUME ExecInv, runs' = Append(runs, NewRun)
    PROVE  Contract!NewRun
<1> DEFINE n == Len(runs)
<1>1. /\ DOMAIN runs = 1 .. n /\ DOMAIN runs' = 1 .. n + 1 /\ n \in Nat
      /\ runs'[n + 1] = NewRun /\ \A k \in 1 .. n : runs'[k] = runs[k]
  <2>1. runs \in Seq(Run) /\ runs' \in Seq(Run) /\ Len(runs') = n + 1
    BY RecordsTyped, AppendProperties DEF ExecInv, ExecTypeOK
  <2> QED
    BY <2>1, Created, LenProperties
<1> QED
  BY <1>1, Appended DEF Contract!NewRun, NewRun, NoOutcome

\* A run's outcome and status, written with all the evidence on record, are the
\* contract's FinishRun.
LEMMA ContractFinish ==
    ASSUME ExecInv, NEW n \in DOMAIN runs, NEW status \in {"COMPLETED", "FAILED"},
           NEW stage \in FailureStage \cup {"NONE"}, FinishRun(n, status, stage, runs[n].evidence),
           <<runs[n].status, status>> \in RUN_TRANSITIONS
    PROVE  Contract!FinishRun(n)
<1>1. runs[n].evidence \in Evidence
  BY RunsNumbered DEF Run
<1>2. /\ DOMAIN runs' = DOMAIN runs
      /\ runs'[n].status = status /\ runs'[n].evidence = runs[n].evidence
      /\ runs'[n].outcome = [status |-> status, stage |-> stage, lists |-> runs[n].evidence]
      /\ \A k \in DOMAIN runs : k # n => runs'[k] = runs[k]
  BY <1>1, OutcomeWritten DEF ExecInv
<1>3. runs'[n].outcome.lists = runs[n].evidence
  BY <1>2
<1>4. \/ runs[n].status = "RUNNING"
      \/ runs[n].status = "PENDING" /\ status = "FAILED"
  BY DEF RUN_TRANSITIONS
<1> QED
  BY <1>2, <1>3, <1>4 DEF Contract!FinishRun

\* Starting a run is the contract's StartRun.
LEMMA ContractStart ==
    ASSUME ExecInv, NEW t \in Threads, Start(t), NEW n, n = mine[t]
    PROVE  Contract!StartRun(n)
<1>1. n \in DOMAIN runs /\ runs[n].status = "PENDING"
  BY DEF ExecInv, ExecTypeOK, ThreadTypeOK, Start, CreatedPending
<1>2. /\ DOMAIN runs' = DOMAIN runs
      /\ runs'[n].status = "RUNNING" /\ runs'[n].evidence = runs[n].evidence
      /\ runs'[n].outcome = runs[n].outcome
      /\ \A k \in DOMAIN runs : k # n => runs'[k] = runs[k]
  BY <1>1, Started, HostAssumption DEF ExecInv
<1> QED
  BY <1>1, <1>2 DEF Contract!StartRun

\* What a thread adds to its run's evidence is the contract's AddEvidence.
LEMMA ContractEvidence ==
    ASSUME ExecInv, NEW t \in Threads, pc[t] \in Executing,
           NEW observations \in Nat, NEW artifacts \in SUBSET Artifact,
           AddToEvidence(t, observations, artifacts), NEW n, n = mine[t]
    PROVE  Contract!AddEvidence(n)
<1>1. n \in DOMAIN runs /\ runs[n].status = "RUNNING" /\ seen[t] = runs[n].evidence
  BY DEF ExecInv, ExecTypeOK, ThreadTypeOK, InFlightUntouched, SeenAll, Executing
<1>2. /\ DOMAIN runs' = DOMAIN runs /\ runs'[n].status = runs[n].status
      /\ runs'[n].outcome = runs[n].outcome
      /\ \A k \in DOMAIN runs : k # n => runs'[k] = runs[k]
  BY <1>1, EvidenceAdded DEF ExecInv
<1> QED
  BY <1>1, <1>2 DEF Contract!AddEvidence

\* Every step of executors, recoveries and processes is a step of the contract or a stutter.
LEMMA ContractStep == ExecInv /\ [ExecNext]_execVars => [Contract!ContractNext]_(Contract!contractVars)
<1> DEFINE Goal == [Contract!ContractNext]_(Contract!contractVars)
<1> SUFFICES ASSUME ExecInv, [ExecNext]_execVars PROVE Goal
  OBVIOUS
<1>1. ASSUME UNCHANGED runs PROVE Goal
  BY <1>1, ContractFrame
<1>2. ASSUME NEW n \in DOMAIN runs,
             Contract!StartRun(n) \/ Contract!AddEvidence(n) \/ Contract!FinishRun(n)
      PROVE  Goal
  <2>1. n \in DOMAIN [k \in DOMAIN runs |-> runs[k].status]
    OBVIOUS
  <2> QED
    BY <1>2, <2>1 DEF Contract!ContractNext
<1> HIDE DEF Goal
<1>3. \A t \in Threads : pc[t] \in Executing \cup {"created", "close"} => mine[t] \in DOMAIN runs
  BY DEF ExecInv, ExecTypeOK, ThreadTypeOK
<1>4. ASSUME NEW t \in Threads, Execute(t) PROVE Goal
  <2>1. Contract!NewRun
    BY <1>4, ContractNew DEF Execute
  <2> QED
    BY <2>1 DEF Goal, Contract!ContractNext
<1>5. ASSUME NEW t \in Threads, Start(t) PROVE Goal
  <2>1. PICK n \in DOMAIN runs : n = mine[t]
    BY <1>3, <1>5 DEF Start
  <2>2. Contract!StartRun(n)
    BY <1>5, <2>1, ContractStart
  <2> QED
    BY <1>2, <2>1, <2>2
<1>6. ASSUME NEW t \in Threads, pc[t] \in Executing,
             NEW observations \in Nat, NEW artifacts \in SUBSET Artifact,
             AddToEvidence(t, observations, artifacts)
      PROVE  Goal
  <2>1. PICK n \in DOMAIN runs : n = mine[t]
    BY <1>3, <1>6
  <2>2. Contract!AddEvidence(n)
    BY <1>6, <2>1, ContractEvidence
  <2> QED
    BY <1>2, <2>1, <2>2
<1>7. ASSUME NEW t \in Threads, Observe(t) PROVE Goal
  BY <1>6, <1>7 DEF Observe, Executing
<1>8. ASSUME NEW t \in Threads, RegisterArtifact(t) PROVE Goal
  <2>1. PICK f \in Paths : /\ files[mine[t]][f] # "none"
                           /\ AddToEvidence(t, 0, {<<f, files[mine[t]][f]>>})
    BY <1>8 DEF RegisterArtifact
  <2>2. pc[t] \in Executing /\ mine[t] \in DOMAIN runs
    BY <1>3, <1>8 DEF RegisterArtifact, Executing
  <2>3. {<<f, files[mine[t]][f]>>} \in SUBSET Artifact
    <3>1. files[mine[t]] \in [Paths -> Contents \cup {"none"}]
      BY <2>2, ElementOfSeq, LenProperties DEF ExecInv, ExecTypeOK
    <3> QED
      BY <2>1, <3>1 DEF Artifact
  <2> QED
    BY <1>6, <2>1, <2>2, <2>3
<1>9. ASSUME NEW t \in Threads, Diagnose(t) PROVE Goal
  <2>1. {Traceback} \in SUBSET Artifact /\ pc[t] \in Executing
    BY <1>9 DEF Artifact, Diagnose, Executing
  <2> QED
    BY <1>1, <1>6, <1>9, <2>1 DEF Diagnose
<1>10. ASSUME NEW t \in Threads, Commit(t) \/ Close(t) PROVE Goal
  <2>1. PICK status \in {"COMPLETED", "FAILED"}, stage \in FailureStage \cup {"NONE"} :
          Accepts(mine[t], status, seen[t]) /\ FinishRun(mine[t], status, stage, seen[t])
    BY <1>10 DEF Commit, Close, FinalStatus, FailureStage, ExecInv, ExecTypeOK, ThreadTypeOK
  <2>2. mine[t] \in DOMAIN runs /\ seen[t] = runs[mine[t]].evidence
    BY <1>3, <1>10 DEF Commit, Close, ExecInv, SeenAll, Executing
  <2> QED
    BY <1>2, <2>1, <2>2, ContractFinish DEF Accepts
<1>11. ASSUME NEW t \in Threads, Unstarted(t) PROVE Goal
  <2>1. CASE UNCHANGED runs
    BY <1>1, <2>1
  <2>2. CASE Accepts(mine[t], "FAILED", NoEvidence) /\ FinishRun(mine[t], "FAILED", "PREPARATION", NoEvidence)
    <3>1. mine[t] \in DOMAIN runs /\ runs[mine[t]].evidence = NoEvidence
      BY <1>3, <1>11 DEF Unstarted, ExecInv, CreatedPending, Lifecycle
    <3> QED
      BY <1>2, <2>2, <3>1, ContractFinish DEF Accepts, FailureStage
  <2> QED
    BY <1>11, <2>1, <2>2 DEF Unstarted
<1>12. ASSUME NEW t \in Threads,
              \/ WriteFile(t) \/ Return(t) \/ Raise(t) \/ Verify(t) \/ CommitFails(t)
              \/ Recover(t) \/ Examine(t) \/ CloseFails(t) \/ RecoverDone(t)
       PROVE  Goal
  BY <1>1, <1>12 DEF WriteFile, Return, Raise, Verify, CommitFails, Recover, Examine, CloseFails, RecoverDone
<1>13. ASSUME NEW p \in Processes, Die(p) \/ Boot(p) PROVE Goal
  BY <1>1, <1>13 DEF Die, Boot
<1>14. CASE UNCHANGED execVars
  BY <1>1, <1>14 DEF execVars
<1> QED
  BY <1>4, <1>5, <1>7, <1>8, <1>9, <1>10, <1>11, <1>12, <1>13, <1>14 DEF ExecNext

\* Executors, recoveries and crashes together do only what the contract of module
\* RunContract allows.
THEOREM ExecutorImplements == ExecSpec => ImplementsRunContract
<1>1. ExecInit => Contract!ContractInit
  BY DEF ExecInit, Contract!ContractInit
<1>2. ExecInv /\ [ExecNext]_execVars => [Contract!ContractNext]_(Contract!contractVars)
  BY ContractStep
<1> QED
  BY <1>1, <1>2, ExecutorInductive, PTL DEF ExecSpec, ImplementsRunContract, Contract!ContractSpec
=============================================================================
