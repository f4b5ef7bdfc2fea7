------------------------------- MODULE Executor -------------------------------
(***************************************************************************)
(* The execution engine (execution.py): threads that create a Run, start   *)
(* it, call a procedure that records observations and artifacts, and       *)
(* finalize it; and the recover command, which closes the RUNNING runs of  *)
(* processes that are gone, told by the pid in their provenance.           *)
(*                                                                         *)
(* The runs of one (experiment, environment, seed) are numbered by         *)
(* attempt.  A registry transaction is one step; the files of a run are on *)
(* disk and change outside of any transaction.                             *)
(***************************************************************************)
EXTENDS Naturals, Sequences, FiniteSets, FiniteSetsExt

CONSTANTS
    Processes,      \* processes of one host that share the registry
    Threads,        \* their threads, each with a registry connection of its own
    Home,           \* thread -> its process
    Pids,           \* process ids the host hands out, positive
    Paths,          \* files a procedure may write
    Contents,       \* what it may write into one
    LockTimeouts,   \* whether a transaction may fail because the database is locked
    MaxRuns,        \* bound: runs created
    MaxRecords      \* bound: observations and artifacts on record when a procedure adds one

ASSUME HostAssumption ==
    /\ Home \in [Threads -> Processes]
    /\ Pids \subseteq Nat \ {0}
    /\ LockTimeouts \in BOOLEAN /\ MaxRuns \in Nat /\ MaxRecords \in Nat

VARIABLES
    runs,       \* the registry: every run with its provenance, evidence and outcome
    files,      \* what is on disk under the artifact directory of every run
    pid,        \* pid of every process, 0 when it does not run
    pc,         \* where every thread is
    mine,       \* the run a thread works on, 0 when none
    replayOf,   \* the run it was asked to replay, 0 when none
    error,      \* the stage at which the run failed, as far as the thread knows
    seen,       \* evidence the thread knows of (_Recorder, or what recovery read)
    todo        \* runs a recovery still has to look at

threadVars == <<pc, mine, replayOf, error, seen, todo>>
execVars == <<runs, files, pid, threadVars>>

RunStatus == {"PENDING", "RUNNING", "COMPLETED", "FAILED"}

RUN_TRANSITIONS ==
    ({"PENDING"} \X {"RUNNING", "FAILED"}) \cup ({"RUNNING"} \X {"COMPLETED", "FAILED"})

FailureStage == {"PREPARATION", "EXECUTION", "ARTIFACT_REGISTRATION", "INTERRUPTED"}

\* An artifact is a path with the digest of its content when it was registered.
Traceback == <<"traceback", "text">>
Artifact == (Paths \X Contents) \cup {Traceback}

Evidence == [observations : Nat, artifacts : SUBSET Artifact]
NoEvidence == [observations |-> 0, artifacts |-> {}]

Outcome == [status : {"NONE", "COMPLETED", "FAILED"}, stage : FailureStage \cup {"NONE"}, lists : Evidence]
NoOutcome == [status |-> "NONE", stage |-> "NONE", lists |-> NoEvidence]

\* Provenance is flattened into the run: a pid of 0 says there is none yet.
Run == [status : RunStatus, pid : Nat, replayOf : Nat, evidence : Evidence, outcome : Outcome]
NewRun == [status |-> "PENDING", pid |-> 0, replayOf |-> 0, evidence |-> NoEvidence, outcome |-> NoOutcome]

Finished(n) == runs[n].status \in {"COMPLETED", "FAILED"}

\* Phases in which a thread executes its run, from its start to its final status.
Executing == {"procedure", "verify", "diagnose", "commit"}

ThreadTypeOK ==
    /\ pc \in [Threads -> {"idle", "created", "recover", "close"} \cup Executing]
    /\ mine \in [Threads -> Nat] /\ replayOf \in [Threads -> Nat]
    /\ \A t \in Threads : pc[t] \in Executing \cup {"created", "close"} => mine[t] \in DOMAIN runs
    /\ error \in [Threads -> FailureStage \cup {"NONE"}]
    /\ seen \in [Threads -> Evidence]
    /\ todo \in [Threads -> SUBSET Nat] /\ \A t \in Threads : todo[t] \subseteq DOMAIN runs

\* Type invariant.
ExecTypeOK ==
    /\ runs \in Seq(Run)
    /\ files \in Seq([Paths -> Contents \cup {"none"}]) /\ DOMAIN files = DOMAIN runs
    /\ pid \in [Processes -> Nat]
    /\ ThreadTypeOK

ExecInit ==
    /\ runs = <<>> /\ files = <<>>
    /\ pid \in {f \in [Processes -> Pids] : \A p, q \in Processes : p # q => f[p] # f[q]}
    /\ pc = [t \in Threads |-> "idle"] /\ mine = [t \in Threads |-> 0]
    /\ replayOf = [t \in Threads |-> 0] /\ error = [t \in Threads |-> "NONE"]
    /\ seen = [t \in Threads |-> NoEvidence] /\ todo = [t \in Threads |-> {}]

\* os.kill(pid, 0) finds a process, whichever it is.
Alive(n) == \E p \in Processes : pid[p] # 0 /\ pid[p] = runs[n].pid

Up(t) == pid[Home[t]] # 0

\* The threads of S return, or raise, to their caller.
BackToCaller(S) ==
    /\ pc' = [t \in Threads |-> IF t \in S THEN "idle" ELSE pc[t]]
    /\ mine' = [t \in Threads |-> IF t \in S THEN 0 ELSE mine[t]]
    /\ replayOf' = [t \in Threads |-> IF t \in S THEN 0 ELSE replayOf[t]]
    /\ error' = [t \in Threads |-> IF t \in S THEN "NONE" ELSE error[t]]
    /\ seen' = [t \in Threads |-> IF t \in S THEN NoEvidence ELSE seen[t]]
    /\ todo' = [t \in Threads |-> IF t \in S THEN {} ELSE todo[t]]

Goto(t, where) == pc' = [pc EXCEPT ![t] = where]

-----------------------------------------------------------------------------
\* Registry transactions

AcceptsEvidence(n, status, lists) ==
    /\ lists.artifacts \subseteq runs[n].evidence.artifacts
    /\ lists.observations = runs[n].evidence.observations

\* _check_outcome with the identity check of add: one outcome per run, along the
\* transition table, with provenance and with the evidence the registry has.
Accepts(n, status, lists) ==
    /\ runs[n].outcome = NoOutcome
    /\ <<runs[n].status, status>> \in RUN_TRANSITIONS
    /\ runs[n].status = "RUNNING" => runs[n].pid # 0
    /\ lists.artifacts \subseteq runs[n].evidence.artifacts
    /\ lists.observations = runs[n].evidence.observations

FinishWithoutOutcome(n, status, stage, lists) == runs' = [runs EXCEPT ![n].status = status]

\* The outcome and the final status, in one transaction.
FinishRun(n, status, stage, lists) ==
    runs' = [runs EXCEPT ![n].status = status,
                         ![n].outcome = [status |-> status, stage |-> stage, lists |-> lists]]

AddToEvidence(t, observations, artifacts) ==
    LET more(e) == [observations |-> e.observations + observations,
                    artifacts |-> e.artifacts \cup artifacts]
    IN  /\ runs' = [runs EXCEPT ![mine[t]].evidence = more(@)]
        /\ seen' = [seen EXCEPT ![t] = more(@)]

-----------------------------------------------------------------------------
\* execute and replay

\* replay takes a finished run that has provenance; execute takes none.
Replayable(n) == Finished(n) /\ runs[n].pid # 0

\* _create_run: the next attempt, in a transaction.
Execute(t) ==
    /\ Up(t) /\ pc[t] = "idle" /\ Len(runs) < MaxRuns
    /\ \E original \in {0} \cup {n \in DOMAIN runs : Replayable(n)} :
          replayOf' = [replayOf EXCEPT ![t] = original]
    /\ runs' = Append(runs, NewRun) /\ files' = Append(files, [f \in Paths |-> "none"])
    /\ mine' = [mine EXCEPT ![t] = Len(runs) + 1] /\ Goto(t, "created")
    /\ UNCHANGED <<pid, error, seen, todo>>

\* Inputs cannot be bound, or the run cannot be started: recorded if the database
\* lets it, only logged otherwise; the caller gets a PreparationError.
Unstarted(t) ==
    /\ pc[t] = "created"
    /\ \/ /\ Accepts(mine[t], "FAILED", NoEvidence)
          /\ FinishRun(mine[t], "FAILED", "PREPARATION", NoEvidence)
       \/ LockTimeouts /\ UNCHANGED runs
    /\ BackToCaller({t})
    /\ UNCHANGED <<files, pid>>

\* _start: provenance and RUNNING in one transaction.
Start(t) ==
    /\ pc[t] = "created"
    /\ <<runs[mine[t]].status, "RUNNING">> \in RUN_TRANSITIONS
    /\ runs' = [runs EXCEPT ![mine[t]].status = "RUNNING", ![mine[t]].pid = pid[Home[t]],
                            ![mine[t]].replayOf = replayOf[t]]
    /\ Goto(t, "procedure")
    /\ UNCHANGED <<files, pid, mine, replayOf, error, seen, todo>>

Records ==
    MapThenSumSet(LAMBDA n : runs[n].evidence.observations + Cardinality(runs[n].evidence.artifacts),
                  DOMAIN runs)

Observe(t) ==
    /\ pc[t] = "procedure" /\ Records < MaxRecords
    /\ AddToEvidence(t, 1, {})
    /\ UNCHANGED <<files, pid, pc, mine, replayOf, error, todo>>

\* The procedure writes under its artifact directory whenever it likes.
WriteFile(t) ==
    /\ pc[t] = "procedure"
    /\ \E f \in Paths, c \in Contents : files' = [files EXCEPT ![mine[t]][f] = c]
    /\ UNCHANGED <<runs, pid, threadVars>>

\* Only a file that is there, hashed now, is registered, and not twice.
RegisterArtifact(t) ==
    /\ pc[t] = "procedure" /\ Records < MaxRecords
    /\ \E f \in Paths :
          LET artifact == <<f, files[mine[t]][f]>> IN
          /\ files[mine[t]][f] # "none" /\ artifact \notin runs[mine[t]].evidence.artifacts
          /\ AddToEvidence(t, 0, {artifact})
    /\ UNCHANGED <<files, pid, pc, mine, replayOf, error, todo>>

Return(t) ==
    /\ pc[t] = "procedure" /\ Goto(t, "verify")
    /\ UNCHANGED <<runs, files, pid, mine, replayOf, error, seen, todo>>

\* An exception of the procedure is recorded; so is a KeyboardInterrupt.
Raise(t) ==
    /\ pc[t] = "procedure" /\ Goto(t, "diagnose")
    /\ \E stage \in {"EXECUTION", "INTERRUPTED"} : error' = [error EXCEPT ![t] = stage]
    /\ UNCHANGED <<runs, files, pid, mine, replayOf, seen, todo>>

\* The file still has the content it was registered with.
Intact(n, artifact) == files[n][artifact[1]] = artifact[2]

NothingToVerify(t) == TRUE

Verified(t) == \A artifact \in seen[t].artifacts : Intact(mine[t], artifact)

Verify(t) ==
    /\ pc[t] = "verify"
    /\ IF Verified(t) THEN Goto(t, "commit") /\ UNCHANGED error
       ELSE Goto(t, "diagnose") /\ error' = [error EXCEPT ![t] = "ARTIFACT_REGISTRATION"]
    /\ UNCHANGED <<runs, files, pid, mine, replayOf, seen, todo>>

\* The traceback is kept as an artifact if it can be, and given up otherwise.
Diagnose(t) ==
    /\ pc[t] = "diagnose" /\ Goto(t, "commit")
    /\ AddToEvidence(t, 0, {Traceback}) \/ UNCHANGED <<runs, seen>>
    /\ UNCHANGED <<files, pid, mine, replayOf, error, todo>>

FinalStatus(t) == IF error[t] = "NONE" THEN "COMPLETED" ELSE "FAILED"

Commit(t) ==
    /\ pc[t] = "commit" /\ Accepts(mine[t], FinalStatus(t), seen[t])
    /\ FinishRun(mine[t], FinalStatus(t), error[t], seen[t])
    /\ BackToCaller({t})
    /\ UNCHANGED <<files, pid>>

\* Finalization fails: the exception propagates and the run stays as it is.
CommitFails(t) ==
    /\ pc[t] = "commit" /\ (LockTimeouts \/ ~Accepts(mine[t], FinalStatus(t), seen[t]))
    /\ BackToCaller({t})
    /\ UNCHANGED <<runs, files, pid>>

-----------------------------------------------------------------------------
\* recover_interrupted

Recover(t) ==
    /\ Up(t) /\ pc[t] = "idle" /\ Goto(t, "recover")
    /\ todo' = [todo EXCEPT ![t] = {n \in DOMAIN runs : runs[n].status = "RUNNING"}]
    /\ UNCHANGED <<runs, files, pid, mine, replayOf, error, seen>>

PresumedDead(n) == TRUE

\* A run whose pid some process has is left alone.
ProcessGone(n) == ~Alive(n)

\* The next run found RUNNING: skipped, or the evidence its outcome will list is read.
Examine(t) ==
    /\ pc[t] = "recover"
    /\ \E n \in todo[t] :
          /\ todo' = [todo EXCEPT ![t] = @ \ {n}]
          /\ IF ProcessGone(n)
             THEN /\ mine' = [mine EXCEPT ![t] = n]
                  /\ seen' = [seen EXCEPT ![t] = runs[n].evidence] /\ Goto(t, "close")
             ELSE UNCHANGED <<mine, seen, pc>>
    /\ UNCHANGED <<runs, files, pid, replayOf, error>>

Close(t) ==
    /\ pc[t] = "close" /\ Accepts(mine[t], "FAILED", seen[t])
    /\ FinishRun(mine[t], "FAILED", "INTERRUPTED", seen[t])
    /\ Goto(t, "recover")
    /\ mine' = [mine EXCEPT ![t] = 0] /\ seen' = [seen EXCEPT ![t] = NoEvidence]
    /\ UNCHANGED <<files, pid, replayOf, error, todo>>

\* The registry refuses, and recover_interrupted raises: the rest is left for later.
CloseFails(t) ==
    /\ pc[t] = "close" /\ (LockTimeouts \/ ~Accepts(mine[t], "FAILED", seen[t]))
    /\ BackToCaller({t})
    /\ UNCHANGED <<runs, files, pid>>

RecoverDone(t) ==
    /\ pc[t] = "recover" /\ todo[t] = {}
    /\ BackToCaller({t})
    /\ UNCHANGED <<runs, files, pid>>

-----------------------------------------------------------------------------
\* Processes end at any point, and the host reuses their pids.

Die(p) ==
    /\ pid[p] # 0 /\ pid' = [pid EXCEPT ![p] = 0]
    /\ BackToCaller({t \in Threads : Home[t] = p})
    /\ UNCHANGED <<runs, files>>

Boot(p) ==
    /\ pid[p] = 0
    /\ \E i \in Pids : (\A q \in Processes : pid[q] # i) /\ pid' = [pid EXCEPT ![p] = i]
    /\ UNCHANGED <<runs, files, threadVars>>

ExecNext ==
    \/ \E t \in Threads :
          \/ Execute(t) \/ Unstarted(t) \/ Start(t) \/ Observe(t) \/ WriteFile(t)
          \/ RegisterArtifact(t) \/ Return(t) \/ Raise(t) \/ Verify(t) \/ Diagnose(t)
          \/ Commit(t) \/ CommitFails(t)
          \/ Recover(t) \/ Examine(t) \/ Close(t) \/ CloseFails(t) \/ RecoverDone(t)
    \/ \E p \in Processes : Die(p) \/ Boot(p)

ExecSpec == ExecInit /\ [][ExecNext]_execVars
=============================================================================
