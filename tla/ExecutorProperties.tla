-------------------------- MODULE ExecutorProperties --------------------------
(***************************************************************************)
(* What must be true of the runs the executor leaves in the registry,      *)
(* whatever processes died, were recovered, or had their pids reused.      *)
(***************************************************************************)
EXTENDS Executor

\* A run being executed stays RUNNING, under the pid of the thread's process and
\* in no other thread's hands, until that thread finalizes it: a recovery that
\* looked at the registry earlier, or meets a reused pid, never closes it.
InFlightUntouched ==
    \A t \in Threads : pc[t] \in Executing =>
        /\ Up(t) /\ runs[mine[t]].status = "RUNNING" /\ runs[mine[t]].pid = pid[Home[t]]
        /\ \A u \in Threads \ {t} : pc[u] # "idle" => mine[u] # mine[t]

\* A run has an outcome exactly when it is finished, with the same status, and the
\* outcome lists all the evidence the registry has of the run, also the evidence
\* that was being recorded when its process died (_finalize, recover_interrupted).
OutcomeTellsAll ==
    \A n \in DOMAIN runs :
        /\ Finished(n) <=> runs[n].outcome # NoOutcome
        /\ Finished(n) => /\ runs[n].outcome.status = runs[n].status
                          /\ runs[n].outcome.lists = runs[n].evidence
        /\ runs[n].outcome.stage = "PREPARATION" <=> (Finished(n) /\ runs[n].pid = 0)

\* Every artifact of a COMPLETED run still has the bytes it was registered with,
\* although the procedure may rewrite a file after registering it (_finalize).
CompletedIntact ==
    \A n \in DOMAIN runs :
        runs[n].status = "COMPLETED" =>
            \A artifact \in runs[n].evidence.artifacts : Intact(n, artifact)

\* A replay names an earlier run that was finished and had been started, and
\* still is what it was when the replay was asked for.
ReplayOfFinished ==
    \A n \in DOMAIN runs :
        LET original == runs[n].replayOf IN
        original # 0 => original < n /\ Finished(original) /\ runs[original].pid # 0

\* The registry as the contract of a run sees it.
Contract == INSTANCE RunContract WITH
    Nothing <- NoEvidence,
    phase <- [n \in DOMAIN runs |-> runs[n].status],
    recorded <- [n \in DOMAIN runs |-> runs[n].evidence],
    summary <- [n \in DOMAIN runs |-> runs[n].outcome.lists]

\* Every behaviour of executors and recoveries is one the contract allows.
ImplementsRunContract == Contract!ContractSpec

-----------------------------------------------------------------------------
\* The inductive invariant, by parts.

\* A run that has not finished has no outcome; one that has not started has neither
\* provenance nor evidence.
Lifecycle ==
    \A n \in DOMAIN runs :
        /\ runs[n].status = "PENDING" => runs[n].pid = 0 /\ runs[n].evidence = NoEvidence
        /\ runs[n].status \in {"RUNNING", "COMPLETED"} => runs[n].pid # 0

\* What a thread knows of its run's evidence is what the registry has.
SeenAll ==
    \A t \in Threads :
        /\ pc[t] \in Executing \cup {"close"} => seen[t] = runs[mine[t]].evidence
        /\ pc[t] = "commit" /\ error[t] = "NONE" =>
              \A artifact \in seen[t].artifacts : Intact(mine[t], artifact)

\* A run that was created and not started is PENDING, and nobody else's.
CreatedPending ==
    \A t \in Threads : pc[t] = "created" =>
        /\ Up(t) /\ runs[mine[t]].status = "PENDING"
        /\ \A u \in Threads \ {t} : pc[u] # "idle" => mine[u] # mine[t]
        /\ replayOf[t] # 0 => replayOf[t] < mine[t] /\ Replayable(replayOf[t])

\* A recovery works on runs that have been started; a thread that diagnoses has an
\* error, and none of them is the failure of a run that was never started; a thread
\* that has not started a run knows of no evidence.
ThreadsConsistent ==
    \A t \in Threads :
        /\ \A n \in todo[t] : runs[n].status # "PENDING"
        /\ pc[t] \in {"idle", "recover"} => mine[t] = 0
        /\ pc[t] = "close" => runs[mine[t]].status # "PENDING"
        /\ pc[t] = "diagnose" => error[t] # "NONE"
        /\ error[t] # "PREPARATION"
        /\ pc[t] \in {"idle", "created"} => seen[t] = NoEvidence

ExecInv ==
    /\ ExecTypeOK /\ Lifecycle /\ SeenAll /\ CreatedPending /\ ThreadsConsistent
    /\ InFlightUntouched /\ OutcomeTellsAll /\ CompletedIntact /\ ReplayOfFinished
=============================================================================
