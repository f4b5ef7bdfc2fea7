----------------------------- MODULE UnitStates -----------------------------
(***************************************************************************)
(* The state machines of the experiment scheduler (scheduler/taxonomy.py): *)
(* the states of a ScheduleUnit and of a ScheduleRun, the tables of legal  *)
(* transitions every status change is checked against, and the groups of   *)
(* states the engine reasons with.                                         *)
(***************************************************************************)

UnitState == {"PLANNED", "READY", "RUNNING", "SUCCEEDED", "FAILED", "BLOCKED",
              "SKIPPED", "CANCELLED", "TIMED_OUT", "RETRY_PENDING"}

UNIT_TRANSITIONS ==
    ({"PLANNED"}       \X {"READY", "BLOCKED", "CANCELLED"}) \cup
    ({"READY"}         \X {"RUNNING", "BLOCKED", "CANCELLED"}) \cup
    ({"RUNNING"}       \X {"SUCCEEDED", "FAILED", "TIMED_OUT", "CANCELLED"}) \cup
    ({"FAILED"}        \X {"RETRY_PENDING", "CANCELLED"}) \cup
    ({"TIMED_OUT"}     \X {"RETRY_PENDING", "CANCELLED"}) \cup
    ({"RETRY_PENDING"} \X {"READY", "CANCELLED"}) \cup
    ({"BLOCKED"}       \X {"READY", "SKIPPED", "CANCELLED"})

RunState == {"PLANNED", "RUNNING", "COMPLETED", "FAILED", "CANCELLED"}

SCHEDULE_RUN_TRANSITIONS ==
    ({"PLANNED"} \X {"RUNNING", "CANCELLED"}) \cup
    ({"RUNNING"} \X {"COMPLETED", "FAILED", "CANCELLED"})

FailureCategory == {"TRANSIENT", "CONFIGURATION", "UNSUPPORTED", "TIMEOUT", "DATA_MODEL"}

\* What a dispatch answers: success, or the category of its failure.
Answer == {"OK"} \cup FailureCategory

\* The cause an ExecutionAttempt carries: the answer, or the mark recovery
\* leaves on the attempt it writes for a process that ended.
Cause == Answer \cup {"Interrupted"}

\* States of a dependency that keep its dependents from starting.
BLOCKING_STATES == {"FAILED", "CANCELLED", "SKIPPED", "TIMED_OUT"}

\* Units the operator's cancel command still closes.
CancellableStates == {"PLANNED", "READY", "RUNNING", "BLOCKED", "RETRY_PENDING"}

\* Units the operator's retry command accepts.
RetryableStates == {"FAILED", "TIMED_OUT"}

\* States a unit reaches only after it has once been armed for a dispatch.
ArmedStates == {"READY", "RUNNING", "SUCCEEDED", "FAILED", "TIMED_OUT", "RETRY_PENDING"}
=============================================================================
