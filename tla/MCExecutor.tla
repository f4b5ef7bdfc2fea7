------------------------------ MODULE MCExecutor ------------------------------
\* An instance of Executor for TLC: two processes with a thread each.
EXTENDS ExecutorProperties

CONSTANTS t1, t2, P, Q

OneEach == [t \in Threads |-> IF t = t1 THEN P ELSE Q]
=============================================================================
