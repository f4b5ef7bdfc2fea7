----------------------------- MODULE MCScheduler -----------------------------
\* Instances of Scheduler for TLC.
EXTENDS SchedulerProperties

CONSTANTS a, b, c, d

Four == {a, b, c, d}
Three == {a, b, c}
Pair == {a, b}
Position == [u \in Units |-> CASE u = a -> 1 [] u = b -> 2 [] u = c -> 3 [] OTHER -> 4]

\* c needs a and b.
Join == [u \in Units |-> IF u = c THEN {a, b} ELSE {}]
\* c needs b, which needs a.
Chain == [u \in Units |-> CASE u = c -> {b} [] u = b -> {a} [] OTHER -> {}]
\* Units that need nothing.
Independent == [u \in Units |-> {}]

\* b comes before a when both are ready.
ByPriority == [u \in Units |-> CASE u = b -> 1 [] u = a -> 2 [] u = c -> 3 [] OTHER -> 4]

Fixed(n, categories) == [kind |-> "FIXED", max_attempts |-> n, retryable |-> categories]
NoRetry == [kind |-> "NONE", max_attempts |-> 1, retryable |-> {"TRANSIENT", "TIMEOUT"}]

\* a may be tried twice; the others once.
RetryFirst == [u \in Units |-> IF u = a THEN Fixed(2, {"TRANSIENT", "TIMEOUT"}) ELSE NoRetry]
RetryTimeout == [u \in Units |-> IF u = a THEN Fixed(2, {"TIMEOUT"}) ELSE NoRetry]
NeverRetry == [u \in Units |-> NoRetry]

NoMemory == [u \in Units |-> 0]
\* a alone exceeds a budget of 4, so it never runs beside b; c and d declare nothing.
SomeMemory == [u \in Units |-> CASE u = a -> 5 [] u = b -> 2 [] OTHER -> 0]
=============================================================================
