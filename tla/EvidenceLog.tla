----------------------------- MODULE EvidenceLog -----------------------------
(***************************************************************************)
(* What the reproduction attempts of a target promise to their readers: a  *)
(* log per target that only grows, one outcome at a time, at its end, so   *)
(* that "the most recent attempt" means the one that was recorded last.    *)
(***************************************************************************)
EXTENDS Sequences

CONSTANTS Targets, Outcomes

VARIABLE log

LogInit == log = [t \in Targets |-> <<>>]

AppendOutcome(t, o) == log' = [log EXCEPT ![t] = Append(@, o)]

LogNext == \E t \in Targets, o \in Outcomes : AppendOutcome(t, o)

LogSpec == LogInit /\ [][LogNext]_log
=============================================================================
