----------------------------- MODULE RunContract -----------------------------
(***************************************************************************)
(* What the executor promises to whoever reads the registry: evidence is   *)
(* added to a run only while it is RUNNING, a run finishes once, with an   *)
(* outcome that lists exactly the evidence recorded, and is never touched  *)
(* again.                                                                  *)
(***************************************************************************)
EXTENDS Naturals, Sequences

CONSTANT Nothing        \* no evidence, or no outcome

VARIABLES
    phase,      \* the status of every run, in the order they were created
    recorded,   \* the evidence of every run
    summary     \* what the outcome of every run lists; a run without one lists nothing

contractVars == <<phase, recorded, summary>>

ContractInit == phase = <<>> /\ recorded = <<>> /\ summary = <<>>

NewRun ==
    /\ phase' = Append(phase, "PENDING")
    /\ recorded' = Append(recorded, Nothing) /\ summary' = Append(summary, Nothing)

StartRun(n) ==
    /\ phase[n] = "PENDING" /\ phase' = [phase EXCEPT ![n] = "RUNNING"]
    /\ UNCHANGED <<recorded, summary>>

\* Evidence of any kind, of this run alone.
AddEvidence(n) ==
    /\ phase[n] = "RUNNING"
    /\ recorded' = [recorded EXCEPT ![n] = recorded'[n]]
    /\ UNCHANGED <<phase, summary>>

FinishRun(n) ==
    /\ \/ phase[n] = "RUNNING" /\ \E to \in {"COMPLETED", "FAILED"} : phase' = [phase EXCEPT ![n] = to]
       \/ phase[n] = "PENDING" /\ phase' = [phase EXCEPT ![n] = "FAILED"]
    /\ summary' = [summary EXCEPT ![n] = recorded[n]]
    /\ UNCHANGED recorded

ContractNext == NewRun \/ \E n \in DOMAIN phase : StartRun(n) \/ AddEvidence(n) \/ FinishRun(n)

ContractSpec == ContractInit /\ [][ContractNext]_contractVars
=============================================================================
