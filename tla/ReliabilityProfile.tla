-------------------------- MODULE ReliabilityProfile --------------------------
(***************************************************************************)
(* How a reliability profile is built (reliability/builder.py) from what   *)
(* earlier analyses recorded, while failure modes and interactions go on   *)
(* through their lifecycles: the builder reads one row after the other,    *)
(* in no transaction.  Of the lifecycles only what FailureLifecycle and    *)
(* InteractionLifecycle promise is used: evidence is never taken back, and *)
(* a mode is CONFIRMED, an interaction REPRODUCIBLE, only on a passing     *)
(* reproduction.                                                           *)
(***************************************************************************)
EXTENDS Naturals, FiniteSets

CONSTANT Profiles       \* the profiles asked for: [scope, baseline, sources]

VARIABLES
    profile,            \* the request
    life,               \* of each mode and interaction: "open", "settled" or "dropped"
    passed,             \* those with a passing reproduction on record
    section,            \* the section the builder is at
    left,               \* the sources it has not read there
    half,               \* what it has read of a source so far: its status, or Unread
    dims,               \* the dimensions: status
    refs,               \* the references: <<dimension, source>>, source 0 is the baseline run
    shown,              \* the rows: [id, life, reproduced] of a mode or an interaction
    unresolved,         \* the issues of the reproducibility dimension
    digest              \* what the provenance fingerprint covers of the modes

profileVars == <<profile, life, passed, section, left, half, dims, refs, shown, unresolved, digest>>

Kind == {"FAULT_EXPERIMENT", "INTERACTION", "FAILURE_MODE", "SLICE_ANALYSIS", "STRESS_ANALYSIS",
         "CALIBRATION_ANALYSIS", "RESOURCE_ANALYSIS", "DRIFT_ANALYSIS"}
Scope == {"MODEL_DATASET", "MODEL_DATASET_SPLIT", "MODEL_DATASET_EVALUATION"}
Dimension ==
    {"BASELINE_PERFORMANCE", "FAULT_SENSITIVITY", "FAILURE_PREVALENCE", "FAILURE_SEVERITY", "INTERACTION_SENSITIVITY",
     "SLICE_SENSITIVITY", "DISTRIBUTION_SHIFT", "MODEL_STRESS", "CALIBRATION_ANALYSIS", "RESOURCE_SYSTEM",
     "REPRODUCIBILITY", "UNCERTAINTY", "LATENCY", "CALIBRATION"}
Unread == "nothing"

\* A source made over a run has its model: it cannot be of another model than the baseline and of the same run.
ASSUME ProfileAssumption ==
    \A p \in Profiles :
        /\ \A s \in p.sources : s.kind \in Kind /\ s.id \in Nat \ {0} /\ s.readable \in BOOLEAN
        /\ \A s \in p.sources :
              s.kind \in {"SLICE_ANALYSIS", "CALIBRATION_ANALYSIS", "DRIFT_ANALYSIS"} /\ "model" \in s.differs
                  => "baseline run" \in s.differs
        /\ p.baseline.registered \in BOOLEAN /\ p.baseline.completed \in BOOLEAN
        /\ p.baseline.faulted \in BOOLEAN /\ p.baseline.readable \in BOOLEAN

SourcesOf(kind) == {s \in profile.sources : s.kind = kind}
Ids(sources) == {s.id : s \in sources}
Lives(s) == s.kind \in {"FAILURE_MODE", "INTERACTION"}

ProfileInit ==
    /\ profile \in Profiles
    /\ life = [i \in {s.id : s \in {x \in profile.sources : Lives(x)}} |-> "open"]
    /\ passed = {} /\ section = "context" /\ left = {} /\ half = Unread
    /\ dims = <<>> /\ refs = {} /\ shown = {} /\ unresolved = {} /\ digest = <<>>

-----------------------------------------------------------------------------
\* What happens to modes and interactions meanwhile.

Reproduce(i) ==
    /\ life[i] # "dropped"
    /\ passed' = passed \cup {i}
    /\ UNCHANGED <<profile, life, section, left, half, dims, refs, shown, unresolved, digest>>

Settle(i) ==
    /\ life[i] = "open" /\ i \in passed
    /\ life' = [life EXCEPT ![i] = "settled"]
    /\ UNCHANGED <<profile, passed, section, left, half, dims, refs, shown, unresolved, digest>>

Drop(i) ==
    /\ life[i] # "dropped"
    /\ life' = [life EXCEPT ![i] = "dropped"]
    /\ UNCHANGED <<profile, passed, section, left, half, dims, refs, shown, unresolved, digest>>

-----------------------------------------------------------------------------
\* The anchor, and the sources that belong to it.

\* The first that applies.
ContextIssue ==
    LET b == profile.baseline
    IN  IF ~b.registered THEN "BASELINE_MISSING"
        ELSE IF ~b.completed THEN "BASELINE_NOT_COMPLETED"
        ELSE IF b.faulted THEN "BASELINE_IS_FAULTED"
        ELSE IF ~b.readable THEN "BASELINE_UNUSABLE" ELSE Unread

\* A variant for the mutation tests: the scope narrows nothing.
MatchesAnyScope(kind) ==
    IF kind = "STRESS_ANALYSIS" THEN {"baseline run", "model", "dataset"}
    ELSE IF kind \in {"SLICE_ANALYSIS", "CALIBRATION_ANALYSIS", "DRIFT_ANALYSIS"} THEN {"baseline run", "dataset"}
    ELSE {"model", "dataset"}

\* What a source is compared in: a source made over the baseline run names it instead of the model.
Matches(kind) ==
    CASE kind \in {"FAULT_EXPERIMENT", "INTERACTION"} ->
            {"model", "dataset"}
            \cup (IF profile.scope = "MODEL_DATASET" THEN {} ELSE {"split"})
            \cup (IF profile.scope = "MODEL_DATASET_EVALUATION" THEN {"configuration"} ELSE {})
      [] kind \in {"FAILURE_MODE", "RESOURCE_ANALYSIS"} -> {"model", "dataset"}
      [] kind \in {"SLICE_ANALYSIS", "CALIBRATION_ANALYSIS", "DRIFT_ANALYSIS"} -> {"baseline run", "dataset"}
      [] kind = "STRESS_ANALYSIS" -> {"baseline run", "model", "dataset"}

\* Every issue is listed; a source that cannot be read has no other.
Issues ==
    UNION {IF s.readable THEN {<<s.id, label>> : label \in Matches(s.kind) \cap s.differs} ELSE {<<s.id, "missing">>} :
              s \in profile.sources}

CheckContext ==
    /\ section = "context"
    /\ section' = IF ContextIssue = Unread THEN "compatibility" ELSE "refused"
    /\ UNCHANGED <<profile, life, passed, left, half, dims, refs, shown, unresolved, digest>>

CheckCompatibility ==
    /\ section = "compatibility"
    /\ section' = IF Issues = {} THEN "baseline" ELSE "refused"
    /\ UNCHANGED <<profile, life, passed, left, half, dims, refs, shown, unresolved, digest>>

-----------------------------------------------------------------------------
\* The sections, in the order of build.

With(entries) == [d \in DOMAIN dims \cup DOMAIN entries |-> IF d \in DOMAIN entries THEN entries[d] ELSE dims[d]]
AllAt(ds, status) == [d \in ds |-> status]
GoTo(next) == section' = next /\ left' = Ids(SourcesOf(IF next = "modes" THEN "FAILURE_MODE"
                                                ELSE IF next = "interactions" THEN "INTERACTION" ELSE Unread))
Quiet == UNCHANGED <<profile, life, passed, half, shown, unresolved, digest>>

ObservedIf(condition) == IF condition THEN "OBSERVED" ELSE "UNAVAILABLE"

Baseline ==
    LET b == profile.baseline
        measured == {"BASELINE_PERFORMANCE"} \cup (IF b.calibrated THEN {"CALIBRATION"} ELSE {})
                                             \cup (IF b.timed THEN {"LATENCY"} ELSE {})
    IN  /\ section = "baseline"
        /\ dims' = With([d \in {"BASELINE_PERFORMANCE", "CALIBRATION", "LATENCY"} |-> ObservedIf(d \in measured)])
        /\ refs' = refs \cup {<<d, 0>> : d \in measured}
        /\ GoTo("faults") /\ Quiet

\* Sources whose dimension is derived if any of them has enough evidence.
Summarized(kind, d, best) ==
    /\ dims' = With(AllAt({d}, IF SourcesOf(kind) = {} THEN "UNAVAILABLE"
                              ELSE IF \E s \in SourcesOf(kind) : s.enough THEN best ELSE "INSUFFICIENT_EVIDENCE"))
    /\ refs' = refs \cup {<<d, i>> : i \in Ids(SourcesOf(kind))}

Faults == section = "faults" /\ Summarized("FAULT_EXPERIMENT", "FAULT_SENSITIVITY", "OBSERVED") /\ GoTo("modes") /\ Quiet

\* One mode or interaction: its row, with its status, and then its evidence.
LivingDims == IF section = "modes" THEN {"FAILURE_PREVALENCE", "FAILURE_SEVERITY"} ELSE {"INTERACTION_SENSITIVITY"}
FirstLeft == CHOOSE i \in left : \A x \in left : i <= x

ReadStatus ==
    /\ section \in {"modes", "interactions"} /\ left # {} /\ half = Unread
    /\ half' = life[FirstLeft]
    /\ UNCHANGED <<profile, life, passed, section, left, dims, refs, shown, unresolved, digest>>

ReadEvidence ==
    /\ section \in {"modes", "interactions"} /\ left # {} /\ half # Unread
    /\ shown' = shown \cup {[id |-> FirstLeft, life |-> half, reproduced |-> FirstLeft \in passed]}
    /\ refs' = refs \cup {<<d, FirstLeft>> : d \in LivingDims}
    /\ left' = left \ {FirstLeft} /\ half' = Unread
    /\ UNCHANGED <<profile, life, passed, section, dims, unresolved, digest>>

Living(next) ==
    /\ left = {}
    /\ dims' = With(AllAt(LivingDims, IF \E d \in LivingDims, r \in refs : r[1] = d THEN "DERIVED" ELSE "UNAVAILABLE"))
    /\ GoTo(next) /\ Quiet /\ UNCHANGED refs

ModesDone == section = "modes" /\ Living("interactions")
InteractionsDone == section = "interactions" /\ Living("slices")

Slices ==
    LET any == profile.baseline.sliced \/ SourcesOf("SLICE_ANALYSIS") # {} \/ \E s \in SourcesOf("INTERACTION") : s.classes
    IN  /\ section = "slices"
        /\ dims' = With(AllAt({"SLICE_SENSITIVITY"}, ObservedIf(any)))
        /\ refs' = refs \cup {<<"SLICE_SENSITIVITY", i>> : i \in IF any THEN {0} \cup Ids(SourcesOf("SLICE_ANALYSIS")) ELSE {}}
        /\ GoTo("drift") /\ Quiet

Drift == section = "drift" /\ Summarized("DRIFT_ANALYSIS", "DISTRIBUTION_SHIFT", "DERIVED") /\ GoTo("stress") /\ Quiet
Stress == section = "stress" /\ Summarized("STRESS_ANALYSIS", "MODEL_STRESS", "DERIVED") /\ GoTo("calibration") /\ Quiet
Calibration ==
    section = "calibration" /\ Summarized("CALIBRATION_ANALYSIS", "CALIBRATION_ANALYSIS", "DERIVED") /\ GoTo("resources") /\ Quiet
Resources ==
    section = "resources" /\ Summarized("RESOURCE_ANALYSIS", "RESOURCE_SYSTEM", "DERIVED") /\ GoTo("reproducibility") /\ Quiet

\* AllAt sources that could be reproduced are assessed; a fault experiment that rests on few seeds, or ran elsewhere
\* than the baseline, is an issue, and so is a mode or an interaction that was not reproduced.
Reproducibility ==
    LET faults == SourcesOf("FAULT_EXPERIMENT")
        interactions == Ids(SourcesOf("INTERACTION"))
    IN  /\ section = "reproducibility"
        /\ dims' = With(AllAt({"REPRODUCIBILITY"},
                             IF faults = {} /\ shown = {} THEN "INSUFFICIENT_EVIDENCE" ELSE "DERIVED"))
        /\ unresolved' = {s.id : s \in {x \in faults : x.thin}}
                         \cup {r.id : r \in {x \in shown : x.id \notin interactions /\ ~x.reproduced}}
                         \cup {r.id : r \in {x \in shown : x.id \in interactions /\ x.life # "settled"}}
                         \cup (IF faults # {} /\ \E s \in faults : s.elsewhere THEN {0} ELSE {})
        /\ GoTo("uncertainty")
        /\ UNCHANGED <<profile, life, passed, half, refs, shown, digest>>

Uncertainty ==
    LET any == profile.baseline.interval
               \/ \E s \in SourcesOf("FAULT_EXPERIMENT") \cup SourcesOf("INTERACTION") : s.interval
    IN  /\ section = "uncertainty"
        /\ dims' = With(AllAt({"UNCERTAINTY"}, IF any THEN "DERIVED" ELSE "INSUFFICIENT_EVIDENCE"))
        /\ GoTo("fingerprint") /\ Quiet /\ UNCHANGED refs

\* The fingerprint reads the modes once more; of interactions it covers the provenance, not the status.
Fingerprint ==
    /\ section = "fingerprint"
    /\ digest' = [i \in Ids(SourcesOf("FAILURE_MODE")) |-> life[i]]
    /\ section' = "built"
    /\ UNCHANGED <<profile, life, passed, left, half, dims, refs, shown, unresolved>>

ProfileNext ==
    \/ \E i \in DOMAIN life : Reproduce(i) \/ Settle(i) \/ Drop(i)
    \/ CheckContext \/ CheckCompatibility \/ Baseline \/ Faults \/ ReadStatus \/ ReadEvidence \/ ModesDone
    \/ InteractionsDone \/ Slices \/ Drift \/ Stress \/ Calibration \/ Resources \/ Reproducibility \/ Uncertainty
    \/ Fingerprint

ProfileBehaviour == ProfileInit /\ [][ProfileNext]_profileVars

-----------------------------------------------------------------------------
(***************************************************************************)
(* What a profile says, evidence supports.  It is refused only if its      *)
(* baseline or a source is not what it must be, and always if a source is  *)
(* of another model or dataset or, when the scope says so, of another      *)
(* evaluation: for fault experiments and interactions, as no other kind is *)
(* compared in its split.  Otherwise every dimension has a status; a       *)
(* dimension with a value has a reference, one without evidence has none,  *)
(* and every source asked for is referenced; a mode it calls established,  *)
(* or an interaction it calls reproducible, it shows with a passing        *)
(* reproduction, whatever happens between its reads; the fingerprint,      *)
(* taken last, never covers a status older than the one shown; a profile   *)
(* without open issues shows only what was reproduced.                     *)
(***************************************************************************)
Age(status) == IF status = "open" THEN 0 ELSE IF status = "settled" THEN 1 ELSE 2
ProfileSupported ==
    LET b == profile.baseline
        sound == b.registered /\ b.completed /\ ~b.faulted /\ b.readable
        evaluated(s) == s.kind \in {"FAULT_EXPERIMENT", "INTERACTION"}
        Outside(s) == \/ ~s.readable \/ {"model", "dataset"} \cap s.differs # {}
                      \/ evaluated(s) /\ "split" \in s.differs /\ profile.scope # "MODEL_DATASET"
                      \/ evaluated(s) /\ "configuration" \in s.differs /\ profile.scope = "MODEL_DATASET_EVALUATION"
        Referenced(d) == {r[2] : r \in {x \in refs : x[1] = d}}
    IN  /\ section = "refused" => dims = <<>> /\ (sound => \E s \in profile.sources : ~s.readable \/ s.differs # {})
        /\ section = "built" =>
              /\ sound /\ \A s \in profile.sources : ~Outside(s)
              /\ DOMAIN dims = Dimension
              /\ \A d \in Dimension \ {"REPRODUCIBILITY", "UNCERTAINTY"} :
                    (dims[d] = "UNAVAILABLE") = (Referenced(d) = {})
              /\ Ids(profile.sources) = (UNION {Referenced(d) : d \in Dimension}) \ {0}
              /\ \A r \in shown : r.life = "settled" => r.reproduced
              /\ \A r \in shown : r.id \in DOMAIN digest => Age(r.life) <= Age(digest[r.id])
              /\ unresolved = {} => \A r \in shown : r.reproduced
=============================================================================
