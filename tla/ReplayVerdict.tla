---------------------------- MODULE ReplayVerdict ----------------------------
(***************************************************************************)
(* One run_reproduction (reproducibility/engine.py): the replay_check of   *)
(* the engine that owns the target, read document by document, the         *)
(* recomparison within the tolerance of the request, and the outcome       *)
(* _classify gives the attempt.                                            *)
(*                                                                         *)
(* A document of the original run is there, has no artifact record, or no  *)
(* longer matches its digest; how far the replay's copy is from it is one  *)
(* of five distances.                                                      *)
(***************************************************************************)
EXTENDS Naturals

CONSTANTS
    Documents,      \* the documents (artifacts, units) of a target
    Fingerprints,   \* the one that holds the fingerprint of the sources
    Kinds           \* target kinds considered

TargetKind ==
    {"RUN", "SCHEDULE", "BENCHMARK_RESULT", "STRESS_ANALYSIS", "CALIBRATION_ANALYSIS", "RESOURCE_ANALYSIS",
     "DRIFT_ANALYSIS", "QUALITY_ANALYSIS", "RELIABILITY_PROFILE", "INTERACTION_ANALYSIS", "GRAPH_SNAPSHOT"}

ReproductionMode == {"EXACT", "DETERMINISTIC", "NUMERIC_TOLERANCE", "STATISTICAL", "PROVENANCE_ONLY"}

ASSUME VerdictAssumption == Fingerprints \in Documents /\ Kinds \subseteq TargetKind

\* tiny: within REPLAY_TOLERANCE; near: beyond that; shape: a different type at some path.
Distance == {"same", "tiny", "near", "far", "shape"}

Request == [kind : Kinds, mode : ReproductionMode, tolerated : {{}, {"tiny"}, {"tiny", "near"}}]

\* What the request meets.  "others" is what an engine compares besides its documents: the
\* trials of a stress analysis, the output digest of a resource analysis.  "resource_keys" are
\* the units of a schedule that measure resources.
World ==
    [original : [Documents -> {"stored", "absent", "corrupted"}], distance : [Documents -> Distance],
     resource_keys : SUBSET Documents, completed : BOOLEAN, provenance : BOOLEAN, sources_changed : BOOLEAN, others : BOOLEAN]

VARIABLES
    request, world,
    unread,         \* documents replay_check still has to read
    differences,    \* its differences, by document, or "others" or "status"
    outcome,        \* of the attempt, once there is one
    check           \* "start", "replayed", "compared", "recorded" or "raised"

verdictVars == <<request, world, unread, differences, outcome, check>>

TOLERANCE_MODES == {"NUMERIC_TOLERANCE", "STATISTICAL"}

\* Engines whose replay_check reads documents and, of these, how it takes an unreadable one.
DocumentKinds == TargetKind \ {"RUN", "SCHEDULE"}
SkipsUnreadable == {"RELIABILITY_PROFILE", "INTERACTION_ANALYSIS"}
ListsMissing == {"QUALITY_ANALYSIS", "DRIFT_ANALYSIS", "STRESS_ANALYSIS", "RESOURCE_ANALYSIS", "CALIBRATION_ANALYSIS"}

\* Engines that compare the fingerprint of their sources.
Fingerprinted == {"BENCHMARK_RESULT", "RELIABILITY_PROFILE", "GRAPH_SNAPSHOT"}

Outcome == {"EQUAL", "APPROXIMATELY_EQUAL", "DIFFERENT", "INCOMPARABLE", "UNAVAILABLE"}

\* Type invariant.
VerdictTypeOK ==
    /\ request \in Request /\ world \in World
    /\ unread \subseteq Documents /\ differences \subseteq Documents \cup {"others", "status"}
    /\ outcome \in Outcome \cup {"none"}
    /\ check \in {"start", "replayed", "compared", "recorded", "raised"}

\* Kinds that compare nothing besides documents, or no fingerprint, have nothing to differ there.
VerdictInit ==
    /\ request \in Request
    /\ world \in {w \in World :
            /\ w.others \/ request.kind \in {"STRESS_ANALYSIS", "RESOURCE_ANALYSIS"}
            /\ w.sources_changed => request.kind \in Fingerprinted
            /\ w.resource_keys # {} => request.kind = "SCHEDULE"
            /\ request.kind \in {"RUN", "SCHEDULE"} => \A d \in Documents : w.original[d] # "absent"}
    /\ unread = {} /\ differences = {} /\ outcome = "none" /\ check = "start"
-----------------------------------------------------------------------------
Record(o) ==
    /\ outcome' = o /\ check' = "recorded"
    /\ UNCHANGED <<request, world, unread>>

\* _run_provenance_only: nothing is executed again.
ProvenanceOnly ==
    /\ check = "start" /\ request.mode = "PROVENANCE_ONLY"
    /\ Record(CASE request.kind = "SCHEDULE" \/ ~world.provenance -> "UNAVAILABLE"
                [] OTHER -> IF \E d \in Documents : world.original[d] = "corrupted" THEN "DIFFERENT" ELSE "EQUAL")
    /\ UNCHANGED differences

\* executor.replay; a replay that did not complete is the only difference then, but the units
\* of a schedule are compared however run_schedule ended.
Replay ==
    /\ check = "start" /\ request.mode # "PROVENANCE_ONLY"
    /\ IF world.completed \/ request.kind = "SCHEDULE"
       THEN unread' = Documents /\ check' = "replayed" /\ UNCHANGED differences
       ELSE check' = "compared" /\ differences' = {"status"} /\ UNCHANGED unread
    /\ UNCHANGED <<request, world, outcome>>

\* The replay is refused or fails before there is a run to compare with: there is no attempt.
ReplayRefused ==
    /\ check = "start" /\ request.mode # "PROVENANCE_ONLY"
    /\ check' = "raised"
    /\ UNCHANGED <<request, world, unread, differences, outcome>>

\* The digests of a run and the units of a schedule are on record, nothing is opened.
Readable(d) == request.kind \in DocumentKinds => world.original[d] = "stored"

TakesUnreadable(d) ==
    \/ request.kind \in SkipsUnreadable
    \/ request.kind \in ListsMissing /\ world.original[d] = "absent"

\* _compare takes floats within REPLAY_TOLERANCE as equal; a graph, the digests of a run and
\* the units of a schedule are compared exactly.
ComparesEqual(d) ==
    world.distance[d] \in IF request.kind \in {"GRAPH_SNAPSHOT", "RUN", "SCHEDULE"} THEN {"same"} ELSE {"same", "tiny"}

ReadDocument(d) ==
    /\ check = "replayed" /\ d \in unread
    /\ unread' = unread \ {d}
    /\ Readable(d) \/ TakesUnreadable(d)
    /\ LET agrees == IF Readable(d) THEN ComparesEqual(d) ELSE request.kind \in SkipsUnreadable
       IN  differences' = IF agrees THEN differences ELSE differences \cup {d}
    /\ UNCHANGED <<request, world, outcome, check>>

\* Any other unreadable document raises, and there is no attempt.
RefuseDocument(d) ==
    /\ check = "replayed" /\ d \in unread
    /\ ~Readable(d) /\ ~TakesUnreadable(d)
    /\ check' = "raised"
    /\ UNCHANGED <<request, world, unread, differences, outcome>>

CompareOthers ==
    /\ check = "replayed" /\ unread = {}
    /\ differences' = IF world.others THEN differences ELSE differences \cup {"others"}
    /\ check' = "compared"
    /\ UNCHANGED <<request, world, unread, outcome>>

\* RESOURCE units that differ are listed, but the verdict does not count them.
non_resource_diffs == differences \ world.resource_keys

\* The verdict replay_check returns under "deterministic"; that of resources/engine.py has
\* "definition_reproduced" and "outputs_reproduced" in its place.
deterministic == request.kind # "RESOURCE_ANALYSIS" /\ non_resource_diffs = {}

\* The reliability check finds the fingerprint in a document, and none when that is skipped.
sources_changed ==
    /\ world.completed /\ world.sources_changed
    /\ request.kind = "RELIABILITY_PROFILE" => Readable(Fingerprints)

\* _tolerance_recompare: documents both runs have that differ, unless there are none to name.
FieldDifferences ==
    IF request.mode \in TOLERANCE_MODES /\ request.kind \in DocumentKinds /\ differences # {}
    THEN {d \in Documents : Readable(d) /\ world.distance[d] # "same"} ELSE {}

WorstIfShape == IF \E d \in FieldDifferences : world.distance[d] = "shape" THEN "INCOMPARABLE" ELSE "APPROXIMATELY_EQUAL"

Worst ==
    LET beyond == {world.distance[d] : d \in FieldDifferences} \ request.tolerated
    IN  CASE "shape" \in beyond -> "INCOMPARABLE"
          [] "shape" \notin beyond /\ beyond # {} -> "DIFFERENT"
          [] beyond = {} -> "APPROXIMATELY_EQUAL"

classify ==
    IF sources_changed \/ ~world.completed THEN "UNAVAILABLE"
    ELSE IF deterministic THEN "EQUAL"
    ELSE IF request.mode \in TOLERANCE_MODES /\ FieldDifferences # {} THEN Worst
    ELSE "DIFFERENT"

Classify ==
    /\ check = "compared"
    /\ Record(classify)
    /\ UNCHANGED differences

VerdictNext ==
    \/ ProvenanceOnly \/ Replay \/ ReplayRefused \/ CompareOthers \/ Classify
    \/ \E d \in Documents : ReadDocument(d) \/ RefuseDocument(d)

VerdictSpec == VerdictInit /\ [][VerdictNext]_verdictVars
-----------------------------------------------------------------------------
WasReplayed == check = "recorded" /\ request.mode # "PROVENANCE_ONLY"

\* An outcome is never better than what was compared: EQUAL needs a completed replay of
\* unchanged sources in which every readable document, and whatever else the engine compares,
\* agrees within REPLAY_TOLERANCE; APPROXIMATELY_EQUAL needs a request with a tolerance that
\* covers every readable document (trials and unreadable documents do not count there).  Of a
\* schedule, docs/reproducibility.md:72-74 and 121-123 except the RESOURCE units and nothing
\* else: it is EQUAL exactly when all its other units agree, and every unit that differs, a
\* RESOURCE unit or another, stays listed in the attempt, also in one that is EQUAL.
OutcomeSupported ==
    WasReplayed =>
        /\ outcome \in {"EQUAL", "APPROXIMATELY_EQUAL"} =>
             /\ world.completed /\ ~sources_changed
             /\ LET agreed == {"same", "tiny"} \cup IF outcome = "EQUAL" THEN {} ELSE request.tolerated
                IN  \A d \in Documents \ world.resource_keys : Readable(d) => world.distance[d] \in agreed
             /\ IF outcome = "EQUAL" THEN world.others ELSE request.mode \in TOLERANCE_MODES
        /\ request.kind = "SCHEDULE" =>
             /\ differences = {d \in Documents : world.distance[d] # "same"}
             /\ outcome = "EQUAL" <=> world.completed /\ differences \subseteq world.resource_keys

\* taxonomy.py says the verdict is "the engine's own replay_check verdict (excludes
\* timing/environment-only noise the source engine already excludes, e.g. resource
\* measurements)": a replay that completed over the same sources and listed no difference is EQUAL.
NoDifferenceIsEqual ==
    WasReplayed /\ world.completed /\ ~sources_changed /\ differences = {} => outcome = "EQUAL"
=============================================================================
