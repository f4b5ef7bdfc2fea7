---------------------------- MODULE EvidenceDossier ----------------------------
(***************************************************************************)
(* Reports and dossiers: writers that collect the evidence of an           *)
(* investigation kind by kind, while others still record it, and then add  *)
(* what they derived in one transaction.  Both are identified by their     *)
(* specification and by a digest of the evidence they collected, and what  *)
(* is on record already is kept.  A dossier imports the findings of every  *)
(* report and adds one for each weakness it sees; a snapshot freezes the   *)
(* items and findings of a dossier.                                        *)
(***************************************************************************)
EXTENDS Integers, Sequences, FiniteSets

CONSTANTS
    RunsInScope, AnalysesInScope, AttemptsInScope,  \* what the investigation may come to have
    Statistics,     \* statistical analyses, named in every specification
    Foreign,        \* runs of other investigations that the dossier's specification names
    ResultHash,     \* what each statistical analysis found
    Templates,      \* report templates: the kinds their sections draw on
    Reporters, Builders, Archivists,    \* processes that write a report, a dossier, a snapshot
    Recorded,       \* what is on record before anybody writes
    Changing        \* runs in progress: their status changes once, their provenance may be recorded

VARIABLES
    evidence,       \* version of each record, 0 while there is none
    traced,         \* runs with a Provenance record
    reports,        \* [template, bundle, gaps]
    reportFindings, \* [report, statement]
    dossiers,       \* [bundle, reports, gaps]
    items,          \* [dossier, entity, traced], of a dossier named by its bundle
    findings,       \* [dossier, statement, status, report, conflicts]
    snapshots,      \* [dossier, items, findings]
    writer          \* what each process does

dossierVars == <<evidence, traced, reports, reportFindings, dossiers, items, findings, snapshots, writer>>

KindOrder == <<"run", "analysis", "reproduction_attempt", "statistical_analysis">>
OfKind(kind) ==
    CASE kind = "run" -> RunsInScope
      [] kind = "analysis" -> AnalysesInScope
      [] kind = "reproduction_attempt" -> AttemptsInScope
      [] kind = "statistical_analysis" -> Statistics
Entities == RunsInScope \union AnalysesInScope \union AttemptsInScope \union Statistics \union Foreign
AllRuns == RunsInScope \union Foreign

\* A run is neither an analysis nor an attempt.
ASSUME DossierAssumption == Foreign \intersect (AnalysesInScope \union AttemptsInScope) = {}
EvidenceKinds == {"analysis", "reproduction_attempt"}

Writers == Reporters \union Builders \union Archivists
NoEvidence == [e \in Entities |-> 0]
Starting == [at |-> "collect", step |-> 0, bundle |-> NoEvidence, reports |-> {}, imported |-> {},
          traced |-> {}, dossier |-> NoEvidence, items |-> {}]
Finished == [Starting EXCEPT !.at = "ended"]

DossierInit ==
    /\ evidence = [e \in Entities |-> IF e \in Recorded THEN 1 ELSE 0] /\ traced = {}
    /\ reports = {} /\ reportFindings = {}
    /\ dossiers = {} /\ items = {} /\ findings = {} /\ snapshots = {}
    /\ writer = [w \in Writers |-> Starting]

registry == <<reports, reportFindings, dossiers, items, findings, snapshots>>
written == <<reportFindings, dossiers, items, findings, snapshots>>

Collected(bundle, kind) == {e \in OfKind(kind) : bundle[e] > 0}
Present(bundle) == {e \in Entities : bundle[e] > 0}

-----------------------------------------------------------------------------
\* Others record evidence, move its status and capture provenance.

RecordEvidence(e) ==
    /\ evidence[e] < (IF e \in Changing THEN 2 ELSE 1)
    /\ evidence' = [evidence EXCEPT ![e] = @ + 1]
    /\ UNCHANGED <<traced, registry, writer>>

CaptureProvenance(r) ==
    /\ r \in Changing /\ evidence[r] > 0 /\ r \notin traced
    /\ traced' = traced \union {r}
    /\ UNCHANGED <<evidence, registry, writer>>

-----------------------------------------------------------------------------
\* One query per kind; what is recorded between two of them is seen by the later ones only.  The
\* statistical analyses are named by the specification and must exist.
CollectKind(w) ==
    /\ writer[w].at = "collect" /\ writer[w].step < Len(KindOrder)
    /\ LET kind == KindOrder[writer[w].step + 1]
       IN IF kind = "statistical_analysis" /\ \E s \in Statistics : evidence[s] = 0
          THEN writer' = [writer EXCEPT ![w] = Finished]
          ELSE writer' = [writer EXCEPT ![w].step = @ + 1,
                  ![w].bundle = [e \in Entities |-> IF e \in OfKind(kind) THEN evidence[e] ELSE @[e]]]
    /\ UNCHANGED <<evidence, traced, registry>>

AllCollected(w) == writer[w].at = "collect" /\ writer[w].step = Len(KindOrder)

Counted(bundle) ==
    {<<"records", kind, Cardinality(Collected(bundle, kind))>> :
        kind \in {x \in {KindOrder[i] : i \in DOMAIN KindOrder} : Collected(bundle, x) # {}}}

Report(w, template) ==
    [template |-> template, bundle |-> writer[w].bundle,
     gaps |-> {kind \in template : Collected(writer[w].bundle, kind) = {}}]

GenerateReport(w) ==
    /\ w \in Reporters /\ AllCollected(w)
    /\ \E template \in Templates :
          /\ reports' = reports \union {Report(w, template)}
          /\ reportFindings' = reportFindings \union
                {[report |-> Report(w, template), statement |-> s] : s \in Counted(writer[w].bundle)}
    /\ writer' = [writer EXCEPT ![w] = Finished]
    /\ UNCHANGED <<evidence, traced, dossiers, items, findings, snapshots>>

-----------------------------------------------------------------------------
\* Explicit evidence is added to the items; the digest does not see it.
ReadExplicit(w) ==
    /\ w \in Builders /\ AllCollected(w)
    /\ IF \E e \in Foreign : evidence[e] = 0
       THEN writer' = [writer EXCEPT ![w] = Finished]
       ELSE writer' = [writer EXCEPT ![w].at = "reports",
               ![w].bundle = [e \in Entities |-> IF e \in Foreign THEN evidence[e] ELSE @[e]]]
    /\ UNCHANGED <<evidence, traced, registry>>

\* The findings of a report are added with it and never later: reading them is part of reading it.
ReadReports(w) ==
    /\ writer[w].at = "reports"
    /\ writer' = [writer EXCEPT ![w].at = "provenance", ![w].reports = reports, ![w].imported = reportFindings]
    /\ UNCHANGED <<evidence, traced, registry>>

ReadProvenance(w) ==
    /\ writer[w].at = "provenance"
    /\ writer' = [writer EXCEPT ![w].at = "persist", ![w].traced = traced]
    /\ UNCHANGED <<evidence, traced, registry>>

Digest(bundle) == [e \in Entities |-> IF e \in Foreign THEN 0 ELSE bundle[e]]

Gaps(w) ==
    {<<"no evidence found", kind>> : kind \in UNION {r.gaps : r \in writer[w].reports}}
        \union {<<"none recorded", kind>> : kind \in {x \in EvidenceKinds : Collected(writer[w].bundle, x) = {}}}

Finding(w, statement, status) ==
    [dossier |-> Digest(writer[w].bundle), statement |-> statement, status |-> status, report |-> {}, conflicts |-> {}]

Untraced(w) == (AllRuns \intersect Present(writer[w].bundle)) \ writer[w].traced
\* A variant for the mutation tests: a report is taken for an attempt to reproduce.
UnreproducedIfNoReport(w) ==
    /\ AllRuns \intersect Present(writer[w].bundle) # {} /\ writer[w].reports = {}
    /\ Collected(writer[w].bundle, "reproduction_attempt") = {}

Unreproduced(w) ==
    /\ AllRuns \intersect Present(writer[w].bundle) # {}
    /\ Collected(writer[w].bundle, "reproduction_attempt") = {}
Disagreeing == IF \E s, t \in Statistics : ResultHash[s] # ResultHash[t] THEN Statistics ELSE {}

Weaknesses(w) ==
    {Finding(w, g, "MISSING_EXPECTED_EVIDENCE") : g \in Gaps(w)}
        \union {Finding(w, <<"no provenance", r>>, "PROVENANCE_GAP") : r \in Untraced(w)}
        \union {Finding(w, <<"no reproduction attempts">>, "REPRODUCIBILITY_GAP") : x \in {y \in {w} : Unreproduced(y)}}
        \union {[Finding(w, <<"conflicting", s>>, "CONFLICTING_EVIDENCE") EXCEPT
                    !.conflicts = {<<"conflicting", t>> : t \in Disagreeing \ {s}}] : s \in Disagreeing}

Imported(w) ==
    {[Finding(w, f.statement, "SUPPORTED") EXCEPT !.report = {f.report}] : f \in writer[w].imported}

\* Of findings with one statement the one on record stays, else the first of the new ones: that of
\* the report with the least identity, which for the model is any one.
Told(statement, id) == \E f \in findings : f.dossier = id /\ f.statement = statement
Kept(new, id) ==
    {CHOOSE f \in new : f.statement = s : s \in {t \in {f.statement : f \in new} : ~Told(t, id)}}

BuildDossier(w) ==
    /\ writer[w].at = "persist"
    /\ LET id == Digest(writer[w].bundle)
           missing == {e \in Present(writer[w].bundle) : ~\E i \in items : i.dossier = id /\ i.entity = e}
       IN /\ dossiers' = IF \E d \in dossiers : d.bundle = id THEN dossiers
                         ELSE dossiers \union {[bundle |-> id, reports |-> writer[w].reports, gaps |-> Gaps(w)]}
          /\ items' = items \union {[dossier |-> id, entity |-> e, traced |-> e \in writer[w].traced] : e \in missing}
          /\ findings' = findings \union Kept(Imported(w) \union Weaknesses(w), id)
    /\ writer' = [writer EXCEPT ![w] = Finished]
    /\ UNCHANGED <<evidence, traced, reports, reportFindings, snapshots>>

-----------------------------------------------------------------------------
\* A snapshot reads the items and the findings in two queries.
ReadItems(w) ==
    /\ w \in Archivists /\ writer[w] = Starting
    /\ \E d \in dossiers :
          writer' = [writer EXCEPT ![w].at = "freeze", ![w].dossier = d.bundle,
                        ![w].items = {i \in items : i.dossier = d.bundle}]
    /\ UNCHANGED <<evidence, traced, registry>>

BuildSnapshot(w) ==
    /\ writer[w].at = "freeze"
    /\ snapshots' = snapshots \union
          {[dossier |-> writer[w].dossier, items |-> writer[w].items,
            findings |-> {f \in findings : f.dossier = writer[w].dossier}]}
    /\ writer' = [writer EXCEPT ![w] = Finished]
    /\ UNCHANGED <<evidence, traced, reports, reportFindings, dossiers, items, findings>>

DossierNext ==
    \/ \E e \in Entities : RecordEvidence(e)
    \/ \E r \in AllRuns : CaptureProvenance(r)
    \/ \E w \in Reporters \union Builders : CollectKind(w)
    \/ \E w \in Reporters : GenerateReport(w)
    \/ \E w \in Builders : ReadExplicit(w) \/ ReadReports(w) \/ ReadProvenance(w) \/ BuildDossier(w)
    \/ \E w \in Archivists : ReadItems(w) \/ BuildSnapshot(w)

DossierSpec == DossierInit /\ [][DossierNext]_dossierVars

-----------------------------------------------------------------------------
(***************************************************************************)
(* docs/dossier.md: nothing is hidden.  Whatever is recorded while a       *)
(* dossier is assembled, and whoever assembles it again: every kind of     *)
(* evidence its digest lacks, every gap it or a report it names lists,     *)
(* every statement of such a report, every run without provenance, the     *)
(* lack of any attempt to reproduce and each side of a disagreement is one *)
(* of its findings, once, and is in every snapshot of it; every finding    *)
(* about a run is about an item.                                           *)
(***************************************************************************)
Tells(found, statement) == \E f \in found : f.statement = statement
Complete(d, its, found) ==
    /\ \A kind \in EvidenceKinds : Collected(d.bundle, kind) = {} => Tells(found, <<"none recorded", kind>>)
    /\ \A g \in d.gaps : Tells(found, g)
    /\ \A r \in d.reports :
          /\ \A kind \in r.gaps : Tells(found, <<"no evidence found", kind>>)
          /\ \A s \in Counted(r.bundle) : Tells(found, s)
    /\ \A i \in its : i.entity \in AllRuns /\ ~i.traced => Tells(found, <<"no provenance", i.entity>>)
    /\ (\E i \in its : i.entity \in AllRuns) /\ Collected(d.bundle, "reproduction_attempt") = {} =>
          Tells(found, <<"no reproduction attempts">>)
    /\ \A s \in Disagreeing : \E f \in found :
          f.statement = <<"conflicting", s>> /\ f.conflicts = {<<"conflicting", t>> : t \in Disagreeing \ {s}}
    /\ \A f, g \in found : f.statement = g.statement => f = g

NothingHidden ==
    /\ \A d \in dossiers :
          /\ Complete(d, {i \in items : i.dossier = d.bundle}, {f \in findings : f.dossier = d.bundle})
          /\ \A s \in snapshots : s.dossier = d.bundle => Complete(d, s.items, s.findings)
    /\ \A d, e \in dossiers : d.bundle = e.bundle => d = e
=============================================================================
