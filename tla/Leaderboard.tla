----------------------------- MODULE Leaderboard -----------------------------
(***************************************************************************)
(* The leaderboard of one protocol (leaderboard/submission.py and          *)
(* snapshot.py) over the reproduction attempts of its results              *)
(* (reproducibility/engine.py): commands run by separate processes on one  *)
(* registry, each of which may die at any point.                           *)
(*                                                                         *)
(* Every query and every add is a transaction of its own, so a step here   *)
(* is one of them.  A table is keyed by the identity of its entities, and  *)
(* an add of an identity that is there already is refused.                 *)
(***************************************************************************)
EXTENDS Naturals, FiniteSets

CONSTANTS
    Results,        \* benchmark results a submission may refer to
    Matching,       \* those that ran under the hash of this protocol
    Covered,        \* those whose coverage status is COMPLETE
    ReplayOutcomes, \* what a replay may be classified as
    Submitters,     \* processes that run submit
    Reproducers,    \* processes that run run_reproduction
    Builders,       \* processes that run build_snapshot
    RulesInUse,     \* the rules snapshots are built with
    MaxAttempts,    \* bound: attempts on record for each result when one starts
    MaxSnapshots    \* bound: snapshots on record when a build starts

ComparisonOutcome == {"EQUAL", "APPROXIMATELY_EQUAL", "DIFFERENT", "INCOMPARABLE", "UNAVAILABLE"}

\* require_complete_coverage and require_reproduction.
Rules == [coverage : BOOLEAN, reproduction : BOOLEAN]

ASSUME LeaderboardAssumption ==
    /\ Results # {} /\ Matching \subseteq Results /\ Covered \subseteq Results
    /\ ReplayOutcomes \subseteq ComparisonOutcome /\ RulesInUse \subseteq Rules
    /\ MaxAttempts \in [Results -> Nat] /\ MaxSnapshots \in Nat

VARIABLES
    attempts,       \* ReproductionAttempts: result -> attempt number -> outcome
    submissions,    \* results with a BenchmarkSubmission
    snapshots,      \* LeaderboardSnapshots, by their source fingerprint
    entries,        \* LeaderboardEntries
    submitter,      \* where each submit is and the result it holds
    reproducer,     \* where each run_reproduction is, its target and number
    builder         \* where each build_snapshot is and what it has read

boardVars == <<attempts, submissions, snapshots, entries, submitter, reproducer, builder>>

ReproducibilityState == {"REPRODUCED", "PARTIALLY_REPRODUCED", "NOT_REPRODUCED", "UNAVAILABLE"}

OUTCOME_TO_STATE ==
    [o \in ComparisonOutcome |->
        CASE o = "EQUAL" -> "REPRODUCED"
          [] o = "APPROXIMATELY_EQUAL" -> "PARTIALLY_REPRODUCED"
          [] o \in {"DIFFERENT", "INCOMPARABLE"} -> "NOT_REPRODUCED"
          [] o = "UNAVAILABLE" -> "UNAVAILABLE"]

Reproduced == {"REPRODUCED", "PARTIALLY_REPRODUCED"}

\* The state after the first n attempts of a result.
StateAfter(r, n) == IF n = 0 THEN "UNAVAILABLE" ELSE OUTCOME_TO_STATE[attempts[r][n - 1]]

Recorded(r) == Cardinality(DOMAIN attempts[r])

reproducibility_state(r) ==
    LET numbers == DOMAIN attempts[r]
        last == CHOOSE n \in numbers : \A k \in numbers : k <= n
    IN  IF numbers = {} THEN "UNAVAILABLE" ELSE OUTCOME_TO_STATE[attempts[r][last]]

\* What source_fingerprint covers; metrics and content hashes follow from the results.
Snapshot == [included : SUBSET Results, excluded : SUBSET Results, rules : Rules]

Entry == [snapshot : Snapshot, result : Results, state : ReproducibilityState]

SubmitterJob == [pc : {"idle", "ran", "adding"}, result : Results]
ReproducerJob == [pc : {"idle", "replaying"}, target : Results, number : Nat]
BuilderJob ==
    [pc : {"idle", "filtering", "adding", "entering", "entry"}, alive : BOOLEAN,
     draft : Snapshot, todo : SUBSET Results, current : Results, state : ReproducibilityState]

\* Type invariant.  The numbers of a result's attempts leave no gap.
BoardTypeOK ==
    /\ DOMAIN attempts = Results
    /\ \A r \in Results : attempts[r] \in [0..(Recorded(r) - 1) -> ReplayOutcomes]
    /\ submissions \subseteq Results
    /\ snapshots \subseteq Snapshot
    /\ entries \subseteq Entry
    /\ submitter \in [Submitters -> SubmitterJob]
    /\ reproducer \in [Reproducers -> ReproducerJob]
    /\ builder \in [Builders -> BuilderJob]

NewDraft(rules) == [included |-> {}, excluded |-> {}, rules |-> rules]

\* What a command holds before it starts and after it returned is of no account.
NoResult == CHOOSE r \in Results : TRUE
IdleSubmitter == [pc |-> "idle", result |-> NoResult]
IdleReproducer == [pc |-> "idle", target |-> NoResult, number |-> 0]
IdleBuilder ==
    [pc |-> "idle", alive |-> TRUE, draft |-> NewDraft([coverage |-> FALSE, reproduction |-> FALSE]),
     todo |-> {}, current |-> NoResult, state |-> "UNAVAILABLE"]

BoardInit ==
    /\ attempts = [r \in Results |-> [n \in {} |-> "EQUAL"]]
    /\ submissions = {} /\ snapshots = {} /\ entries = {}
    /\ submitter = [p \in Submitters |-> IdleSubmitter]
    /\ reproducer = [p \in Reproducers |-> IdleReproducer]
    /\ builder = [p \in Builders |-> IdleBuilder]
-----------------------------------------------------------------------------
(* submit *)

\* run_benchmark gave a result of this protocol; any other is refused.
RunBenchmark(p, r) ==
    /\ submitter[p].pc = "idle" /\ r \in Matching
    /\ submitter' = [submitter EXCEPT ![p] = [pc |-> "ran", result |-> r]]
    /\ UNCHANGED <<attempts, submissions, snapshots, entries, reproducer, builder>>

\* Returns the submission that exists, or goes on to add one.
FindSubmission(p) ==
    /\ submitter[p].pc = "ran"
    /\ submitter' = [submitter EXCEPT ![p] =
                        IF @.result \in submissions THEN IdleSubmitter ELSE [@ EXCEPT !.pc = "adding"]]
    /\ UNCHANGED <<attempts, submissions, snapshots, entries, reproducer, builder>>

\* Another process may have added it since: then this add is refused.
AddSubmission(p) ==
    /\ submitter[p].pc = "adding"
    /\ submissions' = submissions \cup {submitter[p].result}
    /\ submitter' = [submitter EXCEPT ![p] = IdleSubmitter]
    /\ UNCHANGED <<attempts, snapshots, entries, reproducer, builder>>
-----------------------------------------------------------------------------
(* run_reproduction *)

NextNumber(r) == Recorded(r)

\* The attempt's number is fixed before the replay, which may take hours.
StartReproduction(p, r) ==
    /\ reproducer[p].pc = "idle" /\ Recorded(r) < MaxAttempts[r]
    /\ reproducer' = [reproducer EXCEPT ![p] = [pc |-> "replaying", target |-> r, number |-> NextNumber(r)]]
    /\ UNCHANGED <<attempts, submissions, snapshots, entries, submitter, builder>>

\* An attempt is identified by target and number.
PutAttempt(r, n, o) ==
    attempts' = [attempts EXCEPT ![r] = [k \in DOMAIN @ \cup {n} |-> IF k = n THEN o ELSE @[k]]]

AddAttempt(r, n, o) ==
    IF n \in DOMAIN attempts[r] THEN UNCHANGED attempts
    ELSE PutAttempt(r, n, o)

\* The replay is over and classified; the add is refused if the number is taken.
RecordAttempt(p, o) ==
    /\ reproducer[p].pc = "replaying"
    /\ AddAttempt(reproducer[p].target, reproducer[p].number, o)
    /\ reproducer' = [reproducer EXCEPT ![p] = IdleReproducer]
    /\ UNCHANGED <<submissions, snapshots, entries, submitter, builder>>

\* The replay raises, for instance on an artifact that fails verification, or is killed.
ReplayRaises(p) ==
    /\ reproducer[p].pc = "replaying"
    /\ reproducer' = [reproducer EXCEPT ![p] = IdleReproducer]
    /\ UNCHANGED <<attempts, submissions, snapshots, entries, submitter, builder>>
-----------------------------------------------------------------------------
(* build_snapshot *)

At(p, pc) == builder[p].alive /\ builder[p].pc = pc

Go(p, job) ==
    /\ builder' = [builder EXCEPT ![p] = job]
    /\ UNCHANGED <<attempts, submissions, submitter, reproducer>>

ReadSubmissions(p, rules) ==
    /\ At(p, "idle") /\ submissions # {} /\ Cardinality(snapshots) < MaxSnapshots
    /\ Go(p, [builder[p] EXCEPT !.pc = "filtering", !.draft = NewDraft(rules), !.todo = submissions])
    /\ UNCHANGED <<snapshots, entries>>

PassesUnlessRefuted(r, rules) ==
    /\ rules.coverage => r \in Covered
    /\ rules.reproduction => reproducibility_state(r) # "NOT_REPRODUCED"

Passes(r, rules) ==
    /\ rules.coverage => r \in Covered
    /\ rules.reproduction => reproducibility_state(r) \in Reproduced

\* One submission is read and filtered: left out ones are listed, never dropped.
Filter(p, r) ==
    /\ At(p, "filtering") /\ r \in builder[p].todo
    /\ LET job == [builder[p] EXCEPT !.todo = @ \ {r}]
       IN  IF Passes(r, job.draft.rules) THEN Go(p, [job EXCEPT !.draft.included = @ \cup {r}])
                                         ELSE Go(p, [job EXCEPT !.draft.excluded = @ \cup {r}])
    /\ UNCHANGED <<snapshots, entries>>

\* Nothing included is an error; an existing snapshot of this fingerprint is returned as it is.
FindSnapshot(p) ==
    /\ At(p, "filtering") /\ builder[p].todo = {}
    /\ LET draft == builder[p].draft
       IN  Go(p, IF draft.included = {} \/ draft \in snapshots THEN IdleBuilder
                 ELSE [builder[p] EXCEPT !.pc = "adding"])
    /\ UNCHANGED <<snapshots, entries>>

\* Refused when another process added the same fingerprint in between.
AddSnapshot(p) ==
    /\ At(p, "adding")
    /\ LET draft == builder[p].draft
       IN  IF draft \in snapshots
           THEN /\ Go(p, IdleBuilder)
                /\ UNCHANGED snapshots
           ELSE /\ Go(p, [builder[p] EXCEPT !.pc = "entering", !.todo = draft.included])
                /\ snapshots' = snapshots \cup {draft}
    /\ UNCHANGED entries

\* The state an entry shows is read again, now.
ReadState(p, r) ==
    /\ At(p, "entering") /\ r \in builder[p].todo
    /\ Go(p, [builder[p] EXCEPT !.pc = "entry", !.current = r, !.state = reproducibility_state(r)])
    /\ UNCHANGED <<snapshots, entries>>

HasEntry(s, r) == \E e \in entries : e.snapshot = s /\ e.result = r

AddEntry(p) ==
    /\ At(p, "entry")
    /\ LET job == builder[p]
       IN  /\ Go(p, [job EXCEPT !.pc = "entering", !.todo = @ \ {job.current}])
           /\ entries' = IF HasEntry(job.draft, job.current) THEN entries
                         ELSE entries \cup {[snapshot |-> job.draft, result |-> job.current, state |-> job.state]}
    /\ UNCHANGED snapshots

ReturnEarly(p) ==
    /\ At(p, "entering")
    /\ Go(p, IdleBuilder)
    /\ UNCHANGED <<snapshots, entries>>

ReturnSnapshot(p) ==
    /\ At(p, "entering") /\ builder[p].todo = {}
    /\ Go(p, IdleBuilder)
    /\ UNCHANGED <<snapshots, entries>>
-----------------------------------------------------------------------------
\* A process is killed: what it has not committed is lost.  A submit or a reproduction leaves
\* nothing behind, so another one may take its place; a build may leave a snapshot half entered.
SubmitKilled(p) ==
    /\ submitter' = [submitter EXCEPT ![p] = IdleSubmitter]
    /\ UNCHANGED <<attempts, submissions, snapshots, entries, reproducer, builder>>

BuildKilled(p) ==
    /\ Go(p, [builder[p] EXCEPT !.alive = FALSE])
    /\ UNCHANGED <<snapshots, entries>>

Submit(p) == (\E r \in Results : RunBenchmark(p, r)) \/ FindSubmission(p) \/ AddSubmission(p) \/ SubmitKilled(p)

Reproduce(p) ==
    \/ \E r \in Results : StartReproduction(p, r)
    \/ \E o \in ReplayOutcomes : RecordAttempt(p, o)
    \/ ReplayRaises(p)

Build(p) ==
    \/ \E rules \in RulesInUse : ReadSubmissions(p, rules)
    \/ \E r \in Results : Filter(p, r) \/ ReadState(p, r)
    \/ FindSnapshot(p) \/ AddSnapshot(p) \/ AddEntry(p) \/ ReturnSnapshot(p) \/ BuildKilled(p)

BoardNext ==
    \/ \E p \in Submitters : Submit(p)
    \/ \E p \in Reproducers : Reproduce(p)
    \/ \E p \in Builders : Build(p)

BoardSpec == BoardInit /\ [][BoardNext]_boardVars
-----------------------------------------------------------------------------
\* A snapshot lists results of this protocol that were submitted, each once, and met its
\* rules when they were read: with require_reproduction there was an attempt after which the
\* result counted as reproduced, and what its entry shows is the state after that attempt or a
\* later one, whatever attempts were recorded while the snapshot was being built.
MetBy(r, n) == \E k \in 0..n : StateAfter(r, k) \in Reproduced

EvidenceSupportsSnapshot ==
    /\ \A s \in snapshots :
        /\ s.included # {} /\ s.included \cap s.excluded = {}
        /\ s.included \cup s.excluded \subseteq submissions \cap Matching
        /\ s.rules.coverage => s.included \subseteq Covered
        /\ s.rules.reproduction => \A r \in s.included : MetBy(r, Recorded(r))
    /\ \A e \in entries : \E n \in 0..Recorded(e.result) :
        /\ e.state = StateAfter(e.result, n)
        /\ e.snapshot.rules.reproduction => MetBy(e.result, n)

\* A snapshot lacks the entry of a result it includes only while the process that added the
\* snapshot is still adding entries or died doing so, and an included result has one entry.
MissingOnlyByItsBuilder ==
    /\ \A s \in snapshots : \A r \in s.included :
        HasEntry(s, r) \/ \E p \in Builders :
            builder[p].pc \in {"entering", "entry"} /\ builder[p].draft = s /\ r \in builder[p].todo
    /\ \A e \in entries : e.snapshot \in snapshots /\ e.result \in e.snapshot.included
    /\ \A e, f \in entries : e.snapshot = f.snapshot /\ e.result = f.result => e = f

\* The attempts of each result, read in the order of their numbers, are a log that only grows
\* at its end, however many reproductions of it run at once: the number run_reproduction fixed
\* before the replay never puts an outcome before one recorded meanwhile, or over it.
LogOfAttempts == [r \in Results |-> [i \in 1..Recorded(r) |-> attempts[r][i - 1]]]

Log == INSTANCE EvidenceLog WITH Targets <- Results, Outcomes <- ReplayOutcomes, log <- LogOfAttempts

ImplementsEvidenceLog == Log!LogSpec
=============================================================================
