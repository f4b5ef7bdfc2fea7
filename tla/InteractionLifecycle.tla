------------------------ MODULE InteractionLifecycle ------------------------
(***************************************************************************)
(* Fault interaction analyses from persist (interactions/engine.py)        *)
(* through the checks and decisions of interactions/lifecycle.py:          *)
(* check_reproduction against an independent replicate, confirm_by_review  *)
(* and change_status, by callers that interleave.                          *)
(*                                                                         *)
(* As for failure modes a command reads, decides and commits later, but    *)
(* TRANSITION evidence carries the time of the change, so none equals      *)
(* another, and the history of an analysis is a sequence.                  *)
(***************************************************************************)
EXTENDS Integers, Sequences, FiniteSets

CONSTANTS
    Analyses,       \* analyses, one for each specification that was run
    Structure,      \* the structural key and primary metric of each
    TreatmentRuns,  \* the treatment runs of each
    Contrast,       \* its primary-metric contrast, in units of the tolerance
    Supporting,     \* those whose primary label is one of the SUPPORTING ones
    Tolerances,     \* [abs, rel] a check is run with, rel in percent
    Reviewers       \* people running commands

InteractionStatus ==
    {"DISCOVERED", "SUPPORTED", "REPRODUCIBLE", "CONFIRMED_BY_REVIEW", "DEPRECATED", "REJECTED"}

INTERACTION_TRANSITIONS ==
    [s \in InteractionStatus |->
        CASE s = "DISCOVERED" -> {"SUPPORTED", "REJECTED", "DEPRECATED"}
          [] s = "SUPPORTED" -> {"REPRODUCIBLE", "REJECTED", "DEPRECATED"}
          [] s = "REPRODUCIBLE" -> {"CONFIRMED_BY_REVIEW", "REJECTED", "DEPRECATED"}
          [] s = "CONFIRMED_BY_REVIEW" -> {"DEPRECATED"}
          [] s \in {"DEPRECATED", "REJECTED"} -> {}]

ASSUME InteractionAssumption ==
    /\ Analyses # {} /\ Contrast \in [Analyses -> Int] /\ Supporting \subseteq Analyses
    /\ Tolerances \subseteq [abs : Nat, rel : Nat]
    /\ DOMAIN Structure = Analyses /\ DOMAIN TreatmentRuns = Analyses
    /\ \A a \in Analyses : TreatmentRuns[a] # {}

VARIABLES
    analysis,       \* InteractionAnalysis: its status, or "ABSENT"
    history,        \* its TRANSITION evidence, by time
    checks,         \* its REPRODUCTION evidence
    reviewer        \* the command each reviewer is in and what it has read

interactionVars == <<analysis, history, checks, reviewer>>

Step == [from : InteractionStatus, to : InteractionStatus, automatic : BOOLEAN]

\* Evidence of one check; everything else in it follows from these three.
Check == [replicate : Analyses, tolerance : Tolerances, passed : BOOLEAN]

ReviewerJob ==
    [pc : {"idle", "moving", "checking"}, analysis : Analyses, read : InteractionStatus,
     target : InteractionStatus, replicate : Analyses, tolerance : [abs : Nat, rel : Nat]]

\* Type invariant: an analysis moves at most four times.
InteractionsTypeOK ==
    /\ analysis \in [Analyses -> InteractionStatus \cup {"ABSENT"}]
    /\ \A a \in Analyses :
        /\ history[a] \in Seq(Step) /\ Len(history[a]) <= 4
        /\ checks[a] \subseteq Check
    /\ reviewer \in [Reviewers -> ReviewerJob]

NoAnalysis == CHOOSE a \in Analyses : TRUE

IdleReviewer ==
    [pc |-> "idle", analysis |-> NoAnalysis, read |-> "DISCOVERED", target |-> "DISCOVERED",
     replicate |-> NoAnalysis, tolerance |-> [abs |-> 0, rel |-> 0]]

InteractionsInit ==
    /\ analysis = [a \in Analyses |-> "ABSENT"]
    /\ history = [a \in Analyses |-> <<>>]
    /\ checks = [a \in Analyses |-> {}]
    /\ reviewer = [p \in Reviewers |-> IdleReviewer]
-----------------------------------------------------------------------------
\* One transaction of an analysis run.  An analysis of this specification that is there
\* already refuses the add.
PersistAnalysis(a) ==
    /\ analysis[a] = "ABSENT"
    /\ analysis' = [analysis EXCEPT ![a] = IF a \in Supporting THEN "SUPPORTED" ELSE "DISCOVERED"]
    /\ history' = [history EXCEPT ![a] =
                    IF a \in Supporting THEN <<[from |-> "DISCOVERED", to |-> "SUPPORTED", automatic |-> TRUE]>>
                    ELSE <<>>]
    /\ UNCHANGED <<checks, reviewer>>

Holds(p, job) ==
    /\ reviewer' = [reviewer EXCEPT ![p] = job]
    /\ UNCHANGED <<analysis, history, checks>>

Exists(a) == analysis[a] # "ABSENT"

\* The status of the replicate is not looked at.
ReadForCheck(p, o, r, tol) ==
    /\ reviewer[p].pc = "idle" /\ analysis[o] = "SUPPORTED" /\ Exists(r)
    /\ Holds(p, [pc |-> "checking", analysis |-> o, read |-> "SUPPORTED", target |-> "REPRODUCIBLE",
                 replicate |-> r, tolerance |-> tol])

AgreesWithItself(o, r, tol) ==
    Structure[o] = Structure[r] /\ r \in Supporting /\ Contrast[o] * Contrast[r] > 0

\* An analysis may be named as its own replicate: it shares its runs, and the check fails.
Agrees(o, r, tol) ==
    LET vo == Contrast[o]
        vr == Contrast[r]
        Magnitude(x) == IF x < 0 THEN -x ELSE x
        gap == Magnitude(vr - vo)
    IN  /\ Structure[o] = Structure[r]
        /\ TreatmentRuns[o] \cap TreatmentRuns[r] = {}
        /\ r \in Supporting
        /\ vo * vr > 0
        /\ gap <= tol.abs \/ 100 * gap <= tol.rel * Magnitude(vo)

Legal(a, t) == t \in INTERACTION_TRANSITIONS[analysis[a]]

\* transition, inside a transaction: update_status takes the analysis from the status it has
\* now, the evidence names the status that was read.
Moves(job, automatic) ==
    /\ analysis' = [analysis EXCEPT ![job.analysis] = job.target]
    /\ history' = [history EXCEPT ![job.analysis] =
                    Append(@, [from |-> job.read, to |-> job.target, automatic |-> automatic])]

\* The evidence and the move it leads to are one transaction: a check recorded before, or a
\* move that is no longer legal, rolls both back.
CommitCheck(p) ==
    LET job == reviewer[p]
        passed == Agrees(job.analysis, job.replicate, job.tolerance)
        check == [replicate |-> job.replicate, tolerance |-> job.tolerance, passed |-> passed]
        refused == check \in checks[job.analysis] \/ (passed /\ ~Legal(job.analysis, job.target))
    IN  /\ job.pc = "checking"
        /\ checks' = IF refused THEN checks ELSE [checks EXCEPT ![job.analysis] = @ \cup {check}]
        /\ IF passed /\ ~refused THEN Moves(job, TRUE) ELSE UNCHANGED <<analysis, history>>
        /\ reviewer' = [reviewer EXCEPT ![p] = IdleReviewer]

\* confirm_by_review; the automatic actor is refused.
ReadForReview(p, a) ==
    /\ reviewer[p].pc = "idle" /\ analysis[a] = "REPRODUCIBLE"
    /\ Holds(p, [IdleReviewer EXCEPT !.pc = "moving", !.analysis = a, !.read = analysis[a],
                                     !.target = "CONFIRMED_BY_REVIEW"])

\* change_status: the statuses with checks of their own are refused as targets.
ReadForStatus(p, a, t) ==
    /\ reviewer[p].pc = "idle" /\ Exists(a)
    /\ t \notin {"CONFIRMED_BY_REVIEW", "REPRODUCIBLE", "SUPPORTED"} /\ Legal(a, t)
    /\ Holds(p, [IdleReviewer EXCEPT !.pc = "moving", !.analysis = a, !.read = analysis[a], !.target = t])

CommitStatus(p) ==
    LET job == reviewer[p]
    IN  /\ job.pc = "moving"
        /\ IF Legal(job.analysis, job.target) THEN Moves(job, FALSE) ELSE UNCHANGED <<analysis, history>>
        /\ reviewer' = [reviewer EXCEPT ![p] = IdleReviewer]
        /\ UNCHANGED checks

ReviewEnds(p) == reviewer[p].pc # "idle" /\ Holds(p, IdleReviewer)
-----------------------------------------------------------------------------
Review(p) ==
    \/ \E o, r \in Analyses, tol \in Tolerances : ReadForCheck(p, o, r, tol)
    \/ \E a \in Analyses : ReadForReview(p, a)
    \/ \E a \in Analyses, t \in InteractionStatus : ReadForStatus(p, a, t)
    \/ CommitCheck(p) \/ CommitStatus(p) \/ ReviewEnds(p)

InteractionsNext ==
    \/ \E a \in Analyses : PersistAnalysis(a)
    \/ \E p \in Reviewers : Review(p)

InteractionsSpec == InteractionsInit /\ [][InteractionsNext]_interactionVars
-----------------------------------------------------------------------------
\* The statuses an analysis is recorded as having reached, in the order of time, are the path
\* it took through the table from DISCOVERED to its status now, however the reads and commits
\* of several reviewers interleave.
HistoryIsThePath ==
    \A a \in Analyses : Exists(a) =>
        LET Reached(i) == IF i = 0 THEN "DISCOVERED" ELSE history[a][i].to
        IN  /\ analysis[a] = Reached(Len(history[a]))
            /\ \A i \in 1..Len(history[a]) : Reached(i) \in INTERACTION_TRANSITIONS[Reached(i - 1)]

\* An analysis whose history is its path and that ever counted as reproducible was supported by
\* its own data and has on record a passed check against another analysis of the same structure
\* that shares no treatment run with it; it was confirmed by a person only after that.
ReproducedIndependently ==
    /\ HistoryIsThePath
    /\ \A a \in Analyses : \A i \in 1..Len(history[a]) :
        /\ history[a][i].to = "REPRODUCIBLE" =>
            /\ a \in Supporting
            /\ \E k \in checks[a] :
                /\ k.passed /\ k.replicate # a /\ Structure[k.replicate] = Structure[a]
                /\ TreatmentRuns[k.replicate] \cap TreatmentRuns[a] = {}
        /\ history[a][i].to = "CONFIRMED_BY_REVIEW" =>
            ~history[a][i].automatic /\ \E j \in 1..(i - 1) : history[a][j].to = "REPRODUCIBLE"
=============================================================================
