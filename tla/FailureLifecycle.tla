-------------------------- MODULE FailureLifecycle --------------------------
(***************************************************************************)
(* Failure modes from their registration by a discovery                    *)
(* (failures/discovery.py) through the commands people move them with      *)
(* (failures/lifecycle.py): reproduce, confirm and change_status, run by   *)
(* callers that interleave.                                                *)
(*                                                                         *)
(* A command reads the mode, decides, and commits in a later transaction:  *)
(* only that transaction is atomic, and it moves the mode from the status  *)
(* the mode has by then.  Evidence is identified by what it says, so the   *)
(* same evidence is stored once.                                           *)
(***************************************************************************)
EXTENDS Integers, FiniteSets

CONSTANTS
    Modes,              \* failure modes the clusters of any discovery give
    MeetsCandidate,     \* those whose cluster passes the candidate criteria
    MeetsSupported,     \* and the supported criteria
    Callers,            \* people running commands
    Notes,              \* an actor with a reason
    RunsToReplay,       \* supporting runs reproduce replays: at most max_runs
    MinPassPercent,     \* min_pass_fraction
    MaxReproductions    \* bound: reproductions of each mode on record when one starts

Absent == "ABSENT"      \* not registered
Automatic == "experionyx-discovery"

FailureStatus == {"DISCOVERED", "CANDIDATE", "SUPPORTED", "CONFIRMED", "DEPRECATED", "REJECTED"}

FAILURE_TRANSITIONS ==
    [s \in FailureStatus |->
        CASE s = "DISCOVERED" -> {"CANDIDATE", "REJECTED"}
          [] s = "CANDIDATE" -> {"SUPPORTED", "REJECTED", "DEPRECATED"}
          [] s = "SUPPORTED" -> {"CONFIRMED", "CANDIDATE", "REJECTED", "DEPRECATED"}
          [] s = "CONFIRMED" -> {"DEPRECATED"}
          [] s \in {"DEPRECATED", "REJECTED"} -> {}]

\* What TRANSITION evidence says.
Move == [from : FailureStatus, to : FailureStatus, by : Notes \cup {Automatic}]

\* What the summary of a reproduction says.
Summary == [attempted : Nat, passed : Nat]

ASSUME FailureAssumption ==
    /\ Modes # {} /\ Notes # {}
    /\ MeetsCandidate \subseteq Modes /\ MeetsSupported \subseteq Modes
    /\ Automatic \notin Notes
    /\ RunsToReplay \in [Modes -> Nat \ {0}]
    /\ MinPassPercent \in 1..100 /\ MaxReproductions \in [Modes -> Nat]

VARIABLES
    mode,           \* FailureMode: its status, or Absent
    trail,          \* its TRANSITION evidence
    replayed,       \* how many REPRODUCTION records of one run it has, and how many passed
    summaries,      \* its REPRODUCTION summaries
    caller          \* the command each caller is in and what it has read

failureVars == <<mode, trail, replayed, summaries, caller>>

CallerJob ==
    [pc : {"idle", "confirming", "moving", "replaying"}, mode : Modes,
     read : FailureStatus, target : FailureStatus, by : Notes, seen : Summary]

\* Type invariant: a record of one run is one attempt, passed or not.
FailuresTypeOK ==
    /\ mode \in [Modes -> FailureStatus \cup {Absent}]
    /\ trail \in [Modes -> SUBSET Move]
    /\ replayed \in [Modes -> Summary]
    /\ summaries \in [Modes -> SUBSET Summary]
    /\ caller \in [Callers -> CallerJob]

NoReplays == [attempted |-> 0, passed |-> 0]

IdleCaller ==
    [pc |-> "idle", mode |-> CHOOSE m \in Modes : TRUE, read |-> "DISCOVERED", target |-> "DISCOVERED",
     by |-> CHOOSE n \in Notes : TRUE, seen |-> NoReplays]

FailuresInit ==
    /\ mode = [m \in Modes |-> Absent]
    /\ trail = [m \in Modes |-> {}]
    /\ replayed = [m \in Modes |-> NoReplays]
    /\ summaries = [m \in Modes |-> {}]
    /\ caller = [c \in Callers |-> IdleCaller]
-----------------------------------------------------------------------------
(* persist, one transaction of a discovery *)

\* The status _advance leaves a new mode in, and the evidence of each step to it.
Advanced(m) ==
    IF m \notin MeetsCandidate THEN "DISCOVERED"
    ELSE IF m \in MeetsSupported THEN "SUPPORTED" ELSE "CANDIDATE"

AutomaticMove(from, to) == [from |-> from, to |-> to, by |-> Automatic]

AdvanceTrail(m) ==
    {v \in {AutomaticMove("DISCOVERED", "CANDIDATE"), AutomaticMove("CANDIDATE", "SUPPORTED")} :
        /\ Advanced(m) # "DISCOVERED"
        /\ v.to = "SUPPORTED" => Advanced(m) = "SUPPORTED"}

\* Modes found again are kept as they are.
Persist(found) ==
    LET new == {m \in found : mode[m] = Absent}
    IN  /\ mode' = [m \in Modes |-> IF m \in new THEN Advanced(m) ELSE mode[m]]
        /\ trail' = [m \in Modes |-> IF m \in new THEN AdvanceTrail(m) ELSE trail[m]]
        /\ UNCHANGED <<replayed, summaries, caller>>
-----------------------------------------------------------------------------
(* confirm and change_status *)

Registered(m) == mode[m] # Absent

Proceed(c, job) ==
    /\ caller' = [caller EXCEPT ![c] = job]
    /\ UNCHANGED <<mode, trail, replayed, summaries>>

ReadTo(c, pc, m, t, note) ==
    Proceed(c, [IdleCaller EXCEPT !.pc = pc, !.mode = m, !.read = mode[m], !.target = t, !.by = note])

\* Any other status is refused before anything else is read.
ReadForConfirm(c, m, note) ==
    /\ caller[c].pc = "idle" /\ mode[m] = "SUPPORTED"
    /\ ReadTo(c, "confirming", m, "CONFIRMED", note)

PassesReproduction(s) == s.attempted > 0 /\ 100 * s.passed >= MinPassPercent * s.attempted

FindAnySummary(c) ==
    /\ caller[c].pc = "confirming"
    /\ Proceed(c, IF summaries[caller[c].mode] # {} THEN [caller[c] EXCEPT !.pc = "moving"] ELSE IdleCaller)

\* Any passing summary on record will do, a failing one recorded later notwithstanding.
FindPassing(c) ==
    /\ caller[c].pc = "confirming"
    /\ Proceed(c, IF \E s \in summaries[caller[c].mode] : PassesReproduction(s)
                  THEN [caller[c] EXCEPT !.pc = "moving"] ELSE IdleCaller)

\* change_status never confirms; with_status checks the move against the status read.
ReadForChange(c, m, t, note) ==
    /\ caller[c].pc = "idle" /\ Registered(m)
    /\ t # "CONFIRMED" /\ t \in FAILURE_TRANSITIONS[mode[m]]
    /\ ReadTo(c, "moving", m, t, note)

CommitWithoutEvidence(c) ==
    LET job == caller[c]
        move == [from |-> job.read, to |-> job.target, by |-> job.by]
        legal == job.target \in FAILURE_TRANSITIONS[mode[job.mode]]
    IN  /\ job.pc = "moving"
        /\ mode' = IF legal THEN [mode EXCEPT ![job.mode] = job.target] ELSE mode
        /\ trail' = IF legal THEN [trail EXCEPT ![job.mode] = @ \cup {move}] ELSE trail
        /\ caller' = [caller EXCEPT ![c] = IdleCaller]
        /\ UNCHANGED <<replayed, summaries>>

\* transition commits: update_status checks the move against the status the mode has now, and
\* evidence that is there already, or a refused move, rolls both back.
CommitMove(c) ==
    LET job == caller[c]
        move == [from |-> job.read, to |-> job.target, by |-> job.by]
        legal == job.target \in FAILURE_TRANSITIONS[mode[job.mode]] /\ move \notin trail[job.mode]
    IN  /\ job.pc = "moving"
        /\ mode' = IF legal THEN [mode EXCEPT ![job.mode] = job.target] ELSE mode
        /\ trail' = IF legal THEN [trail EXCEPT ![job.mode] = @ \cup {move}] ELSE trail
        /\ caller' = [caller EXCEPT ![c] = IdleCaller]
        /\ UNCHANGED <<replayed, summaries>>
-----------------------------------------------------------------------------
(* reproduce *)

ReadForReproduce(c, m) ==
    /\ caller[c].pc = "idle" /\ Registered(m)
    /\ replayed[m].attempted < MaxReproductions[m] * RunsToReplay[m]
    /\ Proceed(c, [IdleCaller EXCEPT !.pc = "replaying", !.mode = m])

\* One run replayed as a new run; the finding reappears within tolerance or does not.
ReplayRun(c, ok) ==
    LET job == caller[c]
    IN  /\ job.pc = "replaying" /\ job.seen.attempted < RunsToReplay[job.mode]
        /\ Proceed(c, [job EXCEPT !.seen = [attempted |-> @.attempted + 1,
                                            passed |-> @.passed + IF ok THEN 1 ELSE 0]])

\* One transaction: a record for each replay, and the summary unless an equal one is there.
RecordReproduction(c) ==
    LET job == caller[c]
    IN  /\ job.pc = "replaying" /\ job.seen.attempted = RunsToReplay[job.mode]
        /\ replayed' = [replayed EXCEPT ![job.mode] = [attempted |-> @.attempted + job.seen.attempted,
                                                       passed |-> @.passed + job.seen.passed]]
        /\ summaries' = [summaries EXCEPT ![job.mode] = @ \cup {job.seen}]
        /\ caller' = [caller EXCEPT ![c] = IdleCaller]
        /\ UNCHANGED <<mode, trail>>

\* A command raises or is killed before its transaction: nothing of it is stored.
CommandEnds(c) == caller[c].pc # "idle" /\ Proceed(c, IdleCaller)
-----------------------------------------------------------------------------
Command(c) ==
    \/ \E m \in Modes, note \in Notes : ReadForConfirm(c, m, note)
    \/ \E m \in Modes, t \in FailureStatus, note \in Notes : ReadForChange(c, m, t, note)
    \/ FindPassing(c) \/ CommitMove(c)
    \/ \E m \in Modes : ReadForReproduce(c, m)
    \/ \E ok \in BOOLEAN : ReplayRun(c, ok)
    \/ RecordReproduction(c) \/ CommandEnds(c)

FailuresNext ==
    \/ \E found \in SUBSET Modes : Persist(found)
    \/ \E c \in Callers : Command(c)

FailuresSpec == FailuresInit /\ [][FailuresNext]_failureVars
-----------------------------------------------------------------------------
\* A mode that was ever confirmed was confirmed by a person's move out of SUPPORTED, and has on
\* record how it became SUPPORTED and a reproduction that passed, with at least as many run
\* records, and passing ones, as that reproduction claims - whatever other callers moved the mode to
\* between the reads of confirm and its commit.
ConfirmedOnEvidence ==
    \A m \in Modes : \A v \in trail[m] : v.to = "CONFIRMED" =>
        /\ v.from = "SUPPORTED" /\ v.by # Automatic
        /\ \E u \in trail[m] : u.to = "SUPPORTED"
        /\ \E s \in summaries[m] :
            PassesReproduction(s) /\ s.attempted <= replayed[m].attempted /\ s.passed <= replayed[m].passed

\* Nothing moves a registered mode but a caller's transition, along the table, and each such
\* move leaves one new TRANSITION record that names the status reached; no record appears for
\* a move that did not happen.  Running a discovery again moves nothing.
EveryMoveOnRecord ==
    [][\A m \in Modes : Registered(m) =>
        IF mode'[m] = mode[m] THEN trail'[m] = trail[m]
        ELSE /\ mode'[m] \in FAILURE_TRANSITIONS[mode[m]]
             /\ \E v \in Move \ trail[m] :
                    v.to = mode'[m] /\ v.by # Automatic /\ trail'[m] = trail[m] \cup {v}]_failureVars
=============================================================================
