----------------------------- MODULE RecordProofs -----------------------------
(***************************************************************************)
(* Theorems about what is recorded in several steps: the lifecycles of     *)
(* failure modes and of interaction analyses, and the leaderboard.         *)
(***************************************************************************)
EXTENDS FailureLifecycle, InteractionLifecycle, Leaderboard, Sequences, FiniteSetTheorems, TLAPS

(***************************************************************************)
(* Lifecycles, for any modes, analyses and callers.  A command reads in    *)
(* one transaction and commits in another.  The invariants say what each   *)
(* command in between still relies on: only what it read and what can no   *)
(* longer be taken back, as the evidence.                                  *)
(***************************************************************************)

FailuresTyped ==
    /\ mode \in [Modes -> FailureStatus \cup {Absent}]
    /\ trail \in [Modes -> SUBSET Move]
    /\ replayed \in [Modes -> Summary]
    /\ summaries \in [Modes -> SUBSET Summary]
    /\ caller \in [Callers -> CallerJob]

WasSupported(m) == \E u \in trail[m] : u.to = "SUPPORTED"

HasPassed(m) ==
    \E s \in summaries[m] :
        PassesReproduction(s) /\ s.attempted <= replayed[m].attempted /\ s.passed <= replayed[m].passed

\* A summary claims no more than the records of single runs there are.
Backed(m) ==
    \A s \in summaries[m] : s.attempted <= replayed[m].attempted /\ s.passed <= replayed[m].passed

\* What a command that is on its way to CONFIRMED has seen, and is still so.
Justified(c) ==
    LET job == caller[c]
    IN  /\ job.pc # "idle" => Registered(job.mode)
        /\ job.pc = "confirming" => job.read = "SUPPORTED" /\ job.target = "CONFIRMED" /\ WasSupported(job.mode)
        /\ job.pc = "moving" /\ job.target = "CONFIRMED" =>
            job.read = "SUPPORTED" /\ WasSupported(job.mode) /\ HasPassed(job.mode)

\* The inductive invariant.
FailuresInv ==
    /\ FailuresTyped
    /\ \A m \in Modes : Backed(m) /\ (mode[m] = "SUPPORTED" => WasSupported(m))
    /\ \A c \in Callers : Justified(c)
    /\ ConfirmedOnEvidence
-----------------------------------------------------------------------------
LEMMA IdleCallerTyped ==
    IdleCaller \in CallerJob /\ IdleCaller.pc = "idle" /\ IdleCaller.seen = NoReplays /\ NoReplays \in Summary
<1>1. (CHOOSE m \in Modes : TRUE) \in Modes /\ (CHOOSE n \in Notes : TRUE) \in Notes
  BY FailureAssumption
<1>2. NoReplays \in Summary
  BY DEF NoReplays, Summary
<1> QED
  BY <1>1, <1>2 DEF IdleCaller, CallerJob, FailureStatus

LEMMA FailuresInitial == FailuresInit => FailuresInv
<1> SUFFICES ASSUME FailuresInit PROVE FailuresInv
  OBVIOUS
<1>1. FailuresTyped
  BY IdleCallerTyped DEF FailuresInit, FailuresTyped
<1>2. \A m \in Modes : mode[m] = Absent /\ trail[m] = {} /\ summaries[m] = {}
  BY DEF FailuresInit
<1>3. \A c \in Callers : Justified(c)
  BY IdleCallerTyped DEF FailuresInit, Justified
<1> QED
  BY <1>1, <1>2, <1>3 DEF FailuresInv, Backed, ConfirmedOnEvidence, Absent

\* A step of one caller that moves nothing on record.
LEMMA ProceedKeeps ==
    ASSUME FailuresInv, NEW c \in Callers, NEW job \in CallerJob, Proceed(c, job),
           job.pc # "idle" => Registered(job.mode),
           job.pc = "confirming" =>
                job.read = "SUPPORTED" /\ job.target = "CONFIRMED" /\ WasSupported(job.mode),
           job.pc = "moving" /\ job.target = "CONFIRMED" =>
                job.read = "SUPPORTED" /\ WasSupported(job.mode) /\ HasPassed(job.mode)
    PROVE  FailuresInv'
<1>1. UNCHANGED <<mode, trail, replayed, summaries>> /\ caller' = [caller EXCEPT ![c] = job]
  BY DEF Proceed
<1>2. caller' \in [Callers -> CallerJob] /\ caller'[c] = job /\ \A d \in Callers \ {c} : caller'[d] = caller[d]
  BY <1>1 DEF FailuresInv, FailuresTyped
<1>3. FailuresTyped'
  BY <1>1, <1>2 DEF FailuresInv, FailuresTyped
<1>4. \A m : /\ (WasSupported(m)' <=> WasSupported(m)) /\ (HasPassed(m)' <=> HasPassed(m))
             /\ (Registered(m)' <=> Registered(m)) /\ (Backed(m)' <=> Backed(m))
  BY <1>1 DEF WasSupported, HasPassed, Registered, Backed
<1>5. ASSUME NEW d \in Callers PROVE Justified(d)'
  <2>1. CASE d = c
    BY <1>2, <1>4, <2>1 DEF Justified, WasSupported, HasPassed, Registered
  <2>2. CASE d # c
    <3>1. Justified(d) /\ caller'[d] = caller[d]
      BY <1>2, <2>2 DEF FailuresInv
    <3> QED
      BY <1>1, <3>1 DEF Justified, WasSupported, HasPassed, Registered
  <2> QED
    BY <2>1, <2>2
<1>6. ConfirmedOnEvidence'
  BY <1>1 DEF FailuresInv, ConfirmedOnEvidence
<1> QED
  BY <1>1, <1>3, <1>4, <1>5, <1>6 DEF FailuresInv

LEMMA EndsKeeps == ASSUME FailuresInv, NEW c \in Callers, Proceed(c, IdleCaller) PROVE FailuresInv'
  BY IdleCallerTyped, ProceedKeeps

LEMMA ReadKeeps ==
    ASSUME FailuresInv, NEW c \in Callers, NEW m \in Modes, NEW t \in FailureStatus, NEW note \in Notes,
           NEW pc \in {"confirming", "moving"}, ReadTo(c, pc, m, t, note), Registered(m),
           t = "CONFIRMED" => pc = "confirming",
           pc = "confirming" => mode[m] = "SUPPORTED" /\ t = "CONFIRMED"
    PROVE  FailuresInv'
<1> PICK job : job = [IdleCaller EXCEPT !.pc = pc, !.mode = m, !.read = mode[m], !.target = t, !.by = note]
  OBVIOUS
<1>1. mode[m] \in FailureStatus
  BY DEF FailuresInv, FailuresTyped, Registered
<1>2. job \in CallerJob /\ job.pc = pc /\ job.mode = m /\ job.read = mode[m] /\ job.target = t
  BY <1>1, IdleCallerTyped DEF CallerJob
<1>3. Proceed(c, job)
  BY DEF ReadTo
<1>4. mode[m] = "SUPPORTED" => WasSupported(m)
  BY DEF FailuresInv
<1> QED
  BY <1>2, <1>3, <1>4, ProceedKeeps

LEMMA FindPassingKeeps == ASSUME FailuresInv, NEW c \in Callers, FindPassing(c) PROVE FailuresInv'
<1> PICK job : job = [caller[c] EXCEPT !.pc = "moving"]
  OBVIOUS
<1>1. CASE \E s \in summaries[caller[c].mode] : PassesReproduction(s)
  <2>1. caller[c] \in CallerJob /\ Justified(c) /\ caller[c].mode \in Modes
    BY DEF FailuresInv, FailuresTyped, CallerJob
  <2>2. /\ job \in CallerJob /\ job.pc = "moving" /\ job.mode = caller[c].mode
        /\ job.read = caller[c].read /\ job.target = caller[c].target
    BY <2>1 DEF CallerJob
  <2>3. HasPassed(caller[c].mode)
    BY <1>1, <2>1 DEF FailuresInv, Backed, HasPassed
  <2>4. Proceed(c, job)
    BY <1>1 DEF FindPassing
  <2> QED
    BY <2>1, <2>2, <2>3, <2>4, ProceedKeeps DEF FindPassing, Justified
<1>2. CASE ~\E s \in summaries[caller[c].mode] : PassesReproduction(s)
  BY <1>2, EndsKeeps DEF FindPassing
<1> QED
  BY <1>1, <1>2

LEMMA ReplayingKeeps ==
    ASSUME FailuresInv, NEW c \in Callers,
           \/ \E m \in Modes : ReadForReproduce(c, m)
           \/ \E ok \in BOOLEAN : ReplayRun(c, ok)
    PROVE  FailuresInv'
<1>1. ASSUME NEW m \in Modes, ReadForReproduce(c, m) PROVE FailuresInv'
  <2> PICK job : job = [IdleCaller EXCEPT !.pc = "replaying", !.mode = m]
    OBVIOUS
  <2>1. job \in CallerJob /\ job.pc = "replaying" /\ job.mode = m
    BY IdleCallerTyped DEF CallerJob
  <2> QED
    BY <1>1, <2>1, ProceedKeeps DEF ReadForReproduce
<1>2. ASSUME NEW ok \in BOOLEAN, ReplayRun(c, ok) PROVE FailuresInv'
  <2> PICK k \in {0, 1} : k = IF ok THEN 1 ELSE 0
    OBVIOUS
  <2> PICK job : job = [caller[c] EXCEPT !.seen = [attempted |-> @.attempted + 1, passed |-> @.passed + k]]
    OBVIOUS
  <2>1. caller[c] \in CallerJob /\ Justified(c)
    BY DEF FailuresInv, FailuresTyped
  <2>2. [attempted |-> caller[c].seen.attempted + 1, passed |-> caller[c].seen.passed + k] \in Summary
    BY <2>1 DEF CallerJob, Summary
  <2>3. job \in CallerJob /\ job.pc = caller[c].pc /\ job.mode = caller[c].mode
    BY <2>1, <2>2 DEF CallerJob
  <2>4. Proceed(c, job) /\ caller[c].pc = "replaying"
    BY <1>2 DEF ReplayRun
  <2> QED
    BY <2>1, <2>3, <2>4, ProceedKeeps DEF Justified
<1> QED
  BY <1>1, <1>2

\* A move that is committed leaves its evidence; nothing that another command relies on goes.
LEMMA CommitKeeps == ASSUME FailuresInv, NEW c \in Callers, CommitMove(c) PROVE FailuresInv'
<1> PICK job \in CallerJob : job = caller[c]
  BY DEF FailuresInv, FailuresTyped
<1> PICK v : v = [from |-> job.read, to |-> job.target, by |-> job.by]
  OBVIOUS
<1> PICK m \in Modes : m = job.mode
  BY DEF CallerJob
<1>1. v \in Move /\ v.to = job.target /\ v.from = job.read /\ v.by = job.by /\ job.by \in Notes
  BY DEF Move, CallerJob
<1>2. job.pc = "moving" /\ UNCHANGED <<replayed, summaries>> /\ caller' = [caller EXCEPT ![c] = IdleCaller]
  BY DEF CommitMove
<1>3. CASE mode' = mode /\ trail' = trail
  <2>1. Proceed(c, IdleCaller)
    BY <1>2, <1>3 DEF Proceed
  <2> QED
    BY <2>1, EndsKeeps
<1>4. CASE mode' = [mode EXCEPT ![m] = job.target] /\ trail' = [trail EXCEPT ![m] = @ \cup {v}]
  <2>1. /\ mode'[m] = job.target /\ trail'[m] = trail[m] \cup {v}
        /\ \A n \in Modes \ {m} : mode'[n] = mode[n] /\ trail'[n] = trail[n]
        /\ mode' \in [Modes -> FailureStatus \cup {Absent}] /\ trail' \in [Modes -> SUBSET Move]
    BY <1>1, <1>4 DEF FailuresInv, FailuresTyped, CallerJob
  <2>2. \A n \in Modes : /\ (WasSupported(n) => WasSupported(n)') /\ (HasPassed(n)' <=> HasPassed(n))
                         /\ (Backed(n)' <=> Backed(n)) /\ trail[n] \subseteq trail'[n]
    BY <1>2, <2>1 DEF WasSupported, HasPassed, Backed
  <2>3. /\ caller' \in [Callers -> CallerJob] /\ caller'[c] = IdleCaller
        /\ \A d \in Callers \ {c} : caller'[d] = caller[d]
    BY <1>2, IdleCallerTyped DEF FailuresInv, FailuresTyped
  <2>4. FailuresTyped'
    BY <1>2, <2>1, <2>3 DEF FailuresInv, FailuresTyped
  <2>5. \A n \in Modes : Registered(n) => Registered(n)'
    BY <2>1 DEF Registered, CallerJob, FailureStatus, Absent
  <2>6. ASSUME NEW d \in Callers PROVE Justified(d)'
    <3>1. CASE d = c
      BY <2>3, <3>1, IdleCallerTyped DEF Justified
    <3>2. CASE d # c
      <4>1. caller'[d] = caller[d] /\ caller[d].mode \in Modes /\ Justified(d)
        BY <2>3, <3>2 DEF FailuresInv, FailuresTyped, CallerJob
      <4>2. caller[d].pc # "idle" => Registered(caller[d].mode)'
        BY <2>5, <4>1 DEF Justified
      <4>3. WasSupported(caller[d].mode) => WasSupported(caller[d].mode)'
        BY <2>2, <4>1
      <4>4. HasPassed(caller[d].mode) => HasPassed(caller[d].mode)'
        BY <2>2, <4>1
      <4> QED
        BY <4>1, <4>2, <4>3, <4>4 DEF Justified, WasSupported, HasPassed, Registered
    <3> QED
      BY <3>1, <3>2
  <2>7. ASSUME NEW n \in Modes PROVE Backed(n)' /\ (mode'[n] = "SUPPORTED" => WasSupported(n)')
    <3>1. CASE n = m
      BY <1>1, <2>1, <2>2, <3>1 DEF FailuresInv, WasSupported
    <3>2. CASE n # m
      BY <2>1, <2>2, <3>2 DEF FailuresInv
    <3> QED
      BY <3>1, <3>2
  <2>8. ConfirmedOnEvidence'
    <3> SUFFICES ASSUME NEW n \in Modes, NEW u \in trail'[n], u.to = "CONFIRMED"
                 PROVE  u.from = "SUPPORTED" /\ u.by # Automatic /\ WasSupported(n)' /\ HasPassed(n)'
      BY DEF ConfirmedOnEvidence, WasSupported, HasPassed
    <3>1. CASE u \in trail[n]
      <4>1. u.from = "SUPPORTED" /\ u.by # Automatic /\ WasSupported(n) /\ HasPassed(n)
        BY <3>1 DEF FailuresInv, ConfirmedOnEvidence, WasSupported, HasPassed
      <4> QED
        BY <2>2, <4>1
    <3>2. CASE u \notin trail[n]
      <4>1. n = m /\ u = v
        BY <2>1, <3>2
      <4>2. job.target = "CONFIRMED" /\ job.read = "SUPPORTED" /\ WasSupported(m) /\ HasPassed(m)
        BY <1>1, <1>2, <4>1 DEF FailuresInv, Justified
      <4> QED
        BY <1>1, <2>2, <4>1, <4>2, FailureAssumption
    <3> QED
      BY <3>1, <3>2
  <2> QED
    BY <2>4, <2>6, <2>7, <2>8 DEF FailuresInv
<1> QED
  BY <1>3, <1>4 DEF CommitMove

\* The records of the single runs are stored with the summary that counts them.
LEMMA RecordKeeps == ASSUME FailuresInv, NEW c \in Callers, RecordReproduction(c) PROVE FailuresInv'
<1> PICK job \in CallerJob : job = caller[c]
  BY DEF FailuresInv, FailuresTyped
<1> PICK m \in Modes : m = job.mode
  BY DEF CallerJob
<1>1. /\ UNCHANGED <<mode, trail>> /\ caller' = [caller EXCEPT ![c] = IdleCaller]
      /\ replayed' = [replayed EXCEPT ![m] = [attempted |-> @.attempted + job.seen.attempted,
                                              passed |-> @.passed + job.seen.passed]]
      /\ summaries' = [summaries EXCEPT ![m] = @ \cup {job.seen}]
  BY DEF RecordReproduction
<1>2. /\ job.seen \in Summary /\ job.seen.attempted \in Nat /\ job.seen.passed \in Nat
      /\ replayed[m].attempted \in Nat /\ replayed[m].passed \in Nat
  BY DEF FailuresInv, FailuresTyped, CallerJob, Summary
<1>3. /\ replayed'[m].attempted = replayed[m].attempted + job.seen.attempted
      /\ replayed'[m].passed = replayed[m].passed + job.seen.passed
      /\ summaries'[m] = summaries[m] \cup {job.seen}
      /\ \A n \in Modes \ {m} : replayed'[n] = replayed[n] /\ summaries'[n] = summaries[n]
  BY <1>1 DEF FailuresInv, FailuresTyped
<1>4. replayed' \in [Modes -> Summary] /\ summaries' \in [Modes -> SUBSET Summary]
  BY <1>1, <1>2 DEF FailuresInv, FailuresTyped, Summary
<1>5. \A s \in summaries[m] : s.attempted \in Nat /\ s.passed \in Nat
  BY DEF FailuresInv, FailuresTyped, Summary
<1>6. Backed(m)' /\ \A n \in Modes \ {m} : Backed(n)'
  BY <1>2, <1>3, <1>5 DEF FailuresInv, Backed
<1>7. \A n \in Modes : /\ (WasSupported(n)' <=> WasSupported(n)) /\ (Registered(n)' <=> Registered(n))
                       /\ (HasPassed(n) => HasPassed(n)')
  <2>1. \A n \in Modes : summaries[n] \subseteq summaries'[n]
    BY <1>3
  <2>2. \A n \in Modes : Backed(n)'
    BY <1>6
  <2>3. \A n \in Modes : HasPassed(n) => HasPassed(n)'
    BY <2>1, <2>2 DEF HasPassed, Backed
  <2> QED
    BY <1>1, <2>3 DEF WasSupported, Registered
<1>8. /\ caller' \in [Callers -> CallerJob] /\ caller'[c] = IdleCaller
      /\ \A d \in Callers \ {c} : caller'[d] = caller[d]
  BY <1>1, IdleCallerTyped DEF FailuresInv, FailuresTyped
<1>9. ASSUME NEW d \in Callers PROVE Justified(d)'
  <2>1. CASE d = c
    BY <1>8, <2>1, IdleCallerTyped DEF Justified
  <2>2. CASE d # c
    <3>1. caller'[d] = caller[d] /\ caller[d].mode \in Modes /\ Justified(d)
      BY <1>8, <2>2 DEF FailuresInv, FailuresTyped, CallerJob
    <3>2. /\ (Registered(caller[d].mode) => Registered(caller[d].mode)')
          /\ (WasSupported(caller[d].mode) => WasSupported(caller[d].mode)')
          /\ (HasPassed(caller[d].mode) => HasPassed(caller[d].mode)')
      BY <1>7, <3>1
    <3> QED
      BY <3>1, <3>2 DEF Justified, WasSupported, HasPassed, Registered
  <2> QED
    BY <2>1, <2>2
<1>10. ConfirmedOnEvidence'
  <2>1. \A n \in Modes : \A u \in trail[n] : u.to = "CONFIRMED" =>
          u.from = "SUPPORTED" /\ u.by # Automatic /\ WasSupported(n) /\ HasPassed(n)
    BY DEF FailuresInv, ConfirmedOnEvidence, WasSupported, HasPassed
  <2>2. \A n \in Modes : \A u \in trail'[n] : u.to = "CONFIRMED" =>
          u.from = "SUPPORTED" /\ u.by # Automatic /\ WasSupported(n)' /\ HasPassed(n)'
    BY <1>1, <1>7, <2>1
  <2> QED
    BY <2>2 DEF ConfirmedOnEvidence, WasSupported, HasPassed
<1>11. \A n \in Modes : mode'[n] = "SUPPORTED" => WasSupported(n)'
  BY <1>1, <1>7 DEF FailuresInv
<1>12. FailuresTyped'
  BY <1>1, <1>4, <1>8 DEF FailuresInv, FailuresTyped
<1> QED
  BY <1>6, <1>9, <1>10, <1>11, <1>12 DEF FailuresInv

\* A discovery registers modes; those there are stay as they are.
LEMMA PersistKeeps == ASSUME FailuresInv, NEW found \in SUBSET Modes, Persist(found) PROVE FailuresInv'
<1>1. /\ UNCHANGED <<replayed, summaries, caller>> /\ DOMAIN trail' = Modes /\ DOMAIN mode' = Modes
      /\ \A m \in Modes : \/ mode'[m] = mode[m] /\ trail'[m] = trail[m]
                          \/ ~Registered(m) /\ mode'[m] = Advanced(m) /\ trail'[m] = AdvanceTrail(m)
  BY DEF Persist, Registered
<1>2. \A m \in Modes : /\ AdvanceTrail(m) \in SUBSET Move /\ Advanced(m) \in FailureStatus
                       /\ \A v \in AdvanceTrail(m) : v.to # "CONFIRMED"
                       /\ Advanced(m) = "SUPPORTED" => \E v \in AdvanceTrail(m) : v.to = "SUPPORTED"
  <2> SUFFICES ASSUME NEW m \in Modes
               PROVE  /\ AdvanceTrail(m) \in SUBSET Move /\ Advanced(m) \in FailureStatus
                      /\ \A v \in AdvanceTrail(m) : v.to # "CONFIRMED"
                      /\ Advanced(m) = "SUPPORTED" => \E v \in AdvanceTrail(m) : v.to = "SUPPORTED"
    OBVIOUS
  <2> DEFINE up == AutomaticMove("DISCOVERED", "CANDIDATE")
             upper == AutomaticMove("CANDIDATE", "SUPPORTED")
  <2>1. up \in Move /\ upper \in Move /\ up.to = "CANDIDATE" /\ upper.to = "SUPPORTED"
    BY DEF AutomaticMove, Move, FailureStatus
  <2>2. Advanced(m) \in {"DISCOVERED", "CANDIDATE", "SUPPORTED"}
    BY DEF Advanced
  <2>3. AdvanceTrail(m) \subseteq {up, upper}
    BY DEF AdvanceTrail
  <2>4. Advanced(m) = "SUPPORTED" => upper \in AdvanceTrail(m)
    BY <2>1 DEF AdvanceTrail
  <2> HIDE DEF up, upper
  <2>5. \A v \in AdvanceTrail(m) : v \in Move /\ v.to # "CONFIRMED"
    BY <2>1, <2>3
  <2> QED
    BY <2>1, <2>2, <2>4, <2>5 DEF FailureStatus
<1>3. FailuresTyped'
  <2>1. mode' \in [Modes -> FailureStatus \cup {Absent}] /\ trail' \in [Modes -> SUBSET Move]
    BY <1>2 DEF Persist, FailuresInv, FailuresTyped
  <2> QED
    BY <1>1, <2>1 DEF FailuresInv, FailuresTyped
<1>4. \A m \in Modes : Registered(m) => mode'[m] = mode[m] /\ trail'[m] = trail[m]
  BY <1>1
<1>5. \A m \in Modes : Backed(m)' /\ (HasPassed(m)' <=> HasPassed(m))
  BY <1>1 DEF FailuresInv, Backed, HasPassed
<1>6. ASSUME NEW c \in Callers PROVE Justified(c)'
  <2>1. caller[c].mode \in Modes /\ Justified(c) /\ caller' = caller
    BY <1>1 DEF FailuresInv, FailuresTyped, CallerJob
  <2>2. Registered(caller[c].mode) =>
          /\ Registered(caller[c].mode)' /\ (WasSupported(caller[c].mode)' <=> WasSupported(caller[c].mode))
          /\ (HasPassed(caller[c].mode)' <=> HasPassed(caller[c].mode))
    BY <1>4, <1>5, <2>1 DEF Registered, WasSupported
  <2> QED
    BY <2>1, <2>2 DEF Justified, WasSupported, HasPassed, Registered
<1>7. \A m \in Modes : mode'[m] = "SUPPORTED" => WasSupported(m)'
  BY <1>1, <1>2 DEF FailuresInv, WasSupported
<1>8. ConfirmedOnEvidence'
  <2> SUFFICES ASSUME NEW m \in Modes, NEW v \in trail'[m], v.to = "CONFIRMED"
               PROVE  v.from = "SUPPORTED" /\ v.by # Automatic /\ WasSupported(m)' /\ HasPassed(m)'
    BY DEF ConfirmedOnEvidence, WasSupported, HasPassed
  <2>1. trail'[m] = trail[m]
    BY <1>1, <1>2
  <2>2. v.from = "SUPPORTED" /\ v.by # Automatic /\ WasSupported(m) /\ HasPassed(m)
    BY <2>1 DEF FailuresInv, ConfirmedOnEvidence, WasSupported, HasPassed
  <2> QED
    BY <1>5, <2>1, <2>2 DEF WasSupported
<1> QED
  BY <1>3, <1>5, <1>6, <1>7, <1>8 DEF FailuresInv

LEMMA FailuresInvStep == ASSUME FailuresInv, [FailuresNext]_failureVars PROVE FailuresInv'
<1>1. ASSUME NEW c \in Callers, NEW m \in Modes, NEW note \in Notes, ReadForConfirm(c, m, note) PROVE FailuresInv'
  BY <1>1, ReadKeeps DEF ReadForConfirm, Registered, Absent, FailureStatus
<1>2. ASSUME NEW c \in Callers, NEW m \in Modes, NEW t \in FailureStatus, NEW note \in Notes,
             ReadForChange(c, m, t, note)
      PROVE  FailuresInv'
  BY <1>2, ReadKeeps DEF ReadForChange
<1>3. ASSUME NEW c \in Callers, Command(c) PROVE FailuresInv'
  BY <1>1, <1>2, <1>3, FindPassingKeeps, CommitKeeps, ReplayingKeeps, RecordKeeps, EndsKeeps
     DEF Command, CommandEnds
<1>4. CASE FailuresNext
  BY <1>3, <1>4, PersistKeeps DEF FailuresNext
<1>5. CASE UNCHANGED failureVars
  BY <1>5 DEF failureVars, FailuresInv, FailuresTyped, Backed, WasSupported, HasPassed, Justified, Registered,
              ConfirmedOnEvidence
<1> QED
  BY <1>4, <1>5

THEOREM FailuresInductive == FailuresSpec => []FailuresInv
<1>1. FailuresInit => FailuresInv
  BY FailuresInitial
<1>2. FailuresInv /\ [FailuresNext]_failureVars => FailuresInv'
  BY FailuresInvStep
<1> QED
  BY <1>1, <1>2, PTL DEF FailuresSpec

\* No interleaving of callers confirms a failure mode without the person, the SUPPORTED status
\* and the passed reproduction that confirming asks for.
THEOREM ConfirmedIsEarned == FailuresSpec => []ConfirmedOnEvidence
<1>1. FailuresInv => ConfirmedOnEvidence
  BY DEF FailuresInv
<1> QED
  BY <1>1, FailuresInductive, PTL

\* Every move of a registered mode is along the table, and leaves one new record of it.
THEOREM MovesOnRecord == FailuresSpec => EveryMoveOnRecord
<1> DEFINE MovedOnRecord(m) ==
        IF mode'[m] = mode[m] THEN trail'[m] = trail[m]
        ELSE /\ mode'[m] \in FAILURE_TRANSITIONS[mode[m]]
             /\ \E v \in Move \ trail[m] :
                    v.to = mode'[m] /\ v.by # Automatic /\ trail'[m] = trail[m] \cup {v}
<1>1. ASSUME FailuresInv, [FailuresNext]_failureVars
      PROVE  [\A m \in Modes : Registered(m) => MovedOnRecord(m)]_failureVars
  <2> SUFFICES ASSUME NEW m \in Modes, Registered(m) PROVE MovedOnRecord(m) \/ UNCHANGED failureVars
    OBVIOUS
  <2>1. ASSUME NEW c \in Callers, CommitMove(c) PROVE MovedOnRecord(m)
    <3> PICK job \in CallerJob : job = caller[c]
      BY <1>1 DEF FailuresInv, FailuresTyped
    <3> PICK v : v = [from |-> job.read, to |-> job.target, by |-> job.by]
      OBVIOUS
    <3>1. v \in Move /\ v.to = job.target /\ v.by # Automatic
      BY FailureAssumption DEF Move, CallerJob
    <3>2. CASE mode'[m] = mode[m] /\ trail'[m] = trail[m]
      BY <3>2
    <3>3. CASE ~(mode'[m] = mode[m] /\ trail'[m] = trail[m])
      <4>1. /\ m = job.mode /\ job.target \in FAILURE_TRANSITIONS[mode[m]] /\ v \notin trail[m]
            /\ mode'[m] = job.target /\ trail'[m] = trail[m] \cup {v}
        BY <1>1, <2>1, <3>3 DEF CommitMove, FailuresInv, FailuresTyped
      <4>2. job.target # mode[m]
        <5>1. mode[m] \in FailureStatus
          BY <1>1 DEF FailuresInv, FailuresTyped, Registered
        <5> QED
          BY <4>1, <5>1 DEF FAILURE_TRANSITIONS, FailureStatus
      <4> QED
        BY <3>1, <4>1, <4>2
    <3> QED
      BY <3>2, <3>3
  <2>2. ASSUME NEW found \in SUBSET Modes, Persist(found) PROVE MovedOnRecord(m)
    BY <2>2 DEF Persist, Registered
  <2>3. ASSUME NEW c \in Callers, Command(c) PROVE MovedOnRecord(m)
    <3>1. CASE CommitMove(c)
      BY <2>1, <3>1
    <3>2. CASE ~CommitMove(c)
      <4>1. UNCHANGED <<mode, trail>>
        BY <2>3, <3>2 DEF Command, ReadForConfirm, ReadForChange, ReadTo, FindPassing, ReadForReproduce, ReplayRun,
                          RecordReproduction, CommandEnds, Proceed
      <4> QED
        BY <4>1
    <3> QED
      BY <3>1, <3>2
  <2> QED
    BY <1>1, <2>2, <2>3 DEF FailuresNext
<1>2. FailuresInv /\ [FailuresNext]_failureVars => [\A m \in Modes : Registered(m) => MovedOnRecord(m)]_failureVars
  BY <1>1
<1> QED
  BY <1>2, FailuresInductive, PTL DEF FailuresSpec, EveryMoveOnRecord
-----------------------------------------------------------------------------
Reached(a, i) == IF i = 0 THEN "DISCOVERED" ELSE history[a][i].to

\* A history of any length, a step from each status to the next.
IsPath(a) ==
    /\ history[a] \in Seq(Step) /\ checks[a] \subseteq Check
    /\ ~Exists(a) => history[a] = <<>>
    /\ Exists(a) =>
        /\ analysis[a] = Reached(a, Len(history[a]))
        /\ \A i \in 1..Len(history[a]) : Reached(a, i) \in INTERACTION_TRANSITIONS[Reached(a, i - 1)]

Independent(a) ==
    \E k \in checks[a] :
        /\ k.passed /\ k.replicate # a /\ Structure[k.replicate] = Structure[a]
        /\ TreatmentRuns[k.replicate] \cap TreatmentRuns[a] = {}

IsEarned(a) ==
    /\ analysis[a] = "SUPPORTED" => a \in Supporting
    /\ \A i \in 1..Len(history[a]) :
        /\ history[a][i].to = "REPRODUCIBLE" => a \in Supporting /\ Independent(a)
        /\ history[a][i].to = "CONFIRMED_BY_REVIEW" =>
            ~history[a][i].automatic /\ \E j \in 1..(i - 1) : history[a][j].to = "REPRODUCIBLE"

\* What a reviewer may be on the way to; only a check leads to REPRODUCIBLE, and none to SUPPORTED.
MayReach(p) ==
    LET job == reviewer[p]
    IN  /\ job.pc # "idle" => Exists(job.analysis)
        /\ job.pc = "checking" => job.target = "REPRODUCIBLE" /\ job.tolerance \in Tolerances
        /\ job.pc = "moving" => job.target \notin {"REPRODUCIBLE", "SUPPORTED"}

\* The inductive invariant.
InteractionsInv ==
    /\ analysis \in [Analyses -> InteractionStatus \cup {"ABSENT"}]
    /\ DOMAIN history = Analyses /\ DOMAIN checks = Analyses
    /\ reviewer \in [Reviewers -> ReviewerJob]
    /\ \A a \in Analyses : IsPath(a) /\ IsEarned(a)
    /\ \A p \in Reviewers : MayReach(p)
-----------------------------------------------------------------------------
LEMMA IdleReviewerTyped ==
    ASSUME Analyses # {}
    PROVE  IdleReviewer \in ReviewerJob /\ IdleReviewer.pc = "idle"
<1>1. NoAnalysis \in Analyses
  BY DEF NoAnalysis
<1> QED
  BY <1>1 DEF IdleReviewer, ReviewerJob, InteractionStatus

LEMMA InteractionsInitial == InteractionsInit => InteractionsInv
<1> SUFFICES ASSUME InteractionsInit PROVE InteractionsInv
  OBVIOUS
<1>1. IdleReviewer \in ReviewerJob /\ IdleReviewer.pc = "idle"
  BY IdleReviewerTyped, InteractionAssumption
<1>2. ASSUME NEW a \in Analyses PROVE IsPath(a) /\ IsEarned(a)
  <2>1. analysis[a] = "ABSENT" /\ history[a] = <<>> /\ checks[a] = {}
    BY DEF InteractionsInit
  <2> QED
    BY <2>1 DEF IsPath, IsEarned, Exists
<1>3. \A p \in Reviewers : MayReach(p)
  BY <1>1 DEF InteractionsInit, MayReach
<1> QED
  BY <1>1, <1>2, <1>3 DEF InteractionsInit, InteractionsInv

\* A reviewer reads, or gives up.
LEMMA HoldsKeeps ==
    ASSUME InteractionsInv, NEW p \in Reviewers, NEW job \in ReviewerJob, Holds(p, job),
           job.pc # "idle" => Exists(job.analysis),
           job.pc = "checking" => job.target = "REPRODUCIBLE" /\ job.tolerance \in Tolerances,
           job.pc = "moving" => job.target \notin {"REPRODUCIBLE", "SUPPORTED"}
    PROVE  InteractionsInv'
<1>1. UNCHANGED <<analysis, history, checks>> /\ reviewer' = [reviewer EXCEPT ![p] = job]
  BY DEF Holds
<1>2. /\ reviewer' \in [Reviewers -> ReviewerJob] /\ reviewer'[p] = job
      /\ \A q \in Reviewers \ {p} : reviewer'[q] = reviewer[q]
  BY <1>1 DEF InteractionsInv
<1>3. \A a \in Analyses : IsPath(a)' /\ IsEarned(a)'
  BY <1>1 DEF InteractionsInv, IsPath, IsEarned, Exists, Reached, Independent
<1>4. ASSUME NEW q \in Reviewers PROVE MayReach(q)'
  <2>1. CASE q = p
    BY <1>1, <1>2, <2>1 DEF MayReach, Exists
  <2>2. CASE q # p
    BY <1>1, <1>2, <2>2 DEF InteractionsInv, MayReach, Exists
  <2> QED
    BY <2>1, <2>2
<1> QED
  BY <1>1, <1>2, <1>3, <1>4 DEF InteractionsInv

LEMMA ReviewEndsKeeps == ASSUME InteractionsInv, NEW p \in Reviewers, Holds(p, IdleReviewer) PROVE InteractionsInv'
  BY IdleReviewerTyped, InteractionAssumption, HoldsKeeps

\* What the other reviewers rely on is kept while no analysis goes away.
LEMMA OthersKeep ==
    ASSUME InteractionsInv, NEW p \in Reviewers, reviewer' = [reviewer EXCEPT ![p] = IdleReviewer],
           \A a \in Analyses : Exists(a) => Exists(a)'
    PROVE  reviewer' \in [Reviewers -> ReviewerJob] /\ \A q \in Reviewers : MayReach(q)'
<1>1. IdleReviewer \in ReviewerJob /\ IdleReviewer.pc = "idle"
  BY IdleReviewerTyped, InteractionAssumption
<1>2. ASSUME NEW q \in Reviewers PROVE MayReach(q)'
  <2>1. CASE q = p
    BY <1>1, <2>1 DEF InteractionsInv, MayReach
  <2>2. CASE q # p
    <3>1. reviewer'[q] = reviewer[q] /\ reviewer[q].analysis \in Analyses /\ MayReach(q)
      BY <2>2 DEF InteractionsInv, ReviewerJob
    <3>2. reviewer[q].pc # "idle" => Exists(reviewer[q].analysis)'
      BY <3>1 DEF MayReach
    <3> QED
      BY <3>1, <3>2 DEF MayReach, Exists
  <2> QED
    BY <2>1, <2>2
<1> QED
  BY <1>1, <1>2 DEF InteractionsInv

\* One more step along the table, by a person or by a check that is on record.
LEMMA MovesKeep ==
    ASSUME InteractionsInv, NEW p \in Reviewers, NEW job \in ReviewerJob, NEW automatic \in BOOLEAN,
           Legal(job.analysis, job.target), Exists(job.analysis), Moves(job, automatic),
           reviewer' = [reviewer EXCEPT ![p] = IdleReviewer],
           DOMAIN checks' = Analyses,
           \A a \in Analyses : checks[a] \subseteq checks'[a] /\ checks'[a] \subseteq Check,
           job.target = "REPRODUCIBLE" => Independent(job.analysis)',
           job.target # "REPRODUCIBLE" => ~automatic, job.target # "SUPPORTED"
    PROVE  InteractionsInv'
<1> PICK a \in Analyses : a = job.analysis
  BY DEF ReviewerJob
<1> PICK s : s = [from |-> job.read, to |-> job.target, automatic |-> automatic]
  OBVIOUS
<1> PICK n : n = Len(history[a])
  OBVIOUS
<1>1. s \in Step /\ s.to = job.target /\ s.automatic = automatic /\ job.target \in InteractionStatus
  BY DEF Step, ReviewerJob
<1>2. history[a] \in Seq(Step) /\ n \in Nat /\ analysis[a] = Reached(a, n) /\ IsPath(a) /\ IsEarned(a)
  BY DEF InteractionsInv, IsPath
<1>3. analysis' = [analysis EXCEPT ![a] = job.target] /\ history' = [history EXCEPT ![a] = Append(@, s)]
  BY DEF Moves
<1>4. /\ analysis'[a] = job.target /\ history'[a] = Append(history[a], s) /\ DOMAIN history' = Analyses
      /\ \A b \in Analyses \ {a} : analysis'[b] = analysis[b] /\ history'[b] = history[b]
      /\ analysis' \in [Analyses -> InteractionStatus \cup {"ABSENT"}]
  BY <1>1, <1>3 DEF InteractionsInv
<1>5. /\ history'[a] \in Seq(Step) /\ Len(history'[a]) = n + 1 /\ history'[a][n + 1] = s
      /\ \A i \in 1..n : history'[a][i] = history[a][i]
  BY <1>1, <1>2, <1>4
<1>6. \A i \in 0..n : Reached(a, i)' = Reached(a, i)
  BY <1>2, <1>5 DEF Reached
<1>7. Reached(a, n + 1)' = job.target
  BY <1>1, <1>2, <1>5 DEF Reached
<1>8. job.target \in INTERACTION_TRANSITIONS[Reached(a, n)]
  BY <1>2 DEF Legal
<1>9. \A b \in Analyses : Exists(b) => Exists(b)'
  BY <1>1, <1>4 DEF Exists, InteractionStatus
<1>10. IsPath(a)'
  <2>1. ASSUME NEW i \in 1..(n + 1) PROVE Reached(a, i)' \in INTERACTION_TRANSITIONS[Reached(a, i - 1)']
    <3>1. CASE i \in 1..n
      <4>1. Reached(a, i)' = Reached(a, i) /\ Reached(a, i - 1)' = Reached(a, i - 1)
        BY <1>2, <1>6, <3>1
      <4> QED
        BY <1>2, <3>1, <4>1 DEF IsPath
    <3>2. CASE i = n + 1
      <4>1. i - 1 = n
        BY <1>2, <3>2
      <4>2. Reached(a, n)' = Reached(a, n)
        BY <1>2, <1>6
      <4> QED
        BY <1>7, <1>8, <3>2, <4>1, <4>2
    <3> QED
      BY <1>2, <3>1, <3>2
  <2>2. Exists(a)' /\ checks'[a] \subseteq Check
    BY <1>9
  <2> QED
    BY <1>4, <1>5, <1>7, <2>1, <2>2 DEF IsPath
<1>11. Independent(a) => Independent(a)'
  BY DEF Independent
<1>12. IsEarned(a)'
  <2>1. ASSUME NEW i \in 1..(n + 1)
        PROVE  /\ history'[a][i].to = "REPRODUCIBLE" => a \in Supporting /\ Independent(a)'
               /\ history'[a][i].to = "CONFIRMED_BY_REVIEW" =>
                    ~history'[a][i].automatic /\ \E j \in 1..(i - 1) : history'[a][j].to = "REPRODUCIBLE"
    <3>1. CASE i \in 1..n
      <4>1. history'[a][i] = history[a][i]
        BY <1>5, <3>1
      <4>2. history[a][i].to = "REPRODUCIBLE" => a \in Supporting /\ Independent(a)
        BY <1>2, <3>1 DEF IsEarned
      <4>3. history[a][i].to = "CONFIRMED_BY_REVIEW" =>
              ~history[a][i].automatic /\ \E j \in 1..(i - 1) : history[a][j].to = "REPRODUCIBLE"
        BY <1>2, <3>1 DEF IsEarned
      <4>4. \A j \in 1..(i - 1) : history'[a][j] = history[a][j]
        BY <1>2, <1>5, <3>1
      <4> QED
        BY <1>11, <4>1, <4>2, <4>3, <4>4
    <3>2. CASE i = n + 1
      <4>1. i - 1 = n /\ history'[a][i] = s
        BY <1>2, <1>5, <3>2
      <4>2. job.target = "REPRODUCIBLE" => analysis[a] = "SUPPORTED"
        BY <1>8, <1>2, <1>4 DEF INTERACTION_TRANSITIONS, InteractionsInv, InteractionStatus, Exists
      <4>3. job.target = "CONFIRMED_BY_REVIEW" => Reached(a, n) = "REPRODUCIBLE"
        BY <1>8, <1>2, <1>4 DEF INTERACTION_TRANSITIONS, InteractionsInv, InteractionStatus, Exists
      <4>4. job.target = "CONFIRMED_BY_REVIEW" => \E j \in 1..n : history'[a][j].to = "REPRODUCIBLE"
        BY <1>2, <1>5, <4>3 DEF Reached
      <4> QED
        BY <1>1, <1>2, <4>1, <4>2, <4>4 DEF IsEarned
    <3> QED
      BY <1>2, <3>1, <3>2
  <2> QED
    BY <1>4, <1>5, <2>1 DEF IsEarned
<1>13. ASSUME NEW b \in Analyses \ {a} PROVE IsPath(b)' /\ IsEarned(b)'
  <2>1. IsPath(b) /\ IsEarned(b) /\ analysis'[b] = analysis[b] /\ history'[b] = history[b]
    BY <1>4 DEF InteractionsInv
  <2>2. Independent(b) => Independent(b)'
    BY DEF Independent
  <2> QED
    BY <2>1, <2>2 DEF IsPath, IsEarned, Exists, Reached
<1> QED
  BY <1>4, <1>9, <1>10, <1>12, <1>13, OthersKeep DEF InteractionsInv

\* Nothing moves, but a check may be recorded.
LEMMA RecordsKeep ==
    ASSUME InteractionsInv, NEW p \in Reviewers, UNCHANGED <<analysis, history>>,
           reviewer' = [reviewer EXCEPT ![p] = IdleReviewer], DOMAIN checks' = Analyses,
           \A a \in Analyses : checks[a] \subseteq checks'[a] /\ checks'[a] \subseteq Check
    PROVE  InteractionsInv'
<1>1. \A a \in Analyses : Exists(a) <=> Exists(a)'
  BY DEF Exists
<1>2. ASSUME NEW a \in Analyses PROVE IsPath(a)' /\ IsEarned(a)'
  <2>1. Independent(a) => Independent(a)'
    BY DEF Independent
  <2> QED
    BY <2>1 DEF InteractionsInv, IsPath, IsEarned, Exists, Reached
<1> QED
  BY <1>1, <1>2, OthersKeep DEF InteractionsInv

LEMMA CommitStatusKeeps == ASSUME InteractionsInv, NEW p \in Reviewers, CommitStatus(p) PROVE InteractionsInv'
<1> PICK job \in ReviewerJob : job = reviewer[p]
  BY DEF InteractionsInv
<1>1. /\ job.pc = "moving" /\ UNCHANGED checks /\ reviewer' = [reviewer EXCEPT ![p] = IdleReviewer]
      /\ Exists(job.analysis) /\ job.target \notin {"REPRODUCIBLE", "SUPPORTED"}
  BY DEF CommitStatus, InteractionsInv, MayReach
<1>2. DOMAIN checks' = Analyses /\ \A a \in Analyses : checks[a] \subseteq checks'[a] /\ checks'[a] \subseteq Check
  BY <1>1 DEF InteractionsInv, IsPath
<1>3. CASE Legal(job.analysis, job.target)
  BY <1>1, <1>2, <1>3, MovesKeep DEF CommitStatus
<1>4. CASE ~Legal(job.analysis, job.target)
  BY <1>1, <1>2, <1>4, RecordsKeep DEF CommitStatus
<1> QED
  BY <1>3, <1>4

LEMMA CommitCheckKeeps == ASSUME InteractionsInv, NEW p \in Reviewers, CommitCheck(p) PROVE InteractionsInv'
<1> PICK job \in ReviewerJob : job = reviewer[p]
  BY DEF InteractionsInv
<1> PICK o \in Analyses : o = job.analysis
  BY DEF ReviewerJob
<1> PICK r \in Analyses : r = job.replicate
  BY DEF ReviewerJob
<1> PICK passed \in BOOLEAN : passed <=> Agrees(o, r, job.tolerance)
  OBVIOUS
<1> PICK check : check = [replicate |-> r, tolerance |-> job.tolerance, passed |-> passed]
  OBVIOUS
<1>1. /\ job.pc = "checking" /\ reviewer' = [reviewer EXCEPT ![p] = IdleReviewer]
      /\ Exists(o) /\ job.target = "REPRODUCIBLE" /\ job.tolerance \in Tolerances
  BY DEF CommitCheck, InteractionsInv, MayReach
<1>2. check \in Check /\ check.replicate = r /\ check.passed = passed
  BY <1>1 DEF Check
<1>3. passed = Agrees(o, r, job.tolerance)
  BY DEF Agrees
<1>4. CASE UNCHANGED <<checks, analysis, history>>
  <2>1. Holds(p, IdleReviewer)
    BY <1>1, <1>4 DEF Holds
  <2> QED
    BY <2>1, ReviewEndsKeeps
<1>5. CASE /\ checks' = [checks EXCEPT ![o] = @ \cup {check}]
           /\ IF passed THEN Legal(o, job.target) /\ Moves(job, TRUE) ELSE UNCHANGED <<analysis, history>>
  <2>1. checks'[o] = checks[o] \cup {check} /\ DOMAIN checks' = Analyses
        /\ \A a \in Analyses \ {o} : checks'[a] = checks[a]
    BY <1>5 DEF InteractionsInv
  <2>2. \A a \in Analyses : checks[a] \subseteq checks'[a] /\ checks'[a] \subseteq Check
    <3>1. \A a \in Analyses : checks[a] \subseteq Check
      BY DEF InteractionsInv, IsPath
    <3>2. checks[o] \cup {check} \subseteq Check
      BY <1>2, <3>1
    <3>3. SUFFICES ASSUME NEW a \in Analyses PROVE checks[a] \subseteq checks'[a] /\ checks'[a] \subseteq Check
      OBVIOUS
    <3>4. CASE a = o
      BY <2>1, <3>2, <3>4
    <3>5. CASE a # o
      BY <2>1, <3>1, <3>5
    <3> QED
      BY <3>4, <3>5
  <2>3. CASE passed
    <3>1. /\ Structure[o] = Structure[r] /\ TreatmentRuns[o] \cap TreatmentRuns[r] = {}
      BY <2>3 DEF Agrees
    <3>2. r # o
      BY <3>1, InteractionAssumption
    <3>3. check \in checks'[o] /\ check.passed
      BY <1>2, <2>1, <2>3
    <3>4. Independent(o)'
      BY <1>2, <3>1, <3>2, <3>3 DEF Independent
    <3> QED
      BY <1>1, <1>5, <2>1, <2>2, <2>3, <3>4, MovesKeep
  <2>4. CASE ~passed
    BY <1>1, <1>5, <2>1, <2>2, <2>4, RecordsKeep
  <2> QED
    BY <2>3, <2>4
<1> QED
  BY <1>3, <1>4, <1>5 DEF CommitCheck

LEMMA PersistAnalysisKeeps == ASSUME InteractionsInv, NEW a \in Analyses, PersistAnalysis(a) PROVE InteractionsInv'
<1>1. ~Exists(a) /\ history[a] = <<>> /\ UNCHANGED <<checks, reviewer>>
  BY DEF PersistAnalysis, Exists, InteractionsInv, IsPath
<1>2. /\ \A b \in Analyses \ {a} : analysis'[b] = analysis[b] /\ history'[b] = history[b]
      /\ DOMAIN history' = Analyses
  BY DEF PersistAnalysis, InteractionsInv
<1>3. \A b \in Analyses : Independent(b)' <=> Independent(b)
  BY <1>1 DEF Independent
<1>4. ASSUME NEW b \in Analyses \ {a} PROVE IsPath(b)' /\ IsEarned(b)'
  <2>1. IsPath(b) /\ IsEarned(b) /\ analysis'[b] = analysis[b] /\ history'[b] = history[b]
    BY <1>2 DEF InteractionsInv
  <2> QED
    BY <1>1, <1>3, <2>1 DEF IsPath, IsEarned, Exists, Reached
<1>5. CASE a \in Supporting
  <2> PICK s : s = [from |-> "DISCOVERED", to |-> "SUPPORTED", automatic |-> TRUE]
    OBVIOUS
  <2>1. analysis'[a] = "SUPPORTED" /\ history'[a] = <<s>>
    BY <1>5 DEF PersistAnalysis, InteractionsInv
  <2>2. s \in Step /\ s.to = "SUPPORTED" /\ <<s>> \in Seq(Step) /\ Len(<<s>>) = 1 /\ <<s>>[1] = s
    BY DEF Step, InteractionStatus
  <2>3. /\ analysis'[a] = Reached(a, Len(history[a]))'
        /\ Reached(a, 1)' = "SUPPORTED" /\ Reached(a, 1 - 1)' = "DISCOVERED"
    BY <2>1, <2>2 DEF Reached
  <2>4. "SUPPORTED" \in INTERACTION_TRANSITIONS["DISCOVERED"]
    BY DEF INTERACTION_TRANSITIONS, InteractionStatus
  <2>5. \A i \in 1..Len(history'[a]) : i = 1
    BY <2>1, <2>2
  <2>6. IsPath(a)'
    BY <1>1, <2>1, <2>2, <2>3, <2>4, <2>5 DEF IsPath, Exists, InteractionsInv
  <2>7. IsEarned(a)'
    BY <1>5, <2>1, <2>2, <2>5 DEF IsEarned
  <2>8. analysis' \in [Analyses -> InteractionStatus \cup {"ABSENT"}]
    BY <1>5 DEF PersistAnalysis, InteractionsInv, InteractionStatus
  <2>9. \A q \in Reviewers : MayReach(q)'
    BY <1>1, <1>2, <2>1 DEF InteractionsInv, MayReach, Exists, ReviewerJob
  <2> QED
    BY <1>1, <1>2, <1>4, <2>6, <2>7, <2>8, <2>9 DEF InteractionsInv
<1>6. CASE a \notin Supporting
  <2>1. analysis'[a] = "DISCOVERED" /\ history'[a] = <<>>
    BY <1>6 DEF PersistAnalysis, InteractionsInv
  <2>2. IsPath(a)' /\ IsEarned(a)'
    BY <1>1, <2>1 DEF IsPath, IsEarned, Exists, Reached, InteractionsInv
  <2>3. analysis' \in [Analyses -> InteractionStatus \cup {"ABSENT"}]
    BY <1>6 DEF PersistAnalysis, InteractionsInv, InteractionStatus
  <2>4. \A q \in Reviewers : MayReach(q)'
    BY <1>1, <1>2, <2>1 DEF InteractionsInv, MayReach, Exists, ReviewerJob
  <2> QED
    BY <1>1, <1>2, <1>4, <2>2, <2>3, <2>4 DEF InteractionsInv
<1> QED
  BY <1>5, <1>6

LEMMA ReviewKeeps == ASSUME InteractionsInv, NEW p \in Reviewers, Review(p) PROVE InteractionsInv'
<1>1. ASSUME NEW o \in Analyses, NEW r \in Analyses, NEW tol \in Tolerances, ReadForCheck(p, o, r, tol)
      PROVE  InteractionsInv'
  <2> PICK job : job = [pc |-> "checking", analysis |-> o, read |-> "SUPPORTED", target |-> "REPRODUCIBLE",
                        replicate |-> r, tolerance |-> tol]
    OBVIOUS
  <2>1. job \in ReviewerJob /\ Exists(o)
    BY <1>1, InteractionAssumption DEF ReviewerJob, InteractionStatus, ReadForCheck, Exists
  <2> QED
    BY <1>1, <2>1, HoldsKeeps DEF ReadForCheck
<1>2. ASSUME NEW a \in Analyses, NEW t \in InteractionStatus, Exists(a), t \notin {"REPRODUCIBLE", "SUPPORTED"},
             Holds(p, [IdleReviewer EXCEPT !.pc = "moving", !.analysis = a, !.read = analysis[a], !.target = t])
      PROVE  InteractionsInv'
  <2> PICK job : job = [IdleReviewer EXCEPT !.pc = "moving", !.analysis = a, !.read = analysis[a], !.target = t]
    OBVIOUS
  <2>1. analysis[a] \in InteractionStatus /\ IdleReviewer \in ReviewerJob
    BY <1>2, IdleReviewerTyped, InteractionAssumption DEF InteractionsInv, Exists
  <2>2. job \in ReviewerJob /\ job.pc = "moving" /\ job.analysis = a /\ job.target = t
    BY <2>1 DEF ReviewerJob
  <2> QED
    BY <1>2, <2>2, HoldsKeeps
<1>3. ASSUME NEW a \in Analyses, ReadForReview(p, a) PROVE InteractionsInv'
  BY <1>2, <1>3 DEF ReadForReview, Exists, InteractionStatus
<1>4. ASSUME NEW a \in Analyses, NEW t \in InteractionStatus, ReadForStatus(p, a, t) PROVE InteractionsInv'
  BY <1>2, <1>4 DEF ReadForStatus
<1> QED
  BY <1>1, <1>3, <1>4, CommitCheckKeeps, CommitStatusKeeps, ReviewEndsKeeps DEF Review, ReviewEnds

\* However reads and commits interleave, what an analysis is recorded as is the path it took
\* through the table, and its steps were earned.
THEOREM InteractionsInductive == InteractionsSpec => []InteractionsInv
<1>1. InteractionsInit => InteractionsInv
  BY InteractionsInitial
<1>2. InteractionsInv /\ [InteractionsNext]_interactionVars => InteractionsInv'
  <2> SUFFICES ASSUME InteractionsInv, [InteractionsNext]_interactionVars PROVE InteractionsInv'
    OBVIOUS
  <2>1. CASE InteractionsNext
    BY <2>1, ReviewKeeps, PersistAnalysisKeeps DEF InteractionsNext
  <2>2. CASE UNCHANGED interactionVars
    BY <2>2 DEF interactionVars, InteractionsInv, IsPath, IsEarned, Independent, Exists, Reached, MayReach
  <2> QED
    BY <2>1, <2>2
<1> QED
  BY <1>1, <1>2, PTL DEF InteractionsSpec

\* An analysis counts as reproducible only on a passed check against another analysis of the same
\* structure that shares no run with it, and as confirmed only by a person after that.
THEOREM ReproducibleIsEarned == InteractionsSpec => []ReproducedIndependently
<1>1. InteractionsInv => ReproducedIndependently
  <2> SUFFICES ASSUME InteractionsInv PROVE ReproducedIndependently
    OBVIOUS
  <2>1. HistoryIsThePath
    BY DEF InteractionsInv, IsPath, Reached, HistoryIsThePath
  <2>2. \A a \in Analyses : IsEarned(a)
    BY DEF InteractionsInv
  <2> QED
    BY <2>1, <2>2 DEF IsEarned, Independent, ReproducedIndependently
<1> QED
  BY <1>1, InteractionsInductive, PTL

(***************************************************************************)
(* The leaderboard, for any results and processes: its snapshots and       *)
(* entries rest on what is on record, and the reproduction attempts of a   *)
(* result are a log.  All of it rests on one fact: attempts are only ever  *)
(* added after those there are, so the state after the first n of them     *)
(* never changes.                                                          *)
(***************************************************************************)

\* Attempts are numbered without a gap, and a number that is held was free, or has been taken.
Numbered ==
    /\ DOMAIN attempts = Results
    /\ \A r \in Results : Recorded(r) \in Nat /\ attempts[r] \in [0..(Recorded(r) - 1) -> ReplayOutcomes]

RulesMet(d) ==
    /\ d.rules.coverage => d.included \subseteq Covered
    /\ d.rules.reproduction => \A r \in d.included : MetBy(r, Recorded(r))

Chosen(d) ==
    /\ d.included \cap d.excluded = {} /\ d.included \cup d.excluded \subseteq submissions
    /\ RulesMet(d)

Shows(r, state, rules) ==
    \E n \in 0..Recorded(r) : state = StateAfter(r, n) /\ (rules.reproduction => MetBy(r, n))

\* What a build has read stays true until it uses it.
BuilderOK(p) ==
    LET job == builder[p]
    IN  /\ job.pc \in {"filtering", "adding"} => Chosen(job.draft)
        /\ job.pc = "filtering" =>
            job.todo \subseteq submissions /\ job.todo \cap (job.draft.included \cup job.draft.excluded) = {}
        /\ job.pc = "adding" => job.draft.included # {}
        /\ job.pc \in {"entering", "entry"} => job.draft \in snapshots /\ job.todo \subseteq job.draft.included
        /\ job.pc = "entry" => job.current \in job.todo /\ Shows(job.current, job.state, job.draft.rules)

\* What the commands that submit and reproduce hold.
CommandsOK ==
    /\ submitter \in [Submitters -> SubmitterJob] /\ reproducer \in [Reproducers -> ReproducerJob]
    /\ \A p \in Submitters : submitter[p].pc # "idle" => submitter[p].result \in Matching
    /\ \A p \in Reproducers : reproducer[p].pc = "replaying" => reproducer[p].number <= Recorded(reproducer[p].target)

\* The inductive invariant.
BoardInv ==
    /\ Numbered /\ CommandsOK
    /\ submissions \subseteq Matching /\ snapshots \subseteq Snapshot /\ entries \subseteq Entry
    /\ builder \in [Builders -> BuilderJob]
    /\ \A p \in Builders : BuilderOK(p)
    /\ \A s \in snapshots : s.included # {} /\ Chosen(s)
    /\ \A e \in entries : Shows(e.result, e.state, e.snapshot.rules)
    /\ MissingOnlyByItsBuilder
-----------------------------------------------------------------------------
LEMMA StateTyped ==
    ASSUME Numbered, NEW r \in Results, NEW n \in 0..Recorded(r) PROVE StateAfter(r, n) \in ReproducibilityState
<1>1. ASSUME n # 0 PROVE attempts[r][n - 1] \in ComparisonOutcome
  <2>1. Recorded(r) \in Nat /\ attempts[r] \in [0..(Recorded(r) - 1) -> ReplayOutcomes]
    BY DEF Numbered
  <2>2. n - 1 \in 0..(Recorded(r) - 1)
    BY <1>1, <2>1
  <2> QED
    BY <2>1, <2>2, LeaderboardAssumption
<1>2. \A o \in ComparisonOutcome : OUTCOME_TO_STATE[o] \in ReproducibilityState
  BY DEF OUTCOME_TO_STATE, ReproducibilityState, ComparisonOutcome
<1> QED
  BY <1>1, <1>2 DEF StateAfter, ReproducibilityState

\* The state of a result is the one after its last attempt.
LEMMA StateNow == ASSUME Numbered, NEW r \in Results PROVE reproducibility_state(r) = StateAfter(r, Recorded(r))
<1>1. Recorded(r) \in Nat /\ DOMAIN attempts[r] = 0..(Recorded(r) - 1)
  BY DEF Numbered
<1>2. CASE Recorded(r) = 0
  <2>1. DOMAIN attempts[r] = {}
    BY <1>1, <1>2
  <2> QED
    BY <1>2, <2>1 DEF reproducibility_state, StateAfter
<1>3. CASE Recorded(r) # 0
  <2> DEFINE last == CHOOSE n \in DOMAIN attempts[r] : \A k \in DOMAIN attempts[r] : k <= n
  <2>1. Recorded(r) - 1 \in DOMAIN attempts[r] /\ \A k \in DOMAIN attempts[r] : k <= Recorded(r) - 1
    BY <1>1, <1>3
  <2>2. last \in DOMAIN attempts[r] /\ \A k \in DOMAIN attempts[r] : k <= last
    BY <2>1
  <2>3. last = Recorded(r) - 1
    BY <1>1, <2>1, <2>2
  <2>4. reproducibility_state(r) = OUTCOME_TO_STATE[attempts[r][last]]
    BY <2>1 DEF reproducibility_state
  <2> QED
    BY <1>3, <2>3, <2>4 DEF StateAfter
<1> QED
  BY <1>2, <1>3

\* Attempts are added behind those there are, or not at all.
Grow ==
    /\ Numbered'
    /\ \A r \in Results :
        /\ Recorded(r)' >= Recorded(r)
        /\ \A n \in 0..Recorded(r) : StateAfter(r, n)' = StateAfter(r, n)

LEMMA NothingGrows == ASSUME Numbered, UNCHANGED attempts PROVE Grow
<1>1. \A r : Recorded(r)' = Recorded(r) /\ \A n : StateAfter(r, n)' = StateAfter(r, n)
  BY DEF Recorded, StateAfter
<1> QED
  BY <1>1 DEF Grow, Numbered

LEMMA MetStays ==
    ASSUME Numbered, Grow, NEW r \in Results, NEW n \in 0..Recorded(r), MetBy(r, n)
    PROVE  MetBy(r, n)' /\ MetBy(r, Recorded(r))'
<1>1. PICK k \in 0..n : StateAfter(r, k) \in Reproduced
  BY DEF MetBy
<1>2. k \in 0..Recorded(r) /\ k \in 0..Recorded(r)' /\ StateAfter(r, k)' = StateAfter(r, k)
  BY DEF Numbered, Grow
<1> QED
  BY <1>1, <1>2 DEF MetBy, Reproduced

LEMMA ChosenStays ==
    ASSUME Numbered, Grow, NEW d \in Snapshot, Chosen(d), submissions \subseteq submissions' PROVE Chosen(d)'
<1>1. d.included \subseteq Results
  BY DEF Snapshot
<1>2. ASSUME NEW r \in d.included, MetBy(r, Recorded(r)) PROVE MetBy(r, Recorded(r))'
  <2>1. Recorded(r) \in 0..Recorded(r) /\ r \in Results
    BY <1>1 DEF Numbered
  <2> QED
    BY <1>2, <2>1, MetStays
<1> QED
  BY <1>1, <1>2 DEF Chosen, RulesMet

LEMMA ShowsStays ==
    ASSUME Numbered, Grow, NEW r \in Results, NEW state, NEW rules, Shows(r, state, rules) PROVE Shows(r, state, rules)'
<1>1. PICK n \in 0..Recorded(r) : state = StateAfter(r, n) /\ (rules.reproduction => MetBy(r, n))
  BY DEF Shows
<1>2. n \in 0..Recorded(r)' /\ state = StateAfter(r, n)'
  BY <1>1 DEF Numbered, Grow
<1>3. rules.reproduction => MetBy(r, n)'
  BY <1>1, MetStays
<1> QED
  BY <1>2, <1>3 DEF Shows

\* One more attempt, under the next number.
LEMMA AddAttemptGrows ==
    ASSUME Numbered, NEW r \in Results, NEW n \in Nat, n <= Recorded(r), NEW o \in ReplayOutcomes, AddAttempt(r, n, o)
    PROVE  Grow
<1> PICK size \in Nat : size = Recorded(r)
  BY DEF Numbered
<1>1. attempts[r] \in [0..(size - 1) -> ReplayOutcomes]
  BY DEF Numbered
<1>2. CASE n \in DOMAIN attempts[r]
  BY <1>2, NothingGrows DEF AddAttempt
<1>3. CASE n \notin DOMAIN attempts[r]
  <2>1. n = size
    BY <1>1, <1>3
  <2>2. PutAttempt(r, n, o)
    BY <1>3 DEF AddAttempt
  <2>3. /\ attempts'[r] = [k \in DOMAIN attempts[r] \cup {n} |-> IF k = n THEN o ELSE attempts[r][k]]
        /\ \A q \in Results \ {r} : attempts'[q] = attempts[q]
        /\ DOMAIN attempts' = Results
    BY <2>2 DEF PutAttempt, Numbered
  <2>4. DOMAIN attempts[r] \cup {n} = 0..size
    BY <1>1, <2>1
  <2>5. /\ attempts'[r] \in [0..size -> ReplayOutcomes]
        /\ \A k \in 0..(size - 1) : attempts'[r][k] = attempts[r][k]
    BY <1>1, <2>1, <2>3, <2>4
  <2>6. Recorded(r)' = size + 1
    <3>1. Cardinality(0..size) = size + 1
      BY FS_Interval
    <3>2. DOMAIN attempts'[r] = 0..size
      BY <2>5
    <3> QED
      BY <3>1, <3>2 DEF Recorded
  <2>7. \A q \in Results \ {r} : Recorded(q)' = Recorded(q)
    BY <2>3 DEF Recorded
  <2>8. (size + 1) - 1 = size /\ size + 1 \in Nat
    OBVIOUS
  <2>9. Numbered'
    <3>1. ASSUME NEW q \in Results
          PROVE  Recorded(q)' \in Nat /\ attempts'[q] \in [0..(Recorded(q)' - 1) -> ReplayOutcomes]
      <4>1. CASE q = r
        BY <2>5, <2>6, <2>8, <4>1
      <4>2. CASE q # r
        BY <2>3, <2>7, <4>2 DEF Numbered
      <4> QED
        BY <4>1, <4>2
    <3> QED
      BY <2>3, <3>1 DEF Numbered
  <2>10. ASSUME NEW q \in Results, NEW k \in 0..Recorded(q) PROVE StateAfter(q, k)' = StateAfter(q, k)
    <3>1. CASE q = r
      <4>1. k # 0 => k - 1 \in 0..(size - 1)
        BY <3>1
      <4> QED
        BY <2>5, <3>1, <4>1 DEF StateAfter
    <3>2. CASE q # r
      BY <2>3, <3>2 DEF StateAfter
    <3> QED
      BY <3>1, <3>2
  <2>11. \A q \in Results : Recorded(q)' >= Recorded(q)
    BY <2>6, <2>7 DEF Numbered
  <2> QED
    BY <2>9, <2>10, <2>11 DEF Grow
<1> QED
  BY <1>2, <1>3
-----------------------------------------------------------------------------
LEMMA IdleTyped ==
    /\ IdleSubmitter \in SubmitterJob /\ IdleSubmitter.pc = "idle"
    /\ IdleReproducer \in ReproducerJob /\ IdleReproducer.pc = "idle"
    /\ IdleBuilder \in BuilderJob /\ IdleBuilder.pc = "idle"
<1>1. NoResult \in Results
  BY LeaderboardAssumption DEF NoResult
<1>2. NewDraft([coverage |-> FALSE, reproduction |-> FALSE]) \in Snapshot
  BY DEF NewDraft, Snapshot, Rules
<1> QED
  BY <1>1, <1>2 DEF IdleSubmitter, SubmitterJob, IdleReproducer, ReproducerJob, IdleBuilder, BuilderJob,
                    ReproducibilityState

LEMMA BoardInitial == BoardInit => BoardInv
<1> SUFFICES ASSUME BoardInit PROVE BoardInv
  OBVIOUS
<1>1. Numbered
  <2>1. ASSUME NEW r \in Results PROVE Recorded(r) = 0 /\ attempts[r] \in [0..(0 - 1) -> ReplayOutcomes]
    <3>1. DOMAIN attempts[r] = {} /\ attempts[r] = [n \in {} |-> "EQUAL"] /\ 0..(0 - 1) = {}
      BY DEF BoardInit
    <3> QED
      BY <3>1, FS_EmptySet DEF Recorded
  <2> QED
    BY <2>1 DEF BoardInit, Numbered
<1>2. CommandsOK
  BY IdleTyped DEF BoardInit, CommandsOK
<1>3. builder \in [Builders -> BuilderJob] /\ \A p \in Builders : BuilderOK(p)
  BY IdleTyped DEF BoardInit, BuilderOK
<1> QED
  BY <1>1, <1>2, <1>3 DEF BoardInit, BoardInv, MissingOnlyByItsBuilder

\* A submit or a reproduction moves.
LEMMA CommandKeeps ==
    ASSUME BoardInv, Grow, CommandsOK', submissions \subseteq submissions', submissions' \subseteq Matching,
           UNCHANGED <<snapshots, entries, builder>>
    PROVE  BoardInv'
<1>1. ASSUME NEW p \in Builders PROVE BuilderOK(p)'
  <2>1. BuilderOK(p) /\ builder[p] \in BuilderJob /\ builder[p].draft \in Snapshot /\ builder[p].current \in Results
    BY DEF BoardInv, BuilderJob
  <2>2. Chosen(builder[p].draft) => Chosen(builder[p].draft)'
    BY <2>1, ChosenStays DEF BoardInv
  <2>3. Shows(builder[p].current, builder[p].state, builder[p].draft.rules) =>
            Shows(builder[p].current, builder[p].state, builder[p].draft.rules)'
    BY <2>1, ShowsStays DEF BoardInv
  <2>4. builder' = builder /\ snapshots' = snapshots
    OBVIOUS
  <2> QED
    BY <2>1, <2>2, <2>3, <2>4 DEF BuilderOK
<1>2. \A s \in snapshots : Chosen(s)'
  BY ChosenStays DEF BoardInv
<1>3. \A e \in entries : Shows(e.result, e.state, e.snapshot.rules)'
  BY ShowsStays DEF BoardInv, Entry
<1>4. MissingOnlyByItsBuilder'
  BY DEF BoardInv, MissingOnlyByItsBuilder, HasEntry
<1> QED
  BY <1>1, <1>2, <1>3, <1>4 DEF BoardInv, Grow

\* A command that holds its own job only.
LEMMA SubmitKeeps == ASSUME BoardInv, NEW p \in Submitters, Submit(p) PROVE BoardInv'
<1>1. Grow
  BY NothingGrows DEF BoardInv, Submit, RunBenchmark, FindSubmission, AddSubmission, SubmitKilled
<1>2. UNCHANGED <<attempts, snapshots, entries, reproducer, builder>>
  BY DEF Submit, RunBenchmark, FindSubmission, AddSubmission, SubmitKilled
<1>3. ASSUME NEW j \in SubmitterJob, submitter' = [submitter EXCEPT ![p] = j], j.pc # "idle" => j.result \in Matching
      PROVE  CommandsOK'
  <2>1. submitter' \in [Submitters -> SubmitterJob] /\ submitter'[p] = j
        /\ \A q \in Submitters \ {p} : submitter'[q] = submitter[q]
    BY <1>3 DEF BoardInv, CommandsOK
  <2>2. \A r : Recorded(r)' = Recorded(r)
    BY <1>2 DEF Recorded
  <2> QED
    BY <1>2, <1>3, <2>1, <2>2 DEF BoardInv, CommandsOK
<1>4. submitter[p] \in SubmitterJob /\ (submitter[p].pc # "idle" => submitter[p].result \in Matching)
  BY DEF BoardInv, CommandsOK
<1>5. ASSUME NEW r \in Results, RunBenchmark(p, r) PROVE CommandsOK' /\ UNCHANGED submissions
  BY <1>3, <1>5 DEF RunBenchmark, SubmitterJob
<1>6. CASE FindSubmission(p)
  <2>1. [submitter[p] EXCEPT !.pc = "adding"] \in SubmitterJob
        /\ [submitter[p] EXCEPT !.pc = "adding"].result = submitter[p].result
    BY <1>4 DEF SubmitterJob
  <2>2. CommandsOK' /\ UNCHANGED submissions
    BY <1>3, <1>4, <1>6, <2>1, IdleTyped DEF FindSubmission
  <2> QED
    BY <1>1, <1>2, <2>2, CommandKeeps DEF BoardInv
<1>7. CASE AddSubmission(p)
  BY <1>1, <1>2, <1>3, <1>4, <1>7, IdleTyped, CommandKeeps DEF AddSubmission, BoardInv
<1>8. CASE SubmitKilled(p)
  BY <1>1, <1>2, <1>3, <1>8, IdleTyped, CommandKeeps DEF SubmitKilled, BoardInv
<1> QED
  BY <1>1, <1>2, <1>5, <1>6, <1>7, <1>8, CommandKeeps DEF Submit, BoardInv

LEMMA ReproduceKeeps == ASSUME BoardInv, NEW p \in Reproducers, Reproduce(p) PROVE BoardInv' /\ Grow
<1>1. UNCHANGED <<submissions, snapshots, entries, submitter, builder>>
  BY DEF Reproduce, StartReproduction, RecordAttempt, ReplayRaises
<1>2. ASSUME Grow, NEW j \in ReproducerJob, reproducer' = [reproducer EXCEPT ![p] = j],
             j.pc = "replaying" => j.number <= Recorded(j.target)
      PROVE  BoardInv'
  <2>1. reproducer' \in [Reproducers -> ReproducerJob] /\ reproducer'[p] = j
        /\ \A q \in Reproducers \ {p} : reproducer'[q] = reproducer[q]
    BY <1>2 DEF BoardInv, CommandsOK
  <2>2. ASSUME NEW q \in Reproducers, reproducer'[q].pc = "replaying"
        PROVE  (reproducer[q].number <= Recorded(reproducer[q].target))'
    <3>1. reproducer'[q].number <= Recorded(reproducer'[q].target)
      BY <1>2, <2>1, <2>2 DEF BoardInv, CommandsOK
    <3>2. reproducer'[q].target \in Results /\ reproducer'[q].number \in Nat
      BY <2>1 DEF ReproducerJob
    <3> PICK r \in Results : r = reproducer'[q].target
      BY <3>2
    <3>3. Recorded(r) \in Nat /\ Recorded(r)' \in Nat /\ Recorded(r)' >= Recorded(r)
      BY <1>2 DEF BoardInv, Numbered, Grow
    <3>4. Recorded(reproducer[q].target)' = Recorded(r)'
      BY DEF Recorded
    <3>5. reproducer'[q].number <= Recorded(r)'
      BY <3>1, <3>2, <3>3
    <3> QED
      BY <3>4, <3>5
  <2>3. CommandsOK'
    BY <1>1, <2>1, <2>2 DEF BoardInv, CommandsOK
  <2> QED
    BY <1>1, <1>2, <2>3, CommandKeeps DEF BoardInv
<1>3. ASSUME NEW r \in Results, StartReproduction(p, r) PROVE BoardInv' /\ Grow
  <2>1. Recorded(r) \in Nat /\ Grow
    BY <1>3, NothingGrows DEF BoardInv, Numbered, StartReproduction
  <2> PICK j : j = [pc |-> "replaying", target |-> r, number |-> Recorded(r)]
    OBVIOUS
  <2>2. j \in ReproducerJob /\ j.target = r /\ j.number = Recorded(r) /\ j.number <= Recorded(r)
    BY <2>1 DEF ReproducerJob
  <2>3. reproducer' = [reproducer EXCEPT ![p] = j]
    BY <1>3 DEF StartReproduction, NextNumber
  <2> QED
    BY <1>2, <2>1, <2>2, <2>3
<1>4. ASSUME NEW o \in ReplayOutcomes, RecordAttempt(p, o) PROVE BoardInv' /\ Grow
  <2>1. /\ reproducer[p].target \in Results /\ reproducer[p].number \in Nat
        /\ reproducer[p].number <= Recorded(reproducer[p].target)
    BY <1>4 DEF BoardInv, CommandsOK, ReproducerJob, RecordAttempt
  <2>2. Grow
    BY <1>4, <2>1, AddAttemptGrows DEF RecordAttempt, BoardInv
  <2> QED
    BY <1>2, <1>4, <2>2, IdleTyped DEF RecordAttempt
<1>5. CASE ReplayRaises(p)
  BY <1>2, <1>5, IdleTyped, NothingGrows DEF ReplayRaises, BoardInv
<1> QED
  BY <1>3, <1>4, <1>5 DEF Reproduce
-----------------------------------------------------------------------------
\* What a build step leaves to show.
LEMMA BuildMoves ==
    ASSUME BoardInv, NEW p \in Builders, NEW job \in BuilderJob, Go(p, job),
           snapshots \subseteq snapshots', snapshots' \subseteq Snapshot, entries' \subseteq Entry, BuilderOK(p)',
           \A s \in snapshots' \ snapshots : s.included # {} /\ Chosen(s),
           \A e \in entries' \ entries : Shows(e.result, e.state, e.snapshot.rules),
           MissingOnlyByItsBuilder'
    PROVE  BoardInv'
<1>1. UNCHANGED <<attempts, submissions, submitter, reproducer>> /\ builder' = [builder EXCEPT ![p] = job]
  BY DEF Go
<1>2. builder' \in [Builders -> BuilderJob] /\ builder'[p] = job /\ \A q \in Builders \ {p} : builder'[q] = builder[q]
  BY <1>1 DEF BoardInv
<1>3. /\ Numbered' /\ CommandsOK' /\ \A d : Chosen(d)' <=> Chosen(d)
      /\ \A r, state, rules : Shows(r, state, rules)' <=> Shows(r, state, rules)
  BY <1>1 DEF BoardInv, Numbered, CommandsOK, Recorded, Chosen, RulesMet, MetBy, StateAfter, Shows
<1>4. ASSUME NEW q \in Builders \ {p} PROVE BuilderOK(q)'
  <2>1. BuilderOK(q) /\ builder'[q] = builder[q]
    BY <1>2 DEF BoardInv
  <2> QED
    BY <1>1, <1>3, <2>1 DEF BuilderOK
<1>5. \A s \in snapshots' : s.included # {} /\ Chosen(s)'
  BY <1>3 DEF BoardInv
<1>6. \A e \in entries' : Shows(e.result, e.state, e.snapshot.rules)'
  BY <1>3 DEF BoardInv
<1> QED
  BY <1>1, <1>2, <1>3, <1>4, <1>5, <1>6 DEF BoardInv

\* No snapshot or entry is added, and a build that was entering goes on or has nothing left.
LEMMA ReadOn ==
    ASSUME BoardInv, NEW p \in Builders, NEW job \in BuilderJob, Go(p, job), UNCHANGED <<snapshots, entries>>,
           BuilderOK(p)',
           builder[p].pc \in {"entering", "entry"} =>
                \/ builder[p].todo = {}
                \/ job.pc \in {"entering", "entry"} /\ job.draft = builder[p].draft /\ job.todo = builder[p].todo
    PROVE  BoardInv'
<1>1. builder'[p] = job /\ \A q \in Builders \ {p} : builder'[q] = builder[q]
  BY DEF BoardInv, Go
<1>2. \A s, r : HasEntry(s, r)' <=> HasEntry(s, r)
  BY DEF HasEntry
<1>3. MissingOnlyByItsBuilder'
  <2> SUFFICES ASSUME NEW s \in snapshots, NEW r \in s.included, ~HasEntry(s, r)
               PROVE  \E q \in Builders :
                        builder'[q].pc \in {"entering", "entry"} /\ builder'[q].draft = s /\ r \in builder'[q].todo
    BY <1>2 DEF BoardInv, MissingOnlyByItsBuilder
  <2>1. PICK q \in Builders :
            builder[q].pc \in {"entering", "entry"} /\ builder[q].draft = s /\ r \in builder[q].todo
    BY DEF BoardInv, MissingOnlyByItsBuilder
  <2> QED
    BY <1>1, <2>1
<1> QED
  BY <1>3, BuildMoves DEF BoardInv

LEMMA IdleOK == ASSUME NEW p \in Builders, builder'[p].pc = "idle" PROVE BuilderOK(p)'
  BY DEF BuilderOK

LEMMA BuildKeeps == ASSUME BoardInv, NEW p \in Builders, Build(p) PROVE BoardInv'
<1> PICK job \in BuilderJob : job = builder[p]
  BY DEF BoardInv
<1>1. BuilderOK(p) /\ job.draft \in Snapshot
  BY DEF BoardInv, BuilderJob
<1>2. \A j : Go(p, j) => builder'[p] = j /\ UNCHANGED <<attempts, submissions>>
  BY DEF Go, BoardInv
<1>3. UNCHANGED <<attempts, submissions>> =>
        /\ \A d : Chosen(d)' <=> Chosen(d)
        /\ \A r, state, rules : Shows(r, state, rules)' <=> Shows(r, state, rules)
  BY DEF Recorded, Chosen, RulesMet, MetBy, StateAfter, Shows
<1>4. ASSUME NEW rules \in RulesInUse, ReadSubmissions(p, rules) PROVE BoardInv'
  <2> PICK j : j = [job EXCEPT !.pc = "filtering", !.draft = NewDraft(rules), !.todo = submissions]
    OBVIOUS
  <2>1. NewDraft(rules) \in Snapshot /\ submissions \subseteq Results
    BY LeaderboardAssumption DEF NewDraft, Snapshot, BoardInv
  <2>2. j \in BuilderJob /\ j.pc = "filtering" /\ j.draft = NewDraft(rules) /\ j.todo = submissions
    BY <2>1 DEF BuilderJob
  <2>3. Go(p, j) /\ UNCHANGED <<snapshots, entries>> /\ job.pc = "idle"
    BY <1>4 DEF ReadSubmissions, At
  <2>4. Chosen(NewDraft(rules))
    BY DEF Chosen, RulesMet, NewDraft
  <2>5. NewDraft(rules).included = {} /\ NewDraft(rules).excluded = {}
    BY DEF NewDraft
  <2>6. BuilderOK(p)'
    BY <1>2, <1>3, <2>2, <2>3, <2>4, <2>5 DEF BuilderOK
  <2> QED
    BY <2>2, <2>3, <2>6, ReadOn
<1>5. ASSUME NEW r \in Results, Filter(p, r) PROVE BoardInv'
  <2> PICK d : \/ Passes(r, job.draft.rules) /\ d = [job.draft EXCEPT !.included = @ \cup {r}]
               \/ ~Passes(r, job.draft.rules) /\ d = [job.draft EXCEPT !.excluded = @ \cup {r}]
    OBVIOUS
  <2> PICK j : j = [job EXCEPT !.todo = @ \ {r}, !.draft = d]
    OBVIOUS
  <2>1. d \in Snapshot /\ d.rules = job.draft.rules
        /\ d.included \cup d.excluded = job.draft.included \cup job.draft.excluded \cup {r}
    BY <1>1 DEF Snapshot
  <2>2. j \in BuilderJob /\ j.pc = job.pc /\ j.todo = job.todo \ {r} /\ j.draft = d
    BY <2>1 DEF BuilderJob
  <2>3. Go(p, j) /\ UNCHANGED <<snapshots, entries>> /\ job.pc = "filtering" /\ r \in job.todo
    BY <1>1, <1>5 DEF Filter, At, BuilderJob, Snapshot
  <2>4. Chosen(job.draft) /\ r \in submissions /\ r \notin job.draft.included \cup job.draft.excluded
    BY <1>1, <2>3 DEF BuilderOK
  <2>5. RulesMet(d)
    <3>1. CASE Passes(r, job.draft.rules)
      <4>1. d.included = job.draft.included \cup {r}
        BY <1>1, <3>1 DEF Snapshot
      <4>2. d.rules.coverage => r \in Covered
        BY <2>1, <3>1 DEF Passes
      <4>3. d.rules.reproduction => MetBy(r, Recorded(r))
        <5>1. d.rules.reproduction => StateAfter(r, Recorded(r)) \in Reproduced
          BY <2>1, <3>1, StateNow DEF Passes, BoardInv
        <5>2. Recorded(r) \in 0..Recorded(r)
          BY DEF BoardInv, Numbered
        <5> QED
          BY <5>1, <5>2 DEF MetBy
      <4> QED
        BY <2>1, <2>4, <4>1, <4>2, <4>3 DEF Chosen, RulesMet
    <3>2. CASE ~Passes(r, job.draft.rules)
      <4>1. d.included = job.draft.included
        BY <1>1, <3>2 DEF Snapshot
      <4> QED
        BY <2>1, <2>4, <4>1 DEF Chosen, RulesMet
    <3> QED
      BY <3>1, <3>2
  <2>6. d.included \cap d.excluded = {}
    BY <1>1, <2>4 DEF Chosen, Snapshot
  <2>7. Chosen(d)
    BY <2>1, <2>4, <2>5, <2>6 DEF Chosen
  <2>8. j.todo \subseteq submissions /\ j.todo \cap (d.included \cup d.excluded) = {}
    BY <1>1, <2>1, <2>2, <2>3 DEF BuilderOK
  <2>9. BuilderOK(p)'
    BY <1>2, <1>3, <2>2, <2>3, <2>7, <2>8 DEF BuilderOK
  <2> QED
    BY <2>2, <2>3, <2>9, ReadOn
<1>6. CASE FindSnapshot(p)
  <2>1. UNCHANGED <<snapshots, entries>> /\ job.pc = "filtering"
    BY <1>6 DEF FindSnapshot, At
  <2>2. CASE Go(p, IdleBuilder)
    BY <1>2, <2>1, <2>2, IdleTyped, IdleOK, ReadOn
  <2>3. CASE job.draft.included # {} /\ Go(p, [job EXCEPT !.pc = "adding"])
    <3> PICK j : j = [job EXCEPT !.pc = "adding"]
      OBVIOUS
    <3>1. j \in BuilderJob /\ j.pc = "adding" /\ j.draft = job.draft
      BY DEF BuilderJob
    <3>2. BuilderOK(p)'
      BY <1>1, <1>2, <1>3, <2>1, <2>3, <3>1 DEF BuilderOK
    <3> QED
      BY <2>1, <2>3, <3>1, <3>2, ReadOn
  <2> QED
    BY <1>6, <2>2, <2>3 DEF FindSnapshot
<1>7. CASE AddSnapshot(p)
  <2>1. UNCHANGED entries /\ job.pc = "adding"
    BY <1>7 DEF AddSnapshot, At
  <2>2. CASE job.draft \in snapshots
    BY <1>2, <1>7, <2>1, <2>2, IdleTyped, IdleOK, ReadOn DEF AddSnapshot
  <2>3. CASE job.draft \notin snapshots
    <3> PICK j : j = [job EXCEPT !.pc = "entering", !.todo = job.draft.included]
      OBVIOUS
    <3>1. j \in BuilderJob /\ j.pc = "entering" /\ j.draft = job.draft /\ j.todo = job.draft.included
      BY <1>1 DEF BuilderJob, Snapshot
    <3>2. Go(p, j) /\ snapshots' = snapshots \cup {job.draft}
      BY <1>7, <2>3 DEF AddSnapshot
    <3>3. BuilderOK(p)'
      BY <1>2, <3>1, <3>2 DEF BuilderOK
    <3>4. Chosen(job.draft) /\ job.draft.included # {}
      BY <1>1, <2>1 DEF BuilderOK
    <3>5. MissingOnlyByItsBuilder'
      <4>1. \A s, r : HasEntry(s, r)' <=> HasEntry(s, r)
        BY <2>1 DEF HasEntry
      <4>2. \A s \in snapshots : \A r \in s.included : HasEntry(s, r) \/ \E q \in Builders :
                builder'[q].pc \in {"entering", "entry"} /\ builder'[q].draft = s /\ r \in builder'[q].todo
        BY <2>1, <3>2 DEF BoardInv, MissingOnlyByItsBuilder, Go
      <4>3. \A r \in job.draft.included :
                builder'[p].pc \in {"entering", "entry"} /\ builder'[p].draft = job.draft /\ r \in builder'[p].todo
        BY <1>2, <3>1, <3>2
      <4> QED
        BY <2>1, <3>2, <4>1, <4>2, <4>3 DEF BoardInv, MissingOnlyByItsBuilder
    <3> QED
      BY <1>1, <2>1, <3>1, <3>2, <3>3, <3>4, <3>5, BuildMoves DEF BoardInv
  <2> QED
    BY <2>2, <2>3
<1>8. ASSUME NEW r \in Results, ReadState(p, r) PROVE BoardInv'
  <2> PICK state : state = StateAfter(r, Recorded(r))
    OBVIOUS
  <2> PICK j : j = [job EXCEPT !.pc = "entry", !.current = r, !.state = state]
    OBVIOUS
  <2>1. Recorded(r) \in 0..Recorded(r) /\ Recorded(r) \in Nat
    BY DEF BoardInv, Numbered
  <2>2. state \in ReproducibilityState
    BY <2>1, StateTyped DEF BoardInv
  <2>3. /\ j \in BuilderJob /\ j.pc = "entry" /\ j.current = r /\ j.state = state
        /\ j.draft = job.draft /\ j.todo = job.todo
    BY <2>2 DEF BuilderJob
  <2>4. Go(p, j) /\ UNCHANGED <<snapshots, entries>> /\ job.pc = "entering" /\ r \in job.todo
    BY <1>8, StateNow DEF ReadState, At, BoardInv
  <2>5. job.draft \in snapshots /\ job.todo \subseteq job.draft.included
    BY <1>1, <2>4 DEF BuilderOK
  <2>6. Shows(r, state, job.draft.rules)
    <3>1. job.draft.rules.reproduction => MetBy(r, Recorded(r))
      BY <2>4, <2>5 DEF BoardInv, Chosen, RulesMet
    <3> QED
      BY <2>1, <3>1 DEF Shows
  <2>7. builder'[p] = j /\ Shows(r, state, job.draft.rules)'
    BY <1>2, <1>3, <2>4, <2>6
  <2>8. BuilderOK(p)'
    BY <2>3, <2>4, <2>5, <2>7 DEF BuilderOK
  <2> QED
    BY <2>3, <2>4, <2>8, ReadOn
<1>9. CASE AddEntry(p)
  <2> PICK j : j = [job EXCEPT !.pc = "entering", !.todo = @ \ {job.current}]
    OBVIOUS
  <2> PICK e : e = [snapshot |-> job.draft, result |-> job.current, state |-> job.state]
    OBVIOUS
  <2>1. j \in BuilderJob /\ j.pc = "entering" /\ j.draft = job.draft /\ j.todo = job.todo \ {job.current}
    BY DEF BuilderJob
  <2>2. Go(p, j) /\ UNCHANGED snapshots /\ job.pc = "entry"
        /\ entries' = IF HasEntry(job.draft, job.current) THEN entries ELSE entries \cup {e}
    BY <1>9 DEF AddEntry, At
  <2>3. /\ job.draft \in snapshots /\ job.todo \subseteq job.draft.included /\ job.current \in job.todo
        /\ Shows(job.current, job.state, job.draft.rules)
    BY <1>1, <2>2 DEF BuilderOK
  <2>4. e \in Entry /\ e.snapshot = job.draft /\ e.result = job.current /\ e.state = job.state
    BY <1>1 DEF Entry, BuilderJob
  <2>5. BuilderOK(p)'
    BY <1>2, <2>1, <2>2, <2>3 DEF BuilderOK
  <2>6. entries \subseteq entries' /\ HasEntry(job.draft, job.current)'
    BY <2>2, <2>4 DEF HasEntry
  <2>7. MissingOnlyByItsBuilder'
    <3>1. ASSUME NEW s \in snapshots, NEW r \in s.included, ~HasEntry(s, r)'
          PROVE  \E q \in Builders :
                    builder'[q].pc \in {"entering", "entry"} /\ builder'[q].draft = s /\ r \in builder'[q].todo
      <4>1. ~HasEntry(s, r)
        BY <2>6, <3>1 DEF HasEntry
      <4>2. PICK q \in Builders :
                builder[q].pc \in {"entering", "entry"} /\ builder[q].draft = s /\ r \in builder[q].todo
        BY <4>1 DEF BoardInv, MissingOnlyByItsBuilder
      <4>3. CASE q # p
        <5>1. builder'[q] = builder[q]
          BY <2>2, <4>3 DEF Go, BoardInv
        <5> QED
          BY <4>2, <5>1
      <4>4. CASE q = p
        <5>1. r # job.current
          BY <2>6, <3>1, <4>2, <4>4
        <5> QED
          BY <1>2, <2>1, <2>2, <4>2, <4>4, <5>1
      <4> QED
        BY <4>3, <4>4
    <3>2. \A f \in entries' : f.snapshot \in snapshots /\ f.result \in f.snapshot.included
      BY <2>2, <2>3, <2>4 DEF BoardInv, MissingOnlyByItsBuilder
    <3>3. \A f, g \in entries' : f.snapshot = g.snapshot /\ f.result = g.result => f = g
      BY <2>2, <2>4 DEF BoardInv, MissingOnlyByItsBuilder, HasEntry
    <3> QED
      BY <2>2, <3>1, <3>2, <3>3 DEF MissingOnlyByItsBuilder
  <2>8. entries' \subseteq Entry /\ \A f \in entries' \ entries : Shows(f.result, f.state, f.snapshot.rules)
    BY <2>2, <2>3, <2>4 DEF BoardInv
  <2> QED
    BY <2>1, <2>2, <2>5, <2>7, <2>8, BuildMoves DEF BoardInv
<1>10. CASE ReturnSnapshot(p)
  BY <1>2, <1>10, IdleTyped, IdleOK, ReadOn DEF ReturnSnapshot, At
<1>11. CASE BuildKilled(p)
  <2> PICK j : j = [job EXCEPT !.alive = FALSE]
    OBVIOUS
  <2>1. /\ j \in BuilderJob /\ j.pc = job.pc /\ j.draft = job.draft /\ j.todo = job.todo /\ j.current = job.current
        /\ j.state = job.state
    BY DEF BuilderJob
  <2>2. Go(p, j) /\ UNCHANGED <<snapshots, entries>>
    BY <1>11 DEF BuildKilled
  <2>3. builder'[p] = j /\ UNCHANGED <<attempts, submissions>>
    BY <1>2, <2>2
  <2>4. /\ Chosen(job.draft) => Chosen(job.draft)'
        /\ Shows(job.current, job.state, job.draft.rules) => Shows(job.current, job.state, job.draft.rules)'
    BY <1>3, <2>3
  <2>5. BuilderOK(p)'
    <3>1. job.pc \in {"filtering", "adding"} => Chosen(job.draft)'
      BY <1>1, <2>4 DEF BuilderOK
    <3>2. job.pc = "entry" => job.current \in job.todo /\ Shows(job.current, job.state, job.draft.rules)'
      BY <1>1, <2>4 DEF BuilderOK
    <3>3. job.pc = "filtering" =>
            job.todo \subseteq submissions' /\ job.todo \cap (job.draft.included \cup job.draft.excluded) = {}
      BY <1>1, <2>3 DEF BuilderOK
    <3>4. /\ job.pc = "adding" => job.draft.included # {}
          /\ job.pc \in {"entering", "entry"} => job.draft \in snapshots' /\ job.todo \subseteq job.draft.included
      BY <1>1, <2>2 DEF BuilderOK
    <3>5. /\ builder'[p].pc = job.pc /\ builder'[p].draft = job.draft /\ builder'[p].todo = job.todo
          /\ builder'[p].current = job.current /\ builder'[p].state = job.state
      BY <2>1, <2>3
    <3> QED
      BY <3>1, <3>2, <3>3, <3>4, <3>5 DEF BuilderOK
  <2> QED
    BY <2>1, <2>2, <2>5, ReadOn
<1> QED
  BY <1>4, <1>5, <1>6, <1>7, <1>8, <1>9, <1>10, <1>11 DEF Build
-----------------------------------------------------------------------------
LEMMA BoardInvStep == ASSUME BoardInv, [BoardNext]_boardVars PROVE BoardInv' /\ Grow
<1>1. CASE BoardNext
  <2>1. ASSUME NEW p \in Builders, Build(p) PROVE Grow
    <3>1. UNCHANGED attempts
      BY <2>1 DEF Build, ReadSubmissions, Filter, ReadState, FindSnapshot, AddSnapshot, AddEntry, ReturnSnapshot,
                  BuildKilled, Go
    <3> QED
      BY <3>1, NothingGrows DEF BoardInv
  <2>2. ASSUME NEW p \in Submitters, Submit(p) PROVE Grow
    BY <2>2, NothingGrows DEF BoardInv, Submit, RunBenchmark, FindSubmission, AddSubmission, SubmitKilled
  <2> QED
    BY <1>1, <2>1, <2>2, SubmitKeeps, ReproduceKeeps, BuildKeeps DEF BoardNext
<1>2. CASE UNCHANGED boardVars
  <2>1. /\ UNCHANGED <<attempts, submissions, snapshots, entries, builder, submitter, reproducer>>
        /\ submissions \subseteq submissions' /\ submissions' \subseteq Matching
    BY <1>2 DEF boardVars, BoardInv
  <2>2. Grow
    BY <2>1, NothingGrows DEF BoardInv
  <2>3. CommandsOK'
    BY <2>1 DEF BoardInv, CommandsOK, Recorded
  <2> QED
    BY <2>1, <2>2, <2>3, CommandKeeps
<1> QED
  BY <1>1, <1>2

THEOREM BoardInductive == BoardSpec => []BoardInv
<1>1. BoardInit => BoardInv
  BY BoardInitial
<1>2. BoardInv /\ [BoardNext]_boardVars => BoardInv'
  BY BoardInvStep
<1> QED
  BY <1>1, <1>2, PTL DEF BoardSpec

\* Whatever is submitted, reproduced and built at once: a snapshot and its entries show what
\* the evidence showed at some time while they were made, or later.
THEOREM SnapshotsSupported == BoardSpec => []EvidenceSupportsSnapshot
<1>1. BoardInv => EvidenceSupportsSnapshot
  <2> SUFFICES ASSUME BoardInv PROVE EvidenceSupportsSnapshot
    OBVIOUS
  <2>1. \A s \in snapshots :
            /\ s.included # {} /\ s.included \cap s.excluded = {}
            /\ s.included \cup s.excluded \subseteq submissions \cap Matching
            /\ s.rules.coverage => s.included \subseteq Covered
            /\ s.rules.reproduction => \A r \in s.included : MetBy(r, Recorded(r))
    BY DEF BoardInv, Chosen, RulesMet
  <2>2. \A e \in entries : \E n \in 0..Recorded(e.result) :
            /\ e.state = StateAfter(e.result, n)
            /\ e.snapshot.rules.reproduction => MetBy(e.result, n)
    BY DEF BoardInv, Shows
  <2> QED
    BY <2>1, <2>2 DEF EvidenceSupportsSnapshot
<1> QED
  BY <1>1, BoardInductive, PTL

\* A snapshot lacks an entry only while its builder is at work or dead.
THEOREM EntriesFollow == BoardSpec => []MissingOnlyByItsBuilder
<1>1. BoardInv => MissingOnlyByItsBuilder
  BY DEF BoardInv
<1> QED
  BY <1>1, BoardInductive, PTL
-----------------------------------------------------------------------------
LEMMA LogLength == ASSUME Numbered, NEW r \in Results
                   PROVE  /\ LogOfAttempts[r] \in Seq(ReplayOutcomes) /\ Len(LogOfAttempts[r]) = Recorded(r)
                          /\ \A i \in 1..Recorded(r) : LogOfAttempts[r][i] = attempts[r][i - 1]
<1>1. Recorded(r) \in Nat /\ attempts[r] \in [0..(Recorded(r) - 1) -> ReplayOutcomes]
  BY DEF Numbered
<1>2. \A i \in 1..Recorded(r) : i - 1 \in 0..(Recorded(r) - 1)
  BY <1>1
<1>3. LogOfAttempts[r] = [i \in 1..Recorded(r) |-> attempts[r][i - 1]]
  BY DEF LogOfAttempts
<1>4. \A i \in 1..Recorded(r) : attempts[r][i - 1] \in ReplayOutcomes
  BY <1>1, <1>2
<1> QED
  BY <1>1, <1>3, <1>4

LEMMA IndexedIsSeq ==
    ASSUME NEW S, NEW n \in Nat, NEW f \in [1..n -> S]
    PROVE  f \in Seq(S) /\ Len(f) = n
  OBVIOUS

\* A reproduction that records an attempt appends its outcome to the log of its target.
LEMMA RecordAppends ==
    ASSUME BoardInv, NEW r \in Results, NEW n \in Nat, n <= Recorded(r), NEW o \in ReplayOutcomes, AddAttempt(r, n, o)
    PROVE  (\E t \in Results, x \in ReplayOutcomes : Log!AppendOutcome(t, x)) \/ UNCHANGED LogOfAttempts
<1>1. CASE n \in DOMAIN attempts[r]
  <2>1. UNCHANGED attempts
    BY <1>1 DEF AddAttempt
  <2> QED
    BY <2>1 DEF LogOfAttempts, Recorded
<1>2. CASE n \notin DOMAIN attempts[r]
  <2> PICK size \in Nat : size = Recorded(r)
    BY DEF BoardInv, Numbered
  <2>1. Numbered /\ Grow /\ attempts[r] \in [0..(size - 1) -> ReplayOutcomes]
    BY AddAttemptGrows DEF BoardInv, Numbered
  <2>2. n = size /\ PutAttempt(r, n, o)
    BY <1>2, <2>1 DEF AddAttempt
  <2>3. /\ attempts'[r] = [k \in DOMAIN attempts[r] \cup {size} |-> IF k = size THEN o ELSE attempts[r][k]]
        /\ \A q \in Results \ {r} : attempts'[q] = attempts[q]
    BY <2>1, <2>2 DEF PutAttempt, Numbered
  <2>4. Recorded(r)' = size + 1
    <3>1. DOMAIN attempts'[r] = 0..size
      BY <2>1, <2>3
    <3>2. Cardinality(0..size) = size + 1
      BY FS_Interval
    <3> QED
      BY <3>1, <3>2 DEF Recorded
  <2> PICK old : old = LogOfAttempts[r]
    OBVIOUS
  <2> PICK now : now = (LogOfAttempts[r])'
    OBVIOUS
  <2>5. old \in Seq(ReplayOutcomes) /\ Len(old) = size /\ \A i \in 1..size : old[i] = attempts[r][i - 1]
    BY <2>1, LogLength
  <2>6. /\ now \in Seq(ReplayOutcomes) /\ Len(now) = size + 1
        /\ \A i \in 1..(size + 1) : now[i] = attempts'[r][i - 1]
    <3>1. Recorded(r)' \in Nat /\ attempts'[r] \in [0..(Recorded(r)' - 1) -> ReplayOutcomes]
      BY <2>1 DEF Grow, Numbered
    <3>2. now = [i \in 1..(size + 1) |-> attempts'[r][i - 1]]
      BY <2>4 DEF LogOfAttempts
    <3>3. \A i \in 1..(size + 1) : i - 1 \in 0..((size + 1) - 1)
      OBVIOUS
    <3>4. \A i \in 1..(size + 1) : attempts'[r][i - 1] \in ReplayOutcomes
      BY <2>4, <3>1, <3>3
    <3>5. now \in [1..(size + 1) -> ReplayOutcomes] /\ \A i \in 1..(size + 1) : now[i] = attempts'[r][i - 1]
      BY <3>2, <3>4
    <3>6. size + 1 \in Nat
      OBVIOUS
    <3> QED
      BY <3>5, <3>6, IndexedIsSeq
  <2>7. now = Append(old, o)
    <3>1. \A i \in 1..size : i - 1 # size /\ i - 1 \in DOMAIN attempts[r] /\ (size + 1) - 1 = size
      BY <2>1
    <3>4. attempts'[r][size] = o /\ \A k \in DOMAIN attempts[r] \ {size} : attempts'[r][k] = attempts[r][k]
      BY <2>3
    <3>2. ASSUME NEW i \in 1..size PROVE now[i] = old[i]
      <4>1. i \in 1..(size + 1) /\ i - 1 \in DOMAIN attempts[r] \ {size}
        BY <3>1
      <4>2. now[i] = attempts'[r][i - 1] /\ old[i] = attempts[r][i - 1]
        BY <2>5, <2>6, <4>1
      <4> QED
        BY <3>4, <4>1, <4>2
    <3>3. now[size + 1] = o
      <4>1. now[size + 1] = attempts'[r][(size + 1) - 1] /\ (size + 1) - 1 = size
        BY <2>6
      <4> QED
        BY <3>4, <4>1
    <3> QED
      BY <2>5, <2>6, <3>2, <3>3
  <2>8. ASSUME NEW q \in Results \ {r} PROVE (LogOfAttempts[q])' = LogOfAttempts[q]
    BY <2>3 DEF LogOfAttempts, Recorded
  <2>9. LogOfAttempts' = [LogOfAttempts EXCEPT ![r] = Append(@, o)]
    <3>1. LogOfAttempts' = [q \in Results |-> (LogOfAttempts[q])'] /\ LogOfAttempts = [q \in Results |-> LogOfAttempts[q]]
      BY DEF LogOfAttempts
    <3> QED
      BY <2>7, <2>8, <3>1
  <2> QED
    BY <2>9 DEF Log!AppendOutcome
<1> QED
  BY <1>1, <1>2

\* The attempts of each result are a log: reproductions that run at once never overwrite an
\* outcome or put one before another.
THEOREM AttemptsAreLogged == BoardSpec => ImplementsEvidenceLog
<1>1. BoardInit => Log!LogInit
  <2> SUFFICES ASSUME BoardInit PROVE Log!LogInit
    OBVIOUS
  <2>1. ASSUME NEW r \in Results PROVE LogOfAttempts[r] = << >>
    <3>1. Numbered /\ DOMAIN attempts[r] = {}
      BY BoardInitial DEF BoardInit, BoardInv
    <3>2. Recorded(r) = 0
      BY <3>1, FS_EmptySet DEF Recorded
    <3> QED
      BY <3>1, <3>2, LogLength
  <2> QED
    BY <2>1 DEF Log!LogInit, LogOfAttempts
<1>2. BoardInv /\ [BoardNext]_boardVars => [Log!LogNext]_LogOfAttempts
  <2> SUFFICES ASSUME BoardInv, [BoardNext]_boardVars PROVE Log!LogNext \/ UNCHANGED LogOfAttempts
    OBVIOUS
  <2>1. CASE UNCHANGED attempts
    BY <2>1 DEF LogOfAttempts, Recorded
  <2>2. ASSUME NEW p \in Reproducers, NEW o \in ReplayOutcomes, RecordAttempt(p, o)
        PROVE  Log!LogNext \/ UNCHANGED LogOfAttempts
    <3>1. /\ reproducer[p].target \in Results /\ reproducer[p].number \in Nat
          /\ reproducer[p].number <= Recorded(reproducer[p].target)
      BY <2>2 DEF BoardInv, CommandsOK, ReproducerJob, RecordAttempt
    <3> QED
      BY <2>2, <3>1, RecordAppends DEF RecordAttempt, Log!LogNext
  <2>3. CASE ~UNCHANGED attempts
    <3>1. \E p \in Reproducers, o \in ReplayOutcomes : RecordAttempt(p, o)
      BY <2>3 DEF BoardNext, boardVars, Submit, RunBenchmark, FindSubmission, AddSubmission, SubmitKilled,
                  Reproduce, StartReproduction, ReplayRaises, Build, ReadSubmissions, Filter, ReadState,
                  FindSnapshot, AddSnapshot, AddEntry, ReturnSnapshot, BuildKilled, Go
    <3> QED
      BY <2>2, <3>1
  <2> QED
    BY <2>1, <2>3
<1> QED
  BY <1>1, <1>2, BoardInductive, PTL DEF BoardSpec, ImplementsEvidenceLog, Log!LogSpec
=============================================================================
