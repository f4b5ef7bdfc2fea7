----------------------------- MODULE ShiftWindows -----------------------------
(***************************************************************************)
(* Which windows a drift analysis compares.  A specification declares      *)
(* comparison windows over an ordering, or a rolling plan of windows of    *)
(* equal width whose reference is fixed, the previous window or everything *)
(* before; it is refused when a reference overlaps what is compared to it. *)
(* The plan pairs every window with its reference or skips it; resolving   *)
(* the plan against the samples skips generated windows that are empty and *)
(* refuses declared ones.  Samples with one ordering key fall into the     *)
(* same windows, so a set of samples is the set of its keys.               *)
(***************************************************************************)
EXTENDS Integers, Sequences, SequencesExt, FiniteSets

CONSTANTS
    ShiftSpecs,     \* the specifications to consider: [reference, comparisons, rolling]
    SampleKeys,     \* the sets of ordering keys to consider
    MAX_WINDOWS     \* how many windows a rolling plan may have

VARIABLES
    shift,          \* the specification
    order,          \* the ordering keys of the samples
    dealt,          \* candidates the plan has dealt with
    previous,       \* the last whole window
    pairs, skipped, \* the plan: <<reference, comparison>> and <<window, reason>>
    resolved,       \* the pairs that have samples
    verdict         \* "new", "plan", "resolve", "done", or "refused", "empty", "shared"

shiftVars == <<shift, order, dealt, previous, pairs, skipped, resolved, verdict>>

NoWindow == [start |-> 0, end |-> 0, start_inclusive |-> FALSE, end_inclusive |-> FALSE]
NoPlan == [start |-> 0, stop |-> 0, width |-> 0, step |-> 0, reference |-> "none"]

Window == [start : Int, end : Int, start_inclusive : BOOLEAN, end_inclusive : BOOLEAN]
RollingPlan == [start : Int, stop : Int, width : Int, step : Int, reference : {"FIXED", "PREVIOUS", "EXPANDING"}]

ASSUME ShiftAssumption ==
    /\ MAX_WINDOWS \in Nat
    /\ \A keys \in SampleKeys : keys \subseteq Int
    /\ \A s \in ShiftSpecs :
           /\ s.reference \in Window /\ s.comparisons \subseteq Window /\ IsFiniteSet(s.comparisons)
           /\ s.rolling \in RollingPlan \cup {NoPlan}

HalfOpen(s, e) == [start |-> s, end |-> e, start_inclusive |-> TRUE, end_inclusive |-> FALSE]

EmptyByConstruction(w) ==
    w.start > w.end \/ (w.start = w.end /\ ~(w.start_inclusive /\ w.end_inclusive))

Holds(w, key) ==
    /\ IF w.start_inclusive THEN key >= w.start ELSE key > w.start
    /\ IF w.end_inclusive THEN key <= w.end ELSE key < w.end

SamplesIn(w) == {key \in order : Holds(w, key)}

\* A variant for the mutation tests: it forgets that two closed ends share their point.
TouchingIsBefore(a, b) == a.end < b.start \/ a.end = b.start

EndsBefore(a, b) == a.end < b.start \/ (a.end = b.start /\ ~(a.end_inclusive /\ b.start_inclusive))
Overlaps(a, b) == ~(EndsBefore(a, b) \/ EndsBefore(b, a))

Rolls == shift.rolling # NoPlan
RollingStart(i) == shift.rolling.start + i * shift.rolling.step
Candidate(i) == HalfOpen(RollingStart(i), RollingStart(i) + shift.rolling.width)
Candidates == {Candidate(i) : i \in {j \in 0 .. MAX_WINDOWS : RollingStart(j) < shift.rolling.stop}}

ValidRolling(r) ==
    /\ r.width > 0 /\ r.step > 0 /\ r.stop > r.start
    /\ r.reference = "PREVIOUS" => r.step >= r.width
    /\ r.stop - r.start <= MAX_WINDOWS * r.step

\* A specification without a reference has none to overlap with.
Compared == IF Rolls THEN Candidates ELSE shift.comparisons
Valid ==
    /\ Rolls # (shift.comparisons # {})
    /\ Rolls => ValidRolling(shift.rolling)
    /\ (shift.reference # NoWindow) = (~Rolls \/ shift.rolling.reference = "FIXED")
    /\ \A w \in shift.comparisons \union ({shift.reference} \ {NoWindow}) : ~EmptyByConstruction(w)
    /\ shift.reference # NoWindow => \A w \in Compared : ~Overlaps(shift.reference, w)

ShiftInit ==
    /\ shift \in ShiftSpecs
    /\ order \in SampleKeys
    /\ dealt = 0 /\ previous = NoWindow
    /\ pairs = <<>> /\ skipped = {} /\ resolved = {}
    /\ verdict = "new"

\* Explicit comparisons are planned at once; a rolling plan goes through its candidates.
Validate ==
    /\ verdict = "new"
    /\ verdict' = IF ~Valid THEN "refused" ELSE IF Rolls THEN "plan" ELSE "resolve"
    /\ pairs' = IF Valid /\ ~Rolls
                THEN SetToSeq({<<shift.reference, c>> : c \in shift.comparisons})
                ELSE pairs
    /\ UNCHANGED <<shift, order, dealt, previous, skipped, resolved>>

Pair(reference, w) == pairs' = Append(pairs, <<reference, w>>) /\ UNCHANGED skipped
Skip(w, reason) == skipped' = skipped \union {<<w, reason>>} /\ UNCHANGED pairs

PlanWindow ==
    /\ verdict = "plan"
    /\ RollingStart(dealt) < shift.rolling.stop
    /\ LET w == Candidate(dealt)
           r == shift.rolling
       IN /\ \/ w.end > r.stop /\ Skip(w, "PARTIAL_WINDOW")
             \/ w.end <= r.stop /\ r.reference = "FIXED" /\ Pair(shift.reference, w)
             \/ /\ w.end <= r.stop /\ r.reference = "PREVIOUS"
                /\ IF previous = NoWindow THEN Skip(w, "NO_REFERENCE") ELSE Pair(previous, w)
             \/ /\ w.end <= r.stop /\ r.reference = "EXPANDING"
                /\ IF w.start = r.start THEN Skip(w, "NO_REFERENCE") ELSE Pair(HalfOpen(r.start, w.start), w)
          /\ previous' = IF w.end <= r.stop THEN w ELSE previous
    /\ dealt' = dealt + 1
    /\ UNCHANGED <<shift, order, resolved, verdict>>

\* A variant for the mutation tests: the reference expands over the window itself.
PlanOverItself ==
    /\ verdict = "plan"
    /\ RollingStart(dealt) < shift.rolling.stop
    /\ LET w == Candidate(dealt)
       IN  IF w.end > shift.rolling.stop THEN Skip(w, "PARTIAL_WINDOW")
           ELSE Pair(HalfOpen(shift.rolling.start, w.end), w)
    /\ dealt' = dealt + 1
    /\ UNCHANGED <<shift, order, previous, resolved, verdict>>

PlanEnds ==
    /\ verdict = "plan"
    /\ RollingStart(dealt) >= shift.rolling.stop
    /\ verdict' = "resolve"
    /\ UNCHANGED <<shift, order, dealt, previous, pairs, skipped, resolved>>

\* One pair of the plan: an empty window is refused if it was declared and skipped if generated.
ResolvePair ==
    /\ verdict = "resolve" /\ pairs # <<>>
    /\ LET r == Head(pairs)[1]
           c == Head(pairs)[2]
           declared == r = shift.reference
           after == IF Len(pairs) = 1 THEN "done" ELSE "resolve"
       IN \/ /\ (SamplesIn(r) = {} /\ declared) \/ (SamplesIn(r) # {} /\ SamplesIn(c) = {} /\ ~Rolls)
             /\ verdict' = "empty" /\ UNCHANGED <<skipped, resolved>>
          \/ /\ SamplesIn(r) = {} /\ ~declared
             /\ skipped' = skipped \union {<<c, "EMPTY_REFERENCE">>}
             /\ verdict' = after /\ UNCHANGED resolved
          \/ /\ SamplesIn(r) # {} /\ SamplesIn(c) = {} /\ Rolls
             /\ skipped' = skipped \union {<<c, "EMPTY_WINDOW">>}
             /\ verdict' = after /\ UNCHANGED resolved
          \/ /\ SamplesIn(r) # {} /\ SamplesIn(c) # {}
             /\ IF SamplesIn(r) \intersect SamplesIn(c) # {}
                THEN verdict' = "shared" /\ UNCHANGED resolved
                ELSE resolved' = resolved \union {<<r, c>>} /\ verdict' = after
             /\ UNCHANGED skipped
    /\ pairs' = Tail(pairs)
    /\ UNCHANGED <<shift, order, dealt, previous>>

NothingToResolve ==
    /\ verdict = "resolve" /\ pairs = <<>>
    /\ verdict' = "done"
    /\ UNCHANGED <<shift, order, dealt, previous, pairs, skipped, resolved>>

ShiftNext == Validate \/ PlanWindow \/ PlanEnds \/ ResolvePair \/ NothingToResolve

ShiftSpec == ShiftInit /\ [][ShiftNext]_shiftVars

-----------------------------------------------------------------------------
(***************************************************************************)
(* What may be relied on when the comparison starts: no pair shares a      *)
(* sample, although only declared references were ever tested for overlap  *)
(* (the refusal in resolve is, as its comment says, never reached); every  *)
(* window the specification asks for is compared or skipped with a single  *)
(* reason; a previous or an expanding reference holds only samples of the  *)
(* past; windows that tile the ordering lose no sample up to the last      *)
(* whole window and count none twice.                                      *)
(***************************************************************************)
Asked == Compared
Fates(w) == {p \in resolved : p[2] = w} \union {s \in skipped : s[1] = w}
WindowsSound ==
    /\ verdict # "shared"
    /\ verdict = "done" =>
          /\ \A w \in Asked : Cardinality(Fates(w)) = 1
          /\ \A p \in resolved :
                /\ SamplesIn(p[1]) # {} /\ SamplesIn(p[2]) # {}
                /\ Rolls /\ shift.rolling.reference # "FIXED" =>
                      \A x \in SamplesIn(p[1]), y \in SamplesIn(p[2]) : x < y
                /\ Rolls /\ shift.rolling.reference = "EXPANDING" =>
                      SamplesIn(p[1]) = {x \in order : shift.rolling.start <= x /\ x < p[2].start}
          /\ Rolls /\ shift.rolling.step = shift.rolling.width /\ previous # NoWindow =>
                \A x \in order : x >= shift.rolling.start /\ x < previous.end =>
                    Cardinality({w \in Asked : Holds(w, x)}) = 1
=============================================================================
