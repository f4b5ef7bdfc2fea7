------------------------- MODULE ResourceMeasurement -------------------------
(***************************************************************************)
(* A resource measurement: timed passes over one workload, some for warm-  *)
(* up and some measured.  A pass calls the model on each batch in turn, or *)
(* hands all batches to a pool of threads; its timeout is cooperative.     *)
(* The clock counts from the beginning of the pass.                        *)
(***************************************************************************)
EXTENDS Integers, Sequences, FiniteSets, Listing

CONSTANTS
    Samples,        \* the split has samples 0 .. Samples - 1
    Specs,          \* [workers, timeout, batch_size, n_samples, members, warmups, repeats]; 0 for none
    ThreadSafe,     \* the adapter declares thread-safe inference
    Resolution,     \* of the timer
    MinTrials,
    MaxElapsed      \* bound of the model: ticks in a pass

Measurement ==
    [workers : Nat \ {0}, timeout : Nat, batch_size : Nat \ {0}, n_samples : Nat, members : SUBSET Nat,
     warmups : Nat, repeats : Nat \ {0}]

ASSUME ResourceAssumption == Samples \in Nat /\ Specs \subseteq Measurement /\ MinTrials \in Nat

VARIABLES
    measurement,       \* the request
    work,       \* the batches: sequences of samples
    pass,       \* where the current pass is
    elapsed,    \* the clock
    call,       \* of each batch: [state, ok, end]
    asked,      \* futures the loop that cancels them has gone through
    trials,     \* the records of the passes made
    analysis    \* what is recorded in the end

resourceVars == <<measurement, work, pass, elapsed, call, asked, trials, analysis>>

Waiting == [state |-> "waiting", ok |-> FALSE, end |-> 0]

ResourceInit ==
    /\ measurement \in Specs
    /\ work = <<>> /\ pass = "request" /\ elapsed = 0 /\ call = <<>> /\ asked = 0 /\ trials = <<>>
    /\ analysis = "none"

-----------------------------------------------------------------------------
\* Before anything is timed.

Unavailable ==
    \/ measurement.workers > 1 /\ ~ThreadSafe
    \/ measurement.timeout # 0 /\ measurement.timeout <= Resolution

\* The dataset's own batches, thinned to the subset and cut at n_samples; an empty one is dropped.
Batch(i) == {s \in 0..(Samples - 1) : (i - 1) * measurement.batch_size <= s /\ s < i * measurement.batch_size}
MembersIn(i) == InOrder(Batch(i) \cap measurement.members)
NBatches == (Samples + measurement.batch_size - 1) \div measurement.batch_size

Cut(seq, total) ==
    IF measurement.n_samples # 0 /\ total + Len(seq) > measurement.n_samples
    THEN SubSeq(seq, 1, measurement.n_samples - total)
    ELSE seq

Materialized ==
    LET upTo[i \in 0..NBatches] ==
            IF i = 0 THEN [batches |-> <<>>, total |-> 0]
            ELSE LET seq == Cut(MembersIn(i), upTo[i - 1].total)
                 IN IF seq = <<>> THEN upTo[i - 1]
                    ELSE [batches |-> Append(upTo[i - 1].batches, seq), total |-> upTo[i - 1].total + Len(seq)]
    IN upTo[NBatches].batches

Prepare ==
    /\ pass = "request"
    /\ IF Unavailable \/ Materialized = <<>>
       THEN pass' = "refused" /\ UNCHANGED work
       ELSE pass' = "between" /\ work' = Materialized
    /\ UNCHANGED <<measurement, elapsed, call, asked, trials, analysis>>

-----------------------------------------------------------------------------
\* One pass.

Timed == measurement.timeout # 0
OnTime(c) == ~Timed \/ c.end <= measurement.timeout
EndedCalls == {i \in DOMAIN call : call[i].state = "ended"}
RunningCalls == {i \in DOMAIN call : call[i].state = "running"}
QueuedCalls == {i \in DOMAIN call : call[i].state = "waiting"}

BeginPass ==
    /\ pass = "between" /\ Len(trials) < measurement.warmups + measurement.repeats
    /\ pass' = "run" /\ elapsed' = 0 /\ asked' = 0
    /\ call' = [i \in DOMAIN work |-> Waiting]
    /\ UNCHANGED <<measurement, work, trials, analysis>>

\* Without a pool, the loop ends with the first call that failed or came late.
LoopGoesOn == \A i \in EndedCalls : call[i].ok /\ OnTime(call[i])

StartCall(i) ==
    /\ pass \in {"run", "cancel", "drain"}
    /\ i \in QueuedCalls /\ \A j \in QueuedCalls : i <= j
    /\ Cardinality(RunningCalls) < measurement.workers
    /\ measurement.workers = 1 => LoopGoesOn
    /\ call' = [call EXCEPT ![i].state = "running"]
    /\ UNCHANGED <<measurement, work, pass, elapsed, asked, trials, analysis>>

EndCall(i) ==
    /\ i \in RunningCalls
    /\ \E ok \in BOOLEAN : call' = [call EXCEPT ![i] = [state |-> "ended", ok |-> ok, end |-> elapsed]]
    /\ UNCHANGED <<measurement, work, pass, elapsed, asked, trials, analysis>>

\* Time goes by from the beginning of a pass to its record.
Tick ==
    /\ pass \in {"run", "cancel", "drain"} /\ elapsed < MaxElapsed
    /\ elapsed' = elapsed + 1
    /\ UNCHANGED <<measurement, work, pass, call, asked, trials, analysis>>

\* as_completed: every future is done, or the time is up and the futures are cancelled one by one.
AllCompleted ==
    /\ pass = "run" /\ measurement.workers > 1 /\ EndedCalls = DOMAIN call
    /\ pass' = "drain"
    /\ UNCHANGED <<measurement, work, elapsed, call, asked, trials, analysis>>

TimeIsUp ==
    /\ pass = "run" /\ measurement.workers > 1 /\ Timed /\ elapsed >= measurement.timeout /\ EndedCalls # DOMAIN call
    /\ pass' = "cancel"
    /\ UNCHANGED <<measurement, work, elapsed, call, asked, trials, analysis>>

CancelNext ==
    /\ pass = "cancel"
    /\ IF asked = Len(call)
       THEN pass' = "drain" /\ UNCHANGED <<call, asked>>
       ELSE /\ asked' = asked + 1 /\ UNCHANGED pass
            /\ call' = IF asked + 1 \in QueuedCalls THEN [call EXCEPT ![asked + 1].state = "cancelled"] ELSE call
    /\ UNCHANGED <<measurement, work, elapsed, trials, analysis>>

\* The pool is shut down waiting for its threads; the loop has nothing more to call.
NotDrained ==
    IF measurement.workers > 1 THEN pass = "drain" /\ EndedCalls # {}
    ELSE pass = "run" /\ RunningCalls = {} /\ (QueuedCalls = {} \/ ~LoopGoesOn)
Drained ==
    /\ RunningCalls = {}
    /\ IF measurement.workers > 1 THEN pass = "drain" /\ QueuedCalls = {}
       ELSE pass = "run" /\ (QueuedCalls = {} \/ ~LoopGoesOn)

SamplesOf(batches) == LET upTo[i \in 0..Len(work)] ==
                        IF i = 0 THEN 0 ELSE upTo[i - 1] + (IF i \in batches THEN Len(work[i]) ELSE 0)
                IN upTo[Len(work)]

FailedCalls == {i \in EndedCalls : ~call[i].ok}
LateCalls == {i \in EndedCalls : call[i].ok /\ ~OnTime(call[i])}
GoodCalls == {i \in EndedCalls : call[i].ok /\ OnTime(call[i])}
CancelledCalls == {i \in DOMAIN call : call[i].state = "cancelled"}
Planned == SamplesOf(DOMAIN work)

\* A failure outweighs a timeout.
CancelledForgotten ==
    IF FailedCalls # {} THEN "FAILED"
    ELSE IF LateCalls # {} \/ (Timed /\ elapsed > measurement.timeout) THEN "TIMED_OUT"
    ELSE "COMPLETED"
PassStatus ==
    IF FailedCalls # {} THEN "FAILED"
    ELSE IF LateCalls # {} \/ CancelledCalls # {} \/ (Timed /\ elapsed > measurement.timeout) THEN "TIMED_OUT"
    ELSE "COMPLETED"

RecordPass ==
    /\ Drained
    /\ pass' = "between"
    /\ trials' = Append(trials,
         [phase |-> IF Len(trials) < measurement.warmups THEN "WARMUP" ELSE "MEASURED", status |-> PassStatus,
          completed |-> SamplesOf(GoodCalls), failed |-> SamplesOf(FailedCalls), late |-> SamplesOf(LateCalls),
          not_attempted |-> Planned - SamplesOf(EndedCalls)])
    /\ UNCHANGED <<measurement, work, elapsed, call, asked, analysis>>

-----------------------------------------------------------------------------
\* The documents and the record of the analysis.

UsedTrials == {i \in DOMAIN trials : trials[i].phase = "MEASURED" /\ trials[i].status = "COMPLETED"}
EnoughTrials == Cardinality(UsedTrials) >= MinTrials

Conclude ==
    /\ pass = "between" /\ Len(trials) = measurement.warmups + measurement.repeats
    /\ pass' = "concluded"
    /\ analysis' = [status |->   IF Cardinality(UsedTrials) # measurement.repeats \/ ~EnoughTrials
                                 THEN "PARTIAL" ELSE "COMPLETE",
                    evidence |-> IF UsedTrials # {} /\ EnoughTrials THEN "MEASURED" ELSE "INSUFFICIENT_EVIDENCE"]
    /\ UNCHANGED <<measurement, work, elapsed, call, asked, trials>>

ResourceNext ==
    \/ Prepare \/ BeginPass \/ Tick \/ AllCompleted \/ TimeIsUp \/ CancelNext \/ RecordPass \/ Conclude
    \/ \E i \in DOMAIN call : StartCall(i) \/ EndCall(i)

ResourceSpec == ResourceInit /\ [][ResourceNext]_resourceVars

-----------------------------------------------------------------------------
\* What a measurement says is what was measured.  The workload is the first n_samples members of the
\* subset, in order.  When a pass is recorded nothing of it still runs; it is COMPLETED exactly if every
\* batch was answered in time, TIMED_OUT only if its time was up, and each sample is counted once,
\* as not attempted if its call never began.  Without a pool nothing is called after a failure or a
\* late answer.  Only measured passes that completed make an analysis COMPLETE or MEASURED.
FirstMembers ==
    LET in == InOrder((0..(Samples - 1)) \cap measurement.members)
        n == measurement.n_samples
    IN IF n = 0 \/ n > Len(in) THEN in ELSE SubSeq(in, 1, n)
AllSamples == LET upTo[i \in 0..Len(work)] == IF i = 0 THEN <<>> ELSE upTo[i - 1] \o work[i] IN upTo[Len(work)]
OutOfTime == Timed /\ elapsed > measurement.timeout

PassIsHonest(t) ==
    /\ RunningCalls = {}
    /\ t.status = "COMPLETED" <=> GoodCalls = DOMAIN work /\ ~OutOfTime
    /\ t.status = "FAILED" <=> \E i \in EndedCalls : ~call[i].ok
    /\ t.status = "TIMED_OUT" => Timed /\ elapsed >= measurement.timeout
    /\ t.completed + t.failed + t.late + t.not_attempted = Planned
    /\ t.not_attempted = SamplesOf({i \in DOMAIN work : call[i].state \in {"waiting", "cancelled"}})
    /\ measurement.workers = 1 => /\ EndedCalls = 1..Cardinality(EndedCalls)
                           /\ \A i \in EndedCalls : i \in GoodCalls \/ i = Cardinality(EndedCalls)

MeasurementHonest ==
    /\ pass \notin {"request", "refused"} => AllSamples = FirstMembers /\ \A i \in DOMAIN work : work[i] # <<>>
    /\ pass = "between" /\ trials # <<>> => PassIsHonest(trials[Len(trials)])
    /\ pass = "concluded" =>
          LET measured == {i \in DOMAIN trials : i > measurement.warmups}
              complete == {i \in measured : trials[i].completed = Planned /\ trials[i].status = "COMPLETED"}
          IN /\ analysis.status = "COMPLETE" <=> complete = measured /\ Cardinality(complete) >= MinTrials
             /\ analysis.evidence = "MEASURED" <=> complete # {} /\ Cardinality(complete) >= MinTrials
==============================================================================
