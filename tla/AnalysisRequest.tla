--------------------------- MODULE AnalysisRequest ---------------------------
(***************************************************************************)
(* How the analysis engines serve a request: check it, register its        *)
(* configuration and experiment once, execute a procedure as a run that    *)
(* writes documents, records the analysis unless it is on record, observes *)
(* and claims, and look up the record to answer with.  Every engine does   *)
(* it in the same way with small differences, which Engine records name.   *)
(* Several processes make the same request at once; each may die between   *)
(* two transactions.  A run is named by the process that executes it.      *)
(***************************************************************************)
EXTENDS Integers, Sequences, FiniteSets

CONSTANTS
    Requesters,     \* processes that make one request each
    Engines,        \* the engines to consider
    MaxContent      \* how often the sources an analysis reads may change

VARIABLES
    engine,         \* the engine that is asked
    content,        \* what the sources contain, as a version
    configuration,  \* whether the ConfigurationRef is registered
    experiment,     \* "none", "DRAFT" or "READY"
    records,        \* analysis records: [key, run]
    requester       \* what each process does

requestVars == <<engine, content, configuration, experiment, records, requester>>

(***************************************************************************)
(* The engines.  asks: an existing record is looked for first.             *)
(* procedure: the steps of the run in order; "look" and "add" are a check  *)
(* and the transaction it guards, "keep" is the two in one transaction.    *)
(* key: what identifies a record besides the request.  answers: how the    *)
(* record to answer with is found.                                         *)
(***************************************************************************)
Engine(asks, procedure, key, answers) ==
    [asks |-> asks, procedure |-> procedure, key |-> key, answers |-> answers]

SpecEngine == Engine(FALSE, <<"read", "write", "write", "look", "add", "observe">>, "request", "request")
DriftEngine == SpecEngine
QualityEngine == SpecEngine
SliceEngine == SpecEngine
CalibrationEngine == SpecEngine
StressEngine == SpecEngine

ClaimingEngine == [SpecEngine EXCEPT !.procedure = Append(@, "claim")]
ReliabilityEngine == ClaimingEngine
InteractionEngine == ClaimingEngine

\* A measurement is a record of its run, and nothing else can have added it.
ResourceEngine == Engine(FALSE, <<"read", "write", "write", "add", "observe">>, "run", "run")

\* Records come first, in one transaction with their checks; the caller gets no record.
DiscoveryEngine == Engine(FALSE, <<"read", "keep", "write", "write", "observe", "claim">>, "content", "nothing")

\* Snapshots come before the documents about them and are found by what was read when asked.
GraphEngine == Engine(TRUE, <<"read", "look", "add", "write", "write", "observe", "claim">>, "content", "content")

AllEngines == {SpecEngine, ClaimingEngine, ResourceEngine, DiscoveryEngine, GraphEngine}

\* What the engines have in common: one step adds the record, sources are read before any look at the records,
\* and an engine that finds its answer by request or run adds its records under it.
Steps == {"read", "write", "look", "add", "keep", "observe", "claim"}
WellFormed(e) ==
    /\ e.procedure \in Seq(Steps)
    /\ \E k \in DOMAIN e.procedure : \A i \in DOMAIN e.procedure : e.procedure[i] \in {"add", "keep"} <=> i = k
    /\ \A i, j \in DOMAIN e.procedure : i < j /\ e.procedure[i] \in {"look", "add", "keep"} => e.procedure[j] # "read"
    /\ e.answers \in {"request", "run"} => e.key \in {"request", "run"}

ASSUME RequestAssumption == \A e \in Engines : WellFormed(e)

(***************************************************************************)
(* at: where the process is; step: steps of the procedure done; asked and  *)
(* read: the content seen when asking and when running; seen: what the     *)
(* last check found; new: the run says it added the record; run: its run;  *)
(* answer: the run whose record the caller was given.                      *)
(***************************************************************************)
Nobody == "nobody"
Fresh == [at |-> "ask", step |-> 0, asked |-> 0, read |-> 0, seen |-> FALSE, new |-> FALSE,
          run |-> "none", written |-> 0, claimed |-> FALSE, already |-> FALSE, answer |-> Nobody]

RequestInit ==
    /\ engine \in Engines
    /\ content = 0
    /\ configuration = FALSE /\ experiment = "none"
    /\ records = {}
    /\ requester = [r \in Requesters |-> Fresh]

Key(run, version) ==
    CASE engine.key = "request" -> <<>>
      [] engine.key = "run" -> <<run>>
      [] engine.key = "content" -> <<version>>

OnRecord(key) == \E x \in records : x.key = key
RecordOf(key) == CHOOSE x \in records : x.key = key

At(r, place) == requester[r].at = place
Go(r, place) == requester' = [requester EXCEPT ![r].at = place]
Raise(r) == Go(r, "ERROR")

\* A variant for the mutation tests: the caller is answered with its own run, on record or not.
FoundOwn(r) == r

\* The record a request is answered with; for a found one the run that added it.
Found(r) ==
    LET key == IF engine.answers = "content" THEN Key(r, requester[r].asked) ELSE Key(r, 0)
    IN IF engine.answers # "nothing" /\ OnRecord(key) THEN RecordOf(key).run ELSE Nobody

\* Validation reads the sources; a refusal leaves no trace.
Accept(r) ==
    /\ At(r, "ask")
    /\ requester' = [requester EXCEPT ![r].asked = content, ![r].at = IF engine.asks THEN "existing" ELSE "look configuration"]
    /\ UNCHANGED <<engine, content, configuration, experiment, records>>

RefuseRequest(r) == At(r, "ask") /\ Raise(r) /\ UNCHANGED <<engine, content, configuration, experiment, records>>

\* A graph built before is returned as it stands.
Existing(r) ==
    /\ At(r, "existing")
    /\ requester' = [requester EXCEPT
          ![r].at = IF Found(r) = Nobody THEN "look configuration" ELSE "COMPLETED",
          ![r].answer = Found(r), ![r].already = Found(r) # Nobody]
    /\ UNCHANGED <<engine, content, configuration, experiment, records>>

\* The checks and the adds they guard are transactions of their own; the second add is a DuplicateError.
LookConfiguration(r) ==
    /\ At(r, "look configuration")
    /\ Go(r, IF configuration THEN "look experiment" ELSE "add configuration")
    /\ UNCHANGED <<engine, content, configuration, experiment, records>>

AddConfiguration(r) ==
    /\ At(r, "add configuration")
    /\ configuration' = TRUE
    /\ IF configuration THEN Raise(r) ELSE Go(r, "look experiment")
    /\ UNCHANGED <<engine, content, experiment, records>>

LookExperiment(r) ==
    /\ At(r, "look experiment")
    /\ Go(r, IF experiment = "none" THEN "add experiment" ELSE "execute")
    /\ UNCHANGED <<engine, content, configuration, experiment, records>>

AddExperiment(r) ==
    /\ At(r, "add experiment")
    /\ IF experiment = "none" THEN experiment' = "DRAFT" /\ Go(r, "make ready")
       ELSE UNCHANGED experiment /\ Raise(r)
    /\ UNCHANGED <<engine, content, configuration, records>>

MakeReady(r) ==
    /\ At(r, "make ready")
    /\ experiment' = "READY"
    /\ Go(r, "execute")
    /\ UNCHANGED <<engine, content, configuration, records>>

\* The executor refuses an experiment that is still a draft.
Execute(r) ==
    /\ At(r, "execute")
    /\ IF experiment = "DRAFT" THEN Raise(r)
       ELSE requester' = [requester EXCEPT ![r].at = "run", ![r].run = "RUNNING"]
    /\ UNCHANGED <<engine, content, configuration, experiment, records>>

-----------------------------------------------------------------------------
\* The procedure.

AtStep(r, name) ==
    /\ At(r, "run")
    /\ requester[r].step < Len(engine.procedure)
    /\ engine.procedure[requester[r].step + 1] = name

\* The step is done, and the process is as given besides.
Step(r, job) == requester' = [requester EXCEPT ![r] = [job EXCEPT !.step = @ + 1]]

ReadSources(r) ==
    /\ AtStep(r, "read") /\ Step(r, [requester[r] EXCEPT !.read = content])
    /\ UNCHANGED <<engine, content, configuration, experiment, records>>

WriteDocument(r) ==
    /\ AtStep(r, "write") /\ Step(r, [requester[r] EXCEPT !.written = @ + 1])
    /\ UNCHANGED <<engine, content, configuration, experiment, records>>

RunFails(r) == requester' = [requester EXCEPT ![r].run = "FAILED", ![r].at = "answer"]

OwnKey(r) == Key(r, requester[r].read)

LookForRecord(r) ==
    /\ AtStep(r, "look") /\ Step(r, [requester[r] EXCEPT !.seen = OnRecord(OwnKey(r))])
    /\ UNCHANGED <<engine, content, configuration, experiment, records>>

\* The record and everything that hangs on it, unless the check saw one; the second of two is refused.
AddRecord(r) ==
    /\ AtStep(r, "add")
    /\ IF requester[r].seen THEN Step(r, [requester[r] EXCEPT !.new = FALSE]) /\ UNCHANGED records
       ELSE IF OnRecord(OwnKey(r)) THEN RunFails(r) /\ UNCHANGED records
       ELSE records' = records \union {[key |-> OwnKey(r), run |-> r]} /\ Step(r, [requester[r] EXCEPT !.new = TRUE])
    /\ UNCHANGED <<engine, content, configuration, experiment>>

KeepRecord(r) ==
    /\ AtStep(r, "keep")
    /\ Step(r, [requester[r] EXCEPT !.new = ~OnRecord(OwnKey(r))])
    /\ records' = IF OnRecord(OwnKey(r)) THEN records ELSE records \union {[key |-> OwnKey(r), run |-> r]}
    /\ UNCHANGED <<engine, content, configuration, experiment>>

Observe(r) ==
    /\ AtStep(r, "observe") /\ Step(r, [requester[r] EXCEPT !.seen = FALSE])
    /\ UNCHANGED <<engine, content, configuration, experiment, records>>

Claim(r) ==
    /\ AtStep(r, "claim") /\ Step(r, [requester[r] EXCEPT !.claimed = TRUE])
    /\ UNCHANGED <<engine, content, configuration, experiment, records>>

\* Any step of the procedure may raise: a source that changed, a full disk, a lock timeout.
ProcedureRaises(r) ==
    At(r, "run") /\ RunFails(r) /\ UNCHANGED <<engine, content, configuration, experiment, records>>

ProcedureReturns(r) ==
    /\ At(r, "run") /\ requester[r].step = Len(engine.procedure)
    /\ requester' = [requester EXCEPT ![r].run = "COMPLETED", ![r].at = "answer"]
    /\ UNCHANGED <<engine, content, configuration, experiment, records>>

\* The status is that of the own run, the record whichever is found now.
Answer(r) ==
    /\ At(r, "answer")
    /\ requester' = [requester EXCEPT ![r].at = requester[r].run, ![r].answer = Found(r)]
    /\ UNCHANGED <<engine, content, configuration, experiment, records>>

-----------------------------------------------------------------------------
Ended == {"COMPLETED", "FAILED", "ERROR", "DIED"}

Die(r) ==
    /\ requester[r].at \notin Ended
    /\ Go(r, "DIED")
    /\ UNCHANGED <<engine, content, configuration, experiment, records>>

\* Others register models, runs and evidence meanwhile.
SourcesChange ==
    /\ content < MaxContent
    /\ content' = content + 1
    /\ UNCHANGED <<engine, configuration, experiment, records, requester>>

RequestNext ==
    \/ \E r \in Requesters :
          \/ Accept(r) \/ RefuseRequest(r) \/ Existing(r)
          \/ LookConfiguration(r) \/ AddConfiguration(r)
          \/ LookExperiment(r) \/ AddExperiment(r) \/ MakeReady(r) \/ Execute(r)
          \/ ReadSources(r) \/ WriteDocument(r) \/ LookForRecord(r) \/ AddRecord(r) \/ KeepRecord(r)
          \/ Observe(r) \/ Claim(r) \/ ProcedureRaises(r) \/ ProcedureReturns(r)
          \/ Answer(r) \/ Die(r)
    \/ SourcesChange

RequestSpec == RequestInit /\ [][RequestNext]_requestVars

-----------------------------------------------------------------------------
AllDocuments == Cardinality({i \in DOMAIN engine.procedure : engine.procedure[i] = "write"})
RecordsFirst == \E i, j \in DOMAIN engine.procedure : i < j /\ engine.procedure[i] \in {"add", "keep"} /\ engine.procedure[j] = "write"
Claims == \E i \in DOMAIN engine.procedure : engine.procedure[i] = "claim"

\* Of one key there is one record, whoever asks at once; and a record whose engine writes its
\* documents first has them all, whatever became of its run.
RecordStands ==
    \A x \in records :
        /\ \A y \in records : x.key = y.key => x = y
        /\ requester[x.run].written = AllDocuments \/ (RecordsFirst /\ requester[x.run].run # "COMPLETED")

(***************************************************************************)
(* A caller whose run is COMPLETED can rely on it: the run wrote and       *)
(* claimed all it should, what it read is on record, it says that it added *)
(* the record exactly when it did, and the caller is given that record.    *)
(* Whatever a caller is told, a record it is given exists, and a run was   *)
(* never executed for an experiment that is still a draft.                 *)
(***************************************************************************)
AnswerStands ==
    \A r \in Requesters :
        LET me == requester[r] IN
        /\ me.at = "COMPLETED" /\ ~me.already =>
              /\ me.run = "COMPLETED" /\ me.written = AllDocuments /\ me.claimed = Claims
              /\ OnRecord(OwnKey(r))
              /\ me.new <=> RecordOf(OwnKey(r)).run = r
              /\ engine.answers \in {"request", "run"} => me.answer = RecordOf(OwnKey(r)).run
        /\ me.answer # Nobody => \E x \in records : x.run = me.answer
        /\ me.at \in {"run", "answer", "COMPLETED", "FAILED"} /\ ~me.already => experiment = "READY"

\* Both: of what is on record, and of what callers are told of it.
RequestSound == RecordStands /\ AnswerStands

(***************************************************************************)
(* docs/graph.md:128-134 says that a snapshot carries the provenance of a  *)
(* run, with artifacts and a claim backed by them, and that a second call  *)
(* returns it: a snapshot returned as built already is, once its builder   *)
(* is no longer at work, one whose documents and claim are on record.      *)
(***************************************************************************)
ReusedIsDocumented ==
    \A r \in Requesters :
        requester[r].already =>
            LET by == requester[requester[r].answer]
            IN by.at \in Ended => by.written = AllDocuments /\ by.claimed
=============================================================================
