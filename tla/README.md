# EXPERIONYX: specifications, model checking and proofs

EXPERIONYX (`src/src/experionyx`) is a Python platform for ML reliability experiments. It records
everything (investigations, experiments, runs, evidence, analyses, schedules) as immutable,
content-addressed entities in an SQLite registry, executes procedures as *runs* with provenance,
derives analyses from recorded runs, and orchestrates them with a DAG scheduler. This directory
specifies its core in TLA+, checks the specifications with TLC and proves the main invariants with
TLAPS. Paths below are relative to `src/src/experionyx/` unless they start with `docs/` or `tests/`.

## 1. Inventory

| Component | State it keeps | Operations | What is hard |
|---|---|---|---|
| **Scheduler orchestrator** `scheduler/engine.py` | per invocation: a status view, futures, running memory, primary refs; persisted: unit statuses, attempts, transitions, runs | materialize, run_schedule (recover, propagate, admit, dispatch, finish, timeout, cancel), cancel_schedule, retry_unit | threads, timeouts with late answers, crashes between transactions, other processes writing the same rows |
| **Schedule expansion** `scheduler/graph.py`, `spec.py` | none (pure) | expand: Kahn's algorithm with (-priority, key) tie-break | cycles, determinism |
| **Unit dispatch** `scheduler/dispatch.py` | none | substitute `{{key}}` placeholders, call the engine of the unit's kind | needs the ref of every dependency |
| **SQLite registry** `sqlite.py`, `registry.py` | every table; status columns are the only mutable ones | open, migrate, transaction, add, update_status, get, find | lock timeouts, commit failure, nested transactions, crash during a migration |
| **Run executor** `execution.py`, `artifacts.py`, `provenance.py` | runs with provenance, evidence, outcome; files on disk | execute, replay, recover_interrupted, register/verify artifacts | dead processes, reused pids, files that change after registration |
| **Failure modes** `failures/` | signals, clusters, modes with a status, evidence | discover, reproduce, confirm, change_status | idempotent discovery; evidence read before the transition it allows; union-find over a bounded number of comparisons |
| **Interactions** `interactions/` | analyses with a status, evidence | analyze, check_reproduction, confirm_by_review, change_status | as above |
| **Fault laboratory** `faults/` | fault experiments with a status, trials, analyses | run_fault_experiment | processes that share a baseline, or die between trials |
| **Stress engine** `stress/` | stress analyses over fault experiments or runs | run_stress, sweep, replay | trials matched to units over several experiments of which some fail |
| **Benchmark and leaderboard** `benchmark/`, `leaderboard/` | protocols, results, submissions, snapshots and entries | run_benchmark, submit, build_snapshot | check-then-add in several transactions; a snapshot and its entries |
| **Reproducibility** `reproducibility/` | numbered attempts | run_reproduction, classification | numbering across processes; what a replay cannot read |
| **Knowledge graph** `graph/` | snapshots of nodes and edges | build, bounded traversals, diff | bounds and the truncation flag; snapshot committed before its documents |
| **Analysis engines** `drift/`, `data_quality/`, `slices/`, `calibration/`, `resources/`, `reliability/`, ... | one analysis row and its records, added in one transaction | refuse or run, compute, record, answer | equal requests at once; deaths between transactions; sources that change while they are read |
| **Evaluation** `evaluation/` | one run's files, observations and claims | evaluate: check, read the samples, measure, apply the rules, record | which samples and which rows belong together; what a claim rests on |
| **Reports and dossiers** `reporting/`, `dossier/` | reports, dossiers, items, findings, snapshots | generate, build, snapshot | evidence recorded while it is collected; assembling again over the same digest |
| **HTTP API** `api/` | none | read-only routes | order of routes, ids checked late or not at all |
| **Command line** `cli.py` | none | one command per operation above | several steps, each with its own way to end, and one exit status |
| **Adapters** `adapters/` | none | bindings to ML frameworks | none to model |

Interactions. Everything meets in the registry: each engine and each pool thread opens its own
connection, a transaction takes the write lock up front (BEGIN IMMEDIATE), and a status moves only
along the table of its entity, checked against the row at that moment (`sqlite.py`, update_status).
The scheduler calls the other engines through dispatch, on pool threads; those call the executor,
which calls a procedure. A benchmark calls the fault laboratory and the interaction, failure and
profile engines; the stress engine hands its plan to the fault laboratory; profiles, graphs,
reports and dossiers read what the others recorded. Operators act through CLI commands that are
processes of their own; the API reads with one connection per request.

What makes each component correct:

* scheduler: no unit starts before its dependencies succeeded; a success is backed by a recorded
  attempt; retry budgets hold over crashes; a late answer of a timed-out dispatch counts for
  nothing; exclusive and memory limits hold without starving what could run; every run is closed;
  every status change is on the audit record.
* expansion: exactly the cyclic specs are refused, and equal specs give equal plans.
* executor: a run finishes once, its outcome tells all recorded evidence, no recovery closes a run
  in flight, a COMPLETED run's artifacts are intact.
* registry: the file is always of a whole version, and transactions are all-or-nothing.
* lifecycles: a status is reached only through the evidence it requires, and every move is recorded.
* laboratory, stress, benchmark: what ended is whole, COMPLETE is earned, failures are accounted for.
* leaderboard, reproducibility: an entry says what the attempts on record support; attempts are a log.
* graph: a traversal that left something out says so, and "no path" means that there is none.
* evaluation: every sample is measured or excluded for a stated reason, and a claim rests on observations and
  files that are recorded.
* analyses: one record per request, backed by documents and claims; a verdict (passed, reproduced,
  comparable) never better than the data and evidence it was taken from.
* CLI and API: an exit status or HTTP status means what the documentation says it does.

`PROJECT.json` lists every hazard at its line with the properties that cover it.

## 2. Modules

```
UnitStates           status tables of units, runs, failure categories   (scheduler/taxonomy.py, entities.py)
  ScheduleContract   what the scheduler promises to readers of the registry   (abstract)
  ScheduleRegistry   the scheduler's tables and the transactions on them   (sqlite.py)
    Scheduler        coordinator, thread pool, operator commands, crash   (scheduler/engine.py)
      SchedulerProperties   properties, inductive invariant, fairness
        MCScheduler         instances for TLC
        SchedulerProofs     theorems: order, evidence, refinement; resources, attempts, the audit record
Executor             threads of processes that execute, replay and recover runs   (execution.py)
  ExecutorProperties properties, inductive invariant; INSTANCEs RunContract
    MCExecutor       two processes
    ExecutorProofs   theorems
RunContract          what the executor promises to readers of the registry   (abstract)

RegistryFile         opening, migrating and writing the database file   (sqlite.py)      RegistryProofs
FaultLaboratory      run_fault_experiment   (faults/lab.py)                              LaboratoryProofs
FailureLifecycle     reproduce, confirm, change_status   (failures/lifecycle.py)         RecordProofs
InteractionLifecycle checks and reviews   (interactions/lifecycle.py)                    RecordProofs
Leaderboard          submissions, snapshots, attempts   (leaderboard/, reproducibility/) RecordProofs
  EvidenceLog        what attempts promise: a log   (abstract, refined by Leaderboard)
    MCRecords        the five above side by side

PlanExpansion        Kahn's algorithm step by step   (scheduler/graph.py)                AnalysisProofs
Listing              the members of a set of numbers in ascending order
  GraphTraversal     bounded searches   (graph/query.py)                                 AnalysisProofs
  ResourceMeasurement  timed passes over a thread pool   (resources/engine.py)           LaboratoryProofs
  StressExperiment   plan, trials, aggregation   (stress/)                               LaboratoryProofs
  QualityChecks      thirteen checks on tables and slices   (data_quality/checks.py)     QualityProofs
ReplayVerdict        the outcome of a reproduction   (reproducibility/engine.py)         AnalysisProofs
FailureClustering    comparison budget and union-find   (failures/analysis.py)           AnalysisProofs
BenchmarkRun         run_benchmark and its coverage   (benchmark/)                       LaboratoryProofs
AnalysisRequest      how the engines serve a request   (drift, slices, quality, ..., graph/engine.py)   EngineProofs
ShiftWindows         the windows of a drift analysis   (drift/spec.py)                   AnalysisProofs
ReliabilityProfile   a profile over sources that go on changing   (reliability/builder.py)   EngineProofs
EvidenceDossier      reports, dossiers, snapshots   (reporting/, dossier/)               RegistryProofs
Evaluation           samples, measurements, findings and their record   (evaluation/)    EngineProofs
  MCEvaluation       requests to evaluate
CommandLine          the steps and exit statuses of every command   (cli.py)
HttpApi              routes, checks and statuses   (api/)
  MCAnalyses         the fifteen above side by side
```

The modules of MCRecords share no state, nor do those of MCAnalyses. To keep the number of runs to
the number of questions, each of these two has a variable `part`: a behaviour picks one part in its initial
state and the others stand still in a single state. What is checked of a part is exactly what a
run of its own would check.

Definitions named with a variant of another one (for example `SuccessFirst` before `SuccessWrites`,
`AnalyzingLate` before `Analyzing`) are plausible wrong versions: the mutation tests listed
in `PROJECT.json` put them in place of the right ones to show that a property notices.

### Scheduler

State and code: `status`, `attempts`, `log`, `runs` are the database rows; `mem` is `status` in
`_Bookkeeping`, the coordinator's own view; `refs` its `primary_refs`; `futures`, `queue` and
`active` are the futures dictionary and the `ThreadPoolExecutor`; `runningMemory`,
`runningExclusive`, `cancelEvent` are the locals of `run_schedule`.

A handler of the coordinator (finish, timeout, recovery, propagation, admission, cancel) decides
once, from memory, and then commits several transactions one after the other. The model keeps that
shape: the decision (`Finish`, `Expire`, `Recover`, `Propagate`, `Dispatch`, `CancelOpen`) fills
`agenda` with the writes to make, and `WriteAttempt` and `WriteMove` commit them one at a time, so
a crash, a pool thread or an operator's transaction can come between any two of them. A write the
registry refuses (`WriteRefused`) ends the invocation with an exception, as in the code.

The pool is bounded by `MaxWorkers` threads. A dispatch that times out leaves `futures` but its job
stays in `active` or `queue` and may answer later (`ThreadAnswers`), to a future nobody holds.

Operators: `CancelCommand` and `RetryCommand` read first and then write one transaction per unit
(`OpRead`, `OpNext`, `OpWrite`), racing with the coordinator.

Abstractions: time is a choice of which timed futures are overdue; retry back-off, logging and the
content of answers are left out (an answer is OK or a failure category); a lock timeout of the
registry ends the invocation just as `Crash` does; one orchestrator per schedule, as
`docs/scheduler.md:126` assumes, and one operator command at a time. Exclusive and memory limits
are about what the coordinator counts as running: the thread of a timed-out dispatch is outside
them, in the code as in the model.

### PlanExpansion

`_topological_order` step by step: `Place` moves the best available key to the plan and releases
its dependents; `Expand` and `Refuse` are its two exits. `Deps` and `Priority` are chosen in the initial
state, so one run covers every dependency relation over its keys.

### Executor

`runs` flattens Run, Provenance, Observation/Artifact rows and RunOutcome into one record per run,
`files` is what is on disk, `pid` is the process table. One action per registry transaction and per
file operation. `pc` runs over the phases of `execute` (create, start, procedure, verify, diagnose, commit)
and of `recover_interrupted` (recover, close). The procedure is the environment: it observes,
writes files, registers artifacts, returns or raises at will. `Die` kills a process with its threads at any point, `Boot`
brings one up under any free pid. `LockTimeouts` lets finalization fail because the database is
locked; `Accepts` is `_check_outcome` with the uniqueness of the outcome.

Abstractions: content digests are the contents; a run is its number; the environment, source state
and bound inputs of the provenance, and the JSON mirrors of records, are left out.

### Records

*RegistryFile.* `file` is what is on disk (version, tables, which payloads were rewritten,
records), `lock` the write lock, `backups` the copies, `conn` each process's connection: how far it
has opened the file, the version it found, the transaction it is in with its nesting depth. An
exception may leave one nesting level (`ExceptionLeaves`), a COMMIT may raise and leave its
transaction open, a process may die anywhere, and the backup is copied while others work.

*FaultLaboratory.* `control`, `experiment`, `trial`, `analyzed` are the rows by baseline, `lab` what
each process does. One action per transaction or run; a run is only its outcome (Executor has the
rest). Processes may share a baseline, and an interrupted one may be started again.

*FailureLifecycle, InteractionLifecycle.* A command is a read (`ReadFor...`), steps that replay or
find evidence, and a commit (`CommitMove`, `CommitStatus`, `CommitCheck`) against the status of that
moment, as `update_status` and the callers' checks have it. `trail` is the TRANSITION evidence.

*Leaderboard.* `submissions`, `snapshots`, `entries`, `attempts` are tables; every query and every add of
`submit`, `build_snapshot` and `run_reproduction` is a step, and adding an existing identity is
refused. `reproducibility_state` is a function of the recorded attempts.

### Analyses

*GraphTraversal, FailureClustering, PlanExpansion* are loops over small structures chosen in the
initial state, one step per iteration: queue, visited set and `truncated` flag; the budget of
comparisons and the union-find with path halving; indegrees and the available list.

*ReplayVerdict* reads a target's documents one by one through the `replay_check` of the engine that owns
it, then recompares within the request's tolerance, then classifies. The documents of a SCHEDULE are its
units: they are compared however the schedule ended, `differences` lists every unit that differs, and the
verdict (`deterministic`) leaves out those in `resource_keys`, the RESOURCE units. *BenchmarkRun* runs grids, cells and
stages in order, each of which may fail, in two processes at once, and then collects.

*AnalysisRequest* is the shape eleven engines share: validate, register configuration and
experiment, execute, look for a record, add it, write documents, claim, answer. An `Engine` record
names where they differ: what identifies a record (the request, its run, or the content it read), whether
documents come before the record, whether it claims, whether an existing record is looked for
before running. Five such records stand for the eleven engines.

*ShiftWindows* follows `ShiftSpec` validation, the plan of pairs, and resolution against the
samples, on integer orderings with open and closed ends. *ResourceMeasurement* has batches, pool
threads, a coarse clock and cooperative cancellation. *StressExperiment* goes from the plan to units, to
trials over one to three fault experiments or own runs, to cells, partial failures, discovery and
interactions. *QualityChecks* evaluates each check on small tables whose cells are numbers, missing,
infinite or words, and on slices of them. *ReliabilityProfile* reads its sources one row at a time
while modes and interactions move. *EvidenceDossier* collects kind by kind while others record.

*Evaluation* takes the samples one at a time (`TakeSample` keeps one, excludes it or fails), then registers files one
by one, records the observations, and makes the claims one by one, each with its evidence piece by piece. Numbers are integers and rates percentages, so that a
comparison of quotients is one of products; one metric stands for all that are available together; intervals
are left out; a row of probabilities has the width of the declared classes; the order of the rules, and of the
evidence of one claim, is by kind.

*CommandLine.* A command is a sequence of steps, each of which calls a part above: `open`, `spec`, `read`,
`check`, `execute`, `request`, `move`, ... A command with several ways to go is several sequences of
one name. `LookUp`, `Keep`, `Run`, `RequestAnalysis`, `RunBenchmark`, ... take one step with the
outcomes its module allows; `RefuseDesign`, `RefuseCommand` and `RaiseOther` end the command at a step, leaving what
that step may leave (`Leaves`); `ReachEnd` computes the exit status. *HttpApi.* A route is a path and the
steps of its handler. `Dispatch` picks the first route that matches; each step answers or goes on.

## 3. Runs

| Run | Question | Bounds |
|---|---|---|
| SchedulerCrash | do evidence, retry budgets, the audit chain survive crashes? | c needs a and b; a FIXED 2 attempts with a timeout; 2 workers; 3 invocations, crash anywhere |
| SchedulerResources | limits, no starvation, one answer per dispatch, every run ends (fair) | 4 independent timed units, one exclusive, one above the memory budget, 2 workers, 1 invocation |
| SchedulerOperator | do cancel and retry, racing with a coordinator that crashes, keep the contract? | 2 units in a chain, 2 commands, 2 invocations, crash, cancel_event |
| Executor | lifecycle, evidence, recovery, replay | 2 processes with a thread each, 2 pids, 2 runs, 1 file with 2 contents |
| Records | does what is on record support what is claimed from it? | below |
| Analyses | does a result deserve what it claims? | below; 1,274,153 states, about two minutes |
| SchedulerStarved | *violated*: every run ends | 1 worker, one timed unit that may hang, independent others |
| SchedulerRecovery | *violated*: recovery grants an attempt | as SchedulerCrash, on a chain |
| SchedulerCancelled | *violated*: a cancelled run leaves nothing open | cancel_event at any point |
| SchedulerAudit | *violated*: nothing changes status silently | one cancel command |
| ReplayShape | *violated*: a replay without a difference is EQUAL | one resource and one drift analysis, two documents |
| GraphReuse | *violated*: a reused record has its documents and claim | two processes, every kind of engine |

Why the bounds of the scheduler and the executor are enough: the properties relate at most a unit,
its dependencies and a rival for the same worker or budget, so three or four units hold every shape
(join, chain, independent); two attempts are one more than a first; three invocations let recovery
itself be interrupted and then observed. For the executor, a replay and its original, or a dead run
and a live one under its reused pid, are two runs.

Parts of **Records** (`SYMMETRY SameProcesses`: two callers, and two builders, may trade places; no
property names a process, and the temporal properties checked are step properties and a refinement that do
not either):

| Part | Properties | Bounds |
|---|---|---|
| board | EvidenceSupportsSnapshot, MissingOnlyByItsBuilder, ImplementsEvidenceLog | 2 results, 1 submitter, 2 reproducers with up to 2 attempts on one result, 2 builders, 2 sets of rules |
| failures | ConfirmedOnEvidence, EveryMoveOnRecord | 2 modes, 2 callers, 2 runs per reproduction, up to 2 reproductions |
| interactions | ReproducedIndependently | 2 analyses of one structure, 2 reviewers, a tolerance that admits one direction only |
| laboratory | EndedExperimentIsWhole | 2 baselines, 2 processes, 3 trials, 1 failure allowed |
| file | AllOrNothing | 2 processes, versions 0 to 3 of which two rewrite payloads, 2 records, nesting 2 |

Parts of **Analyses** (no symmetry: comparing the states under it costs more than it saves):

| Part | Properties | Bounds |
|---|---|---|
| traversal | TraversalHonest, PathRuledOut | every graph of 3 nodes and 3 edges, either bound down to 1, every direction, with and without filters |
| verdict | OutcomeSupported | 2 documents, five kinds, one for each way of replaying that differs; of a schedule any units are RESOURCE units |
| clustering | ClustersAreComponents | 4 signals in one or two blocks, 4 comparisons |
| benchmark | CompleteIsEarned | 2 grids, 1 cell, 1 stage, 2 processes |
| plan | ExpansionSound | every dependency relation of 4 units, two priorities; units are numbered in the order of the tie-break, which any plan can be renamed to |
| request | RequestSound | 2 processes, five kinds of engine, content that changes once |
| windows | WindowsSound | every window over three bounds, every small rolling plan, five sets of samples |
| dossier | NothingHidden | evidence that appears while two builders, a reporter and an archivist work |
| resources | MeasurementHonest | 5 samples, six specifications, 2 workers, a pass of at most 3 ticks |
| stress | StressAccounted | eleven plans, five trials, two points |
| quality | QualityHonest | tables of up to 4 rows and 2 columns with every kind of cell, two configurations |
| profile | ProfileSupported | up to six sources, every kind with every kind of difference |
| evaluation | EvaluationAccounted | two, three or five samples of every kind, both tasks, every refusal |
| cli | ExitTells | every command, with and without a registry and an earlier record |
| api | StatusTells | every documented route, ids of five shapes, corrupt records |

A disagreement between two actors needs two of them; two items and a third thing they share are enough for every
order of reads and commits, and two is one more than the number at which each loop first repeats. The
deadlock check is off in all runs: when the bounded invocations, runs or requests are used up the system stops.

### Fairness

Only `FairSpec` (SchedulerResources, SchedulerStarved) states fairness: weak fairness of the
coordinator once a run has begun (its thread is scheduled; calling run_schedule is nobody's
obligation), of pool threads taking queued jobs, and of dispatches *without* a timeout ending. A
dispatch with a timeout may hang for good: that is what timeouts are for. Deadlines pass because
`WakeExpired` and `ReadClock` are coordinator steps.

### Disagreements between code and documentation

The six violation runs, with counterexamples a few steps long:

* **Starved** (`scheduler/engine.py:434`): a timed-out dispatch that hangs keeps its pool thread;
  with `max_workers` of them, the next untimed unit is RUNNING in the pool's queue forever and the
  loop never ends. `SchedulerResources` shows that with every unit timed, all runs end.
* **Recovery** (`engine.py:274`): recovery writes attempt, FAILED and RETRY_PENDING in three
  transactions; killed after the second it strands the unit in FAILED.
* **Cancelled** (`engine.py:446`): an event set after the loop's check but before the last
  submission ends the run CANCELLED with open units left as they were.
* **Audit** (`engine.py:548`): cancel writes a status with no record when there is no run yet, and a
  stale `from_status` when it races.
* **ReplayShape**: a replay of a resource analysis that completed over unchanged sources and lists no difference
  is recorded DIFFERENT.
* **GraphReuse** (`graph/engine.py:150`): a construction that dies, or fails, after its snapshot was
  committed leaves one without documents and claim, which every later request is given as built.

Two more are stated inside properties that hold, where the models show exactly how far they go:

* `StatusTells` names the three comparisons of the API that never answer 200. `/api/benchmark/results/compare`
  and `/submissions/compare` are declared after `/results/{result_id}` and `/submissions/{submission_id}`
  (`api/routers/benchmark.py:51-100`), which take "compare" for an id: always 422, though
  `docs/api.md` lists them. `/api/reliability/compare` builds its registry class without a store, and
  `reliability/registry.py:89` then raises ValueError: 500 for any two well-shaped ids, where `docs/api.md:26-27`
  says that an unknown one is 404.
  It also says where the API departs from `docs/api.md:25-27`, which has 422 for every malformed id. The routes of
  the graph router take a reference and not only an id (`graph/engine.py:258-273`): `/api/graph/graphs/{ref}` answers
  200 to the spec id of a graph (`gsp_...`) or the start of one, `/api/graph/snapshots/{ref}` and the routes below it to
  the start of a snapshot's id that lacks the underscore (`gsn`), whenever exactly one record matches, and both answer 404
  to a misshapen id with the right prefix. `/api/reproducibility/resolve/{kind}/{id}` answers 404 to any malformed id.
* `ExitTells` names what an exit status does not tell: an exception `main` does not catch
  exits 1, as a negative answer does (`docs/cli.md:6`), and `resources sweep` exits 0 over incomplete
  measurements (its `tells` is "units"; `docs/cli.md:74` says 3).

Observed while reading, and not the subject of a run:

* Scheduler: `fail_fast` (`spec.py:139`) is never read; `docs/scheduler.md:116` says CONFIGURATION and
  UNSUPPORTED failures are never retried, but `_should_retry` looks only at `policy.retryable`; a cycle
  refusal also names units downstream of the cycle (`graph.py:73-85`, `RefusedIffCyclic` states what it does
  name); a cancelled schedule resumed later may end COMPLETED with CANCELLED units; the cancel command may
  cancel a unit that FAILED since it looked; SKIPPED is never reached; the ScheduleRun of a crashed
  invocation stays RUNNING; a success whose status was not written is dispatched again.
* Scheduler: two processes may run one schedule at once, and the second takes what the first is running for
  interrupted (`engine.py:491`); `docs/scheduler.md:126` asks for one orchestrator per schedule, which the model takes
  as given.
* Evaluation: a NaN target or scalar prediction of a classification is kept and measured
  (`evaluation/engine.py:299-320`) although `docs/evaluation.md:73` has it excluded; the run then fails when
  it comes to be written as JSON (`engine.py:328`).
* Executor: PENDING runs of a dead process are never closed (`execution.py:365`; `docs/execution.md:60-61` says so).
* Registry: a `.bak` backup may be overwritten, or torn, by another process that opens the file.
* Graph: `_bfs` stops at its depth bound without setting `truncated` (`docs/graph.md:90-91`); a snapshot's
  edge_count is taken before equal edges fold into one row.
* Reproducibility: the replay checks of profiles and interactions skip originals they cannot read; a
  tolerance ignores trials and missing documents; an attempt on a schedule may be EQUAL and list RESOURCE units
  as differences (`OutcomeSupported` says exactly when), and finished schedules are not executed again.
* Laboratory: a fault experiment that was interrupted can never be resumed; a DRAFT that was registered and not
  made READY stays so, and every later request finds it.
* Requests: a caller may be given another run's record although its own run failed.
* Stress: sweeping `fraction` of a scaling or offset family to 1.0 with several seeds gives identical trials
  (`docs/stress.md:48-49` says refused); a sweep of more than 20 points passes the preflight and is refused
  only after investigation and baseline were created; repeating a design with an explicit baseline finds
  the fault experiment COMPLETED and raises; a repeat that completed INCOMPATIBLE raises KeyError in compute.
* Quality: a numeric column with only non-finite values has a WARNING violation and status INCONCLUSIVE;
  split_overlap drops its violations when no column is common; any FAIL suppresses the duplicate_rows warning;
  identical_to_target never fires for a categorical feature; rows that share an identifier and are shorter
  than the columns raise IndexError (`checks.py:418`).
* Profiles: the fingerprint leaves out interaction lifecycles; split is never compared for modes, slices,
  stress, calibration, resource and drift sources, at any scope (`reliability/taxonomy.py:37-46`).
* Resources: `docs/resources.md:110-113` has a timeout overrun "by at most the call in flight", but pool
  threads may start further batches between the time being up and each cancellation.
* Reports and dossiers: a dossier rebuilt over unchanged evidence after a new report keeps its old row and
  report_ids and gains findings; two reports with one statement keep one; a "No ... evidence is available"
  section is always appended (`docs/reporting.md:28-33`); foreign evidence named explicitly is not in the digest.
* Command line: `scheduler replay` executes nothing of a finished schedule, and on an unfinished one reports
  continuing as a difference (`docs/cli.md:87`); `scheduler run --dry-run` writes the schedule and its units;
  a refused `report generate` leaves its template; drift, slice, quality and calibration evaluations may
  exit 0 though their own run FAILED when a complete record exists, `graph build` when the snapshot was committed.
* API: leaderboard and dossier views read several transactions and may show a snapshot partly built.

## 4. Proofs

`SchedulerProofs` proves, for any finite set of units, acyclic dependencies, policies, limits,
bounds and answers (the named assumptions of `Scheduler`):

| Theorem | Statement |
|---|---|
| Inductive | `Spec => []IndInv` |
| TypeCorrect | `Spec => []TypeOK` |
| DependenciesFirst | `Spec => []DepsSucceeded` |
| EvidenceFirst | `Spec => []EvidenceBeforeSuccess` |
| Implements | `Spec => Contract!ContractSpec` |

`DepsSucceeded` alone is not inductive: the coordinator starts a unit from its memory, not from the
database. The strengthening says what memory is worth. *ViewAgrees*: memory equals the database
except where an operator cancelled or re-armed a unit since, and those exceptions never concern a
unit memory has as SUCCEEDED. *AgendaJustified*: every write a handler still has to make is one its
memory justifies (in particular SUCCEEDED is written only after the attempt is, or with the attempt
right before it). *TrackedRunning*, *BatchHeld*: a future belongs to a unit that is RUNNING in
memory and that no handler has taken up. *RefsHeld*: the ref of every unit SUCCEEDED in memory is
at hand. Each part has its own step lemma (`TypeStep`, `ViewStep`, `DepsStep`, `AgendaStep`,
`TrackedStep`, `BatchStep`, `RefsStep`, `EvidenceStep`); steps that change nothing a part mentions
are handled by frame lemmas. Since SUCCEEDED is final (`SucceededStays`), what was true of a
dependency when a unit was armed stays true. `Implements` maps `evidence` to the units with a
successful attempt and shows each step to be a contract step or a stutter, given IndInv.

Its second half proves the scheduler's remaining safety properties, for any instance:

| Theorem | Statement |
|---|---|
| Course | `Spec => []CourseInv` |
| ResourcesHold | `Spec => []ResourcesRespected` |
| MemoryWithinBudget | the running total is exact and, once more than one unit with memory runs, within the budget |
| NeverIdle | `Spec => []WorkConserving` |
| NothingStranded | `Spec => []NoStrandedUnit` |
| CompletedIsDone | `Spec => CompletedMeansDone` |
| AnsweredOnce | `Spec => []OneAnswerPerDispatch` |
| BudgetKept | `Spec => []RetryBudget` |
| SuccessOnce | `Spec => []SuccessRedoneOnlyAfterCrash` |
| AuditChained | `Commands = {} => (Spec => []AuditChain)` |

*CourseInv* (in `SchedulerProperties`) is what the loop keeps between its handlers: every agenda has one of a few
shapes (*AgendaShaped*), what memory takes for RUNNING has a future or is just being handled (*RunningHeld*), the
exclusive flag tells of exactly the exclusive unit that is tracked, alone (*FlagExact*), what was admitted still is when
it starts (*AdmittedStays*), and BLOCKED is settled between propagation and the next wait (*BlockedSettled*). The
running total is shown to be the sum over the tracked units: `TotalExact` compares it with a function `Total` on sets,
whose existence (`SomethingAddsUp`) is proved by taking a set that is as large as possible, as induction over data is
out of reach. The budgets are about sequences of attempts and transitions, so what holds at every step is stated
with what is still owed: *StartsCovered* adds to the dispatches of a unit the answer that is outstanding and every start
already granted (by its status, a handler's agenda or a command), and *SuccessesCovered* allows one more success only while
nothing can lead to another. `AuditChained` has a hypothesis, that operators issue no commands (the constant
`Commands` is empty): with them the property is false, which is what the run `SchedulerAudit` shows; without them
the coordinator is the only writer, and *Unattended* says that its memory is the database.

`AnalysisProofs` proves of plans, for any finite set of keys, priorities and dependencies: `PlanBookkeeping`
(`[]PlanInv`: indegree counts exactly the unplaced dependencies, available holds exactly the
eligible keys), `Topological`, `TieBreak` (every position holds the best eligible key, hence plans
are a function of the spec), `RefusalIsRight` (a spec is refused exactly when some nonempty set
of units wait on one another) and, of these, `ExpansionCorrect` (`PlanSpec => []ExpansionSound`), which is what the
Analyses run checks.

`ExecutorProofs` proves, for any processes, threads (one or several per process), pids, files and
bounds, under `HostAssumption`, every property the Executor run checks:

| Theorem | Statement |
|---|---|
| ExecutorInductive | `ExecSpec => []ExecInv` |
| NoRunClosedInFlight | `ExecSpec => []InFlightUntouched` |
| OutcomesComplete | `ExecSpec => []OutcomeTellsAll` |
| CompletedStaysIntact | `ExecSpec => []CompletedIntact` |
| ReplaysAreOfFinished | `ExecSpec => []ReplayOfFinished` |
| ExecutorImplements | `ExecSpec => Contract!ContractSpec` (of `RunContract`) |

None of the four properties is inductive. A recovery reads the pid of a run in one step
(`Examine`) and closes the run in another (`Close`), so what keeps it from closing a run in flight
is not its check alone: *ThreadsConsistent* says that it only ever looks at runs that were started,
and *CreatedPending* that a thread about to start a run has a PENDING one, which nobody else works
on; so a run the recovery took up can never be started again under its eyes, and one being executed
carries the pid of a live process, which the check finds whether or not that pid was reused. *SeenAll*
says that the evidence a thread will list is what the registry has, and once verified still what is
on disk; *Lifecycle* ties provenance and evidence to the status. The proof splits the invariant in
two. For the registry's half, `FinishKeeps`, `StartKeeps`, `EvidenceKeeps` and `CreateKeeps` say
what each transaction preserves and that runs only go `Forward`; for the threads' half,
`OneThreadMoves` reduces a step to what the moving thread must establish (`OwnClauses`) and what it
must leave alone (`Alone`). Each action then has one lemma. `ExecutorImplements` maps a run to its
status, evidence and the lists of its outcome.

`RegistryProofs` proves of the file, for any openers, versions and records:

| Theorem | Statement |
|---|---|
| FileInductive | `FileSpec => []FileInv` |
| FileAlwaysWhole | `FileSpec => []FileWhole` |
| FileAllOrNothing | `FileSpec => AllOrNothing` |

A process decides to migrate before it holds the write lock. *OpeningInv* says what it knows then:
the version it found is not above the file's and never goes back, so a migration begun under the lock looks
again and builds only what is missing; *LockInv* and *WorkInv* say that only the holder has uncommitted
work, and that it is a whole prefix of versions; *BackupInv* what a copy is of.

and of reports and dossiers, for any evidence and any writers, under `DossierAssumption` (foreign evidence is in no
scope), `DossiersInductive` and `DossiersHideNothing` (`DossierSpec => []NothingHidden`). A writer reads kind by kind and
commits at the end, while evidence is recorded all the time. *WriterInv* says of each writer what it has read so
far and that it has left nothing of that kind out; what makes this survive the others' steps is that
what a set of items calls for never shrinks and is never taken back (`StaysComplete`, `KeptTells`, `FewerItems`), and that
the findings of a row already there are added to, not replaced (`WhatIsFound`, `BuiltComplete`).

`LaboratoryProofs`: `LabInductive`, `EndedWhole` (`[]EndedExperimentIsWhole`), `OneLabWorks`, and
for benchmarks `ResultsEarned` (`BenchmarkSpec => []CompleteIsEarned`). *OwnerInv* ties every live
process beyond `AddExperiment` to an experiment whose record it added itself, so there is at most one, and
puts the experiment's status where its process is; *TrialInv* counts trials along the pass. For benchmarks,
`ExecutedOK` says that whatever a runner holds was measured against its own baseline.

It also proves `StressPlansAccounted` (`StressSpec => []StressAccounted`), for any plans of finitely many components, seeds and values
(`StressAssumption`). The units are a sequence in which the place of a unit is a number whose
quotients and remainders are its cell, its point and its seed (`DivIs`); *TrialsMade* says which units have their
trial: in the fault laboratory those of the cells that were run, which come in the order of the fault experiments and not of the plan, otherwise
a prefix of the units. Each trial has the seed and the value of its unit (*TrialFits*). *Linkage* and
*Answered* are about what discovery, interaction and the analysis were given.

and `MeasurementsHonest` (`ResourceSpec => []MeasurementHonest`), for any samples, subset, batch size, bound, pool, timeout and
trials (`ResourceAssumption`). Batches concatenate to the first members of the subset because each adds the members
below the next multiple of the batch size and the cut happens once (`InOrderJoined`, *Filled*). A pass is recorded when nothing of it runs
any more (*Quiet*), and then its calls are in four disjoint groups, whose samples add up (`SamplesApart`, `SamplesCounted`); without a pool
calls start one by one and the last may be the first to fail (*OneByOne*). *PassesRecorded* keeps of every
record its phase and that a completed one has all samples, *LastHonest* that the latest record is of the calls still at
hand, from which the conclusion follows (*ConclusionHonest*).

`RecordProofs`, of lifecycles: `FailuresInductive`, `ConfirmedIsEarned` (`[]ConfirmedOnEvidence`), `MovesOnRecord`
(`EveryMoveOnRecord`), `InteractionsInductive`, `ReproducibleIsEarned` (`[]ReproducedIndependently`). What a
command read may be stale when it commits, but evidence is never taken back: *Justified* and
*MayReach* say what each pending command still relies on, *Backed* and *IsPath* what that evidence gives.

and of leaderboards: `BoardInductive`, `SnapshotsSupported`, `EntriesFollow`, and the refinement
`AttemptsAreLogged` (`BoardSpec => ImplementsEvidenceLog`). All of it rests on `Grow`: attempts are only added
after those there are, so the state after the first n of them never changes, and a state read at any moment is
the state after some prefix.

`AnalysisProofs` further has

| Theorem | Statement |
|---|---|
| PathsRuledOut | `TraversalSpec => []PathRuledOut` |
| TraversalsHonest | `TraversalSpec => []TraversalHonest` |
| OutcomesSupported | `VerdictSpec => []OutcomeSupported` |
| ClustersCorrect | `ClusteringSpec => []ClustersAreComponents` |
| WindowsCompared | `ShiftSpec => []WindowsSound` |

*Traversals*, in every finite graph. For a path that is ruled out it is enough that the visited set is closed under hops
that are not still pending (*SearchInv*). Distances take more, *LevelInv*: the queue holds nodes of one depth and then
of the next (*InLevels*), everything nearer than the depth being expanded has been visited (*Nearest*), and every
visited node but the first was reached over the edge that `via` names (*Linked*); this is what makes the first depth
at which a node is met its distance.

*Clusters.* *ForestInv*: every signal reaches one root, below it and in its block; *LinksInv*: links join what
was compared; both survive path halving and union.

*Verdicts*. While documents are read, each one read that disagrees is listed (*DifferencesListed*). A schedule takes
more, *UnitsListed*: the differences are exactly the units read so far that differ, completed or not, so that
leaving out the RESOURCE units leaves exactly those the verdict is about (`ScheduleVerdict`).

*Windows*, for any finite set of declared windows, any rolling plan and any samples, under `ShiftAssumption` (bounds are
numbers). *ShiftInv*: every window asked for has had one fate so far, as a pair, as skipped, or as resolved (*OneFate*), the pairs are of
windows that validation keeps apart (*GoodPairs*), and the candidates dealt with are those before `dealt` (*Dealt*).
`CandidatesApart` and `OneWindowHolds` do the arithmetic of `start + i * step`: equal steps and widths leave neither gap
nor overlap. The attempt to prove `WindowsSound` found a case in which its last part said too much: a plan that
starts below zero and has no whole window; it now speaks of plans with a whole window.

Recursion over data cannot be proved about by induction in an operator, but it can as a set: `NatSet` is induction for a
set of numbers, and `Recursion` shows, from `UnrolledTo` and `UnrolledOnce`, that a function defined step by step exists
and satisfies its equations. `WithinIs` (the nodes within a distance), `InOrderIs` (a set in ascending order) and the sums and
batches of resource measurements below rest on these two.

`EngineProofs` proves of the analysis engines:

| Theorem | Statement | Assumption |
|---|---|---|
| EvaluationsAccounted | `EvaluationSpec => []EvaluationAccounted` | `EvaluationAssumption`: the samples are finitely many |
| RequestsSound | `RequestSpec => []RequestSound` | `RequestAssumption`: every engine is `WellFormed` |
| ProfilesSupported | `ProfileBehaviour => []ProfileSupported` | `ProfileAssumption`: kinds and ids; a source made over a run has its model |

*Evaluation.* The files, observations and claims are lists built one entry at a time, and each stage reads what the one
before it left: *RowsInv* keeps the score rows those of the samples kept (`SameMeasured`), *FilesInv* the files a
prefix of those to be, *ClaimsInv* each claim backed by what is already recorded. `FindingsAreRecorded` is the heart of
it: whatever rule fires, and for whatever samples, each observation and file its finding names is among those recorded by
then, which depends on when each metric is available.

*Requests.* An engine is a record: the order of the steps of its procedure, what identifies its result, and how it
answers; `WellFormed` says what the eleven engines have in common (one step adds the record, nothing of the sources is
read after it looked for one). *WorkInv* ties what a process holds to the steps its procedure has done, *PlaceInv*
where it is to the experiment and its run, *AnswerInv* the answer to a record of the same key. Two equal requests end in one
record because adding refuses an existing key (*OneOfAKey*), and a process that was refused finds that record.

*Profiles.* Sections fill dimensions in a fixed order; `Order`, `FilledAt` and `ReferencedAt` give each a place, and
*DimsInv* says that exactly the dimensions of earlier places are filled, each with references exactly if it has a
status that needs them. `SectionDone` shows once what completing a section takes, and each section is shown to give it.
*LivesInv* is about modes and interactions that move on meanwhile: a status read is one that was reached, with the
evidence that took, and only grows older.

`QualityProofs` proves `QualityResultsHonest` (`QualityBehaviour => []QualityHonest`) for any tables, configuration, slice and
feature kinds, under `QualityAssumption` (the tables are tables, a limit is of the type the specification of an analysis
validates, the cells that are no number are distinct and no numbers). There is one step, and what it finds is a function of the
question (*Results*), so the work is in the operators:

| Part | Why it holds |
|---|---|
| ResultsHonest | every status is `StatusOf` the violations listed, or the worst of several (`TogetherRanked`) |
| RowOrderIrrelevant | each statistic, each feature and each check is the same for a table and for its rows in another order |
| SliceAgrees | a fault of one sample is found on the whole exactly when it is on a part that has the sample, rule by rule |
| MostAreNoOutliers | between Tukey's fences, or not far from the median, lies at least half of any finite set of values |
| OverlapIsMutual | what two tables share is what they share the other way round |
| OrderHolds | `PASS` compares the greatest key of the one with the least of the other |
| LinesAreIndicated | values on a line have correlation one, for any values: `LineCorrelates` |

*Embeds(s, t, f)* says that the table `s` has some of the rows of `t`, `f` telling which, and *Covers* that it has them all; a
column of `s` is then the column of `t` by way of `f` (*Via*), and each operator gets a lemma that says what becomes of it. Sums
are over a recursive function that takes the values in an order `CHOOSE` picks: that it gives the same for another order, and is
linear, is shown of *any* order first, by `SubsetInduction`. The order of rows is compared where
no sample was served twice (*Distinct*), as in the property: of a sample served twice the last row counts, so its order matters.

Only model-checked, and why:

* `EveryRunEnds`: liveness is beyond the prover.
* `ExitTells`, `StatusTells`: `CommandLine` and `HttpApi` have no parameters. Their runs go through every command,
  route and outcome there is, so a proof would say nothing more.

The inductive invariants are proved and, but for those named in a run, not checked by one.

## 5. Not modelled, and what comes next

Not modelled: statistics and numerics of the analyses (tests, intervals, metrics, calibration methods),
fault and stress transforms of data and models, adapters, the argument parser of the command line,
rendering of reports and charts, decoding of rows, hashing and JSON (identities), which nodes and edges a registry yields
to a graph, graph and dossier diffs, pairwise comparisons of results. A hazard left without a
property is noted as such in `PROJECT.json`.

Next, in order:

1. Composition: Leaderboard over BenchmarkRun and ReplayVerdict, so that a snapshot's state is traced to
   the documents a replay compared; AnalysisRequest over Executor.
2. `graph/build.py`: endpoints of edges and equal edges of two sources; `benchmark/collect.py:312`, an
   unreadable fault analysis counted as missing coverage.
3. Placeholder substitution of `scheduler/dispatch.py` and the record checks of `add`.
