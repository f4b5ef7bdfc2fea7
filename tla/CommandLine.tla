----------------------------- MODULE CommandLine -----------------------------
(***************************************************************************)
(* The command line (cli.py): what a command does in order, what is left   *)
(* in the workspace when it ends early, and what its exit status tells.    *)
(* The parts it calls are modules of their own; here each of their calls   *)
(* is one step with the outcomes those modules have.  A command with       *)
(* several ways to go is several procedures of one name.                   *)
(***************************************************************************)
EXTENDS Naturals, Sequences

VARIABLE invocation     \* one command and what has become of it

Cmd(name, steps, tells) == [name |-> name, steps |-> steps, tells |-> tells]

\* Commands whose status says nothing but that they got through.
Does(names, steps) == {Cmd(n, steps, "nothing") : n \in names}

\* Those that answer a question: 0 for yes, 1 for no.
Answers(names, steps) == {Cmd(n, steps, "verdict") : n \in names}

Reads(names) == Does(names, <<"open", "read">>)
Validates(name) == Does({name}, <<"spec">>) \cup Does({name}, <<"spec", "open", "check">>)
Replays(name) == Answers({name}, <<"open", "replay">>)

-----------------------------------------------------------------------------
\* The commands, section by section.

Workspace ==
    Does({"info"}, <<>>) \cup Does({"init"}, <<"create">>)
    \cup Reads({"status", "experiment", "run", "provenance"})
    \cup Answers({"verify"}, <<"open", "read", "judge">>)

Adapters ==
    Does({"adapters list"}, <<>>) \cup Does({"adapters inspect"}, <<"resolve">>)
    \cup Reads({"model inspect", "dataset inspect"})
    \cup Does({"model inspect", "dataset inspect"}, <<"resolve", "parse", "load">>)
    \cup Does({"model register", "dataset register"}, <<"parse", "resolve", "load", "open", "add">>)
    \cup {Cmd("demo", <<"create", "home", "execute">>, "run")}

\* The evaluation is read with another connection, after the run.
Evaluation ==
    LET evaluate == <<"bare spec", "open", "read", "home", "execute">>
    IN  Does({"metrics list"}, <<>>)
        \cup {Cmd("evaluate", evaluate, "run"), Cmd("model autopsy", evaluate \o <<"open", "its documents">>, "run")}
        \cup Does({"evaluation inspect", "evaluation compare"}, <<"open", "read", "documents">>)

FaultTrials == <<"bare spec", "parse", "open", "check", "home", "execute", "its documents">>
FaultCommands ==
    {Cmd("fault run", FaultTrials, "run"), Cmd("fault sweep", <<"parse">> \o FaultTrials, "run")}
    \cup Does({"faults list"}, <<>>) \cup Does({"fault inspect"}, <<"resolve">>)
FaultReports ==
    Does({"fault compare"}, <<"open", "documents">>) \cup Reads({"fault experiment inspect"})
FaultDemo == {Cmd("fault demo", <<"create", "home", "execute", "its documents">>, "run")}

FailureViews ==
    Reads({"failures list", "failure candidates", "failure inspect", "failure cluster"})
FailureCommands ==
    Reads({"failure evidence", "failure graph"})
    \cup {Cmd("failure discover", <<"spec", "open", "read", "check", "home", "execute", "its documents">>, "run")}
    \cup Answers({"failure reproduce"}, <<"open", "spec", "replay">>)
    \cup Does({"failure confirm", "failure set-status"}, <<"open", "move">>)

\* A variant for the mutation tests: the design is looked at when the run has begun.
AnalyzingLate == <<"spec", "open", "read", "home", "execute", "design", "its documents">>

\* A refused design is told from other errors: nothing is on record then.
Analyzing == <<"spec", "open", "read", "design", "home", "execute", "its documents">>

InteractionCommands ==
    {Cmd("interaction analyze", Analyzing, "run")}
    \cup Answers({"interaction validate"}, <<"spec", "open", "check", "judge">>)
    \cup Reads({"interaction list", "interaction inspect"})
InteractionReviews ==
    Reads({"interaction failures", "interaction related"}) \cup Replays("interaction replay")
    \cup Does({"interaction export"}, <<"open", "read", "documents", "export">>)
    \cup Answers({"interaction reproduce"}, <<"open", "agree">>)
    \cup Does({"interaction confirm", "interaction set-status"}, <<"open", "move">>)

ReliabilityCommands ==
    {Cmd("reliability profile", Analyzing, "run")} \cup Reads({"reliability list"})
ReliabilityReviews ==
    Does({"reliability inspect"}, <<"open", "documents", "convert">>) \cup Reads({"reliability evidence"})
    \cup Does({"reliability compare"}, <<"open", "comparable">>) \cup Replays("reliability replay")

BenchmarkCommands ==
    {Cmd("benchmark run", <<"spec", "open", "design", "benchmark", "its coverage">>, "coverage")}
    \cup Answers({"benchmark validate"}, <<"spec", "open", "check", "judge">>) \cup Reads({"benchmark list"})
BenchmarkReviews ==
    {Cmd("benchmark coverage", <<"open", "convert", "collected">>, "coverage")} \cup Reads({"benchmark inspect"})
    \cup Does({"benchmark compare"}, <<"open", "comparable">>) \cup Does({"benchmark protocol"}, <<"spec", "open", "check", "add">>)
    \cup Answers({"benchmark replay"}, <<"open", "convert", "replay">>)
    \cup Answers({"benchmark submit"}, <<"spec", "open", "read", "check", "design", "benchmark", "submit">>)

LeaderboardCommands ==
    Reads({"leaderboard list", "leaderboard inspect"})
    \cup Does({"leaderboard snapshot", "leaderboard correct"}, <<"open", "read", "add">>)
    \cup Does({"leaderboard compare"}, <<"open", "comparable">>)
    \cup Answers({"leaderboard verify"}, <<"open", "read", "judge">>)
    \cup Answers({"leaderboard replay"}, <<"open", "read", "rebuild">>)

\* A dry run registers the schedule and its units, then reports what is amiss.
SchedulerRuns ==
    Answers({"scheduler validate"}, <<"spec", "judge">>)
    \cup Does({"scheduler expand"}, <<"spec", "open", "design", "add">>)
    \cup Answers({"scheduler run"}, <<"spec", "open", "check", "schedule">>)
    \cup Answers({"scheduler run"}, <<"spec", "open", "check", "add", "judge">>)
    \cup Answers({"scheduler resume"}, <<"open", "read", "check", "schedule">>)
SchedulerViews ==
    Reads({"scheduler status", "scheduler inspect", "scheduler graph"})
    \cup Does({"scheduler cancel", "scheduler retry"}, <<"open", "read", "move">>)
    \cup Answers({"scheduler replay"}, <<"open", "read", "schedule", "read">>)

GraphCommands ==
    Answers({"graph build"}, <<"spec", "open", "check", "construct">>)
    \cup Reads({"graph list", "graph inspect"})
GraphPaths ==
    Does({"graph neighbors"}, <<"open", "read", "resolve">>)
    \cup Answers({"graph path"}, <<"open", "read", "resolve", "convert", "judge">>)
GraphQueries ==
    Does({"graph query"}, <<"resolve", "open", "read", "resolve", "convert">>)
    \cup Answers({"graph query"}, <<"resolve", "parse", "open", "read", "convert", "judge">>)
    \cup Reads({"graph diff"}) \cup Answers({"graph replay"}, <<"open", "read", "replay">>)

\* The template is registered before the report is looked at, and stays when that is refused.
ReportCommands ==
    Does({"report generate"}, <<"open", "add", "add", "read">>)
    \cup Reads({"report list", "report show", "report sections", "report claims"})
    \cup Answers({"report validate"}, <<"open", "read", "judge">>)
    \cup Does({"report export"}, <<"open", "read", "export">>)

DossierCommands ==
    Does({"dossier build"}, <<"open", "convert", "parse", "add", "read">>)
    \cup Reads({"dossier list", "dossier show", "dossier items", "dossier findings"})
    \cup Does({"dossier snapshot"}, <<"open", "add", "read">>)
    \cup Answers({"dossier validate"}, <<"open", "read", "judge">>)
    \cup Does({"dossier export"}, <<"open", "read", "export">>)

ReproduceCommands ==
    Answers({"reproduce validate"}, <<"open", "read", "judge">>)
    \cup Answers({"reproduce run"}, <<"parse", "open", "replay", "read">>)
    \cup Answers({"reproduce replay"}, <<"open", "read", "replay", "read">>)
    \cup Answers({"reproduce compare"}, <<"open", "documents", "judge">>)
    \cup Answers({"reproduce verify"}, <<"open", "read", "judge">>)
    \cup Reads({"reproduce inspect", "reproduce diff"})

ExecutorCommands ==
    {Cmd(n, <<"resolve", "open", "check", "execute">>, "run") : n \in {"execute", "replay"}}
    \cup Does({"recover"}, <<"open", "move">>)

\* Values come from files, from the command line or from a record.
StatsCommands ==
    UNION {Does({"stats compare", "stats bootstrap"}, <<values, "open", "add">>) : values \in {"bare spec", "convert", "parse"}}
    \cup Does({"stats proportion", "stats correct"}, <<"parse", "open", "add">>)
    \cup Reads({"stats list", "stats inspect"})
    \cup Answers({"stats verify"}, <<"open", "documents", "judge">>)

SliceViews ==
    Does({"slice validate"}, <<"bare spec">>) \cup Does({"slice register"}, <<"open", "bare spec", "add">>)
    \cup Reads({"slice list", "slice inspect"})
SliceCommands ==
    Does({"slice evaluate"}, <<"open", "bare spec", "load", "documents">>)
    \cup {Cmd("slice analyze", <<"bare spec", "open", "read", "check", "request">>, "record")}
    \cup Does({"slice compare"}, <<"open", "documents", "bare spec", "convert", "load", "documents", "check">>)

DriftViews ==
    Does({"drift validate"}, <<"spec">>) \cup Does({"drift validate", "drift windows"}, <<"spec", "open", "load", "check">>)
    \cup Reads({"drift list", "drift inspect"})
DriftCommands ==
    {Cmd("drift evaluate", <<"spec", "open", "read", "load", "check", "request">>, "record")}
    \cup Does({"drift compare"}, <<"spec", "open", "check", "load", "documents">>) \cup Replays("drift replay")

QualityViews ==
    Does({"data-quality validate"}, <<"spec">>) \cup Does({"data-quality validate"}, <<"spec", "open", "load", "check">>)
    \cup Reads({"data-quality list", "data-quality inspect"})
QualityCommands ==
    Does({"data-quality checks"}, <<>>) \cup Reads({"data-quality checks"})
    \cup {Cmd("data-quality run", <<"spec", "open", "read", "load", "check", "request", "judge">>, "checks")}
    \cup Replays("data-quality replay")

StressViews ==
    Does({"stress families"}, <<>>) \cup Validates("stress validate") \cup Reads({"stress list", "stress inspect"})
StressRun == <<"open", "check", "home", "baseline", "check", "request">>
StressCommands ==
    {Cmd("stress run", <<"spec">> \o StressRun, "record"), Cmd("stress sweep", <<"spec", "parse">> \o StressRun, "record")}
    \cup Answers({"stress compare"}, <<"open", "documents", "judge">>) \cup Replays("stress replay")

CalibrationViews == Validates("calibration validate") \cup Reads({"calibration list", "calibration inspect"})
CalibrationCommands ==
    {Cmd("calibration evaluate", <<"spec", "open", "read", "check", "request">>, "record")}
    \cup Answers({"calibration compare"}, <<"open", "documents", "judge">>) \cup Replays("calibration replay")

ResourceViews == Validates("resources validate") \cup Reads({"resources list", "resources inspect"})
\* Every batch size is measured before the measurements are compared.
ResourceCommands ==
    {Cmd("resources run", <<"spec", "open", "read", "check", "own request">>, "record"),
     Cmd("resources sweep", <<"spec", "parse", "open", "read", "check", "own requests", "check">>, "units")}
    \cup Does({"resources compare"}, <<"open", "check">>) \cup Replays("resources replay")
Serving == Does({"viz serve"}, <<"resolve", "open">>)

Commands ==
    UNION {Workspace, Adapters, Evaluation, FaultCommands, FaultReports, FaultDemo, FailureViews, FailureCommands,
           InteractionCommands, InteractionReviews, ReliabilityCommands, ReliabilityReviews, BenchmarkCommands,
           BenchmarkReviews, LeaderboardCommands, SchedulerRuns, SchedulerViews, GraphCommands, GraphPaths, GraphQueries,
           ReportCommands, DossierCommands, ReproduceCommands, ExecutorCommands, StatsCommands, SliceViews, SliceCommands,
           DriftViews, DriftCommands, QualityViews, QualityCommands, StressViews, StressCommands, CalibrationViews,
           CalibrationCommands, ResourceViews, ResourceCommands, Serving}

-----------------------------------------------------------------------------
(***************************************************************************)
(* registry: whether there was one; earlier: the verdict of a record an    *)
(* equal request left, if any; kept: what this command has written; run,   *)
(* record, verdict: what it found out; how: how it ended, and exit, which  *)
(* means nothing before.                                                   *)
(***************************************************************************)
NotThere == "none"
Completeness == {"COMPLETE", "INCOMPLETE"}

Invoked(command, registry, earlier) ==
    [command |-> command, step |-> 1, registry |-> registry, earlier |-> earlier, kept |-> {},
     run |-> NotThere, record |-> NotThere, verdict |-> NotThere, how |-> "running", exit |-> 0]

CommandInit ==
    \E command \in Commands, registry \in BOOLEAN, earlier \in {NotThere} \cup Completeness :
        /\ earlier # NotThere => registry
        /\ invocation = Invoked(command, registry, earlier)

StillRunning == invocation.how = "running"
OnStep(steps) ==
    /\ StillRunning /\ invocation.step <= Len(invocation.command.steps)
    /\ invocation.command.steps[invocation.step] \in steps
Current == invocation.command.steps[invocation.step]
GoOn(next) == invocation' = [next EXCEPT !.step = @ + 1]

\* What a step may leave behind, whole or in part, when it ends the command.
Leaves(step) ==
    CASE step = "create" -> {"workspace"}
      [] step \in {"add", "move", "agree", "rebuild", "submit"} -> {"record"}
      [] step = "home" -> {"experiment"}
      [] step \in {"execute", "baseline", "replay", "schedule"} -> {"experiment", "run"}
      [] step \in {"request", "own request", "own requests", "benchmark", "construct"} -> {"experiment", "run", "record"}
      [] OTHER -> {}

\* Looking things up, checking them, and printing what was found; _open makes no registry.
LookUp ==
    /\ OnStep({"open", "spec", "bare spec", "parse", "resolve", "load", "read", "documents", "its documents", "its coverage",
               "check", "design", "comparable", "convert", "export"})
    /\ Current = "open" => invocation.registry
    /\ GoOn(invocation)

Keep ==
    /\ OnStep({"create", "home", "add", "move", "baseline"})
    /\ GoOn([invocation EXCEPT !.kept = @ \cup Leaves(Current)])

Run ==
    /\ OnStep({"execute"})
    /\ \E status \in {"COMPLETED", "FAILED"} :
          GoOn([invocation EXCEPT !.kept = @ \cup {"experiment", "run"}, !.run = status])

\* What the record of a run may be: it can fail after it added one.
RecordsOf(status) == IF status = "COMPLETED" THEN Completeness ELSE {NotThere} \cup Completeness

\* An engine's own run, whose record is looked for, and found if another run has left it before.
RequestAnalysis ==
    /\ OnStep({"request", "own request", "own requests"})
    /\ \E status \in {"COMPLETED", "FAILED"} : \E found \in RecordsOf(status) :
          /\ Current = "request" /\ invocation.earlier # NotThere => found = invocation.earlier
          /\ GoOn([invocation EXCEPT !.kept = @ \cup Leaves(Current), !.run = status, !.record = found])

\* A benchmark that is on record is not executed again; one whose stages failed is not collected.
RunBenchmark ==
    /\ OnStep({"benchmark"})
    /\ \/ /\ invocation.earlier # NotThere
          /\ GoOn([invocation EXCEPT !.record = invocation.earlier])
       \/ /\ invocation.earlier = NotThere
          /\ \/ GoOn([invocation EXCEPT !.kept = @ \cup {"experiment", "run"}])
             \/ \E status \in {"COMPLETED", "FAILED"} : \E found \in RecordsOf(status) :
                   GoOn([invocation EXCEPT !.kept = @ \cup Leaves(Current), !.run = status, !.record = found])

ReadCollected == OnStep({"collected"}) /\ \E found \in Completeness : GoOn([invocation EXCEPT !.record = found])

\* An equal graph is given as built; of a run that failed the snapshot may be there all the same.
Construct ==
    /\ OnStep({"construct"})
    /\ \/ invocation.earlier # NotThere /\ GoOn([invocation EXCEPT !.verdict = "yes"])
       \/ /\ invocation.earlier = NotThere
          /\ \E status \in {"COMPLETED", "FAILED"}, verdict \in {"yes", "no"} :
                /\ status = "COMPLETED" => verdict = "yes"
                /\ GoOn([invocation EXCEPT !.kept = @ \cup Leaves(Current), !.run = status, !.verdict = verdict])

Verdict == {"yes", "no"}
Judge == OnStep({"judge"}) /\ \E verdict \in Verdict : GoOn([invocation EXCEPT !.verdict = verdict])

\* Runs of their own, compared with those on record or counted.
Rerun ==
    /\ OnStep({"replay", "schedule"})
    /\ \E verdict \in Verdict :
          GoOn([invocation EXCEPT !.kept = @ \cup {"run"}, !.verdict = verdict])

\* Only a check that passed is recorded; only a rebuilt snapshot that differs may be another record.
RecordVerdict ==
    /\ OnStep({"agree", "rebuild"})
    /\ \E verdict \in Verdict, new \in SUBSET {"record"} :
          /\ Current = "agree" => (new # {} <=> verdict = "yes")
          /\ Current = "rebuild" /\ verdict = "yes" => new = {}
          /\ GoOn([invocation EXCEPT !.verdict = verdict, !.kept = @ \cup new])

\* Only a benchmark that has a result is submitted.
Submit ==
    /\ OnStep({"submit"})
    /\ IF invocation.record = NotThere THEN GoOn([invocation EXCEPT !.verdict = "no"])
       ELSE GoOn([invocation EXCEPT !.verdict = "yes", !.kept = @ \cup {"record"}])

-----------------------------------------------------------------------------
\* How a command ends.

End(how, exit, kept) == invocation' = [invocation EXCEPT !.how = how, !.exit = exit, !.kept = kept]

\* A refused design is caught by the command, which says that nothing was recorded.
RefuseDesign ==
    /\ OnStep({"design", "comparable"})
    /\ End("refused design", 2, invocation.kept)

\* Any other ExperionyxError reaches main.  A failed run has no documents to miss, nor a benchmark without a result.
RefuseCommand ==
    /\ StillRunning /\ invocation.step <= Len(invocation.command.steps)
    /\ Current \notin {"create", "convert", "export", "judge"}
    /\ Current = "its documents" => invocation.run = "COMPLETED"
    /\ Current = "its coverage" => invocation.record # NotThere
    /\ \E left \in SUBSET Leaves(Current) : End("refused", 2, invocation.kept \cup left)

\* What is not an ExperionyxError: a bad number, a missing file, a database that stays locked.
RaiseOther ==
    /\ StillRunning /\ invocation.step <= Len(invocation.command.steps)
    /\ Current \notin {"spec", "parse", "resolve", "judge"}
    /\ Current = "open" => invocation.registry
    /\ \E left \in SUBSET Leaves(Current) : End("raised", 1, invocation.kept \cup left)

Satisfied ==
    CASE invocation.command.tells = "nothing" -> TRUE
      [] invocation.command.tells = "run" -> invocation.run = "COMPLETED"
      [] invocation.command.tells \in {"record", "coverage"} -> invocation.record = "COMPLETE"
      [] invocation.command.tells = "checks" -> invocation.record = "COMPLETE" /\ invocation.verdict = "yes"
      [] invocation.command.tells = "units" -> invocation.run = "COMPLETED" /\ invocation.record # NotThere
      [] invocation.command.tells = "verdict" -> invocation.verdict = "yes"

Falls == invocation.command.tells \in {"record", "checks", "units"} \/ (invocation.command.tells = "coverage" /\ invocation.record # NotThere)

ReachEnd ==
    /\ StillRunning /\ invocation.step > Len(invocation.command.steps)
    /\ End("done", IF Satisfied THEN 0 ELSE IF Falls THEN 3 ELSE 1, invocation.kept)

CommandNext ==
    \/ LookUp \/ Keep \/ Run \/ RequestAnalysis \/ RunBenchmark \/ ReadCollected \/ Construct \/ Judge \/ Rerun \/ RecordVerdict
    \/ Submit \/ RefuseDesign \/ RefuseCommand \/ RaiseOther \/ ReachEnd

CommandSpec == CommandInit /\ [][CommandNext]_invocation

-----------------------------------------------------------------------------
(***************************************************************************)
(* What can be concluded from an exit status alone (docs/cli.md).          *)
(* 2 is an error or a refusal, and a design or protocol refused as such    *)
(* has left nothing at all.  0 is never given to a command that found a    *)
(* difference or incomplete evidence it was asked about; a command whose   *)
(* own run failed gets it only because a complete record, or the snapshot  *)
(* it was to build, is there all the same.  3 is given when an analysis    *)
(* has run and its evidence is short of complete, 1 for a failed run, the  *)
(* answer no, a benchmark that collected nothing, or an exception that     *)
(* main does not know.  Nothing is written, whatever happens, where there *)
(* was no registry, but by the three commands that create one.             *)
(***************************************************************************)
ExitTells ==
    LET exit == invocation.exit
        tells == invocation.command.tells
    IN  ~StillRunning =>
            /\ exit = 2 <=> invocation.how \in {"refused", "refused design"}
            /\ invocation.how = "refused design" => invocation.kept = {}
            /\ exit = 0 =>
                  /\ invocation.verdict # "no"
                  /\ invocation.record # "INCOMPLETE" \/ tells \in {"units", "verdict"}
                  /\ invocation.run # "FAILED" \/ invocation.record = "COMPLETE" \/ invocation.verdict = "yes"
            /\ exit = 3 =>
                  /\ invocation.record # "COMPLETE" \/ invocation.verdict = "no" \/ tells = "units"
                  /\ tells # "coverage" => {"experiment", "run"} \subseteq invocation.kept
            /\ exit = 1 =>
                  \/ invocation.how = "raised" \/ invocation.run = "FAILED" \/ invocation.verdict = "no"
                  \/ tells = "coverage" /\ invocation.record = NotThere
            /\ invocation.kept # {} => invocation.registry \/ invocation.command.name \in {"init", "demo", "fault demo"}
=============================================================================
