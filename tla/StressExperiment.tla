--------------------------- MODULE StressExperiment ---------------------------
(***************************************************************************)
(* A stress experiment (stress/engine.py): the plan and its units, the     *)
(* baseline, one trial for each unit (runs of its own, or the trials of    *)
(* the fault experiments it is handed to), failure discovery, interaction, *)
(* and the analysis over what the trials left.                             *)
(*                                                                         *)
(* Six stress families stand for the thirteen: two of the fault            *)
(* laboratory, of which one draws at random only if it spares part of the  *)
(* input; two that change the model; a batch size; repetition.             *)
(***************************************************************************)
EXTENDS Integers, Sequences, FiniteSets, Listing

CONSTANTS
    Plans,          \* [components, sweep, seeds, factorial, discover, given]; see NoSweep
    Whole,          \* the fraction of the input that is all of it
    MAX_TRIALS,
    MaxPoints       \* of a fault experiment (FaultLimits)

Families ==
    [FEATURE_SCALING |-> "FAULT_LABORATORY", FEATURE_NOISE |-> "FAULT_LABORATORY", PARAMETER_NOISE |-> "MODEL",
     THRESHOLD |-> "MODEL", BATCH_SIZE |-> "EVALUATION", REPEATED_EXECUTION |-> "EVALUATION"]

COMPOUND_RANK == [PARAMETER_NOISE |-> 0, THRESHOLD |-> 1]

NoSweep == [component |-> 1, values |-> <<>>]

Stresses == [family : DOMAIN Families, value : Int, seed : Nat]

Plan ==
    [components : Seq(Stresses) \ {<<>>}, sweep : [component : Nat \ {0}, values : Seq(Int)], seeds : Seq(Nat),
     factorial : BOOLEAN, discover : BOOLEAN, given : BOOLEAN]

ASSUME StressAssumption == Plans \subseteq Plan

VARIABLES
    plan,       \* the design that was asked for
    stage,      \* how far the experiment is
    job,        \* fault experiments run
    outcomes,    \* one record for each trial, in the order of their making
    linked_to,      \* what became of discovery and interaction
    study       \* the StressAnalysis that is answered

stressVars == <<plan, stage, job, outcomes, linked_to, study>>

StressInit ==
    /\ plan \in Plans
    /\ stage = "request" /\ job = 0 /\ outcomes = <<>> /\ study = "none"
    /\ linked_to = [discovery |-> "none", interaction |-> "none", cells |-> {}]

-----------------------------------------------------------------------------
\* The units of a plan: every point with every seed, in every cell.

Components == plan.components
OriginOf(c) == Families[c.family]
Origins == {OriginOf(Components[i]) : i \in DOMAIN Components}
Seeded(c) == c.family \in {"FEATURE_NOISE", "PARAMETER_NOISE"} \/ (c.family = "FEATURE_SCALING" /\ c.value < Whole)
WithSeed(c, seed) == IF Seeded(c) THEN [c EXCEPT !.seed = seed] ELSE c
ValidStress(c) == c.seed = 0 \/ Seeded(c)

Swept == plan.sweep.values # <<>>
Repeating == Components[1].family = "REPEATED_EXECUTION"
CellNames == IF plan.factorial THEN <<"A", "B", "AB">> ELSE <<"">>
NPoints == IF Swept THEN Len(plan.sweep.values) ELSE 1

ComponentAt(i, point) == IF Swept /\ i = plan.sweep.component THEN [Components[i] EXCEPT !.value = plan.sweep.values[point]]
                ELSE Components[i]
Resolve(point, seed) == [i \in DOMAIN Components |-> WithSeed(ComponentAt(i, point), seed)]
Alone(comps, cell) == IF cell = "A" THEN <<comps[1]>> ELSE IF cell = "B" THEN <<comps[2]>> ELSE comps

Units ==
    IF Repeating
    THEN [k \in 1..Components[1].value |->
             [point |-> 1, repeat |-> k, seed |-> 0, cell |-> "", components |-> Components]]
    ELSE LET C == Len(CellNames)
             R == Len(plan.seeds)
         IN  [k \in 1..(NPoints * R * C) |->
                 LET point == ((k - 1) \div (R * C)) + 1
                     repeat == (((k - 1) \div C) % R) + 1
                     cell == CellNames[((k - 1) % C) + 1]
                 IN  [point |-> point, repeat |-> repeat, seed |-> plan.seeds[repeat], cell |-> cell,
                      components |-> Alone(Resolve(point, plan.seeds[repeat]), cell)]]

Distinct(seq) == \A i, j \in DOMAIN seq : seq[i] = seq[j] => i = j

\* What the constructors of the stresses, the sweep and the plan refuse.
BadFactorial ==
    plan.factorial /\ \/ Len(Components) # 2 \/ Origins # {"FAULT_LABORATORY"} \/ Swept
                      \/ [Components[1] EXCEPT !.seed = 0] = [Components[2] EXCEPT !.seed = 0]
BadCompound ==
    /\ Len(Components) > 1 /\ Origins # {"FAULT_LABORATORY"}
    /\ \/ Origins # {"MODEL"}
       \/ \E i, j \in DOMAIN Components : i < j /\ LET a == COMPOUND_RANK[Components[i].family]
                                                       b == COMPOUND_RANK[Components[j].family]
                                                   IN a > b \/ (a = 1 /\ b = 1)
BadSeeds ==
    \/ plan.seeds = <<>> \/ ~Distinct(plan.seeds)
    \/ Len(plan.seeds) > 1 /\ \A i \in DOMAIN Components : ~Seeded(Components[i])
BadRepetition ==
    /\ \E i \in DOMAIN Components : Components[i].family = "REPEATED_EXECUTION"
    /\ Len(Components) > 1 \/ Swept \/ plan.seeds # <<0>>
BadSweep ==
    Swept /\ \/ ~Distinct(plan.sweep.values)
             \/ Len(Components) > 1 /\ "FAULT_LABORATORY" \in Origins
             \/ plan.sweep.component > Len(Components)
             \/ \E p \in 1..NPoints : ~ValidStress(ComponentAt(plan.sweep.component, p))
BadPlan ==
    \/ \E i \in DOMAIN Components : ~ValidStress(Components[i])
    \/ BadFactorial \/ BadCompound \/ BadSeeds \/ BadRepetition \/ BadSweep
    \/ Len(Units) > MAX_TRIALS
-----------------------------------------------------------------------------
\* Preflight may refuse any plan for what the adapters cannot do, and a baseline that is not
\* comparable; otherwise the baseline that was given is used, or one is run.
Preflight ==
    /\ stage = "request"
    /\ \/ stage' = "refused"
       \/ ~BadPlan /\ stage' = IF plan.given THEN "trials" ELSE "control"
    /\ UNCHANGED <<plan, job, outcomes, linked_to, study>>

RunControl ==
    /\ stage = "control"
    /\ stage' \in {"trials", "raised"}
    /\ UNCHANGED <<plan, job, outcomes, linked_to, study>>

InLaboratory == OriginOf(Components[1]) = "FAULT_LABORATORY"
UnitsOf(cell) ==
    LET units == Units
        at == InOrder({k \in DOMAIN units : units[k].cell = cell})
    IN  [i \in DOMAIN at |-> units[at[i]]]

\* A completed trial: does its evaluation fit the baseline's, and are there samples enough?
Completed(u, value, seed) ==
    {[unit |-> u, status |-> "COMPLETED", fits |-> f, enough |-> e, value |-> value, seed |-> seed] :
        f \in BOOLEAN, e \in BOOLEAN}
NotCompleted(u, value, seed) ==
    [unit |-> u, status |-> "FAILED", fits |-> FALSE, enough |-> FALSE, value |-> value, seed |-> seed]
ValueAt(point) == IF Swept THEN plan.sweep.values[point] ELSE 0

\* One fault experiment for the plan, or for each cell.  It makes its trials by point and seed; no
\* limit on failures is set, so it skips none.  Each unit is given the trial of its point and repeat.
LabTrials ==
    LET R == Len(plan.seeds)
        Made(k, s) == LET point == ((k - 1) \div R) + 1
                          repeat == ((k - 1) % R) + 1
                      IN [point |-> point, repeat |-> repeat, status |-> s, value |-> ValueAt(point),
                          seed |-> plan.seeds[repeat]]
    IN  {[k \in 1..(NPoints * R) |-> Made(k, s[k])] : s \in [1..(NPoints * R) -> {"COMPLETED", "FAILED"}]}
Look(trials, u) == CHOOSE t \in {trials[k] : k \in DOMAIN trials} : t.point = u.point /\ t.repeat = u.repeat

RunJob ==
    /\ stage = "trials" /\ InLaboratory /\ job < Len(CellNames)
    /\ LET units == UnitsOf(CellNames[job + 1])
       IN  \/ /\ NPoints <= MaxPoints
              /\ \E trials \in LabTrials :
                 \E f, e \in [DOMAIN units -> BOOLEAN] :
                    LET Trial(k) == LET t == Look(trials, units[k])
                                        done == t.status = "COMPLETED"
                                    IN [unit |-> units[k], status |-> t.status, fits |-> done /\ f[k],
                                        enough |-> done /\ e[k], value |-> t.value, seed |-> t.seed]
                    IN outcomes' = outcomes \o [k \in DOMAIN units |-> Trial(k)]
              /\ job' = job + 1 /\ UNCHANGED stage
           \/ stage' = "raised" /\ UNCHANGED <<job, outcomes>>
    /\ UNCHANGED <<plan, linked_to, study>>

\* Or a run for each unit: it completes, fails, or cannot even be started.
RunUnit ==
    /\ stage = "trials" /\ ~InLaboratory /\ Len(outcomes) < Len(Units)
    /\ LET u == Units[Len(outcomes) + 1]
           v == ValueAt(u.point)
       IN  \E t \in Completed(u, v, u.seed) \cup {NotCompleted(u, v, u.seed)} :
              outcomes' = Append(outcomes, t)
    /\ UNCHANGED <<plan, stage, job, linked_to, study>>

AllTried == IF InLaboratory THEN job = Len(CellNames) ELSE Len(outcomes) = Len(Units)

Discover ==
    /\ stage = "trials" /\ AllTried /\ stage' = "discovered"
    /\ IF plan.discover THEN \E s \in {"COMPLETED", "FAILED"} : linked_to' = [linked_to EXCEPT !.discovery = s]
       ELSE UNCHANGED linked_to
    /\ UNCHANGED <<plan, job, outcomes, study>>

\* The interaction is given the completed runs of each cell, and refuses an empty cell.
CellRuns(cell) == {i \in DOMAIN outcomes : outcomes[i].status = "COMPLETED" /\ outcomes[i].unit.cell = cell}

Interact ==
    /\ stage = "discovered" /\ stage' = "linked"
    /\ IF plan.factorial
       THEN \E s \in {"COMPLETED", "FAILED", "REFUSED"} :
               /\ s # "REFUSED" => \A c \in {"A", "B", "AB"} : CellRuns(c) # {}
               /\ linked_to' = [linked_to EXCEPT !.interaction = s, !.cells = {CellRuns(c) : c \in {"A", "B", "AB"}}]
       ELSE UNCHANGED linked_to
    /\ UNCHANGED <<plan, job, outcomes, study>>
-----------------------------------------------------------------------------
\* compute: the trials that count, the family of their tests, and the aggregates over repeats.

Analysed == {i \in DOMAIN outcomes : outcomes[i].status = "COMPLETED" /\ outcomes[i].fits}
Groups == {<<outcomes[i].unit.cell, outcomes[i].unit.point>> : i \in Analysed}
AggregateOfPoint(g) == {i \in Analysed : outcomes[i].unit.point = g[2]}
AggregateOf(g) == {i \in Analysed : <<outcomes[i].unit.cell, outcomes[i].unit.point>> = g}

\* The stability of repeats reads the metrics of every completed one.
CannotCompute ==
    LET done == {i \in DOMAIN outcomes : outcomes[i].status = "COMPLETED"}
    IN  Repeating /\ Cardinality(done) >= 2 /\ ~(done \subseteq Analysed)

Partial ==
    \/ \E i \in DOMAIN outcomes : outcomes[i].status # "COMPLETED" \/ ~outcomes[i].fits \/ ~outcomes[i].enough
    \/ linked_to.discovery = "FAILED" \/ linked_to.interaction \in {"FAILED", "REFUSED"}

Count(status) == Cardinality({i \in DOMAIN outcomes : outcomes[i].status = status})

Analyse ==
    /\ stage = "linked"
    /\ IF CannotCompute THEN stage' = "failed" /\ UNCHANGED study
       ELSE /\ stage' = "answered"
            /\ study' = [status |-> IF Partial THEN "PARTIAL" ELSE "COMPLETE",
                         aggregates |-> [g \in Groups |-> AggregateOf(g)], tests |-> Analysed,
                         completed |-> Count("COMPLETED"), failed |-> Count("FAILED")]
    /\ UNCHANGED <<plan, job, outcomes, linked_to>>

StressNext ==
    Preflight \/ RunControl \/ RunJob \/ RunUnit \/ Discover \/ Interact \/ Analyse

StressSpec == StressInit /\ [][StressNext]_stressVars
-----------------------------------------------------------------------------
\* An analysis accounts for its plan (compute, run_stress_experiment).  Every unit has exactly one
\* trial, which ran with the unit's value and seed.  The family of tests, and the aggregates between
\* them, hold each trial that completed over the baseline's model and data once, and no aggregate
\* mixes points or cells.  It is COMPLETE exactly if every trial completed, fits and has samples
\* enough and what it is linked to did not fail; and an interaction was given all the completed runs of
\* its three cells, each run in one cell.
OneTrialEach ==
    /\ Len(outcomes) = Len(Units)
    /\ \A k \in DOMAIN Units : \E i \in DOMAIN outcomes : outcomes[i].unit = Units[k]
    /\ \A i \in DOMAIN outcomes : LET r == outcomes[i] IN r.seed = r.unit.seed /\ r.value = ValueAt(r.unit.point)

Accounted(a) ==
    LET good == {i \in DOMAIN outcomes : outcomes[i].status = "COMPLETED" /\ outcomes[i].fits}
        sets == {a.aggregates[g] : g \in DOMAIN a.aggregates}
    IN  /\ a.tests = good /\ UNION sets = good /\ {} \notin sets
        /\ \A s \in sets : \A i, j \in s : LET u == outcomes[i].unit
                                               v == outcomes[j].unit
                                           IN u.point = v.point /\ u.cell = v.cell
        /\ \A g, h \in DOMAIN a.aggregates : g # h => a.aggregates[g] \cap a.aggregates[h] = {}

StressAccounted ==
    /\ stage = "answered" =>
        /\ OneTrialEach /\ Accounted(study)
        /\ study.completed + study.failed = Len(Units)
        /\ study.status = "COMPLETE" <=>
              /\ \A i \in DOMAIN outcomes : outcomes[i].fits /\ outcomes[i].enough
              /\ {linked_to.discovery, linked_to.interaction} \subseteq {"none", "COMPLETED"}
    /\ linked_to.interaction = "COMPLETED" =>
        /\ Cardinality(linked_to.cells) = 3 /\ {} \notin linked_to.cells
        /\ UNION linked_to.cells = {i \in DOMAIN outcomes : outcomes[i].status = "COMPLETED"}
        /\ \A x, y \in linked_to.cells : x # y => x \cap y = {}
=============================================================================
