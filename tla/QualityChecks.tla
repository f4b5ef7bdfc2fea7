---------------------------- MODULE QualityChecks ----------------------------
(***************************************************************************)
(* The checks of a data quality analysis (data_quality/checks.py), each a  *)
(* function of one table or of two, and how compute runs one on a split    *)
(* and on a slice of it.  Rates are per cent, outlier factors in halves.   *)
(* A violation names its rule, the column it is about (0: the table) and   *)
(* the samples.                                                            *)
(***************************************************************************)
EXTENDS Integers, Sequences, FiniteSets, Listing

CONSTANTS
    Missing, Infinite, Word,    \* the cells that are no number
    None,                       \* a limit that is not configured, a table that has no target
    Columns,                    \* a dataset has columns 1 .. Columns
    Checks                      \* sets of what is checked: see QualityInit

QualityCells == Int \cup {Missing, Infinite, Word}
Table ==
    {t \in [ids : Seq(Int), rows : Seq(Seq(QualityCells)), labels : Seq(QualityCells) \cup {None}, declared : Nat \cup {None}] :
        Len(t.rows) = Len(t.ids)}

CheckName ==
    {"schema", "sample_count", "missingness", "duplicates", "identifiers", "numeric", "categorical", "target",
     "distribution", "target_leakage"}
PairCheckName == {"split_overlap", "temporal_order", "group_comparison"}

ASSUME QualityAssumption ==
    /\ Columns \in Nat /\ Cardinality({Missing, Infinite, Word}) = 3 /\ {Missing, Infinite, Word} \cap Int = {}
    /\ None \notin Seq(QualityCells) \cup {"UNAVAILABLE", "NOT_APPLICABLE"}
    /\ \A asked \in Checks : \A q \in asked :
           /\ q.check \in CheckName \cup PairCheckName /\ q.min_members \in Nat
           /\ q.config.features \cup DOMAIN q.kinds \subseteq Nat \ {0}
           /\ q.tables \in Seq(Table) /\ Len(q.tables) = (IF q.check \in PairCheckName THEN 2 ELSE 1)
           /\ q.slice = None \/ q.slice \in [readable : BOOLEAN, ids : SUBSET Int]
           /\ q.check = "numeric" => q.config.k \in Nat
           /\ q.check = "temporal_order" => q.config.ordering \in {None} \cup (Nat \ {0})
           /\ q.check = "target_leakage" => q.config.max_abs_correlation \in 0..100 /\ q.config.min_rows \in Nat

VARIABLES
    quality,    \* the check, its configuration and its tables
    finding     \* its results: on the split, on the slice

qualityVars == <<quality, finding>>

\* [check, config, kinds, task, tables, slice, min_members]: a table is [ids, rows, labels, declared],
\* where labels is None or what the adapter served; a slice is None or [readable, ids].
QualityInit == (\E asked \in Checks : quality \in asked) /\ finding = None

-----------------------------------------------------------------------------
\* Tables and their cells.

Size(t) == Len(t.ids)
Places(t) == 1..Size(t)
Column(t, j) == [p \in Places(t) |-> IF j <= Len(t.rows[p]) THEN t.rows[p][j] ELSE Missing]
Ragged(t) == {t.ids[p] : p \in {x \in Places(t) : Len(t.rows[x]) # Columns}}
ServedTwice(t) == {t.ids[p] : p \in {x \in Places(t) : \E y \in Places(t) : x # y /\ t.ids[x] = t.ids[y]}}
Aligned(t) == t.labels # None /\ Len(t.labels) = Size(t)
\* What is keyed by sample has the last row of a sample that was served twice.
LastPlace(t, i) == CHOOSE p \in Places(t) : t.ids[p] = i /\ \A x \in Places(t) : t.ids[x] = i => x <= p

SelectRows(t, places) ==
    LET in == InOrder(places)
        Of(s) == [k \in DOMAIN in |-> s[in[k]]]
    IN  [ids |-> Of(t.ids), rows |-> Of(t.rows), labels |-> IF Aligned(t) THEN Of(t.labels) ELSE None, declared |-> None]

StateOf(x, kind) ==
    IF x = Missing THEN "missing"
    ELSE IF x = Infinite THEN "nonfinite"
    ELSE IF (kind = "NUMERIC" /\ x = Word) \/ (kind = "BOOLEAN" /\ x \notin {0, 1}) THEN "invalid"
    ELSE "valid"

KindOf(j) == IF j \in DOMAIN quality.kinds THEN quality.kinds[j] ELSE "CATEGORICAL"
InState(t, j, kind, states) == {p \in Places(t) : StateOf(Column(t, j)[p], kind) \in states}
ValidAt(t, j) == InState(t, j, KindOf(j), {"valid"})
Absent(t, j) == InState(t, j, KindOf(j), {"missing"})
Invalid(t, j) == InState(t, j, KindOf(j), {"invalid"})
Bad(t, j) == InState(t, j, KindOf(j), {"invalid", "nonfinite"})
ValuesAt(t, j, places) == [p \in places |-> Column(t, j)[p]]
IdsAt(t, places) == {t.ids[p] : p \in places}

\* The features a check names, else every declared one, else every column.
Chosen == IF quality.config.features # {} THEN quality.config.features
          ELSE IF DOMAIN quality.kinds # {} THEN DOMAIN quality.kinds ELSE 1..Columns
ChosenOf(kinds) == {j \in Chosen : j \in DOMAIN quality.kinds /\ quality.kinds[j] \in kinds}

Over(limit, k, n) == limit # None /\ 100 * k > limit * n

-----------------------------------------------------------------------------
\* Violations and results.

Fail(rule, subject, ids) == [severity |-> "FAIL", rule |-> rule, subject |-> subject, ids |-> ids]
Warn(rule, subject, ids) == [severity |-> "WARNING", rule |-> rule, subject |-> subject, ids |-> ids]
Either(strict, rule, subject, ids) == IF strict THEN Fail(rule, subject, ids) ELSE Warn(rule, subject, ids)
On(condition, violation) == IF condition THEN {violation} ELSE {}
Fails(violations) == {v \in violations : v.severity = "FAIL"}

StatusOf(violations) ==
    IF Fails(violations) # {} THEN "FAIL" ELSE IF violations # {} THEN "WARNING" ELSE "PASS"
Judged(violations) == [status |-> StatusOf(violations), violations |-> violations]
JudgedIf(violations, enough) ==
    [status |-> IF enough \/ Fails(violations) # {} THEN StatusOf(violations) ELSE "INCONCLUSIVE",
     violations |-> violations]
Bare(status) == [status |-> status, violations |-> {}]

WorstFirst == <<"FAIL", "WARNING", "INCONCLUSIVE", "UNAVAILABLE", "NOT_APPLICABLE", "PASS">>
WorstOf(statuses) ==
    IF statuses = {} THEN "NOT_APPLICABLE"
    ELSE LET k == CHOOSE i \in DOMAIN WorstFirst :
                      WorstFirst[i] \in statuses /\ \A h \in 1..(i - 1) : WorstFirst[h] \notin statuses
         IN WorstFirst[k]
\* A result for each feature, made one.
Together(per) ==
    [status |-> WorstOf({per[j].status : j \in DOMAIN per}), violations |-> UNION {per[j].violations : j \in DOMAIN per}]

-----------------------------------------------------------------------------
\* Order statistics of the values at some places; sums.

Nth(value, k) ==
    CHOOSE x \in {value[p] : p \in DOMAIN value} :
        /\ Cardinality({p \in DOMAIN value : value[p] < x}) < k
        /\ Cardinality({p \in DOMAIN value : value[p] <= x}) >= k
Quartile4(value, q) ==
    LET n == Cardinality(DOMAIN value)
        at == q * (n - 1)
        low == at \div 4 + 1
        high == IF low + 1 > n THEN n ELSE low + 1
    IN  4 * Nth(value, low) + (Nth(value, high) - Nth(value, low)) * (at % 4)
Median2(value) ==
    LET n == Cardinality(DOMAIN value) IN Nth(value, (n + 1) \div 2) + Nth(value, n \div 2 + 1)
Apart(x, y) == IF x < y THEN y - x ELSE x - y

\* The fences of Tukey, or the modified z-score; nothing is scored if the deviation is zero.
Outliers(value, method, k) ==
    IF method = "iqr"
    THEN LET q1 == Quartile4(value, 1)
             q3 == Quartile4(value, 3)
         IN  {p \in DOMAIN value : 8 * value[p] < 2 * q1 - k * (q3 - q1) \/ 8 * value[p] > 2 * q3 + k * (q3 - q1)}
    ELSE LET away == [p \in DOMAIN value |-> Apart(2 * value[p], Median2(value))]
             mad == Median2(away)
         IN  {p \in DOMAIN value : mad # 0 /\ 4 * 6745 * away[p] > 10000 * k * mad}

Total(value) ==
    LET sum[S \in SUBSET DOMAIN value] == IF S = {} THEN 0 ELSE LET one == CHOOSE x \in S : TRUE IN value[one] + sum[S \ {one}]
    IN sum[DOMAIN value]
\* n times the deviations from the mean.
Deviations(value) == [p \in DOMAIN value |-> Cardinality(DOMAIN value) * value[p] - Total(value)]
Products(f, g) == [p \in DOMAIN f |-> f[p] * g[p]]
SquareSum(value) == LET d == Deviations(value) IN Total(Products(d, d))

CountOf(value) == [x \in {value[p] : p \in DOMAIN value} |-> Cardinality({p \in DOMAIN value : value[p] = x})]
Most(count) == CHOOSE c \in {count[x] : x \in DOMAIN count} : \A x \in DOMAIN count : count[x] <= c

-----------------------------------------------------------------------------
\* Schema, count, missing cells.

CheckSchema(c, t) ==
    LET lacking == c.required \ (1..Columns)
        extra == (1..Columns) \ (DOMAIN quality.kinds \cup c.required)
        untyped == {j \in Chosen \cap (1..Columns) : Invalid(t, j) # {}}
    IN  Judged(On(lacking # {}, Fail("required_column_missing", 0, lacking))
              \cup On(~c.allow_extra /\ extra # {}, Fail("undeclared_column", 0, extra))
              \cup On(Ragged(t) # {}, Fail("ragged_rows", 0, Ragged(t)))
              \cup {Fail("declared_feature_missing", j, {}) : j \in Chosen \ ((1..Columns) \cup c.required)}
              \cup {Fail("invalid_type", j, IdsAt(t, Invalid(t, j))) : j \in untyped})

CheckSampleCount(c, t) ==
    LET n == Size(t)
        targets == quality.task # None
    IN  Judged(On(n = 0, Warn("empty_table", 0, {}))
              \cup On(c.min # None /\ n < c.min, Fail("min_violated", 0, {}))
              \cup On(c.max # None /\ n > c.max, Fail("max_violated", 0, {}))
              \cup On(c.expected # None /\ n # c.expected, Fail("expected_violated", 0, {}))
              \cup On(t.declared # None /\ t.declared # n, Fail("metadata_count_mismatch", 0, {}))
              \cup On(targets /\ t.labels # None /\ Len(t.labels) # n, Fail("feature_target_length_mismatch", 0, {}))
              \cup On(targets /\ t.labels = None /\ n > 0, Fail("target_absent", 0, {}))
              \cup On(ServedTwice(t) # {}, Warn("duplicate_sample_ids", 0, ServedTwice(t))))

CheckMissingness(c, t) ==
    LET late == {p \in Places(t) : Over(c.max_row_rate, Cardinality({j \in Chosen : p \in Absent(t, j)}), Cardinality(Chosen))}
    IN  Judged({Fail("feature_missing_rate_exceeded", j, {}) :
                  j \in {x \in Chosen : Over(c.max_feature_rate, Cardinality(Absent(t, x)), Size(t))}}
              \cup On(late # {}, Fail("row_missing_rate_exceeded", 0, IdsAt(t, late))))

-----------------------------------------------------------------------------
\* Duplicates and identifiers.

Features(t, p) == [j \in Chosen |-> Column(t, j)[p]]
Classes(key) == {{p \in DOMAIN key : key[p] = x} : x \in {key[q] : q \in DOMAIN key}}
FirstOf(g) == CHOOSE p \in g : \A q \in g : p <= q

CheckDuplicates(c, t) ==
    LET vector == [p \in Places(t) |-> Features(t, p)]
        key == [p \in Places(t) |-> IF c.include_target /\ Aligned(t) THEN <<vector[p], t.labels[p]>> ELSE <<vector[p]>>]
        repeats == {g \in Classes(key) : Cardinality(g) > 1}
        again == UNION {g \ {FirstOf(g)} : g \in repeats}
        torn == IF Aligned(t) THEN {g \in Classes(vector) : \E p, q \in g : t.labels[p] # t.labels[q]} ELSE {}
        broken == Over(c.max_conflicting_rate, Cardinality(UNION torn), Size(t))
        fails == On(Over(c.max_duplicate_rate, Cardinality(again), Size(t)), Fail("duplicate_rate_exceeded", 0, {}))
                 \cup On(broken, Fail("conflicting_rate_exceeded", 0, {}))
    IN  Judged(fails \cup On(again # {} /\ fails = {}, Warn("duplicate_rows", 0, IdsAt(t, again)))
              \cup On(torn # {} /\ ~broken, Warn("identical_features_different_target", 0, IdsAt(t, UNION torn))))

CheckIdentifiers(c, t) ==
    LET name == IF c.column = None THEN <<>> ELSE ValuesAt(t, c.column, InState(t, c.column, "CATEGORICAL", {"valid"}))
        lost == IF c.column = None THEN {} ELSE InState(t, c.column, "CATEGORICAL", {"missing"})
        shared == {g \in Classes(name) : Cardinality(g) > 1}
        Signature(i) == LET at == LastPlace(t, i)
                        IN <<[j \in (1..Columns) \ {c.column} |-> Column(t, j)[at]], IF Aligned(t) THEN t.labels[at] ELSE None>>
        torn == {g \in shared : Cardinality({Signature(t.ids[p]) : p \in g}) > 1}
        short == {i \in IdsAt(t, UNION shared) : Len(t.rows[LastPlace(t, i)]) < Columns}
        Identifies(j) == LET n == Cardinality(ValidAt(t, j))
                         IN n >= c.min_samples /\ 100 * Cardinality({Column(t, j)[p] : p \in ValidAt(t, j)}) >= c.unique_ratio * n
        \* a signature reads the row itself, not the column: a short row has nothing to read
    IN  IF short # {} THEN Bare("RAISED")
        ELSE
        Judged(On(shared # {}, Either(c.require_unique, "duplicate_ids", c.column, IdsAt(t, UNION shared)))
              \cup On(torn # {}, Either(c.require_unique, "conflicting_rows_share_id", c.column, IdsAt(t, UNION torn)))
              \cup On(lost # {}, Warn("missing_ids", c.column, IdsAt(t, lost)))
              \cup On(ServedTwice(t) # {}, Warn("adapter_served_ids_twice", 0, ServedTwice(t)))
              \cup {Warn("identifier_like", j, {}) : j \in {x \in Chosen : Identifies(x)}})

-----------------------------------------------------------------------------
\* Features one by one.

NumericFeature(c, t, j) ==
    LET value == ValuesAt(t, j, ValidAt(t, j))
        n == Cardinality(ValidAt(t, j))
        count == CountOf(value)
        infinite == InState(t, j, "NUMERIC", {"nonfinite"})
        types == On(Invalid(t, j) # {}, Fail("invalid_type", j, IdsAt(t, Invalid(t, j))))
                 \cup On(infinite # {}, Warn("nonfinite_values", j, IdsAt(t, infinite)))
        outside == {p \in DOMAIN value : (c.low # None /\ value[p] < c.low) \/ (c.high # None /\ value[p] > c.high)}
        far == Outliers(value, c.method, c.k)
    IN  IF n = 0 THEN JudgedIf(types, FALSE)
        ELSE Judged(types
                \cup On(Cardinality(DOMAIN count) = 1, Warn("constant_feature", j, {}))
                \cup On(Cardinality(DOMAIN count) > 1 /\ 100 * Most(count) >= c.near_constant * n,
                        Warn("near_constant_feature", j, {}))
                \cup On(c.min_variance # None /\ n > 1 /\ SquareSum(value) < c.min_variance * n * n * (n - 1),
                        Fail("variance_below_minimum", j, {}))
                \cup On(outside # {}, Fail("outside_bounds", j, IdsAt(t, outside)))
                \cup On(Over(c.max_outlier_rate, Cardinality(far), n), Fail("outlier_rate_exceeded", j, IdsAt(t, far))))

CheckNumeric(c, t) == Together([j \in ChosenOf({"NUMERIC"}) |-> NumericFeature(c, t, j)])

CategoricalFeature(c, t, j) ==
    LET value == ValuesAt(t, j, ValidAt(t, j))
        foreign == {p \in DOMAIN value : c.allowed # None /\ value[p] \notin c.allowed}
    IN  JudgedIf(On(Bad(t, j) # {}, Fail("invalid_type", j, IdsAt(t, Bad(t, j))))
                \cup On(foreign # {}, Fail("invalid_category", j, IdsAt(t, foreign)))
                \cup On(c.max_cardinality # None /\ Cardinality({value[p] : p \in DOMAIN value}) > c.max_cardinality,
                        Fail("cardinality_exceeded", j, {})), ValidAt(t, j) # {})

CheckCategorical(c, t) == Together([j \in ChosenOf({"CATEGORICAL", "BOOLEAN"}) |-> CategoricalFeature(c, t, j)])

\* |skewness| > s, with n^2 times its square (of third and second moments) compared to that of s.
Skewed(value, s) ==
    LET n == Cardinality(DOMAIN value)
        d == Deviations(value)
        m2 == Total(Products(d, d))
        m3 == Total(Products(d, Products(d, d)))
    IN  m2 # 0 /\ n * m3 * m3 > s * s * m2 * m2 * m2

DistributionFeature(c, t, j) ==
    LET value == ValuesAt(t, j, ValidAt(t, j))
        count == CountOf(value)
    IN  IF value = <<>> THEN Bare("INCONCLUSIVE")
        ELSE Judged(On(KindOf(j) = "NUMERIC" /\ c.max_abs_skew # None /\ Skewed(value, c.max_abs_skew),
                      Warn("skew_exceeds_configured", j, {}))
                \cup On(Over(c.max_modal_fraction, Most(count), Cardinality(DOMAIN value)), Warn("dominant_value", j, {}))
                \cup On(c.min_unique # None /\ Cardinality(DOMAIN count) < c.min_unique, Warn("few_distinct_values", j, {})))

CheckDistribution(c, t) == Together([j \in Chosen |-> DistributionFeature(c, t, j)])

-----------------------------------------------------------------------------
\* The target, and features that give it away.

WithoutLabel(t) == {p \in Places(t) : t.labels[p] = Missing}
\* A row counts as present unless its sample is among the missing.
WithTarget(t) == {p \in Places(t) : t.ids[p] \notin IdsAt(t, WithoutLabel(t))}
TargetsAt(t, x) == {p \in WithTarget(t) : t.labels[p] = x}
ClassesOf(t) == [p \in {x \in WithTarget(t) : t.ids[x] \notin IdsAt(t, TargetsAt(t, Infinite))} |-> t.labels[p]]

MissingTargets(c, t) ==
    LET lost == WithoutLabel(t)
    IN  On(lost # {}, Warn("missing_targets", 0, IdsAt(t, lost)))
        \cup On(Over(c.max_missing_rate, Cardinality(lost), Size(t)), Fail("missing_target_rate_exceeded", 0, {}))

ClassTargets(c, t) ==
    LET infinite == TargetsAt(t, Infinite)
        words == TargetsAt(t, Word)
        class == ClassesOf(t)
        count == CountOf(class)
        Having(classes) == {p \in DOMAIN class : class[p] \in classes}
        foreign == {x \in DOMAIN count : c.allowed # None /\ x \notin c.allowed}
        single == {x \in DOMAIN count : count[x] = 1}
        few == {x \in DOMAIN count : c.min_class_count # None /\ count[x] < c.min_class_count}
        thin == {x \in DOMAIN count : c.min_class_share # None /\ 100 * count[x] < c.min_class_share * Cardinality(DOMAIN class)}
    IN  On(words # {} /\ words # WithTarget(t), Fail("inconsistent_target_types", 0, {}))
        \cup On(infinite # {}, Fail("nonfinite_target", 0, IdsAt(t, infinite)))
        \cup On(foreign # {}, Fail("invalid_target_value", 0, IdsAt(t, Having(foreign))))
        \cup On(single # {}, Warn("singleton_class", 0, IdsAt(t, Having(single))))
        \cup On(few # {}, Fail("class_below_min_count", 0, IdsAt(t, Having(few))))
        \cup On(thin # {}, Fail("class_below_min_proportion", 0, IdsAt(t, Having(thin))))

NumberTargets(t) ==
    LET infinite == TargetsAt(t, Infinite)
        words == TargetsAt(t, Word)
    IN  On(words # {}, Fail("non_numeric_target", 0, IdsAt(t, words)))
        \cup On(infinite # {}, Warn("nonfinite_target", 0, IdsAt(t, infinite)))

CheckTarget(c, t) ==
    IF ~Aligned(t) THEN Bare("UNAVAILABLE")
    ELSE IF quality.task = "CLASSIFICATION"
    THEN JudgedIf(MissingTargets(c, t) \cup ClassTargets(c, t), DOMAIN ClassesOf(t) # {})
    ELSE JudgedIf(MissingTargets(c, t) \cup NumberTargets(t), TargetsAt(t, Word) \cup TargetsAt(t, Infinite) # WithTarget(t))

Correlated(x, y, least) ==
    LET product == Total(Products(Deviations(x), Deviations(y)))
        squares == SquareSum(x) * SquareSum(y)
    IN  squares # 0 /\ 10000 * product * product >= least * least * squares

\* Does a value of the feature x, among those that two rows have, tell the target y?
Telling(x, y, c) ==
    LET n == Cardinality(DOMAIN x)
        groups == Classes(x)
        supported == {g \in groups : Cardinality(g) >= 2}
        covered == Cardinality(UNION supported)
        majority == [g \in supported |-> Most(CountOf([p \in g |-> y[p]]))]
    IN  /\ Cardinality(groups) >= 2 /\ 2 * covered >= n
        /\ 100 * Total(majority) >= c.min_purity * (IF covered = 0 THEN 1 ELSE covered)
        /\ 100 * Most(CountOf(y)) < c.min_purity * n

LabelKind == IF quality.task = "REGRESSION" THEN "NUMERIC" ELSE "CATEGORICAL"

LeakageCandidate(c, t, j) ==
    LET pairs == {p \in ValidAt(t, j) : StateOf(t.labels[p], LabelKind) = "valid"}
        x == ValuesAt(t, j, pairs)
        y == [p \in pairs |-> t.labels[p]]
        n == Cardinality(pairs)
        same == {p \in pairs : KindOf(j) = "NUMERIC" /\ x[p] = t.labels[LastPlace(t, t.ids[p])]}
        flagged == \/ 100 * Cardinality(same) >= c.max_abs_correlation * n
                   \/ KindOf(j) = "NUMERIC" /\ LabelKind = "NUMERIC" /\ Correlated(x, y, c.max_abs_correlation)
                   \/ LabelKind = "CATEGORICAL" /\ Telling(x, y, c)
    IN  IF n < c.min_rows THEN Bare("INCONCLUSIVE") ELSE Judged(On(flagged, Warn("leakage_indicator", j, {})))

CheckTargetLeakage(c, t) ==
    IF ~Aligned(t) THEN Bare("UNAVAILABLE") ELSE Together([j \in Chosen |-> LeakageCandidate(c, t, j)])

-----------------------------------------------------------------------------
\* Two tables.

CheckSplitOverlap(c, ref, cmp) ==
    LET both == {ref.ids[p] : p \in Places(ref)} \cap {cmp.ids[p] : p \in Places(cmp)}
        hits == {p \in Places(cmp) : \E x \in Places(ref) : Features(cmp, p) = Features(ref, x)}
        torn == {p \in hits : /\ Aligned(ref) /\ Aligned(cmp)
                              /\ \A x \in Places(ref) : Features(cmp, p) = Features(ref, x) => cmp.labels[p] # ref.labels[x]}
        TooMany(n) == c.max_overlap # None /\ n > c.max_overlap
    IN  Judged(On(both # {}, Either(TooMany(Cardinality(both)), "sample_id_overlap", 0, both))
              \cup On(hits # {}, Either(TooMany(Cardinality(hits)), "identical_feature_vector_across_splits", 0, IdsAt(cmp, hits)))
              \cup On(torn # {}, Warn("identical_features_different_target_across_splits", 0, IdsAt(cmp, torn))))

\* The ordering key of each sample that has a usable one: its last.  None orders by sample.
OrderKeys(t, by) ==
    LET usable == IF by = None THEN Places(t) ELSE InState(t, by, "NUMERIC", {"valid"})
        Last(i) == CHOOSE p \in usable : t.ids[p] = i /\ \A x \in usable : t.ids[x] = i => x <= p
    IN  [i \in IdsAt(t, usable) |-> IF by = None THEN i ELSE Column(t, by)[Last(i)]]
Unusable(t, by) == IF by = None THEN {} ELSE InState(t, by, "NUMERIC", {"missing", "nonfinite", "invalid"})

CheckTemporalOrder(c, ref, cmp) ==
    LET rk == OrderKeys(ref, c.ordering)
        ck == OrderKeys(cmp, c.ordering)
        Early(x, y) == IF c.allow_ties THEN x < y ELSE x <= y
        early == {i \in DOMAIN ck : \E h \in DOMAIN rk : Early(ck[i], rk[h])}
        late == {h \in DOMAIN rk : \E i \in DOMAIN ck : Early(ck[i], rk[h])}
        lost(t) == Unusable(t, c.ordering)
    IN  IF DOMAIN rk = {} \/ DOMAIN ck = {} THEN Bare("INCONCLUSIVE")
        ELSE Judged(On(early # {}, Warn("comparison_rows_not_after_reference", 0, early))
                   \cup On(late # {}, Warn("reference_rows_not_before_comparison", 0, late))
                   \cup On(lost(ref) # {}, Warn("unusable_ordering_key", 1, IdsAt(ref, lost(ref))))
                   \cup On(lost(cmp) # {}, Warn("unusable_ordering_key", 2, IdsAt(cmp, lost(cmp)))))

\* The rows of a split, or those whose key is in a window of it.
GroupOf(t, window, by) ==
    IF window = None THEN t
    ELSE LET key == OrderKeys(t, by)
         IN  SelectRows(t, {p \in Places(t) : t.ids[p] \in DOMAIN key /\ window[1] <= key[t.ids[p]] /\ key[t.ids[p]] < window[2]})

CheckGroupComparison(c, t1, t2) ==
    LET ref == GroupOf(t1, c.windows[1], c.ordering)
        cmp == GroupOf(t2, c.windows[2], c.ordering)
        shared == c.same_split /\ IdsAt(ref, Places(ref)) \cap IdsAt(cmp, Places(cmp)) # {}
        enough == Size(ref) >= quality.min_members /\ Size(cmp) >= quality.min_members
        Values(t, j) == {Column(t, j)[p] : p \in ValidAt(t, j)}
        new == {j \in ChosenOf({"CATEGORICAL", "BOOLEAN"}) : Values(cmp, j) \ Values(ref, j) # {}}
    IN  IF shared \/ Size(ref) = 0 \/ Size(cmp) = 0 THEN Bare("INCONCLUSIVE")
        ELSE JudgedIf({Warn("observed_new_category", j, {}) : j \in IF "categories" \in c.aspects THEN new ELSE {}},
                     enough \/ ("categories" \in c.aspects /\ new # {}))

-----------------------------------------------------------------------------
\* The analysis: a check on its table, and on a slice of it.

OfRows(t, result) == IF Size(t) = 0 THEN Bare("NOT_APPLICABLE") ELSE result

OutcomeOf(tables) ==
    LET c == quality.config
        t == tables[1]
    IN  CASE quality.check = "schema" -> CheckSchema(c, t)
          [] quality.check = "sample_count" -> CheckSampleCount(c, t)
          [] quality.check = "missingness" -> OfRows(t, CheckMissingness(c, t))
          [] quality.check = "duplicates" -> OfRows(t, CheckDuplicates(c, t))
          [] quality.check = "identifiers" -> OfRows(t, CheckIdentifiers(c, t))
          [] quality.check = "numeric" -> OfRows(t, CheckNumeric(c, t))
          [] quality.check = "categorical" -> OfRows(t, CheckCategorical(c, t))
          [] quality.check = "target" -> OfRows(t, CheckTarget(c, t))
          [] quality.check = "distribution" -> OfRows(t, CheckDistribution(c, t))
          [] quality.check = "target_leakage" -> OfRows(t, CheckTargetLeakage(c, t))
          [] quality.check = "split_overlap" -> CheckSplitOverlap(c, t, tables[2])
          [] quality.check = "temporal_order" -> CheckTemporalOrder(c, t, tables[2])
          [] quality.check = "group_comparison" -> CheckGroupComparison(c, t, tables[2])

SLICEABLE == {"categorical", "distribution", "duplicates", "missingness", "numeric", "target"}

\* A slice is evaluated per sample: a table with a sample twice has none, nor one without the slice's field.
SliceOf(t) == SelectRows(t, {p \in Places(t) : t.ids[p] \in quality.slice.ids})
Withheld(t) ==
    IF ServedTwice(t) # {} \/ ~quality.slice.readable THEN "UNAVAILABLE"
    ELSE IF quality.slice.ids \cap IdsAt(t, Places(t)) = {} THEN "NOT_APPLICABLE" ELSE None

\* A variant for the mutation tests: too small a slice is inconclusive even when it fails.
SmallSliceOutcome(t) ==
    LET r == OutcomeOf(<<SliceOf(t)>>)
    IN  IF Withheld(t) # None THEN Bare(Withheld(t))
        ELSE IF Size(SliceOf(t)) < quality.min_members THEN [r EXCEPT !.status = "INCONCLUSIVE"] ELSE r

SliceOutcome(t) ==
    LET r == OutcomeOf(<<SliceOf(t)>>)
    IN  IF Withheld(t) # None THEN Bare(Withheld(t))
        ELSE IF Size(SliceOf(t)) < quality.min_members /\ r.status \in {"PASS", "WARNING"}
        THEN [r EXCEPT !.status = "INCONCLUSIVE"] ELSE r

Results ==
    [whole |-> OutcomeOf(quality.tables),
     slice |-> IF quality.slice = None \/ quality.check \notin SLICEABLE THEN Bare("NOT_APPLICABLE")
               ELSE SliceOutcome(quality.tables[1])]

Check == finding = None /\ finding' = Results /\ UNCHANGED quality

QualityNext == Check

QualityBehaviour == QualityInit /\ [][QualityNext]_qualityVars

-----------------------------------------------------------------------------
(***************************************************************************)
(* What a reader of the findings relies on.  A check fails exactly if one  *)
(* of its violations is a failure, and passes only without any; the order  *)
(* in which the adapter serves the rows changes neither a status nor what  *)
(* was violated; in a slice exactly the samples of the slice are at fault  *)
(* that are at fault in the split, and too few of them never pass or warn; *)
(* most values are no outliers; two splits overlap or not, whichever is    *)
(* the reference; if the order of the splits passes, every row has a key   *)
(* and none comes too early; a feature that follows the target along a     *)
(* line is indicated.                                                      *)
(*                                                                         *)
(* Samples must be distinct: several checks find a row by its sample.      *)
(***************************************************************************)
SampleRules == {"invalid_type", "nonfinite_values", "outside_bounds", "invalid_category", "missing_targets",
                "nonfinite_target", "non_numeric_target", "invalid_target_value"}
AtFault(r, rule, j) == UNION {v.ids : v \in {w \in r.violations : w.rule = rule /\ w.subject = j}}
Shuffled(t, f) ==
    [t EXCEPT !.ids = [n \in Places(t) |-> t.ids[f[n]]], !.rows = [n \in Places(t) |-> t.rows[f[n]]],
              !.labels = IF Aligned(t) THEN [n \in Places(t) |-> t.labels[f[n]]] ELSE t.labels]
Orders(t) == {f \in [Places(t) -> Places(t)] : \A m, n \in Places(t) : f[m] = f[n] => m = n}
Said(r) == <<r.status, {<<v.severity, v.rule, v.subject>> : v \in r.violations}>>

Collinear(x, y) ==
    \A m, n, o \in DOMAIN x : (x[m] - x[n]) * (y[m] - y[o]) = (x[m] - x[o]) * (y[m] - y[n])

HonestResult(r) ==
    /\ (r.status = "FAIL") = (Fails(r.violations) # {})
    /\ r.status = "PASS" => r.violations = {}

\* The parts below are about what was found, once it was.
OnWhole == finding.whole
First == quality.tables[1]
Second == quality.tables[Len(quality.tables)]
AllDistinct == \A n \in DOMAIN quality.tables : ServedTwice(quality.tables[n]) = {}

ResultsHonest == HonestResult(finding.whole) /\ HonestResult(finding.slice)

RowOrderIrrelevant ==
    AllDistinct => \A f \in Orders(First) :
        Said(OutcomeOf([quality.tables EXCEPT ![1] = Shuffled(First, f)])) = Said(OnWhole)

SliceAgrees ==
    quality.slice # None /\ quality.check \in SLICEABLE /\ Withheld(First) = None =>
        /\ \A rule \in SampleRules, j \in 0..Columns :
                AtFault(finding.slice, rule, j) = AtFault(OnWhole, rule, j) \cap quality.slice.ids
        /\ Cardinality(quality.slice.ids \cap IdsAt(First, Places(First))) < quality.min_members =>
                finding.slice.status \notin {"PASS", "WARNING"}

MostAreNoOutliers ==
    quality.check = "numeric" /\ quality.config.k >= 2 => \A j \in ChosenOf({"NUMERIC"}) :
        LET value == ValuesAt(First, j, ValidAt(First, j))
        IN  2 * Cardinality(Outliers(value, quality.config.method, quality.config.k)) <= Cardinality(ValidAt(First, j))

OverlapIsMutual ==
    quality.check = "split_overlap" =>
        (OnWhole.status = "PASS") = (OutcomeOf(<<Second, First>>).status = "PASS")

OrderHolds ==
    LET by == quality.config.ordering
    IN  quality.check = "temporal_order" /\ by # None /\ AllDistinct /\ OnWhole.status = "PASS" =>
            \A m \in Places(First), n \in Places(Second) :
                /\ StateOf(Column(First, by)[m], "NUMERIC") = "valid"
                /\ StateOf(Column(Second, by)[n], "NUMERIC") = "valid"
                /\ \/ Column(First, by)[m] < Column(Second, by)[n]
                   \/ quality.config.allow_ties /\ Column(First, by)[m] = Column(Second, by)[n]

LinesAreIndicated ==
    quality.check = "target_leakage" /\ quality.task = "REGRESSION" /\ Aligned(First) => \A j \in Chosen :
        LET pairs == {n \in ValidAt(First, j) : StateOf(First.labels[n], "NUMERIC") = "valid"}
            x == ValuesAt(First, j, pairs)
            y == [n \in pairs |-> First.labels[n]]
            Varies(f) == \E m, n \in pairs : f[m] # f[n]
        IN  KindOf(j) = "NUMERIC" /\ Cardinality(pairs) >= quality.config.min_rows /\ Varies(x) /\ Varies(y) /\ Collinear(x, y) =>
                \E v \in OnWhole.violations : v.rule = "leakage_indicator" /\ v.subject = j

QualityHonest ==
    finding # None =>
        ResultsHonest /\ RowOrderIrrelevant /\ SliceAgrees /\ MostAreNoOutliers
        /\ OverlapIsMutual /\ OrderHolds /\ LinesAreIndicated
=============================================================================
