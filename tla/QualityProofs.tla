---------------------------- MODULE QualityProofs ----------------------------
(***************************************************************************)
(* Theorems about the data quality checks, for any tables, configuration,  *)
(* slice and feature kinds: that what they find can be relied on.          *)
(*                                                                         *)
(* There is one step, and what it finds is a function of the question; so  *)
(* the work is in the operators.  First what they say of any values: sums  *)
(* do not depend on an order, values on a line correlate, at most half of  *)
(* the values lie beyond Tukey's fences or far from the median.  Then      *)
(* tables, where Embeds says that one has some of the rows of another and  *)
(* Covers that it has all of them in another order: each statistic, each   *)
(* feature and each check in turn is the same under Covers.  On a slice    *)
(* only the faults of single samples agree, rule by rule.                  *)
(***************************************************************************)
EXTENDS AnalysisProofs, QualityChecks

\* Induction over the subsets of a finite set, for a set of them.
LEMMA SubsetInduction ==
    ASSUME NEW D, IsFiniteSet(D), NEW F, {} \in F,
           \A S \in SUBSET D : S # {} /\ (\A x \in S : S \ {x} \in F) => S \in F
    PROVE  SUBSET D \subseteq F
<1> DEFINE I == {n \in Nat : \A S \in SUBSET D : Cardinality(S) = n => S \in F}
<1>0. \A S \in SUBSET D : IsFiniteSet(S) /\ Cardinality(S) \in Nat
  BY FS_Subset, FS_CardinalityType
<1>1. 0 \in I
  <2> SUFFICES ASSUME NEW S \in SUBSET D, Cardinality(S) = 0 PROVE S \in F
    OBVIOUS
  <2>1. S = {}
    BY <1>0, FS_EmptySet
  <2> QED
    BY <2>1
<1>2. ASSUME NEW n \in Nat, n \in I PROVE n + 1 \in I
  <2> SUFFICES ASSUME NEW S \in SUBSET D, Cardinality(S) = n + 1 PROVE S \in F
    OBVIOUS
  <2>1. S # {}
    BY <1>0, FS_EmptySet
  <2>2. ASSUME NEW x \in S PROVE S \ {x} \in F
    <3>1. Cardinality(S \ {x}) = Cardinality(S) - 1
      BY <1>0, FS_RemoveElement
    <3>2. Cardinality(S \ {x}) = n
      BY <3>1
    <3> QED
      BY <1>2, <3>2
  <2> QED
    BY <2>1, <2>2
<1> HIDE DEF I
<1>3. Nat \subseteq I
  BY <1>1, <1>2, NatSet
<1>4. ASSUME NEW S \in SUBSET D PROVE S \in F
  BY <1>0, <1>3 DEF I
<1> QED
  BY <1>4

(***************************************************************************)
(* Sums.                                                                   *)
(***************************************************************************)

Summed(f, value) ==
    f = [S \in SUBSET DOMAIN value |-> IF S = {} THEN 0 ELSE value[CHOOSE x \in S : TRUE] + f[S \ {CHOOSE x \in S : TRUE}]]

\* f adds the values of value one by one, in any order.
Adds(f, value) ==
    /\ f \in [SUBSET DOMAIN value -> Int] /\ f[{}] = 0
    /\ \A S \in SUBSET DOMAIN value : \A x \in S : f[S] = value[x] + f[S \ {x}]

LEMMA SummedExists ==
    ASSUME NEW D, IsFiniteSet(D), NEW value \in [D -> Int]
    PROVE  \E f \in [SUBSET D -> Int] : Summed(f, value)
<1> DEFINE T == [SUBSET D -> Int]
           one(S) == CHOOSE x \in S : TRUE
           zero == [S \in SUBSET D |-> 0]
           more(g) == [S \in SUBSET D |-> IF S = {} THEN 0 ELSE value[one(S)] + g[S \ {one(S)}]]
           step == [x \in Nat \X T |-> more(x[2])]
<1>0. \A S \in SUBSET D : /\ IsFiniteSet(S) /\ Cardinality(S) \in Nat
                          /\ S # {} => one(S) \in S
  BY FS_Subset, FS_CardinalityType
<1>1. zero \in T /\ step \in [Nat \X T -> T]
  <2>1. ASSUME NEW g \in T PROVE more(g) \in T
    <3>1. ASSUME NEW S \in SUBSET D, S # {} PROVE value[one(S)] + g[S \ {one(S)}] \in Int
      <4>1. one(S) \in D /\ S \ {one(S)} \in SUBSET D
        BY <1>0, <3>1
      <4> HIDE DEF one
      <4>2. value[one(S)] \in Int /\ g[S \ {one(S)}] \in Int
        BY <4>1
      <4> QED
        BY <4>2
    <3> HIDE DEF one
    <3> QED
      BY <3>1
  <2>2. zero \in T
    OBVIOUS
  <2> HIDE DEF more, zero, T
  <2> QED
    BY <2>1, <2>2
<1>2. PICK h : StepsFrom(h, T, zero, step)
  <2> HIDE DEF T, zero, step
  <2> QED
    BY <1>1, Recursion
<1>3. h \in [Nat -> T] /\ h[0] = zero /\ \A n \in Nat : h[n + 1] = more(h[n])
  <2> HIDE DEF zero, more, T
  <2> QED
    BY <1>2 DEF StepsFrom
<1> DEFINE f == [S \in SUBSET D |-> h[Cardinality(S)][S]]
<1>4. f \in T
  <2>1. ASSUME NEW S \in SUBSET D PROVE h[Cardinality(S)][S] \in Int
    <3>1. h[Cardinality(S)] \in T
      BY <1>0, <1>3
    <3> QED
      BY <3>1
  <2> QED
    BY <2>1
<1>5. ASSUME NEW S \in SUBSET D
      PROVE  f[S] = IF S = {} THEN 0 ELSE value[one(S)] + f[S \ {one(S)}]
  <2>1. CASE S = {}
    <3>1. Cardinality(S) = 0
      BY <2>1, FS_EmptySet
    <3> QED
      BY <2>1, <3>1, <1>3
  <2>2. CASE S # {}
    <3> DEFINE R == S \ {one(S)}
    <3>1. one(S) \in S /\ IsFiniteSet(S)
      BY <1>0, <2>2
    <3>2. R \in SUBSET D /\ Cardinality(R) = Cardinality(S) - 1
      <4> HIDE DEF one
      <4> QED
        BY <3>1, FS_RemoveElement
    <3>3. Cardinality(R) \in Nat /\ Cardinality(S) \in Nat
      BY <1>0, <3>2
    <3>4. Cardinality(S) = Cardinality(R) + 1
      <4> HIDE DEF R
      <4> QED
        BY <3>2, <3>3
    <3>5. h[Cardinality(S)] = more(h[Cardinality(R)])
      <4> HIDE DEF R, more
      <4> QED
        BY <3>3, <3>4, <1>3
    <3>6. more(h[Cardinality(R)])[S] = value[one(S)] + h[Cardinality(R)][R]
      <4> HIDE DEF one
      <4> QED
        BY <2>2
    <3>7. f[S] = h[Cardinality(S)][S] /\ f[R] = h[Cardinality(R)][R]
      <4> HIDE DEF R
      <4> QED
        BY <3>2
    <3> HIDE DEF f, more
    <3> QED
      BY <2>2, <3>5, <3>6, <3>7
  <2> QED
    BY <2>1, <2>2
<1>6. Summed(f, value)
  <2>1. f = [S \in SUBSET D |-> f[S]]
    OBVIOUS
  <2>2. DOMAIN value = D
    OBVIOUS
  <2> HIDE DEF f
  <2> QED
    BY <2>1, <2>2, <1>5 DEF Summed
<1> QED
  BY <1>4, <1>6

LEMMA SummedAdds ==
    ASSUME NEW D, IsFiniteSet(D), NEW value \in [D -> Int], NEW f, Summed(f, value)
    PROVE  Adds(f, value)
<1> DEFINE one(S) == CHOOSE x \in S : TRUE
           F == {S \in SUBSET D : f[S] \in Int}
           G == {S \in SUBSET D : \A x \in S : f[S] = value[x] + f[S \ {x}]}
<1>1. /\ DOMAIN f = SUBSET D /\ f = [S \in SUBSET D |-> f[S]] /\ f[{}] = 0
      /\ \A S \in SUBSET D : S # {} => one(S) \in S /\ f[S] = value[one(S)] + f[S \ {one(S)}]
  <2>1. DOMAIN value = D
    OBVIOUS
  <2> QED
    BY <2>1 DEF Summed
<1>2. \A S \in SUBSET D : f[S] \in Int
  <2>1. {} \in F
    BY <1>1
  <2>2. ASSUME NEW S \in SUBSET D, S # {}, \A x \in S : S \ {x} \in F PROVE S \in F
    <3>1. one(S) \in S /\ f[S] = value[one(S)] + f[S \ {one(S)}]
      BY <1>1, <2>2
    <3> HIDE DEF one
    <3>2. value[one(S)] \in Int /\ f[S \ {one(S)}] \in Int
      BY <3>1, <2>2
    <3> QED
      BY <3>1, <3>2
  <2> HIDE DEF F
  <2>3. SUBSET D \subseteq F
    BY <2>1, <2>2, SubsetInduction
  <2> QED
    BY <2>3 DEF F
<1>3. \A S \in SUBSET D : \A x \in S : f[S] = value[x] + f[S \ {x}]
  <2>1. {} \in G
    OBVIOUS
  <2>2. ASSUME NEW S \in SUBSET D, S # {}, \A x \in S : S \ {x} \in G PROVE S \in G
    <3> DEFINE u == one(S)
    <3>1. u \in S /\ f[S] = value[u] + f[S \ {u}]
      BY <1>1, <2>2
    <3> HIDE DEF u
    <3>2. ASSUME NEW x \in S PROVE f[S] = value[x] + f[S \ {x}]
      <4>1. CASE x = u
        BY <3>1, <4>1
      <4>2. CASE x # u
        <5> DEFINE R == (S \ {u}) \ {x}
        <5>1. R = (S \ {x}) \ {u} /\ x \in S \ {u} /\ u \in S \ {x}
          BY <3>1, <4>2
        <5>2. f[S \ {u}] = value[x] + f[R]
          BY <2>2, <3>1, <5>1
        <5>3. f[S \ {x}] = value[u] + f[R]
          BY <2>2, <5>1
        <5>4. f[R] \in Int /\ value[x] \in Int /\ value[u] \in Int
          BY <1>2, <3>1
        <5> HIDE DEF R
        <5> QED
          BY <3>1, <5>2, <5>3, <5>4
      <4> QED
        BY <4>1, <4>2
    <3> QED
      BY <3>2
  <2> HIDE DEF G
  <2>3. SUBSET D \subseteq G
    BY <2>1, <2>2, SubsetInduction
  <2> QED
    BY <2>3 DEF G
<1>4. f \in [SUBSET D -> Int]
  BY <1>1, <1>2
<1> QED
  BY <1>1, <1>3, <1>4 DEF Adds

\* Total adds the values at the places of its argument; Sums(value)[S] those at the places of S.
Sums(value) == CHOOSE f : Summed(f, value)

LEMMA TotalAdds ==
    ASSUME NEW D, IsFiniteSet(D), NEW value \in [D -> Int]
    PROVE  Adds(Sums(value), value) /\ Total(value) = Sums(value)[D] /\ Total(value) \in Int
<1>1. Summed(Sums(value), value)
  BY SummedExists DEF Sums
<1>2. Adds(Sums(value), value)
  BY <1>1, SummedAdds
<1>3. Total(value) = Sums(value)[DOMAIN value]
  BY DEF Total, Sums, Summed
<1>4. DOMAIN value = D
  OBVIOUS
<1> QED
  BY <1>2, <1>3, <1>4 DEF Adds

LEMMA TotalOfNone == Total(<<>>) = 0
<1>1. <<>> \in [{} -> Int] /\ IsFiniteSet({})
  BY FS_EmptySet
<1> QED
  BY <1>1, TotalAdds DEF Adds

\* What is scaled term by term is scaled as a whole.
LEMMA TotalScaled ==
    ASSUME NEW D, IsFiniteSet(D), NEW u \in [D -> Int], NEW w \in [D -> Int], NEW a \in Int,
           \A p \in D : w[p] = a * u[p]
    PROVE  Total(w) = a * Total(u)
<1> DEFINE f == Sums(w)
           g == Sums(u)
           F == {S \in SUBSET D : f[S] = a * g[S]}
<1>1. Adds(f, w) /\ Adds(g, u) /\ Total(w) = f[D] /\ Total(u) = g[D]
  BY TotalAdds
<1> HIDE DEF f, g
<1>2. {} \in F
  BY <1>1 DEF Adds
<1>3. ASSUME NEW S \in SUBSET D, S # {}, \A x \in S : S \ {x} \in F PROVE S \in F
  <2>1. PICK x \in S : TRUE
    BY <1>3
  <2>2. DOMAIN w = D /\ DOMAIN u = D
    OBVIOUS
  <2>3. f[S] = w[x] + f[S \ {x}] /\ g[S] = u[x] + g[S \ {x}] /\ g[S \ {x}] \in Int
    BY <1>1, <2>2 DEF Adds
  <2>4. f[S] = a * u[x] + a * g[S \ {x}]
    BY <1>3, <2>3
  <2>5. u[x] \in Int
    OBVIOUS
  <2>6. \A i, k \in Int : a * i + a * k = a * (i + k)
    OBVIOUS
  <2>7. f[S] = a * (u[x] + g[S \ {x}])
    BY <2>3, <2>4, <2>5, <2>6
  <2> QED
    BY <2>3, <2>7
<1> HIDE DEF F
<1>4. SUBSET D \subseteq F
  BY <1>2, <1>3, SubsetInduction
<1>5. D \in F
  BY <1>4
<1> QED
  BY <1>1, <1>5 DEF F

\* What differs by c term by term differs by c at each place.
LEMMA TotalShifted ==
    ASSUME NEW D, IsFiniteSet(D), NEW u \in [D -> Int], NEW w \in [D -> Int], NEW c \in Int,
           \A p \in D : w[p] = u[p] + c
    PROVE  Total(w) = Total(u) + Cardinality(D) * c
<1> DEFINE f == Sums(w)
           g == Sums(u)
           F == {S \in SUBSET D : f[S] = g[S] + Cardinality(S) * c}
<1>1. Adds(f, w) /\ Adds(g, u) /\ Total(w) = f[D] /\ Total(u) = g[D]
  BY TotalAdds
<1> HIDE DEF f, g
<1>2. {} \in F
  <2>1. Cardinality({}) = 0 /\ f[{}] = 0 /\ g[{}] = 0
    BY <1>1, FS_EmptySet DEF Adds
  <2> QED
    BY <2>1
<1>3. ASSUME NEW S \in SUBSET D, S # {}, \A x \in S : S \ {x} \in F PROVE S \in F
  <2>1. PICK x \in S : TRUE
    BY <1>3
  <2>2. DOMAIN w = D /\ DOMAIN u = D
    OBVIOUS
  <2>3. f[S] = w[x] + f[S \ {x}] /\ g[S] = u[x] + g[S \ {x}] /\ g[S \ {x}] \in Int
    BY <1>1, <2>2 DEF Adds
  <2>4. Cardinality(S \ {x}) = Cardinality(S) - 1 /\ Cardinality(S) \in Nat
    BY FS_Subset, FS_CardinalityType, FS_RemoveElement
  <2>5. f[S \ {x}] = g[S \ {x}] + (Cardinality(S) - 1) * c
    BY <1>3, <2>4
  <2>6. u[x] \in Int /\ w[x] = u[x] + c
    OBVIOUS
  <2>7. \A n \in Nat : (n - 1) * c = n * c - c /\ n * c \in Int
    OBVIOUS
  <2>8. f[S] = g[S] + Cardinality(S) * c
    <3> DEFINE m == Cardinality(S) * c
    <3>1. m \in Int /\ f[S \ {x}] = g[S \ {x}] + (m - c)
      BY <2>4, <2>5, <2>7
    <3> HIDE DEF m
    <3>2. f[S] = g[S] + m
      BY <2>3, <2>6, <3>1
    <3> QED
      BY <3>2 DEF m
  <2> QED
    BY <2>8
<1> HIDE DEF F
<1>4. SUBSET D \subseteq F
  BY <1>2, <1>3, SubsetInduction
<1>5. D \in F
  BY <1>4
<1> QED
  BY <1>1, <1>5 DEF F

\* A sum of what is not negative is at least each of its terms.
LEMMA TotalBounds ==
    ASSUME NEW D, IsFiniteSet(D), NEW u \in [D -> Int], \A p \in D : u[p] >= 0
    PROVE  Total(u) >= 0 /\ \A p \in D : u[p] <= Total(u)
<1> DEFINE f == Sums(u)
           F == {S \in SUBSET D : f[S] >= 0 /\ \A p \in S : u[p] <= f[S]}
<1>1. Adds(f, u) /\ Total(u) = f[D] /\ DOMAIN u = D
  BY TotalAdds
<1> HIDE DEF f
<1>2. {} \in F
  BY <1>1 DEF Adds
<1>3. ASSUME NEW S \in SUBSET D, S # {}, \A x \in S : S \ {x} \in F PROVE S \in F
  <2>1. ASSUME NEW x \in S PROVE u[x] <= f[S] /\ f[S] >= 0
    <3>1. f[S] = u[x] + f[S \ {x}] /\ f[S \ {x}] \in Int
      BY <1>1 DEF Adds
    <3>2. f[S \ {x}] >= 0 /\ u[x] \in Int /\ u[x] >= 0
      BY <1>3
    <3> QED
      BY <3>1, <3>2
  <2> QED
    BY <2>1, <1>3
<1> HIDE DEF F
<1>4. SUBSET D \subseteq F
  BY <1>2, <1>3, SubsetInduction
<1>5. D \in F
  BY <1>4
<1> QED
  BY <1>1, <1>5 DEF F

\* The order of the places is no matter.
LEMMA TotalReordered ==
    ASSUME NEW D, IsFiniteSet(D), NEW E, IsFiniteSet(E), NEW h \in [D -> E],
           \A x, y \in D : h[x] = h[y] => x = y, \A e \in E : \E x \in D : h[x] = e,
           NEW u \in [E -> Int], NEW w \in [D -> Int], \A p \in D : w[p] = u[h[p]]
    PROVE  Total(w) = Total(u)
<1> DEFINE f == Sums(w)
           g == Sums(u)
           Image(S) == {h[x] : x \in S}
           F == {S \in SUBSET D : f[S] = g[Image(S)]}
<1>1. Adds(f, w) /\ Adds(g, u) /\ Total(w) = f[D] /\ Total(u) = g[E]
  BY TotalAdds
<1> HIDE DEF f, g
<1>a. /\ f[{}] = 0 /\ \A S \in SUBSET D : \A x \in S : f[S] = w[x] + f[S \ {x}]
      /\ g[{}] = 0 /\ \A S \in SUBSET E : \A x \in S : g[S] = u[x] + g[S \ {x}]
  <2>1. DOMAIN w = D /\ DOMAIN u = E
    OBVIOUS
  <2> HIDE DEF F, Image
  <2> QED
    BY <1>1, <2>1 DEF Adds
<1>2. {} \in F
  <2>1. Image({}) = {}
    OBVIOUS
  <2> HIDE DEF Image
  <2> QED
    BY <2>1, <1>a
<1>3. ASSUME NEW S \in SUBSET D, S # {}, \A x \in S : S \ {x} \in F PROVE S \in F
  <2>1. PICK x \in S : TRUE
    BY <1>3
  <2>3. f[S] = w[x] + f[S \ {x}]
    BY <1>a
  <2>4. Image(S) \in SUBSET E /\ h[x] \in Image(S) /\ Image(S \ {x}) = Image(S) \ {h[x]}
    OBVIOUS
  <2> HIDE DEF Image
  <2>5. g[Image(S)] = u[h[x]] + g[Image(S) \ {h[x]}]
    BY <1>a, <2>4
  <2>6. f[S \ {x}] = g[Image(S) \ {h[x]}]
    BY <1>3, <2>4
  <2>7. w[x] = u[h[x]]
    OBVIOUS
  <2> QED
    BY <2>3, <2>5, <2>6, <2>7
<1>4. Image(D) = E
  OBVIOUS
<1> HIDE DEF F
<1>5. SUBSET D \subseteq F
  BY <1>2, <1>3, SubsetInduction
<1>6. D \in F
  BY <1>5
<1> QED
  BY <1>1, <1>4, <1>6 DEF F

(***************************************************************************)
(* A line and its correlation.                                             *)
(***************************************************************************)

Differs(x) == \E m, n \in DOMAIN x : x[m] # x[n]

LEMMA DeviationsAre ==
    ASSUME NEW D, IsFiniteSet(D), NEW x \in [D -> Int]
    PROVE  /\ Deviations(x) \in [D -> Int] /\ Cardinality(D) \in Nat /\ Total(x) \in Int
           /\ \A p \in D : Deviations(x)[p] = Cardinality(D) * x[p] - Total(x)
<1>1. DOMAIN x = D /\ Cardinality(D) \in Nat /\ Total(x) \in Int
  BY TotalAdds, FS_CardinalityType
<1> QED
  BY <1>1 DEF Deviations

LEMMA ProductsAre ==
    ASSUME NEW D, NEW u \in [D -> Int], NEW v \in [D -> Int]
    PROVE  Products(u, v) \in [D -> Int] /\ \A p \in D : Products(u, v)[p] = u[p] * v[p]
  BY DEF Products

\* The squares of what varies sum to more than nothing.
LEMMA SquareSumPositive ==
    ASSUME NEW D, IsFiniteSet(D), NEW x \in [D -> Int]
    PROVE  SquareSum(x) \in Int /\ SquareSum(x) >= 0 /\ (Differs(x) => SquareSum(x) > 0)
<1> DEFINE d == Deviations(x)
           s == Products(d, d)
           n == Cardinality(D)
           T == Total(x)
<1>1. d \in [D -> Int] /\ n \in Nat /\ T \in Int /\ \A p \in D : d[p] = n * x[p] - T
  BY DeviationsAre
<1>2. SquareSum(x) = Total(s)
  BY DEF SquareSum
<1> HIDE DEF d, n, T
<1>3. s \in [D -> Int] /\ \A p \in D : s[p] = d[p] * d[p]
  BY <1>1, ProductsAre
<1> HIDE DEF s
<1>4. \A i \in Int : i * i >= 0 /\ (i * i <= 0 => i = 0)
  OBVIOUS
<1>5. \A p \in D : d[p] \in Int /\ s[p] \in Int /\ s[p] >= 0 /\ (s[p] <= 0 => d[p] = 0)
  BY <1>1, <1>3, <1>4
<1>6. Total(s) \in Int /\ Total(s) >= 0 /\ \A p \in D : s[p] <= Total(s)
  BY <1>3, <1>5, TotalBounds, TotalAdds
<1>7. ASSUME Differs(x), Total(s) = 0 PROVE FALSE
  <2>1. PICK m \in D, q \in D : x[m] # x[q]
    BY <1>7 DEF Differs
  <2>2. d[m] = 0 /\ d[q] = 0
    BY <1>5, <1>6, <1>7
  <2>3. n # 0
    BY FS_EmptySet, <2>1 DEF n
  <2>4. n * x[m] = n * x[q] /\ x[m] \in Int /\ x[q] \in Int
    <3>1. n * x[m] - T = 0 /\ n * x[q] - T = 0 /\ n * x[m] \in Int /\ n * x[q] \in Int
      BY <1>1, <2>2
    <3> QED
      BY <1>1, <3>1
  <2>5. \A i, k \in Int : n * i = n * k => i = k
    BY <1>1, <2>3
  <2> QED
    BY <2>1, <2>4, <2>5
<1> QED
  BY <1>2, <1>6, <1>7

Proportional(a, b, P, X, Y) == a # 0 /\ (a * P = b * X) /\ (a * (a * Y) = b * (b * X))
GeometricMean(P, X, Y) == P * P = X * Y

LEMMA SameRatio ==
    ASSUME NEW a \in Int, NEW b \in Int, NEW P \in Int, NEW X \in Int, NEW Y \in Int, Proportional(a, b, P, X, Y)
    PROVE  GeometricMean(P, X, Y)
<1> SUFFICES P * P = X * Y
  BY DEF GeometricMean
<1>0. a # 0 /\ (a * P = b * X) /\ (a * (a * Y) = b * (b * X))
  BY DEF Proportional
<1>1. (a * P) * (a * P) = (b * X) * (b * X)
  BY <1>0
<1>2. (a * a) * (P * P) = (b * X) * (b * X)
  BY <1>1
<1>3. (a * a) * (X * Y) = X * (a * (a * Y))
  OBVIOUS
<1>4. (a * a) * (X * Y) = X * (b * (b * X))
  BY <1>0, <1>3
<1>5. X * (b * (b * X)) = (b * X) * (b * X)
  OBVIOUS
<1>6. (a * a) * (P * P) = (a * a) * (X * Y)
  BY <1>2, <1>4, <1>5
<1>7. a * a # 0 /\ a * a \in Int /\ P * P \in Int /\ X * Y \in Int
  BY <1>0
<1>8. \A i, k, m \in Int : m # 0 /\ m * i = m * k => i = k
  OBVIOUS
<1> QED
  BY <1>6, <1>7, <1>8

\* If y follows x along a line, so do their deviations, through the origin.
LEMMA LineOfDeviations ==
    ASSUME NEW D, IsFiniteSet(D), NEW x \in [D -> Int], NEW y \in [D -> Int], Collinear(x, y), Differs(x)
    PROVE  \E a, b \in Int : a # 0 /\ \A p \in D : a * Deviations(y)[p] = b * Deviations(x)[p]
<1>1. PICK m \in D, q \in D : x[m] # x[q]
  BY DEF Differs
<1> DEFINE a == x[m] - x[q]
           b == y[m] - y[q]
           K == a * y[m] - b * x[m]
           n == Cardinality(D)
           u == [p \in D |-> a * y[p]]
           v == [p \in D |-> b * x[p]]
<1>2. a \in Int /\ b \in Int /\ a # 0
  <2>1. x[m] \in Int /\ x[q] \in Int /\ y[m] \in Int /\ y[q] \in Int
    OBVIOUS
  <2>2. \A i, k \in Int : i - k \in Int /\ (i # k => i - k # 0)
    OBVIOUS
  <2> HIDE DEF K, n, u, v
  <2> QED
    BY <1>1, <2>1, <2>2
<1>3. ASSUME NEW o \in D PROVE a * y[o] = b * x[o] + K /\ x[o] \in Int /\ y[o] \in Int
  <2>1. a * (y[m] - y[o]) = (x[m] - x[o]) * b
    BY DEF Collinear
  <2>2. x[o] \in Int /\ y[o] \in Int /\ x[m] \in Int /\ y[m] \in Int
    OBVIOUS
  <2> HIDE DEF a, b
  <2>3. a * y[m] - a * y[o] = b * x[m] - b * x[o]
    BY <2>1, <2>2, <1>2
  <2>4. a * y[m] \in Int /\ a * y[o] \in Int /\ b * x[m] \in Int /\ b * x[o] \in Int
    BY <2>2, <1>2
  <2> QED
    BY <2>2, <2>3, <2>4
<1>4. K \in Int
  <2>1. x[m] \in Int /\ y[m] \in Int
    OBVIOUS
  <2> HIDE DEF a, b
  <2> QED
    BY <1>2, <2>1
<1>5. n \in Nat /\ Total(x) \in Int /\ Total(y) \in Int
  BY TotalAdds, FS_CardinalityType
<1> HIDE DEF a, b, K, n
<1>6. u \in [D -> Int] /\ v \in [D -> Int] /\ \A p \in D : u[p] = a * y[p] /\ v[p] = b * x[p]
  BY <1>2
<1> HIDE DEF u, v
<1>7. Total(u) = a * Total(y) /\ Total(v) = b * Total(x)
  BY <1>2, <1>6, TotalScaled
<1>8. Total(u) = Total(v) + n * K
  <2>1. \A p \in D : u[p] = v[p] + K
    BY <1>3, <1>6
  <2> QED
    BY <2>1, <1>4, <1>6, TotalShifted DEF n
<1>9. ASSUME NEW p \in D PROVE a * Deviations(y)[p] = b * Deviations(x)[p]
  <2> DEFINE A == a * y[p]
             B == b * x[p]
  <2>1. Deviations(y)[p] = n * y[p] - Total(y) /\ Deviations(x)[p] = n * x[p] - Total(x)
    BY DeviationsAre DEF n
  <2>2. A = B + K /\ x[p] \in Int /\ y[p] \in Int
    BY <1>3
  <2>3. a * (n * y[p] - Total(y)) = n * A - a * Total(y)
    BY <1>2, <1>5, <2>2
  <2>4. b * (n * x[p] - Total(x)) = n * B - b * Total(x)
    BY <1>2, <1>5, <2>2
  <2>5. A \in Int /\ B \in Int
    BY <1>2, <2>2
  <2> HIDE DEF A, B
  <2>6. n * A = n * B + n * K
    BY <1>4, <1>5, <2>2, <2>5
  <2>7. a * Total(y) = b * Total(x) + n * K
    BY <1>7, <1>8
  <2>8. n * A \in Int /\ n * B \in Int /\ n * K \in Int /\ a * Total(y) \in Int /\ b * Total(x) \in Int
    BY <1>2, <1>4, <1>5, <2>5
  <2>9. n * A - a * Total(y) = n * B - b * Total(x)
    BY <2>6, <2>7, <2>8
  <2> QED
    BY <2>1, <2>3, <2>4, <2>9
<1> QED
  BY <1>2, <1>9

LEMMA LineCorrelates ==
    ASSUME NEW D, IsFiniteSet(D), NEW x \in [D -> Int], NEW y \in [D -> Int], NEW least \in 0..100,
           Collinear(x, y), Differs(x), Differs(y)
    PROVE  Correlated(x, y, least)
<1> DEFINE dx == Deviations(x)
           dy == Deviations(y)
           P == Total(Products(dx, dy))
           X == SquareSum(x)
           Y == SquareSum(y)
<1>1. PICK a \in Int, b \in Int : a # 0 /\ \A p \in D : a * dy[p] = b * dx[p]
  BY LineOfDeviations
<1>2. X \in Int /\ Y \in Int /\ X > 0 /\ Y > 0
  BY SquareSumPositive
<1>3. dx \in [D -> Int] /\ dy \in [D -> Int]
  BY DeviationsAre
<1>4. X = Total(Products(dx, dx)) /\ Y = Total(Products(dy, dy))
  BY DEF SquareSum
<1> HIDE DEF dx, dy, X, Y
<1> DEFINE xx == Products(dx, dx)
           xy == Products(dx, dy)
           yy == Products(dy, dy)
           u == [p \in D |-> b * xx[p]]
           v == [p \in D |-> a * yy[p]]
<1>5. /\ xx \in [D -> Int] /\ xy \in [D -> Int] /\ yy \in [D -> Int]
      /\ \A p \in D : xx[p] = dx[p] * dx[p] /\ xy[p] = dx[p] * dy[p] /\ yy[p] = dy[p] * dy[p]
  BY <1>3, ProductsAre
<1> HIDE DEF xx, xy, yy
<1>6. u \in [D -> Int] /\ v \in [D -> Int] /\ \A p \in D : u[p] = b * xx[p] /\ v[p] = a * yy[p]
  BY <1>5
<1> HIDE DEF u, v
<1>7. ASSUME NEW p \in D PROVE u[p] = a * xy[p] /\ a * v[p] = b * u[p]
  <2> DEFINE i == dx[p]
             k == dy[p]
  <2>1. i \in Int /\ k \in Int /\ a * k = b * i
    BY <1>1, <1>3
  <2>2. xx[p] = i * i /\ xy[p] = i * k /\ yy[p] = k * k
    BY <1>5
  <2> HIDE DEF i, k
  <2>3. b * (i * i) = i * (b * i) /\ a * (i * k) = i * (a * k)
    BY <2>1
  <2>4. a * (a * (k * k)) = (a * k) * (a * k) /\ b * (b * (i * i)) = (b * i) * (b * i)
    BY <2>1
  <2> QED
    BY <1>6, <2>1, <2>2, <2>3, <2>4
<1>8. P \in Int /\ Total(u) \in Int /\ Total(v) \in Int
  BY <1>5, <1>6, TotalAdds DEF xy
<1>9. Total(u) = b * X /\ Total(v) = a * Y
  BY <1>4, <1>5, <1>6, TotalScaled DEF xx, yy
<1>10. Total(u) = a * P
  BY <1>5, <1>6, <1>7, TotalScaled DEF xy
<1>11. a * Total(v) = b * Total(u)
  <2> DEFINE w == [p \in D |-> a * v[p]]
  <2>1. w \in [D -> Int] /\ \A p \in D : w[p] = a * v[p] /\ w[p] = b * u[p]
    BY <1>6, <1>7
  <2> HIDE DEF w
  <2>2. Total(w) = a * Total(v)
    BY <2>1, <1>6, TotalScaled
  <2>3. Total(w) = b * Total(u)
    BY <2>1, <1>6, TotalScaled
  <2> QED
    BY <2>2, <2>3
<1> HIDE DEF P
<1>12. P * P = X * Y
  <2>1. a * P = b * X
    BY <1>9, <1>10
  <2>2. a * (a * Y) = b * (b * X)
    BY <1>9, <1>11
  <2> QED
    <3>1. a # 0 /\ X \in Int /\ Y \in Int /\ P \in Int
      BY <1>1, <1>2, <1>8
    <3>2. Proportional(a, b, P, X, Y)
      BY <3>1, <2>1, <2>2 DEF Proportional
    <3>3. GeometricMean(P, X, Y)
      BY <3>1, <3>2, SameRatio
    <3> QED
      BY <3>3 DEF GeometricMean
<1>13. X * Y > 0 /\ X * Y \in Int
  BY <1>2
<1>14. 10000 * P * P >= least * least * (X * Y)
  <2> DEFINE Z == X * Y
             l == least * least
  <2>1. 10000 * P * P = 10000 * Z
    BY <1>8, <1>12
  <2>2. l \in Nat /\ l <= 10000
    OBVIOUS
  <2>3. Z \in Int /\ Z > 0
    BY <1>13
  <2> HIDE DEF Z, l
  <2>4. l * Z <= 10000 * Z
    BY <2>2, <2>3
  <2> QED
    BY <2>1, <2>4 DEF Z, l
<1> QED
  BY <1>13, <1>14 DEF Correlated, P, X, Y, dx, dy

(***************************************************************************)
(* Order statistics.                                                       *)
(***************************************************************************)

Under(w, x) == {p \in DOMAIN w : w[p] < x}
AtMost(w, x) == {p \in DOMAIN w : w[p] <= x}
Above(w, x) == {p \in DOMAIN w : w[p] > x}

LEMMA Extremes ==
    ASSUME NEW E, IsFiniteSet(E), E \subseteq Int, E # {}
    PROVE  (\E x \in E : \A y \in E : x <= y) /\ (\E x \in E : \A y \in E : y <= x)
<1> DEFINE F == {S \in SUBSET E : S # {} => (\E x \in S : \A y \in S : x <= y) /\ (\E x \in S : \A y \in S : y <= x)}
<1>1. {} \in F
  OBVIOUS
<1>2. ASSUME NEW S \in SUBSET E, S # {}, \A x \in S : S \ {x} \in F PROVE S \in F
  <2>1. PICK z \in S : TRUE
    BY <1>2
  <2>2. S \subseteq Int
    OBVIOUS
  <2>3. CASE S \ {z} = {}
    <3>1. \A y \in S : y = z
      BY <2>3
    <3> QED
      BY <2>1, <2>2, <3>1
  <2>4. CASE S \ {z} # {}
    <3>1. S \ {z} \in F
      BY <1>2
    <3>2. PICK l \in S \ {z} : \A y \in S \ {z} : l <= y
      BY <2>4, <3>1
    <3>3. PICK m \in S \ {z} : \A y \in S \ {z} : y <= m
      BY <2>4, <3>1
    <3>4. \E x \in S : \A y \in S : x <= y
      <4>1. CASE l <= z
        <5>1. \A y \in S : l <= y
          BY <3>2, <4>1
        <5> QED
          BY <5>1
      <4>2. CASE ~(l <= z)
        <5>1. \A y \in S : z <= y
          BY <2>2, <3>2, <4>2
        <5> QED
          BY <5>1
      <4> QED
        BY <4>1, <4>2
    <3>5. \E x \in S : \A y \in S : y <= x
      <4>1. CASE z <= m
        <5>1. \A y \in S : y <= m
          BY <3>3, <4>1
        <5> QED
          BY <5>1
      <4>2. CASE ~(z <= m)
        <5>1. \A y \in S : y <= z
          BY <2>2, <3>3, <4>2
        <5> QED
          BY <5>1
      <4> QED
        BY <4>1, <4>2
    <3> QED
      BY <3>4, <3>5
  <2> QED
    BY <2>3, <2>4
<1> HIDE DEF F
<1>3. SUBSET E \subseteq F
  BY <1>1, <1>2, SubsetInduction
<1>4. E \in F
  BY <1>3
<1> QED
  BY <1>4 DEF F

LEMMA RanksAreFinite ==
    ASSUME NEW D, IsFiniteSet(D), NEW w \in [D -> Int], NEW x
    PROVE  /\ Under(w, x) \in SUBSET D /\ AtMost(w, x) \in SUBSET D /\ Above(w, x) \in SUBSET D
           /\ Cardinality(D) \in Nat /\ Cardinality(Under(w, x)) \in Nat
           /\ Cardinality(AtMost(w, x)) \in Nat /\ Cardinality(Above(w, x)) \in Nat
           /\ IsFiniteSet(Under(w, x)) /\ IsFiniteSet(AtMost(w, x)) /\ IsFiniteSet(Above(w, x))
<1>1. Under(w, x) \in SUBSET D /\ AtMost(w, x) \in SUBSET D /\ Above(w, x) \in SUBSET D
  BY DEF Under, AtMost, Above
<1> QED
  BY <1>1, FS_Subset, FS_CardinalityType

\* There is a k-th value, and it is where the k-th place is.
LEMMA NthIs ==
    ASSUME NEW D, IsFiniteSet(D), NEW w \in [D -> Int], NEW k \in 1..Cardinality(D)
    PROVE  /\ \E p \in D : Nth(w, k) = w[p]
           /\ Nth(w, k) \in Int
           /\ Cardinality(Under(w, Nth(w, k))) < k /\ Cardinality(AtMost(w, Nth(w, k))) >= k
<1> DEFINE V == {w[p] : p \in D}
           Good == {x \in V : Cardinality(AtMost(w, x)) >= k}
           P(x) == x \in V /\ Cardinality(Under(w, x)) < k /\ Cardinality(AtMost(w, x)) >= k
<1>1. IsFiniteSet(V) /\ V \subseteq Int
  <2>1. V \subseteq Int
    OBVIOUS
  <2>2. w \in Surjection(D, V)
    BY DEF Surjection
  <2>3. IsFiniteSet(V)
    BY <2>2, FS_Surjection
  <2> QED
    BY <2>1, <2>3
<1>2. Cardinality(D) \in Nat /\ k \in Nat /\ k >= 1 /\ k <= Cardinality(D)
  BY FS_CardinalityType
<1>3. V # {}
  <2>1. D # {}
    BY <1>2, FS_EmptySet
  <2> QED
    BY <2>1
<1>4. PICK top \in V : \A y \in V : y <= top
  <2> HIDE DEF V
  <2> QED
    BY <1>1, <1>3, Extremes
<1>5. AtMost(w, top) = D
  BY <1>4 DEF AtMost
<1>6. top \in Good
  BY <1>2, <1>5
<1>7. PICK x \in Good : \A y \in Good : x <= y
  <2>1. Good \in SUBSET V /\ Good # {}
    BY <1>6
  <2> HIDE DEF Good, V
  <2>2. IsFiniteSet(Good) /\ Good \subseteq Int
    BY <1>1, <2>1, FS_Subset
  <2> QED
    BY <2>1, <2>2, Extremes
<1>8. Cardinality(Under(w, x)) < k
  <2> DEFINE Less == {v \in V : v < x}
  <2>1. CASE Less = {}
    <3>1. Under(w, x) = {}
      BY <2>1 DEF Under
    <3> QED
      BY <3>1, <1>2, FS_EmptySet
  <2>2. CASE Less # {}
    <3>1. IsFiniteSet(Less) /\ Less \subseteq Int
      <4>1. Less \in SUBSET V
        OBVIOUS
      <4> HIDE DEF V, Less
      <4> QED
        BY <1>1, <4>1, FS_Subset
    <3>2. PICK y \in Less : \A z \in Less : z <= y
      <4> HIDE DEF Less
      <4> QED
        BY <2>2, <3>1, Extremes
    <3>3. Under(w, x) = AtMost(w, y)
      <4>1. x \in Int /\ y \in Int /\ y < x
        BY <1>1, <3>2
      <4>2. ASSUME NEW p \in D PROVE w[p] < x <=> w[p] <= y
        <5>1. w[p] \in Int /\ (w[p] < x => w[p] \in Less)
          OBVIOUS
        <5> QED
          BY <4>1, <5>1, <3>2
      <4> QED
        BY <4>2 DEF Under, AtMost
    <3>4. y \notin Good
      <4>1. x \in Int /\ y \in Int /\ y < x
        BY <1>1, <3>2
      <4> QED
        BY <1>7, <4>1
    <3>5. Cardinality(AtMost(w, y)) \in Nat
      BY RanksAreFinite
    <3>6. ~(Cardinality(AtMost(w, y)) >= k)
      BY <3>4
    <3> QED
      BY <1>2, <3>3, <3>5, <3>6
  <2> QED
    BY <2>1, <2>2
<1>9. P(x)
  BY <1>7, <1>8
<1>10. DOMAIN w = D
  OBVIOUS
<1>11. Nth(w, k) = CHOOSE z : P(z)
  <2>1. Nth(w, k) = CHOOSE z \in V : Cardinality(Under(w, z)) < k /\ Cardinality(AtMost(w, z)) >= k
    BY <1>10 DEF Nth, Under, AtMost
  <2> HIDE DEF V
  <2> QED
    BY <2>1
<1>12. P(Nth(w, k))
  <2> HIDE DEF P
  <2> QED
    BY <1>9, <1>11
<1> QED
  BY <1>1, <1>12

LEMMA NthGrows ==
    ASSUME NEW D, IsFiniteSet(D), NEW w \in [D -> Int], NEW k \in 1..Cardinality(D), NEW l \in 1..Cardinality(D), k <= l
    PROVE  Nth(w, k) <= Nth(w, l)
<1> DEFINE x == Nth(w, k)
           y == Nth(w, l)
<1>1. /\ x \in Int /\ y \in Int
      /\ Cardinality(Under(w, x)) < k /\ Cardinality(AtMost(w, y)) >= l
  BY NthIs
<1> HIDE DEF x, y
<1>2. ASSUME y < x PROVE FALSE
  <2>1. AtMost(w, y) \in SUBSET Under(w, x)
    BY <1>1, <1>2 DEF AtMost, Under
  <2>2. IsFiniteSet(Under(w, x)) /\ Cardinality(Under(w, x)) \in Nat /\ Cardinality(AtMost(w, y)) \in Nat
    BY RanksAreFinite
  <2>3. Cardinality(AtMost(w, y)) <= Cardinality(Under(w, x))
    BY <2>1, <2>2, FS_Subset
  <2>4. Cardinality(D) \in Nat
    BY FS_CardinalityType
  <2>5. k \in Int /\ l \in Int
    BY <2>4
  <2> QED
    BY <1>1, <2>2, <2>3, <2>5
<1> QED
  BY <1>1, <1>2 DEF x, y

\* How many values are beyond the k-th.
LEMMA BeyondNth ==
    ASSUME NEW D, IsFiniteSet(D), NEW w \in [D -> Int], NEW k \in 1..Cardinality(D)
    PROVE  /\ Cardinality(Under(w, Nth(w, k))) <= k - 1
           /\ Cardinality(Above(w, Nth(w, k))) <= Cardinality(D) - k
<1> DEFINE x == Nth(w, k)
           n == Cardinality(D)
           a == AtMost(w, x)
<1>1. x \in Int /\ Cardinality(Under(w, x)) < k /\ Cardinality(a) >= k
  BY NthIs
<1>2. n \in Nat /\ Cardinality(Under(w, x)) \in Nat /\ Cardinality(a) \in Nat /\ a \in SUBSET D
  BY RanksAreFinite
<1>3. Above(w, x) = D \ a
  BY <1>1 DEF Above, AtMost
<1> HIDE DEF x, a
<1>4. Cardinality(D \ a) = n - Cardinality(a)
  <2>1. D \cap a = a
    BY <1>2
  <2>2. Cardinality(D \ a) = Cardinality(D) - Cardinality(D \cap a)
    BY FS_Difference
  <2> QED
    BY <2>1, <2>2
<1> HIDE DEF n
<1>5. k \in Int
  OBVIOUS
<1>6. Cardinality(Under(w, x)) <= k - 1
  BY <1>1, <1>2, <1>5
<1>7. Cardinality(Above(w, x)) <= n - k
  BY <1>1, <1>2, <1>3, <1>4, <1>5
<1> QED
  BY <1>6, <1>7 DEF x, n

\* Few are under the a-th value, few above the c-th.
LEMMA FewBeyond ==
    ASSUME NEW D, IsFiniteSet(D), NEW w \in [D -> Int], NEW a \in 1..Cardinality(D), NEW c \in 1..Cardinality(D),
           NEW Low, NEW High, Low \subseteq Under(w, Nth(w, a)), High \subseteq Above(w, Nth(w, c)),
           4 * (a - 1) <= Cardinality(D), 4 * (Cardinality(D) - c) <= Cardinality(D)
    PROVE  2 * Cardinality(Low \cup High) <= Cardinality(D)
<1> DEFINE n == Cardinality(D)
           U == Under(w, Nth(w, a))
           A == Above(w, Nth(w, c))
<1>1. n \in Nat /\ IsFiniteSet(U) /\ IsFiniteSet(A) /\ Cardinality(U) \in Nat /\ Cardinality(A) \in Nat
  BY RanksAreFinite
<1>2. Cardinality(U) <= a - 1 /\ Cardinality(A) <= n - c
  BY BeyondNth
<1>3. a \in Int /\ c \in Int
  OBVIOUS
<1> HIDE DEF n, U, A
<1>4. Low \in SUBSET U /\ High \in SUBSET A
  BY DEF U, A
<1>5. /\ IsFiniteSet(Low) /\ Cardinality(Low) <= Cardinality(U) /\ Cardinality(Low) \in Nat
      /\ IsFiniteSet(High) /\ Cardinality(High) <= Cardinality(A) /\ Cardinality(High) \in Nat
  BY <1>1, <1>4, FS_Subset, FS_CardinalityType
<1>6. Cardinality(Low \cup High) <= Cardinality(Low) + Cardinality(High) /\ Cardinality(Low \cup High) \in Nat
  <2>1. IsFiniteSet(Low \cup High) /\ IsFiniteSet(Low \cap High)
    BY <1>5, FS_Union, FS_Intersection
  <2>2. Cardinality(Low \cup High) = Cardinality(Low) + Cardinality(High) - Cardinality(Low \cap High)
    BY <1>5, FS_Union
  <2>3. Cardinality(Low \cap High) \in Nat /\ Cardinality(Low \cup High) \in Nat
    BY <2>1, FS_CardinalityType
  <2> HIDE DEF n
  <2> QED
    BY <1>5, <2>2, <2>3
<1>7. 4 * (a - 1) <= n /\ 4 * (n - c) <= n
  BY DEF n
<1>8. 2 * Cardinality(Low \cup High) <= n
  BY <1>1, <1>2, <1>3, <1>5, <1>6, <1>7
<1> QED
  BY <1>8 DEF n

\* What the places of the quartiles are, for a number of values by its remainder.
QuartilesAt(n, b, r) ==
    /\ n = 4 * b + r + 1
    /\ (n - 1) \div 4 = b /\ (n - 1) % 4 = r
    /\ r = 0 => (3 * (n - 1)) \div 4 = 3 * b /\ (3 * (n - 1)) % 4 = 0
    /\ r = 1 => (3 * (n - 1)) \div 4 = 3 * b /\ (3 * (n - 1)) % 4 = 3
    /\ r = 2 => (3 * (n - 1)) \div 4 = 3 * b + 1 /\ (3 * (n - 1)) % 4 = 2
    /\ r = 3 => (3 * (n - 1)) \div 4 = 3 * b + 2 /\ (3 * (n - 1)) % 4 = 1

LEMMA QuartilePlaces ==
    ASSUME NEW n \in Nat, n >= 1
    PROVE  \E b \in Nat, r \in 0..3 : QuartilesAt(n, b, r)
<1> DEFINE b == (n - 1) \div 4
           r == (n - 1) % 4
<1>1. b \in Nat /\ r \in 0..3 /\ n = 4 * b + r + 1
  OBVIOUS
<1> HIDE DEF b, r
<1>2. 3 * (n - 1) = 12 * b + 3 * r
  BY <1>1
<1>3. \A i \in Nat : /\ (12 * i) \div 4 = 3 * i /\ (12 * i) % 4 = 0
                     /\ (12 * i + 3) \div 4 = 3 * i /\ (12 * i + 3) % 4 = 3
                     /\ (12 * i + 6) \div 4 = 3 * i + 1 /\ (12 * i + 6) % 4 = 2
                     /\ (12 * i + 9) \div 4 = 3 * i + 2 /\ (12 * i + 9) % 4 = 1
  OBVIOUS
<1>4. /\ r = 0 => 3 * (n - 1) = 12 * b
      /\ r = 1 => 3 * (n - 1) = 12 * b + 3
      /\ r = 2 => 3 * (n - 1) = 12 * b + 6
      /\ r = 3 => 3 * (n - 1) = 12 * b + 9
  BY <1>1, <1>2
<1>5. /\ r = 0 => (3 * (n - 1)) \div 4 = 3 * b /\ (3 * (n - 1)) % 4 = 0
      /\ r = 1 => (3 * (n - 1)) \div 4 = 3 * b /\ (3 * (n - 1)) % 4 = 3
      /\ r = 2 => (3 * (n - 1)) \div 4 = 3 * b + 1 /\ (3 * (n - 1)) % 4 = 2
      /\ r = 3 => (3 * (n - 1)) \div 4 = 3 * b + 2 /\ (3 * (n - 1)) % 4 = 1
  BY <1>1, <1>3, <1>4
<1>6. (n - 1) \div 4 = b /\ (n - 1) % 4 = r
  BY DEF b, r
<1> QED
  BY <1>1, <1>5, <1>6 DEF QuartilesAt

\* Twice a difference that is not negative is at most k times it.
LEMMA Widened ==
    ASSUME NEW k \in Nat, k >= 2, NEW d \in Int, d >= 0
    PROVE  k * d \in Int /\ k * d >= 2 * d
<1>1. (k - 2) * d >= 0 /\ k * d = (k - 2) * d + 2 * d
  OBVIOUS
<1> QED
  BY <1>1

TukeyLow(w, k) == {p \in DOMAIN w : 8 * w[p] < 2 * Quartile4(w, 1) - k * (Quartile4(w, 3) - Quartile4(w, 1))}
TukeyHigh(w, k) == {p \in DOMAIN w : 8 * w[p] > 2 * Quartile4(w, 3) + k * (Quartile4(w, 3) - Quartile4(w, 1))}

\* Half of the values at most are beyond the fences, if these are as wide as the quartiles are apart.
LEMMA FewBeyondFences ==
    ASSUME NEW D, IsFiniteSet(D), NEW w \in [D -> Int], NEW k \in Nat, k >= 2
    PROVE  2 * Cardinality(TukeyLow(w, k) \cup TukeyHigh(w, k)) <= Cardinality(D)
<1> DEFINE n == Cardinality(D)
           Low == TukeyLow(w, k)
           High == TukeyHigh(w, k)
           q1 == Quartile4(w, 1)
           q3 == Quartile4(w, 3)
<1>1. n \in Nat /\ DOMAIN w = D /\ Low \subseteq D /\ High \subseteq D
  BY FS_CardinalityType DEF TukeyLow, TukeyHigh
<1>2. CASE n = 0
  <2>1. D = {}
    BY <1>2, FS_EmptySet
  <2>2. Low \cup High = {}
    BY <1>1, <2>1
  <2> HIDE DEF Low, High
  <2>3. Cardinality(Low \cup High) = 0
    BY <2>2, FS_EmptySet
  <2> QED
    BY <1>2, <2>3 DEF Low, High, n
<1>3. CASE n # 0
  <2>0. PICK b \in Nat, r \in 0..3 : QuartilesAt(n, b, r)
    <3> HIDE DEF n
    <3>1. n \in Nat /\ n >= 1
      BY <1>1, <1>3
    <3> QED
      BY <3>1, QuartilePlaces
  <2>1. /\ n = 4 * b + r + 1
        /\ (n - 1) \div 4 = b /\ (n - 1) % 4 = r
        /\ r = 0 => (3 * (n - 1)) \div 4 = 3 * b /\ (3 * (n - 1)) % 4 = 0
        /\ r = 1 => (3 * (n - 1)) \div 4 = 3 * b /\ (3 * (n - 1)) % 4 = 3
        /\ r = 2 => (3 * (n - 1)) \div 4 = 3 * b + 1 /\ (3 * (n - 1)) % 4 = 2
        /\ r = 3 => (3 * (n - 1)) \div 4 = 3 * b + 2 /\ (3 * (n - 1)) % 4 = 1
    BY <2>0 DEF QuartilesAt
  <2> DEFINE low1 == (n - 1) \div 4 + 1
             high1 == IF low1 + 1 > n THEN n ELSE low1 + 1
             low3 == (3 * (n - 1)) \div 4 + 1
             high3 == IF low3 + 1 > n THEN n ELSE low3 + 1
             L1 == Nth(w, low1)
             H1 == Nth(w, high1)
             L3 == Nth(w, low3)
             H3 == Nth(w, high3)
  <2>2. q1 = 4 * L1 + (H1 - L1) * ((n - 1) % 4) /\ q3 = 4 * L3 + (H3 - L3) * ((3 * (n - 1)) % 4)
    <3>1. 1 * (n - 1) = n - 1
      BY <1>1
    <3> HIDE DEF n
    <3> QED
      BY <1>1, <3>1 DEF Quartile4, n
  <2>3. low1 \in 1..n /\ high1 \in 1..n /\ low3 \in 1..n /\ high3 \in 1..n
    <3> HIDE DEF n
    <3> QED
      BY <1>1, <2>1
  <2>4. low1 <= high1 /\ low1 <= low3 /\ high1 <= high3 /\ low3 <= high3
    <3> HIDE DEF n
    <3> QED
      BY <1>1, <2>1
  <2>5. (r = 2 \/ r = 3) => high1 <= low3
    <3> HIDE DEF n
    <3> QED
      BY <1>1, <2>1
  <2>6. 4 * (low1 - 1) <= n /\ (r = 3 => 4 * (high1 - 1) <= n)
    <3> HIDE DEF n
    <3> QED
      BY <1>1, <2>1
  <2>7. ((r = 0 \/ r = 3) => 4 * (n - low3) <= n) /\ ((r = 1 \/ r = 2) => 4 * (n - high3) <= n)
    <3> HIDE DEF n
    <3> QED
      BY <1>1, <2>1
  <2> HIDE DEF low1, high1, low3, high3
  <2>8. L1 \in Int /\ H1 \in Int /\ L3 \in Int /\ H3 \in Int
    BY <2>3, NthIs
  <2>9. L1 <= H1 /\ L1 <= L3 /\ H1 <= H3 /\ L3 <= H3 /\ ((r = 2 \/ r = 3) => H1 <= L3)
    BY <2>3, <2>4, <2>5, NthGrows
  <2> HIDE DEF L1, H1, L3, H3, q1, q3
  <2>10. /\ r = 0 => q1 = 4 * L1 /\ q3 = 4 * L3
         /\ r = 1 => q1 = 3 * L1 + H1 /\ q3 = L3 + 3 * H3
         /\ r = 2 => q1 = 2 * L1 + 2 * H1 /\ q3 = 2 * L3 + 2 * H3
         /\ r = 3 => q1 = L1 + 3 * H1 /\ q3 = 3 * L3 + H3
    <3> HIDE DEF n
    <3> QED
      BY <2>1, <2>2, <2>8
  <2>11. q1 \in Int /\ q3 \in Int /\ q3 >= q1
    BY <2>8, <2>9, <2>10
  <2> DEFINE far == k * (q3 - q1)
  <2>12. far \in Int /\ far >= 2 * (q3 - q1)
    BY <2>11, Widened
  <2>13. /\ \A p \in Low : w[p] \in Int /\ p \in D /\ 8 * w[p] < 2 * q1 - far
         /\ \A p \in High : w[p] \in Int /\ p \in D /\ 8 * w[p] > 2 * q3 + far
    BY <1>1 DEF TukeyLow, TukeyHigh, q1, q3
  <2> HIDE DEF far, Low, High
  <2>14. /\ r # 3 => \A p \in Low : w[p] < L1
         /\ r = 3 => \A p \in Low : w[p] < H1
    <3>1. ASSUME r # 3 PROVE 2 * q1 - far <= 8 * L1
      <4> HIDE DEF n
      <4> QED
        BY <3>1, <2>8, <2>9, <2>10, <2>11, <2>12
    <3>2. ASSUME r = 3 PROVE 2 * q1 - far <= 8 * H1
      <4> HIDE DEF n
      <4> QED
        BY <3>2, <2>8, <2>9, <2>10, <2>11, <2>12
    <3> HIDE DEF n
    <3> QED
      BY <3>1, <3>2, <2>8, <2>11, <2>12, <2>13
  <2>15. /\ (r = 0 \/ r = 3) => \A p \in High : w[p] > L3
         /\ (r = 1 \/ r = 2) => \A p \in High : w[p] > H3
    <3>1. ASSUME r = 0 \/ r = 3 PROVE 2 * q3 + far >= 8 * L3
      <4> HIDE DEF n
      <4> QED
        BY <3>1, <2>8, <2>9, <2>10, <2>11, <2>12
    <3>2. ASSUME r = 1 \/ r = 2 PROVE 2 * q3 + far >= 8 * H3
      <4> HIDE DEF n
      <4> QED
        BY <3>2, <2>8, <2>9, <2>10, <2>11, <2>12
    <3> HIDE DEF n
    <3> QED
      BY <3>1, <3>2, <2>8, <2>11, <2>12, <2>13
  <2> DEFINE a == IF r = 3 THEN high1 ELSE low1
             c == IF r = 0 \/ r = 3 THEN low3 ELSE high3
  <2>16. a \in 1..n /\ c \in 1..n /\ 4 * (a - 1) <= n /\ 4 * (n - c) <= n
    <3> HIDE DEF n
    <3> QED
      BY <2>3, <2>6, <2>7
  <2>17. Low \subseteq Under(w, Nth(w, a)) /\ High \subseteq Above(w, Nth(w, c))
    <3>1. Nth(w, a) = IF r = 3 THEN H1 ELSE L1
      BY DEF H1, L1
    <3>2. Nth(w, c) = IF r = 0 \/ r = 3 THEN L3 ELSE H3
      BY DEF H3, L3
    <3>3. \A p \in Low : w[p] < Nth(w, a)
      BY <3>1, <2>14
    <3>4. \A p \in High : w[p] > Nth(w, c)
      BY <3>2, <2>15
    <3> QED
      BY <1>1, <3>3, <3>4, <2>13 DEF Under, Above
  <2> HIDE DEF a, c
  <2> QED
    BY <2>16, <2>17, FewBeyond DEF n, Low, High
<1> QED
  BY <1>2, <1>3

MadOf(w) == Median2([p \in DOMAIN w |-> Apart(2 * w[p], Median2(w))])
FarFromMedian(w, k) ==
    {p \in DOMAIN w : MadOf(w) # 0 /\ 4 * 6745 * Apart(2 * w[p], Median2(w)) > 10000 * k * MadOf(w)}

\* Half of the values at most are far from the median.
LEMMA FewFarFromMedian ==
    ASSUME NEW D, IsFiniteSet(D), NEW w \in [D -> Int], NEW k \in Nat, k >= 2
    PROVE  2 * Cardinality(FarFromMedian(w, k)) <= Cardinality(D)
<1> DEFINE n == Cardinality(D)
           median == Median2(w)
           away == [p \in D |-> Apart(2 * w[p], median)]
           Far == FarFromMedian(w, k)
<1>1. n \in Nat /\ DOMAIN w = D /\ Far \subseteq D
  BY FS_CardinalityType DEF FarFromMedian
<1>2. CASE n = 0
  <2>1. D = {}
    BY <1>2, FS_EmptySet
  <2>2. Far = {}
    BY <1>1, <2>1
  <2> HIDE DEF Far
  <2>3. Cardinality(Far) = 0
    BY <2>2, FS_EmptySet
  <2> QED
    BY <1>2, <2>3 DEF Far, n
<1>3. CASE n # 0
  <2> DEFINE a == (n + 1) \div 2
             c == n \div 2 + 1
  <2>1. a \in 1..n /\ c \in 1..n /\ a <= c /\ n - a <= n \div 2 /\ 2 * (n - a) <= n
    <3> HIDE DEF n
    <3> QED
      BY <1>1, <1>3
  <2>2. median \in Int
    <3>1. median = Nth(w, a) + Nth(w, c)
      BY <1>1 DEF Median2
    <3> HIDE DEF median, a, c
    <3>2. Nth(w, a) \in Int /\ Nth(w, c) \in Int
      BY <2>1, NthIs
    <3> QED
      BY <3>1, <3>2
  <2> HIDE DEF median
  <2>3. away \in [D -> Int] /\ \A p \in D : away[p] >= 0
    <3>1. ASSUME NEW p \in D PROVE Apart(2 * w[p], median) \in Int /\ Apart(2 * w[p], median) >= 0
      <4>1. w[p] \in Int
        OBVIOUS
      <4> QED
        BY <4>1, <2>2 DEF Apart
    <3> QED
      BY <3>1
  <2> DEFINE mad == MadOf(w)
             N1 == Nth(away, a)
             N2 == Nth(away, c)
  <2>4. DOMAIN away = D
    OBVIOUS
  <2>5. mad = Median2(away)
    BY <1>1 DEF MadOf, median
  <2>6. \A p \in Far : p \in D /\ mad # 0 /\ 26980 * away[p] > 10000 * k * mad
    <3>1. \A p \in D : away[p] = Apart(2 * w[p], median)
      OBVIOUS
    <3>2. 4 * 6745 = 26980
      OBVIOUS
    <3> HIDE DEF away, mad
    <3> QED
      BY <1>1, <3>1, <3>2 DEF FarFromMedian, median, mad
  <2> HIDE DEF away, mad, Far
  <2>7. mad = N1 + N2
    BY <2>4, <2>5 DEF Median2
  <2> HIDE DEF a, c
  <2>8. N1 \in Int /\ N2 \in Int /\ N1 <= N2
    BY <2>1, <2>3, NthIs, NthGrows
  <2>9. N1 >= 0
    <3>1. \E p \in D : N1 = away[p]
      BY <2>1, <2>3, NthIs
    <3> QED
      BY <2>3, <3>1
  <2> HIDE DEF N1, N2
  <2>10. Far \subseteq Above(away, N1)
    <3> SUFFICES ASSUME NEW p \in Far PROVE away[p] > N1
      BY <2>4, <2>6 DEF Above
    <3>1. away[p] \in Int /\ mad \in Int /\ mad >= 2 * N1 /\ mad > 0
      BY <2>3, <2>6, <2>7, <2>8, <2>9
    <3>2. k * mad \in Int /\ k * mad >= 2 * mad
      BY <3>1, Widened
    <3>3. 26980 * away[p] > 10000 * (k * mad)
      <4>1. 10000 * k * mad = 10000 * (k * mad)
        BY <3>1
      <4> QED
        BY <4>1, <2>6
    <3> DEFINE km == k * mad
    <3> HIDE DEF km
    <3>4. 26980 * away[p] > 10000 * km /\ km \in Int /\ km >= 2 * mad
      BY <3>2, <3>3 DEF km
    <3> QED
      BY <3>1, <3>4, <2>8, <2>9
  <2>11. Cardinality(Above(away, N1)) <= n - a
    BY <2>1, <2>3, BeyondNth DEF N1
  <2>12. Cardinality(Far) <= Cardinality(Above(away, N1)) /\ Cardinality(Far) \in Nat /\ Cardinality(Above(away, N1)) \in Nat
    <3>1. IsFiniteSet(Above(away, N1))
      BY <2>3, RanksAreFinite
    <3> QED
      BY <3>1, <2>10, FS_Subset, FS_CardinalityType
  <2>13. a \in Int
    BY <2>1
  <2>14. 2 * Cardinality(Far) <= n
    <3> HIDE DEF n
    <3> QED
      BY <1>1, <2>1, <2>11, <2>12, <2>13
  <2> QED
    BY <2>14 DEF Far, n
<1> QED
  BY <1>2, <1>3

LEMMA OutliersAreFew ==
    ASSUME NEW D, IsFiniteSet(D), NEW w \in [D -> Int], NEW method, NEW k \in Nat, k >= 2
    PROVE  2 * Cardinality(Outliers(w, method, k)) <= Cardinality(D)
<1>1. CASE method = "iqr"
  <2>1. Outliers(w, method, k) = TukeyLow(w, k) \cup TukeyHigh(w, k)
    BY <1>1 DEF Outliers, TukeyLow, TukeyHigh
  <2> QED
    BY <2>1, FewBeyondFences
<1>2. CASE method # "iqr"
  <2>1. Outliers(w, method, k) = FarFromMedian(w, k)
    <3>1. \A p \in DOMAIN w : [x \in DOMAIN w |-> Apart(2 * w[x], Median2(w))][p] = Apart(2 * w[p], Median2(w))
      OBVIOUS
    <3> QED
      BY <1>2, <3>1 DEF Outliers, FarFromMedian, MadOf
  <2> QED
    BY <2>1, FewFarFromMedian
<1> QED
  BY <1>1, <1>2

(***************************************************************************)
(* Results.                                                                *)
(***************************************************************************)

LEMMA QualityAsked ==
    ASSUME NEW asked \in Checks, quality \in asked
    PROVE  /\ quality.check \in CheckName \cup PairCheckName /\ quality.min_members \in Nat
           /\ quality.tables \in Seq(Table) /\ Len(quality.tables) = (IF quality.check \in PairCheckName THEN 2 ELSE 1)
           /\ quality.slice = None \/ quality.slice \in [readable : BOOLEAN, ids : SUBSET Int]
           /\ quality.config.features \cup DOMAIN quality.kinds \subseteq Nat \ {0}
           /\ quality.check = "numeric" => quality.config.k \in Nat
           /\ quality.check = "temporal_order" => quality.config.ordering \in {None} \cup (Nat \ {0})
           /\ quality.check = "target_leakage" => quality.config.max_abs_correlation \in 0..100 /\ quality.config.min_rows \in Nat
  BY QualityAssumption

\* A result of a feature; whether there is any says nothing of the others.
Ranked(r) == HonestResult(r) /\ \E k \in 1..6 : r.status = WorstFirst[k]

LEMMA RankedIs ==
    /\ WorstFirst[1] = "FAIL" /\ WorstFirst[2] = "WARNING" /\ WorstFirst[3] = "INCONCLUSIVE"
    /\ WorstFirst[4] = "UNAVAILABLE" /\ WorstFirst[5] = "NOT_APPLICABLE" /\ WorstFirst[6] = "PASS"
    /\ DOMAIN WorstFirst = 1..6 /\ \A k \in 1..6 : WorstFirst[k] = "PASS" => k = 6
  BY DEF WorstFirst

LEMMA FailsAmong == ASSUME NEW V, Fails(V) # {} PROVE V # {}
  BY DEF Fails

LEMMA JudgedRanked == ASSUME NEW V PROVE Ranked(Judged(V))
<1>1. CASE Fails(V) # {}
  <2>1. Judged(V).status = "FAIL" /\ Judged(V).violations = V
    BY <1>1 DEF Judged, StatusOf
  <2> QED
    BY <1>1, <2>1, RankedIs DEF Ranked, HonestResult
<1>2. CASE Fails(V) = {} /\ V # {}
  <2>1. Judged(V).status = "WARNING" /\ Judged(V).violations = V
    BY <1>2 DEF Judged, StatusOf
  <2> QED
    BY <1>2, <2>1, RankedIs DEF Ranked, HonestResult
<1>3. CASE V = {}
  <2>1. Fails(V) = {}
    BY <1>3, FailsAmong
  <2>2. Judged(V).status = "PASS" /\ Judged(V).violations = V
    BY <1>3, <2>1 DEF Judged, StatusOf
  <2> QED
    BY <1>3, <2>1, <2>2, RankedIs DEF Ranked, HonestResult
<1> QED
  BY <1>1, <1>2, <1>3

LEMMA JudgedIfRanked == ASSUME NEW V, NEW enough PROVE Ranked(JudgedIf(V, enough))
<1>1. CASE enough \/ Fails(V) # {}
  <2>1. JudgedIf(V, enough) = Judged(V)
    BY <1>1 DEF JudgedIf, Judged
  <2> QED
    BY <2>1, JudgedRanked
<1>2. CASE ~(enough \/ Fails(V) # {})
  <2>1. JudgedIf(V, enough).status = "INCONCLUSIVE" /\ JudgedIf(V, enough).violations = V
    BY <1>2 DEF JudgedIf
  <2> QED
    BY <1>2, <2>1, RankedIs DEF Ranked, HonestResult
<1> QED
  BY <1>1, <1>2

LEMMA BareIs ==
    ASSUME NEW status
    PROVE  Bare(status).status = status /\ Bare(status).violations = {} /\ Fails(Bare(status).violations) = {}
  BY DEF Bare, Fails

LEMMA BareRanked ==
    /\ Ranked(Bare("INCONCLUSIVE")) /\ Ranked(Bare("UNAVAILABLE")) /\ Ranked(Bare("NOT_APPLICABLE"))
    /\ HonestResult(Bare("RAISED"))
  BY BareIs, RankedIs DEF Ranked, HonestResult

\* The worst of some statuses is one of them, and none of them is worse.
LEMMA WorstIs ==
    ASSUME NEW A, A # {}, \A s \in A : \E k \in 1..6 : s = WorstFirst[k]
    PROVE  \E k \in 1..6 : WorstOf(A) = WorstFirst[k] /\ WorstFirst[k] \in A /\ \A h \in 1..(k - 1) : WorstFirst[h] \notin A
<1> DEFINE K == {k \in 1..6 : WorstFirst[k] \in A}
           Least(i) == i \in DOMAIN WorstFirst /\ WorstFirst[i] \in A /\ \A h \in 1..(i - 1) : WorstFirst[h] \notin A
<1>1. K # {} /\ IsFiniteSet(K) /\ K \subseteq Int
  <2>1. K # {}
    OBVIOUS
  <2>2. K \in SUBSET (1..6) /\ K \subseteq Int
    OBVIOUS
  <2>3. IsFiniteSet(1..6)
    <3>1. 1 \in Int /\ 6 \in Int
      OBVIOUS
    <3> QED
      BY <3>1, FS_Interval, Zenon
  <2> HIDE DEF K
  <2>4. IsFiniteSet(K)
    BY <2>2, <2>3, FS_Subset
  <2> QED
    BY <2>1, <2>2, <2>4
<1>2. PICK i \in K : \A h \in K : i <= h
  <2> HIDE DEF K
  <2> QED
    BY <1>1, Extremes
<1>3. Least(i)
  <2>1. i \in 1..6 /\ WorstFirst[i] \in A
    BY <1>2
  <2>2. ASSUME NEW h \in 1..(i - 1), WorstFirst[h] \in A PROVE FALSE
    <3>1. h \in K /\ h \in Int /\ i \in Int /\ h < i
      BY <2>1, <2>2
    <3> QED
      BY <1>2, <3>1
  <2> QED
    BY <2>1, <2>2, RankedIs
<1> DEFINE k == CHOOSE n : Least(n)
<1>4. Least(k)
  <2> HIDE DEF Least
  <2> QED
    BY <1>3
<1>5. WorstOf(A) = WorstFirst[k]
  <2>1. k = CHOOSE n \in DOMAIN WorstFirst : WorstFirst[n] \in A /\ \A h \in 1..(n - 1) : WorstFirst[h] \notin A
    OBVIOUS
  <2> HIDE DEF k
  <2> QED
    BY <2>1 DEF WorstOf
<1> HIDE DEF k
<1> QED
  BY <1>4, <1>5, RankedIs

LEMMA TogetherRanked ==
    ASSUME NEW per, \A j \in DOMAIN per : Ranked(per[j])
    PROVE  Ranked(Together(per))
<1> DEFINE A == {per[j].status : j \in DOMAIN per}
           V == UNION {per[j].violations : j \in DOMAIN per}
           r == Together(per)
<1>0. r.status = WorstOf(A) /\ r.violations = V
  BY DEF Together
<1>1. CASE DOMAIN per = {}
  <2>1. A = {} /\ V = {}
    BY <1>1
  <2> HIDE DEF A, V, r
  <2>2. r.status = "NOT_APPLICABLE" /\ Fails(r.violations) = {}
    BY <1>0, <2>1 DEF WorstOf, Fails
  <2> QED
    BY <2>2, RankedIs DEF Ranked, HonestResult, r
<1>2. CASE DOMAIN per # {}
  <2>1. A # {} /\ \A s \in A : \E k \in 1..6 : s = WorstFirst[k]
    BY <1>2 DEF Ranked
  <2>2. PICK k \in 1..6 : WorstOf(A) = WorstFirst[k] /\ WorstFirst[k] \in A /\ \A h \in 1..(k - 1) : WorstFirst[h] \notin A
    <3> HIDE DEF A
    <3> QED
      BY <2>1, WorstIs
  <2>3. \A j \in DOMAIN per : (per[j].status = "FAIL") = (Fails(per[j].violations) # {})
    BY DEF Ranked, HonestResult
  <2>4. Fails(V) # {} <=> \E j \in DOMAIN per : Fails(per[j].violations) # {}
    BY DEF Fails
  <2>5. Fails(V) # {} <=> "FAIL" \in A
    BY <2>3, <2>4
  <2>6. WorstOf(A) = "FAIL" <=> "FAIL" \in A
    <3>1. ASSUME "FAIL" \in A, k # 1 PROVE FALSE
      <4>1. 1 \in 1..(k - 1)
        BY <3>1
      <4> QED
        BY <2>2, <3>1, <4>1, RankedIs
    <3> HIDE DEF A
    <3> QED
      BY <2>2, <3>1, RankedIs
  <2>7. ASSUME WorstOf(A) = "PASS" PROVE V = {}
    <3>1. k = 6
      <4> HIDE DEF A
      <4> QED
        BY <2>2, <2>7, RankedIs
    <3>2. ASSUME NEW j \in DOMAIN per PROVE per[j].violations = {}
      <4>1. PICK n \in 1..6 : per[j].status = WorstFirst[n]
        BY DEF Ranked
      <4>2. WorstFirst[n] \in A
        BY <4>1
      <4>3. n = 6
        <5>1. n \notin 1..(k - 1)
          BY <2>2, <4>2
        <5> QED
          BY <3>1, <5>1
      <4>4. per[j].status = "PASS"
        BY <4>1, <4>3, RankedIs
      <4> QED
        BY <4>4 DEF Ranked, HonestResult
    <3> QED
      BY <3>2
  <2> HIDE DEF A, V, r
  <2>8. HonestResult(r)
    BY <1>0, <2>5, <2>6, <2>7 DEF HonestResult
  <2> QED
    BY <1>0, <2>2, <2>8 DEF Ranked, r
<1> QED
  BY <1>1, <1>2

LEMMA FeaturesRanked ==
    ASSUME NEW c, NEW t, NEW j
    PROVE  /\ Ranked(NumericFeature(c, t, j)) /\ Ranked(CategoricalFeature(c, t, j))
           /\ Ranked(DistributionFeature(c, t, j)) /\ Ranked(LeakageCandidate(c, t, j))
<1>1. Ranked(NumericFeature(c, t, j))
  BY JudgedRanked, JudgedIfRanked, ZenonT(60) DEF NumericFeature
<1>2. Ranked(CategoricalFeature(c, t, j))
  BY JudgedIfRanked, Zenon DEF CategoricalFeature
<1>3. Ranked(DistributionFeature(c, t, j))
  BY JudgedRanked, BareRanked, Zenon DEF DistributionFeature
<1>4. Ranked(LeakageCandidate(c, t, j))
  BY JudgedRanked, BareRanked, Zenon DEF LeakageCandidate
<1> QED
  BY <1>1, <1>2, <1>3, <1>4

LEMMA ChecksHonest ==
    ASSUME NEW c, NEW t, NEW u
    PROVE  /\ HonestResult(CheckSchema(c, t)) /\ HonestResult(CheckSampleCount(c, t)) /\ HonestResult(CheckMissingness(c, t))
           /\ HonestResult(CheckDuplicates(c, t)) /\ HonestResult(CheckIdentifiers(c, t))
           /\ HonestResult(CheckNumeric(c, t)) /\ HonestResult(CheckCategorical(c, t)) /\ HonestResult(CheckTarget(c, t))
           /\ HonestResult(CheckDistribution(c, t)) /\ HonestResult(CheckTargetLeakage(c, t))
           /\ HonestResult(CheckSplitOverlap(c, t, u)) /\ HonestResult(CheckTemporalOrder(c, t, u))
           /\ HonestResult(CheckGroupComparison(c, t, u))
<1>0. /\ \A V : HonestResult(Judged(V)) /\ \A e : HonestResult(JudgedIf(V, e))
      /\ HonestResult(Bare("INCONCLUSIVE")) /\ HonestResult(Bare("UNAVAILABLE")) /\ HonestResult(Bare("RAISED"))
  <2>1. \A V : HonestResult(Judged(V))
    BY JudgedRanked DEF Ranked
  <2>2. \A V : \A e : HonestResult(JudgedIf(V, e))
    BY JudgedIfRanked DEF Ranked
  <2> QED
    BY <2>1, <2>2, BareRanked DEF Ranked
<1>1. HonestResult(CheckSchema(c, t)) /\ HonestResult(CheckSampleCount(c, t)) /\ HonestResult(CheckMissingness(c, t))
  <2>1. HonestResult(CheckSchema(c, t))
    BY <1>0, SMT DEF CheckSchema
  <2>2. HonestResult(CheckSampleCount(c, t))
    BY <1>0, SMT DEF CheckSampleCount
  <2>3. HonestResult(CheckMissingness(c, t))
    BY <1>0, SMT DEF CheckMissingness
  <2> QED
    BY <2>1, <2>2, <2>3
<1>2. HonestResult(CheckDuplicates(c, t)) /\ HonestResult(CheckIdentifiers(c, t)) /\ HonestResult(CheckTarget(c, t))
  <2>1. HonestResult(CheckDuplicates(c, t))
    BY <1>0, Zenon DEF CheckDuplicates
  <2>2. HonestResult(CheckIdentifiers(c, t))
    BY <1>0, Zenon DEF CheckIdentifiers
  <2>3. HonestResult(CheckTarget(c, t))
    BY <1>0, Zenon DEF CheckTarget
  <2> QED
    BY <2>1, <2>2, <2>3
<1>3. HonestResult(CheckNumeric(c, t))
  <2> DEFINE per == [j \in ChosenOf({"NUMERIC"}) |-> NumericFeature(c, t, j)]
  <2>1. \A j \in DOMAIN per : Ranked(per[j])
    BY FeaturesRanked
  <2> HIDE DEF per
  <2> QED
    BY <2>1, TogetherRanked DEF CheckNumeric, Ranked, per
<1>4. HonestResult(CheckCategorical(c, t))
  <2> DEFINE per == [j \in ChosenOf({"CATEGORICAL", "BOOLEAN"}) |-> CategoricalFeature(c, t, j)]
  <2>1. \A j \in DOMAIN per : Ranked(per[j])
    BY FeaturesRanked
  <2> HIDE DEF per
  <2> QED
    BY <2>1, TogetherRanked DEF CheckCategorical, Ranked, per
<1>5. HonestResult(CheckDistribution(c, t))
  <2> DEFINE per == [j \in Chosen |-> DistributionFeature(c, t, j)]
  <2>1. \A j \in DOMAIN per : Ranked(per[j])
    BY FeaturesRanked
  <2> HIDE DEF per
  <2> QED
    BY <2>1, TogetherRanked DEF CheckDistribution, Ranked, per
<1>6. HonestResult(CheckTargetLeakage(c, t))
  <2> DEFINE per == [j \in Chosen |-> LeakageCandidate(c, t, j)]
  <2>1. \A j \in DOMAIN per : Ranked(per[j])
    BY FeaturesRanked
  <2> HIDE DEF per
  <2>2. HonestResult(Together(per))
    BY <2>1, TogetherRanked DEF Ranked
  <2> QED
    BY <1>0, <2>2 DEF CheckTargetLeakage, per
<1>7. HonestResult(CheckSplitOverlap(c, t, u)) /\ HonestResult(CheckTemporalOrder(c, t, u))
  BY <1>0, Zenon DEF CheckSplitOverlap, CheckTemporalOrder
<1>8. HonestResult(CheckGroupComparison(c, t, u))
  BY <1>0, Zenon DEF CheckGroupComparison
<1> QED
  BY <1>1, <1>2, <1>3, <1>4, <1>5, <1>6, <1>7, <1>8

\* What each check gives.
LEMMA OutcomeIs ==
    ASSUME NEW tables
    PROVE  /\ quality.check = "schema" => OutcomeOf(tables) = CheckSchema(quality.config, tables[1])
           /\ quality.check = "sample_count" => OutcomeOf(tables) = CheckSampleCount(quality.config, tables[1])
           /\ quality.check = "missingness" => OutcomeOf(tables) = OfRows(tables[1], CheckMissingness(quality.config, tables[1]))
           /\ quality.check = "duplicates" => OutcomeOf(tables) = OfRows(tables[1], CheckDuplicates(quality.config, tables[1]))
           /\ quality.check = "identifiers" => OutcomeOf(tables) = OfRows(tables[1], CheckIdentifiers(quality.config, tables[1]))
           /\ quality.check = "numeric" => OutcomeOf(tables) = OfRows(tables[1], CheckNumeric(quality.config, tables[1]))
           /\ quality.check = "categorical" => OutcomeOf(tables) = OfRows(tables[1], CheckCategorical(quality.config, tables[1]))
           /\ quality.check = "target" => OutcomeOf(tables) = OfRows(tables[1], CheckTarget(quality.config, tables[1]))
           /\ quality.check = "distribution" => OutcomeOf(tables) = OfRows(tables[1], CheckDistribution(quality.config, tables[1]))
           /\ quality.check = "target_leakage" => OutcomeOf(tables) = OfRows(tables[1], CheckTargetLeakage(quality.config, tables[1]))
           /\ quality.check = "split_overlap" => OutcomeOf(tables) = CheckSplitOverlap(quality.config, tables[1], tables[2])
           /\ quality.check = "temporal_order" => OutcomeOf(tables) = CheckTemporalOrder(quality.config, tables[1], tables[2])
           /\ quality.check = "group_comparison" => OutcomeOf(tables) = CheckGroupComparison(quality.config, tables[1], tables[2])
  BY DEF OutcomeOf

LEMMA OfRowsHonest == ASSUME NEW t, NEW r, HonestResult(r) PROVE HonestResult(OfRows(t, r))
  BY BareRanked DEF OfRows, Ranked

LEMMA OutcomesHonest ==
    ASSUME quality.check \in CheckName \cup PairCheckName, NEW tables
    PROVE  HonestResult(OutcomeOf(tables))
  BY OutcomeIs, ChecksHonest, OfRowsHonest DEF CheckName, PairCheckName

LEMMA SliceHonest ==
    ASSUME quality.check \in CheckName \cup PairCheckName, NEW t
    PROVE  HonestResult(SliceOutcome(t))
<1> DEFINE r == OutcomeOf(<<SliceOf(t)>>)
<1>1. HonestResult(r)
  BY OutcomesHonest
<1> HIDE DEF r
<1>2. SliceOutcome(t) = IF Withheld(t) # None THEN Bare(Withheld(t))
                        ELSE IF Size(SliceOf(t)) < quality.min_members /\ r.status \in {"PASS", "WARNING"}
                             THEN [r EXCEPT !.status = "INCONCLUSIVE"] ELSE r
  BY DEF SliceOutcome, r
<1>3. CASE Withheld(t) # None
  <2>1. Withheld(t) = "UNAVAILABLE" \/ Withheld(t) = "NOT_APPLICABLE"
    BY <1>3 DEF Withheld
  <2> QED
    BY <1>2, <1>3, <2>1, BareRanked DEF Ranked
<1>4. CASE ~(Withheld(t) # None) /\ r.status \in {"PASS", "WARNING"}
  <2>1. Fails(r.violations) = {}
    BY <1>1, <1>4 DEF HonestResult
  <2>2. [r EXCEPT !.status = "INCONCLUSIVE"].violations = r.violations
    OBVIOUS
  <2>3. HonestResult([r EXCEPT !.status = "INCONCLUSIVE"])
    BY <2>1, <2>2 DEF HonestResult
  <2> QED
    BY <1>1, <1>2, <1>4, <2>3
<1>5. CASE ~(Withheld(t) # None) /\ r.status \notin {"PASS", "WARNING"}
  BY <1>1, <1>2, <1>5
<1> QED
  BY <1>3, <1>4, <1>5

(***************************************************************************)
(* Tables, and tables that have some of the rows of another, or all of     *)
(* them in another order.                                                  *)
(***************************************************************************)

LEMMA TableIs ==
    ASSUME NEW t \in Table
    PROVE  /\ t.ids \in Seq(Int) /\ t.rows \in Seq(Seq(QualityCells)) /\ Len(t.rows) = Size(t)
           /\ Size(t) \in Nat /\ Places(t) = 1..Size(t) /\ DOMAIN t.ids = Places(t) /\ DOMAIN t.rows = Places(t)
           /\ IsFiniteSet(Places(t)) /\ Cardinality(Places(t)) = Size(t)
           /\ t.labels \in Seq(QualityCells) \cup {None} /\ t.declared \in Nat \cup {None}
           /\ \A p \in Places(t) : t.ids[p] \in Int /\ t.rows[p] \in Seq(QualityCells)
<1>1. /\ t.ids \in Seq(Int) /\ t.rows \in Seq(Seq(QualityCells)) /\ Len(t.rows) = Len(t.ids)
      /\ t.labels \in Seq(QualityCells) \cup {None} /\ t.declared \in Nat \cup {None}
  BY DEF Table
<1>2. Size(t) \in Nat /\ Places(t) = 1..Size(t) /\ Len(t.rows) = Size(t)
  BY <1>1 DEF Size, Places
<1>3. IsFiniteSet(Places(t)) /\ Cardinality(Places(t)) = Size(t)
  BY <1>2, FS_Interval
<1>4. DOMAIN t.ids = Places(t) /\ DOMAIN t.rows = Places(t)
  BY <1>1, <1>2 DEF Size
<1>5. \A p \in Places(t) : t.ids[p] \in Int /\ t.rows[p] \in Seq(QualityCells)
  BY <1>1, <1>4
<1> QED
  BY <1>1, <1>2, <1>3, <1>4, <1>5

LEMMA AlignedIs ==
    ASSUME NEW t \in Table, Aligned(t)
    PROVE  t.labels \in Seq(QualityCells) /\ Len(t.labels) = Size(t) /\ \A p \in Places(t) : t.labels[p] \in QualityCells
  BY TableIs DEF Aligned

LEMMA ColumnIs ==
    ASSUME NEW t \in Table, NEW j \in Nat \ {0}
    PROVE  \A p \in Places(t) : Column(t, j)[p] \in QualityCells
<1> SUFFICES ASSUME NEW p \in Places(t) PROVE Column(t, j)[p] \in QualityCells
  OBVIOUS
<1>1. t.rows[p] \in Seq(QualityCells)
  BY TableIs
<1>2. j <= Len(t.rows[p]) => t.rows[p][j] \in QualityCells
  BY <1>1
<1>3. Missing \in QualityCells
  BY DEF QualityCells
<1> QED
  BY <1>2, <1>3 DEF Column

LEMMA CellsDiffer ==
    Missing # Infinite /\ Missing # Word /\ Infinite # Word /\ Missing \notin Int /\ Infinite \notin Int /\ Word \notin Int
<1>1. Cardinality({Missing, Infinite, Word}) = 3 /\ {Missing, Infinite, Word} \cap Int = {}
  BY QualityAssumption
<1>2. \A a, b : Cardinality({a, b}) <= 2
  <2> SUFFICES ASSUME NEW a, NEW b PROVE Cardinality({a, b}) <= 2
    OBVIOUS
  <2>1. IsFiniteSet({a}) /\ Cardinality({a}) = 1
    BY FS_Singleton
  <2>2. {a, b} = {a} \cup {b}
    OBVIOUS
  <2>3. Cardinality({a} \cup {b}) = IF b \in {a} THEN Cardinality({a}) ELSE Cardinality({a}) + 1
    BY <2>1, FS_AddElement
  <2> QED
    BY <2>1, <2>2, <2>3
<1>3. ASSUME Missing = Infinite \/ Missing = Word \/ Infinite = Word PROVE FALSE
  <2>1. CASE Missing = Infinite
    <3>1. {Missing, Infinite, Word} = {Infinite, Word}
      BY <2>1
    <3>2. Cardinality({Infinite, Word}) <= 2
      BY <1>2
    <3>3. Cardinality({Missing, Infinite, Word}) <= 2
      BY <3>1, <3>2, Zenon
    <3> QED
      BY <1>1, <3>3
  <2>2. CASE Missing = Word
    <3>1. {Missing, Infinite, Word} = {Missing, Infinite}
      BY <2>2
    <3>2. Cardinality({Missing, Infinite}) <= 2
      BY <1>2
    <3>3. Cardinality({Missing, Infinite, Word}) <= 2
      BY <3>1, <3>2, Zenon
    <3> QED
      BY <1>1, <3>3
  <2>3. CASE Infinite = Word
    <3>1. {Missing, Infinite, Word} = {Missing, Infinite}
      BY <2>3
    <3>2. Cardinality({Missing, Infinite}) <= 2
      BY <1>2
    <3>3. Cardinality({Missing, Infinite, Word}) <= 2
      BY <3>1, <3>2, Zenon
    <3> QED
      BY <1>1, <3>3
  <2> QED
    BY <1>3, <2>1, <2>2, <2>3
<1> QED
  BY <1>1, <1>3

\* What is valid in a numeric column is a number.
LEMMA ValidNumber ==
    ASSUME NEW x \in QualityCells, StateOf(x, "NUMERIC") = "valid"
    PROVE  x \in Int
  BY CellsDiffer DEF StateOf, QualityCells

From(f, S) == {n \in DOMAIN f : f[n] \in S}

\* s has some of the rows of t: its row n is the row f[n] of t.
Embeds(s, t, f) ==
    /\ s \in Table /\ t \in Table /\ f \in [Places(s) -> Places(t)]
    /\ \A m, n \in Places(s) : f[m] = f[n] => m = n
    /\ \A n \in Places(s) : s.ids[n] = t.ids[f[n]] /\ s.rows[n] = t.rows[f[n]]
    /\ Aligned(s) <=> Aligned(t)
    /\ Aligned(t) => \A n \in Places(s) : s.labels[n] = t.labels[f[n]]

\* s has all of them.
Covers(s, t, f) ==
    /\ Embeds(s, t, f) /\ Size(s) = Size(t) /\ s.declared = t.declared
    /\ \A p \in Places(t) : \E n \in Places(s) : f[n] = p
    /\ s.labels = None <=> t.labels = None
    /\ t.labels # None => Len(s.labels) = Len(t.labels)

LEMMA ColumnFrom ==
    ASSUME NEW s, NEW t, NEW f, Embeds(s, t, f), NEW j
    PROVE  \A n \in Places(s) : f[n] \in Places(t) /\ Column(s, j)[n] = Column(t, j)[f[n]]
  BY DEF Embeds, Column

LEMMA StatesFrom ==
    ASSUME NEW s, NEW t, NEW f, Embeds(s, t, f), NEW j, NEW kind, NEW states
    PROVE  InState(s, j, kind, states) = From(f, InState(t, j, kind, states)) /\ InState(t, j, kind, states) \subseteq Places(t)
<1>1. DOMAIN f = Places(s)
  BY DEF Embeds
<1>2. \A n \in Places(s) : f[n] \in Places(t) /\ Column(s, j)[n] = Column(t, j)[f[n]]
  BY ColumnFrom
<1> QED
  BY <1>1, <1>2 DEF InState, From

LEMMA CellsFrom ==
    ASSUME NEW s, NEW t, NEW f, Embeds(s, t, f), NEW j
    PROVE  /\ ValidAt(s, j) = From(f, ValidAt(t, j)) /\ ValidAt(t, j) \subseteq Places(t)
           /\ Absent(s, j) = From(f, Absent(t, j)) /\ Absent(t, j) \subseteq Places(t)
           /\ Invalid(s, j) = From(f, Invalid(t, j)) /\ Invalid(t, j) \subseteq Places(t)
           /\ Bad(s, j) = From(f, Bad(t, j)) /\ Bad(t, j) \subseteq Places(t)
  BY StatesFrom DEF ValidAt, Absent, Invalid, Bad

LEMMA IdsFrom ==
    ASSUME NEW s, NEW t, NEW f, Covers(s, t, f), NEW S, S \subseteq Places(t)
    PROVE  IdsAt(s, From(f, S)) = IdsAt(t, S)
<1>1. /\ DOMAIN f = Places(s) /\ \A n \in Places(s) : s.ids[n] = t.ids[f[n]]
      /\ \A p \in Places(t) : \E n \in Places(s) : f[n] = p
  BY DEF Covers, Embeds
<1>2. ASSUME NEW p \in S PROVE \E n \in From(f, S) : s.ids[n] = t.ids[p]
  BY <1>1 DEF From
<1>3. ASSUME NEW n \in From(f, S) PROVE \E p \in S : s.ids[n] = t.ids[p]
  BY <1>1 DEF From
<1> QED
  BY <1>2, <1>3 DEF IdsAt

\* A one-to-one function between two finite sets.
OneToOne(f, Q, P) ==
    /\ IsFiniteSet(Q) /\ IsFiniteSet(P) /\ f \in [Q -> P]
    /\ \A m, n \in Q : f[m] = f[n] => m = n
    /\ \A p \in P : \E n \in Q : f[n] = p

LEMMA CoversPairs ==
    ASSUME NEW s, NEW t, NEW f, Covers(s, t, f)
    PROVE  OneToOne(f, Places(s), Places(t))
  BY TableIs DEF Covers, Embeds, OneToOne

LEMMA FromSize ==
    ASSUME NEW f, NEW Q, NEW P, OneToOne(f, Q, P), NEW S, S \subseteq P
    PROVE  /\ From(f, S) \subseteq Q /\ S = {f[n] : n \in From(f, S)}
           /\ IsFiniteSet(S) /\ IsFiniteSet(From(f, S))
           /\ Cardinality(From(f, S)) = Cardinality(S) /\ (From(f, S) = {} <=> S = {})
<1> DEFINE R == From(f, S)
           g == [n \in R |-> f[n]]
<1>1. /\ DOMAIN f = Q /\ R \subseteq Q /\ S = {f[n] : n \in R}
  BY DEF OneToOne, From
<1>2. IsFiniteSet(S)
  <2>1. S \in SUBSET P
    OBVIOUS
  <2> QED
    BY <2>1, FS_Subset DEF OneToOne
<1>3. \A n \in R : f[n] \in S
  BY DEF From
<1> HIDE DEF R
<1>4. g \in Bijection(R, S)
  <2>1. g \in [R -> S]
    BY <1>3
  <2>2. \A m, n \in R : g[m] = g[n] => m = n
    BY <1>1 DEF OneToOne
  <2>3. \A p \in S : \E n \in R : g[n] = p
    BY <1>1
  <2> HIDE DEF g
  <2> QED
    BY <2>1, <2>2, <2>3 DEF Bijection, Injection, IsInjective, Surjection
<1>5. IsFiniteSet(R)
  <2>1. R \in SUBSET Q
    BY <1>1
  <2> QED
    BY <2>1, FS_Subset DEF OneToOne
<1>6. Cardinality(S) = Cardinality(R)
  <2>1. ExistsBijection(R, S)
    BY <1>4 DEF ExistsBijection
  <2> QED
    BY <1>5, <2>1, FS_Bijection
<1>7. R = {} <=> S = {}
  BY <1>1
<1> QED
  BY <1>1, <1>2, <1>5, <1>6, <1>7 DEF R

\* The function w, reached through f.
Via(f, w) == [n \in From(f, DOMAIN w) |-> w[f[n]]]

LEMMA ValuesFrom ==
    ASSUME NEW s, NEW t, NEW f, Embeds(s, t, f), NEW j, NEW S, S \subseteq Places(t)
    PROVE  /\ ValuesAt(s, j, From(f, S)) = Via(f, ValuesAt(t, j, S))
           /\ DOMAIN ValuesAt(t, j, S) = S
<1>1. \A n \in From(f, S) : Column(s, j)[n] = Column(t, j)[f[n]] /\ f[n] \in S
  BY ColumnFrom DEF From, Embeds
<1>2. DOMAIN ValuesAt(t, j, S) = S
  BY DEF ValuesAt
<1> QED
  BY <1>1, <1>2 DEF ValuesAt, Via

(***************************************************************************)
(* Statistics do not depend on the places that the values have.            *)
(***************************************************************************)

LEMMA ViaIs ==
    ASSUME NEW f, NEW Q, NEW P, OneToOne(f, Q, P), NEW w, DOMAIN w \subseteq P
    PROVE  /\ DOMAIN Via(f, w) = From(f, DOMAIN w) /\ IsFiniteSet(DOMAIN w) /\ IsFiniteSet(DOMAIN Via(f, w))
           /\ \A n \in DOMAIN Via(f, w) : f[n] \in DOMAIN w /\ Via(f, w)[n] = w[f[n]]
           /\ {Via(f, w)[n] : n \in DOMAIN Via(f, w)} = {w[p] : p \in DOMAIN w}
           /\ Cardinality(DOMAIN Via(f, w)) = Cardinality(DOMAIN w)
<1> DEFINE v == Via(f, w)
<1>1. DOMAIN v = From(f, DOMAIN w) /\ \A n \in From(f, DOMAIN w) : v[n] = w[f[n]]
  BY DEF Via
<1>2. \A n \in From(f, DOMAIN w) : f[n] \in DOMAIN w
  BY DEF From
<1>3. /\ DOMAIN w = {f[n] : n \in From(f, DOMAIN w)}
      /\ Cardinality(From(f, DOMAIN w)) = Cardinality(DOMAIN w)
      /\ IsFiniteSet(DOMAIN w) /\ IsFiniteSet(From(f, DOMAIN w))
  <2> DEFINE S == DOMAIN w
  <2>1. S \subseteq P
    OBVIOUS
  <2> HIDE DEF S
  <2>2. S = {f[n] : n \in From(f, S)}
    BY <2>1, FromSize
  <2>3. Cardinality(From(f, S)) = Cardinality(S)
    BY <2>1, FromSize
  <2>4. IsFiniteSet(S) /\ IsFiniteSet(From(f, S))
    BY <2>1, FromSize
  <2> QED
    BY <2>2, <2>3, <2>4, Zenon DEF S
<1> HIDE DEF v
<1>4. {v[n] : n \in DOMAIN v} = {w[p] : p \in DOMAIN w}
  <2>1. \A p \in DOMAIN w : \E n \in DOMAIN v : v[n] = w[p]
    BY <1>1, <1>3
  <2> QED
    BY <1>1, <1>2, <2>1
<1> QED
  BY <1>1, <1>2, <1>3, <1>4 DEF v

\* Places that are told apart by their value.
PlacesIn(u, X) == {p \in DOMAIN u : u[p] \in X}

LEMMA PlacesVia ==
    ASSUME NEW f, NEW Q, NEW P, OneToOne(f, Q, P), NEW w, DOMAIN w \subseteq P, NEW X
    PROVE  /\ PlacesIn(Via(f, w), X) = From(f, PlacesIn(w, X))
           /\ Cardinality(PlacesIn(Via(f, w), X)) = Cardinality(PlacesIn(w, X))
<1>1. PlacesIn(Via(f, w), X) = From(f, PlacesIn(w, X))
  <2> DEFINE v == Via(f, w)
  <2>1. DOMAIN v = From(f, DOMAIN w) /\ \A n \in DOMAIN v : f[n] \in DOMAIN w /\ v[n] = w[f[n]]
    BY ViaIs
  <2> HIDE DEF v
  <2>2. {n \in DOMAIN v : v[n] \in X} = From(f, {p \in DOMAIN w : w[p] \in X})
    BY <2>1 DEF From
  <2> QED
    BY <2>2, Zenon DEF v, PlacesIn
<1>2. PlacesIn(w, X) \subseteq P
  BY DEF PlacesIn
<1> QED
  BY <1>1, <1>2, FromSize

LEMMA CountVia ==
    ASSUME NEW f, NEW Q, NEW P, OneToOne(f, Q, P), NEW w, DOMAIN w \subseteq P
    PROVE  CountOf(Via(f, w)) = CountOf(w)
<1> DEFINE v == Via(f, w)
           At(u, x) == {n \in DOMAIN u : u[n] = x}
<1>1. {v[n] : n \in DOMAIN v} = {w[p] : p \in DOMAIN w}
  BY ViaIs
<1>2. \A x : Cardinality(At(v, x)) = Cardinality(At(w, x))
  <2> SUFFICES ASSUME NEW x PROVE Cardinality(At(v, x)) = Cardinality(At(w, x))
    OBVIOUS
  <2>1. \A u : At(u, x) = PlacesIn(u, {x})
    BY DEF PlacesIn
  <2> HIDE DEF At
  <2> QED
    BY <2>1, PlacesVia
<1>3. /\ CountOf(v) = [x \in {v[n] : n \in DOMAIN v} |-> Cardinality(At(v, x))]
      /\ CountOf(w) = [x \in {w[n] : n \in DOMAIN w} |-> Cardinality(At(w, x))]
  BY DEF CountOf
<1> HIDE DEF v, At
<1>4. CountOf(v) = CountOf(w)
  BY <1>1, <1>2, <1>3
<1> QED
  BY <1>4 DEF v

LEMMA NthVia ==
    ASSUME NEW f, NEW Q, NEW P, OneToOne(f, Q, P), NEW w, DOMAIN w \subseteq P
    PROVE  \A k : Nth(Via(f, w), k) = Nth(w, k)
<1> DEFINE v == Via(f, w)
<1>0. SUFFICES ASSUME NEW k PROVE Nth(v, k) = Nth(w, k)
  OBVIOUS
<1>1. {v[n] : n \in DOMAIN v} = {w[p] : p \in DOMAIN w}
  BY ViaIs
<1>2. \A x : Cardinality(Under(v, x)) = Cardinality(Under(w, x)) /\ Cardinality(AtMost(v, x)) = Cardinality(AtMost(w, x))
  <2> SUFFICES ASSUME NEW x
               PROVE  Cardinality(Under(v, x)) = Cardinality(Under(w, x)) /\ Cardinality(AtMost(v, x)) = Cardinality(AtMost(w, x))
    OBVIOUS
  <2> DEFINE V == {w[p] : p \in DOMAIN w}
             X == {y \in V : y < x}
             Z == {y \in V : y <= x}
  <2>a. Under(v, x) = PlacesIn(v, X) /\ AtMost(v, x) = PlacesIn(v, Z)
    BY <1>1, Zenon DEF Under, AtMost, PlacesIn
  <2>b. Under(w, x) = PlacesIn(w, X) /\ AtMost(w, x) = PlacesIn(w, Z)
    BY Zenon DEF Under, AtMost, PlacesIn
  <2>c. \A Y : PlacesIn(v, Y) = From(f, PlacesIn(w, Y))
    BY PlacesVia
  <2>1. Under(v, x) = From(f, Under(w, x)) /\ AtMost(v, x) = From(f, AtMost(w, x))
    BY <2>a, <2>b, <2>c
  <2>2. Under(w, x) \subseteq P /\ AtMost(w, x) \subseteq P
    BY DEF Under, AtMost
  <2> QED
    BY <2>1, <2>2, FromSize
<1>3. \A u : Nth(u, k) = CHOOSE x \in {u[p] : p \in DOMAIN u} : Cardinality(Under(u, x)) < k /\ Cardinality(AtMost(u, x)) >= k
  BY DEF Nth, Under, AtMost
<1> HIDE DEF v
<1>4. (CHOOSE x \in {v[p] : p \in DOMAIN v} : Cardinality(Under(v, x)) < k /\ Cardinality(AtMost(v, x)) >= k)
      = (CHOOSE x \in {w[p] : p \in DOMAIN w} : Cardinality(Under(w, x)) < k /\ Cardinality(AtMost(w, x)) >= k)
  BY <1>1, <1>2
<1> QED
  BY <1>3, <1>4

LEMMA MiddleVia ==
    ASSUME NEW f, NEW Q, NEW P, OneToOne(f, Q, P), NEW w, DOMAIN w \subseteq P
    PROVE  Median2(Via(f, w)) = Median2(w) /\ \A q : Quartile4(Via(f, w), q) = Quartile4(w, q)
<1>1. Cardinality(DOMAIN Via(f, w)) = Cardinality(DOMAIN w)
  BY ViaIs
<1>2. \A k : Nth(Via(f, w), k) = Nth(w, k)
  BY NthVia
<1>3. Median2(Via(f, w)) = Median2(w)
  BY <1>1, <1>2, Zenon DEF Median2
<1>4. \A q : Quartile4(Via(f, w), q) = Quartile4(w, q)
  BY <1>1, <1>2, Zenon DEF Quartile4
<1> QED
  BY <1>3, <1>4

LEMMA OutliersVia ==
    ASSUME NEW f, NEW Q, NEW P, OneToOne(f, Q, P), NEW w, DOMAIN w \subseteq P, NEW method, NEW k
    PROVE  Outliers(Via(f, w), method, k) = From(f, Outliers(w, method, k)) /\ Outliers(w, method, k) \subseteq DOMAIN w
<1> DEFINE v == Via(f, w)
<1>0. /\ DOMAIN v = From(f, DOMAIN w)
      /\ \A n \in DOMAIN v : f[n] \in DOMAIN w /\ v[n] = w[f[n]]
  BY ViaIs
<1>1. CASE method = "iqr"
  <2> DEFINE Far(u, q1, q3) == {p \in DOMAIN u : 8 * u[p] < 2 * q1 - k * (q3 - q1) \/ 8 * u[p] > 2 * q3 + k * (q3 - q1)}
  <2>1. \A u : Outliers(u, method, k) = Far(u, Quartile4(u, 1), Quartile4(u, 3))
    BY <1>1, SMTT(60) DEF Outliers
  <2>2. Quartile4(v, 1) = Quartile4(w, 1) /\ Quartile4(v, 3) = Quartile4(w, 3)
    BY MiddleVia
  <2> HIDE DEF v
  <2>3. \A q1, q3 : Far(v, q1, q3) = From(f, Far(w, q1, q3)) /\ Far(w, q1, q3) \subseteq DOMAIN w
    <3> SUFFICES ASSUME NEW q1, NEW q3 PROVE Far(v, q1, q3) = From(f, Far(w, q1, q3))
      OBVIOUS
    <3> DEFINE X == {y \in {w[p] : p \in DOMAIN w} : 8 * y < 2 * q1 - k * (q3 - q1) \/ 8 * y > 2 * q3 + k * (q3 - q1)}
    <3>1. Far(w, q1, q3) = PlacesIn(w, X)
      BY Zenon DEF PlacesIn
    <3>2. Far(v, q1, q3) = PlacesIn(v, X)
      BY <1>0, Zenon DEF PlacesIn
    <3> HIDE DEF X, Far
    <3> QED
      BY <3>1, <3>2, PlacesVia DEF v
  <2> HIDE DEF Far
  <2>4. Outliers(v, method, k) = From(f, Outliers(w, method, k)) /\ Outliers(w, method, k) \subseteq DOMAIN w
    BY <2>1, <2>2, <2>3
  <2> QED
    BY <2>4 DEF v
<1>2. CASE method # "iqr"
  <2> DEFINE Away(u) == [p \in DOMAIN u |-> Apart(2 * u[p], Median2(u))]
             Far(D, away, mad) == {p \in D : mad # 0 /\ 4 * 6745 * away[p] > 10000 * k * mad}
  <2>1. \A u : Outliers(u, method, k) = Far(DOMAIN u, Away(u), Median2(Away(u)))
    <3> SUFFICES ASSUME NEW u PROVE Outliers(u, method, k) = Far(DOMAIN u, Away(u), Median2(Away(u)))
      OBVIOUS
    <3> QED
      BY <1>2, SMT DEF Outliers
  <2>2. Median2(v) = Median2(w)
    BY MiddleVia
  <2>3. Away(v) = Via(f, Away(w)) /\ DOMAIN Away(w) = DOMAIN w
    <3>1. DOMAIN Away(w) = DOMAIN w
      OBVIOUS
    <3>2. \A n \in DOMAIN v : Apart(2 * v[n], Median2(v)) = Away(w)[f[n]]
      BY <1>0, <2>2
    <3> HIDE DEF v
    <3>3. Away(v) = [n \in From(f, DOMAIN w) |-> Away(w)[f[n]]]
      BY <1>0, <3>2
    <3> QED
      BY <3>1, <3>3 DEF Via
  <2> HIDE DEF v, Away
  <2>4. Median2(Away(v)) = Median2(Away(w))
    BY <2>3, MiddleVia
  <2>5. /\ DOMAIN Away(v) = From(f, DOMAIN w)
        /\ \A n \in DOMAIN Away(v) : f[n] \in DOMAIN w /\ Away(v)[n] = Away(w)[f[n]]
    BY <2>3, ViaIs
  <2>6. \A mad : Far(DOMAIN v, Away(v), mad) = From(f, Far(DOMAIN w, Away(w), mad)) /\ Far(DOMAIN w, Away(w), mad) \subseteq DOMAIN w
    <3> SUFFICES ASSUME NEW mad PROVE Far(DOMAIN v, Away(v), mad) = From(f, Far(DOMAIN w, Away(w), mad))
      OBVIOUS
    <3> DEFINE a == Away(w)
               b == Away(v)
               X == {y \in {a[p] : p \in DOMAIN a} : mad # 0 /\ 4 * 6745 * y > 10000 * k * mad}
    <3>1. DOMAIN a = DOMAIN w /\ DOMAIN b = DOMAIN v /\ \A n \in DOMAIN v : f[n] \in DOMAIN w /\ b[n] = a[f[n]]
      BY <1>0, <2>3, <2>5
    <3>2. b = Via(f, a)
      BY <2>3
    <3> HIDE DEF a, b
    <3>3. Far(DOMAIN a, a, mad) = PlacesIn(a, X)
      BY SMT DEF PlacesIn
    <3>4. \A n \in DOMAIN b : b[n] \in {a[p] : p \in DOMAIN a}
      BY <3>1
    <3>5. Far(DOMAIN b, b, mad) = PlacesIn(b, X)
      BY <3>4, SMT DEF PlacesIn
    <3> HIDE DEF X, Far
    <3>6. PlacesIn(b, X) = From(f, PlacesIn(a, X))
      BY <3>1, <3>2, PlacesVia
    <3> QED
      BY <3>1, <3>3, <3>5, <3>6 DEF a, b
  <2> HIDE DEF Far
  <2>7. Outliers(v, method, k) = From(f, Outliers(w, method, k)) /\ Outliers(w, method, k) \subseteq DOMAIN w
    BY <2>1, <2>4, <2>6
  <2> QED
    BY <2>7 DEF v
<1> QED
  BY <1>1, <1>2

LEMMA TotalVia ==
    ASSUME NEW f, NEW Q, NEW P, OneToOne(f, Q, P), NEW D, D \subseteq P, NEW w \in [D -> Int]
    PROVE  Via(f, w) \in [From(f, D) -> Int] /\ Total(Via(f, w)) = Total(w)
<1> DEFINE v == Via(f, w)
           R == From(f, D)
           h == [n \in R |-> f[n]]
<1>0. DOMAIN w = D
  OBVIOUS
<1>1. /\ DOMAIN v = R /\ IsFiniteSet(D) /\ IsFiniteSet(R)
      /\ \A n \in R : f[n] \in D /\ v[n] = w[f[n]]
  BY <1>0, ViaIs
<1>2. R \subseteq Q /\ D = {f[n] : n \in R}
  BY FromSize
<1>3. v = [n \in R |-> v[n]]
  BY DEF Via
<1> HIDE DEF v, R
<1>4. v \in [R -> Int]
  BY <1>1, <1>3
<1>5. h \in [R -> D] /\ \A x, y \in R : h[x] = h[y] => x = y
  BY <1>1, <1>2 DEF OneToOne
<1>6. (\A e \in D : \E x \in R : h[x] = e) /\ \A n \in R : v[n] = w[h[n]]
  BY <1>1, <1>2
<1> HIDE DEF h
<1>7. Total(v) = Total(w)
  BY <1>1, <1>4, <1>5, <1>6, TotalReordered
<1> QED
  BY <1>4, <1>7 DEF v, R

LEMMA ProductsVia ==
    ASSUME NEW f, NEW D, NEW x \in [D -> Int], NEW y \in [D -> Int]
    PROVE  Products(Via(f, x), Via(f, y)) = Via(f, Products(x, y))
<1>1. DOMAIN x = D /\ DOMAIN y = D
  OBVIOUS
<1>2. \A n \in From(f, D) : f[n] \in D
  BY DEF From
<1> QED
  BY <1>1, <1>2 DEF Products, Via

LEMMA DeviationsVia ==
    ASSUME NEW f, NEW Q, NEW P, OneToOne(f, Q, P), NEW D, D \subseteq P, NEW w \in [D -> Int]
    PROVE  Deviations(Via(f, w)) = Via(f, Deviations(w)) /\ SquareSum(Via(f, w)) = SquareSum(w)
<1> DEFINE v == Via(f, w)
           n == Cardinality(D)
           T == Total(w)
<1>0. DOMAIN w = D
  OBVIOUS
<1>1. DOMAIN v = From(f, D) /\ Cardinality(DOMAIN v) = n /\ IsFiniteSet(D) /\ \A m \in DOMAIN v : f[m] \in D /\ v[m] = w[f[m]]
  BY <1>0, ViaIs
<1>2. Total(v) = T
  BY TotalVia
<1>3. Deviations(w) = [p \in D |-> n * w[p] - T]
  BY <1>0 DEF Deviations
<1>4. Deviations(v) = [m \in From(f, D) |-> n * v[m] - T]
  BY <1>1, <1>2 DEF Deviations
<1>5. Deviations(v) = Via(f, Deviations(w))
  <2> HIDE DEF v, n, T
  <2>1. \A m \in From(f, D) : Deviations(w)[f[m]] = n * v[m] - T
    BY <1>1, <1>3
  <2>2. DOMAIN Deviations(w) = D
    BY <1>3
  <2> QED
    BY <1>4, <2>1, <2>2 DEF Via
<1>6. Deviations(w) \in [D -> Int]
  BY <1>1, DeviationsAre
<1>7. Products(Deviations(w), Deviations(w)) \in [D -> Int]
  BY <1>6, ProductsAre
<1>8. Products(Deviations(v), Deviations(v)) = Via(f, Products(Deviations(w), Deviations(w)))
  BY <1>5, <1>6, ProductsVia
<1>9. SquareSum(v) = SquareSum(w)
  BY <1>7, <1>8, TotalVia DEF SquareSum
<1> QED
  BY <1>5, <1>9

LEMMA SkewedVia ==
    ASSUME NEW f, NEW Q, NEW P, OneToOne(f, Q, P), NEW D, D \subseteq P, NEW w \in [D -> Int], NEW s
    PROVE  Skewed(Via(f, w), s) = Skewed(w, s)
<1> DEFINE v == Via(f, w)
           d == Deviations(w)
           e == Deviations(v)
<1>0. DOMAIN w = D
  OBVIOUS
<1>1. Cardinality(DOMAIN v) = Cardinality(DOMAIN w) /\ IsFiniteSet(D)
  BY <1>0, ViaIs
<1>2. e = Via(f, d) /\ d \in [D -> Int]
  BY <1>1, DeviationsVia, DeviationsAre
<1> HIDE DEF e, d
<1>3. Products(e, e) = Via(f, Products(d, d)) /\ Products(d, d) \in [D -> Int]
  BY <1>2, ProductsVia, ProductsAre
<1>4. Products(e, Products(e, e)) = Via(f, Products(d, Products(d, d))) /\ Products(d, Products(d, d)) \in [D -> Int]
  BY <1>2, <1>3, ProductsVia, ProductsAre
<1>5. Total(Products(e, e)) = Total(Products(d, d)) /\ Total(Products(e, Products(e, e))) = Total(Products(d, Products(d, d)))
  BY <1>3, <1>4, TotalVia
<1> QED
  BY <1>1, <1>5, Zenon DEF Skewed, e, d

LEMMA CorrelatedVia ==
    ASSUME NEW f, NEW Q, NEW P, OneToOne(f, Q, P), NEW D, D \subseteq P, NEW x \in [D -> Int], NEW y \in [D -> Int], NEW least
    PROVE  Correlated(Via(f, x), Via(f, y), least) = Correlated(x, y, least)
<1>0. DOMAIN x = D /\ DOMAIN y = D
  OBVIOUS
<1>1. IsFiniteSet(D)
  BY <1>0, ViaIs
<1>2. /\ Deviations(Via(f, x)) = Via(f, Deviations(x)) /\ Deviations(x) \in [D -> Int]
      /\ Deviations(Via(f, y)) = Via(f, Deviations(y)) /\ Deviations(y) \in [D -> Int]
  BY <1>1, DeviationsVia, DeviationsAre
<1>3. /\ Products(Deviations(Via(f, x)), Deviations(Via(f, y))) = Via(f, Products(Deviations(x), Deviations(y)))
      /\ Products(Deviations(x), Deviations(y)) \in [D -> Int]
  BY <1>2, ProductsVia, ProductsAre
<1>4. Total(Products(Deviations(Via(f, x)), Deviations(Via(f, y)))) = Total(Products(Deviations(x), Deviations(y)))
  BY <1>3, TotalVia
<1>5. SquareSum(Via(f, x)) = SquareSum(x) /\ SquareSum(Via(f, y)) = SquareSum(y)
  BY DeviationsVia
<1> DEFINE Cor(p, q) == q # 0 /\ 10000 * p * p >= least * least * q
<1>6. \A u, z : Correlated(u, z, least) = Cor(Total(Products(Deviations(u), Deviations(z))), SquareSum(u) * SquareSum(z))
  BY DEF Correlated
<1> HIDE DEF Cor
<1> QED
  BY <1>4, <1>5, <1>6

(***************************************************************************)
(* Classes of equal values, and what they tell.                            *)
(***************************************************************************)

FromEach(f, G) == {From(f, g) : g \in G}

LEMMA ClassesVia ==
    ASSUME NEW f, NEW Q, NEW P, OneToOne(f, Q, P), NEW w, DOMAIN w \subseteq P
    PROVE  /\ Classes(Via(f, w)) = FromEach(f, Classes(w))
           /\ Classes(w) \subseteq SUBSET (DOMAIN w)
<1> DEFINE v == Via(f, w)
           V == {w[p] : p \in DOMAIN w}
<1>1. {v[n] : n \in DOMAIN v} = V
  BY ViaIs
<1>2. \A x : PlacesIn(v, {x}) = From(f, PlacesIn(w, {x}))
  BY PlacesVia
<1> HIDE DEF v
<1>3. Classes(v) = {PlacesIn(v, {x}) : x \in V} /\ Classes(w) = {PlacesIn(w, {x}) : x \in V}
  <2> DEFINE At(u, x) == {p \in DOMAIN u : u[p] = x}
  <2>1. \A u, x : PlacesIn(u, {x}) = At(u, x)
    BY DEF PlacesIn
  <2>2. Classes(v) = {At(v, x) : x \in {v[q] : q \in DOMAIN v}} /\ Classes(w) = {At(w, x) : x \in V}
    BY DEF Classes
  <2> HIDE DEF At
  <2> QED
    BY <1>1, <2>1, <2>2
<1>4. Classes(v) = FromEach(f, Classes(w))
  <2>1. Classes(v) = {From(f, PlacesIn(w, {x})) : x \in V}
    BY <1>2, <1>3, Zenon
  <2>2. {From(f, PlacesIn(w, {x})) : x \in V} = {From(f, g) : g \in {PlacesIn(w, {x}) : x \in V}}
    OBVIOUS
  <2> QED
    BY <1>3, <2>1, <2>2, Zenon DEF FromEach
<1> QED
  BY <1>4 DEF Classes, v

LEMMA EachFrom ==
    ASSUME NEW f, NEW Q, NEW P, OneToOne(f, Q, P), NEW G, G \subseteq SUBSET P
    PROVE  /\ IsFiniteSet(G) /\ IsFiniteSet(FromEach(f, G))
           /\ Cardinality(FromEach(f, G)) = Cardinality(G)
           /\ (FromEach(f, G) = {} <=> G = {})
           /\ UNION FromEach(f, G) = From(f, UNION G) /\ UNION G \subseteq P
           /\ \A g, h \in G : From(f, g) = From(f, h) => g = h
<1> DEFINE H == FromEach(f, G)
           e == [g \in G |-> From(f, g)]
<1>1. \A g, h \in G : From(f, g) = From(f, h) => g = h
  <2> SUFFICES ASSUME NEW g \in G, NEW h \in G, From(f, g) = From(f, h) PROVE g = h
    OBVIOUS
  <2>1. g \subseteq P /\ h \subseteq P
    OBVIOUS
  <2>2. g = {f[n] : n \in From(f, g)} /\ h = {f[n] : n \in From(f, h)}
    BY <2>1, FromSize
  <2> QED
    BY <2>2
<1>2. IsFiniteSet(G)
  <2>1. IsFiniteSet(SUBSET P) /\ G \in SUBSET (SUBSET P)
    BY FS_SUBSET DEF OneToOne
  <2> QED
    BY <2>1, FS_Subset
<1>3. e \in Surjection(G, H)
  <2>1. H = {From(f, g) : g \in G}
    BY DEF FromEach
  <2> QED
    BY <2>1, Zenon DEF Surjection
<1>4. e \in Bijection(G, H)
  <2>1. \A g \in G : e[g] = From(f, g)
    OBVIOUS
  <2> HIDE DEF e, H
  <2> QED
    BY <1>1, <1>3, <2>1 DEF Bijection, Injection, IsInjective, Surjection
<1>5. IsFiniteSet(H) /\ Cardinality(H) = Cardinality(G)
  <2> HIDE DEF e, H
  <2>1. ExistsBijection(G, H)
    BY <1>4 DEF ExistsBijection
  <2> QED
    BY <1>2, <1>3, <2>1, FS_Bijection, FS_Surjection
<1>6. UNION H = From(f, UNION G)
  <2>1. \A n, S : n \in From(f, S) <=> n \in DOMAIN f /\ f[n] \in S
    BY DEF From
  <2>2. \A n : n \in UNION H <=> \E g \in G : n \in From(f, g)
    <3>1. H = {From(f, g) : g \in G}
      BY DEF FromEach
    <3> HIDE DEF H
    <3> QED
      BY <3>1
  <2> QED
    BY <2>1, <2>2
<1>7. H = {} <=> G = {}
  BY Zenon DEF FromEach
<1> QED
  BY <1>1, <1>2, <1>5, <1>6, <1>7

LEMMA EachNone == ASSUME NEW f, NEW G PROVE FromEach(f, G) = {} <=> G = {}
  BY Zenon DEF FromEach

LEMMA MostIs ==
    ASSUME NEW D, IsFiniteSet(D), D # {}, NEW w, DOMAIN w = D
    PROVE  Most(CountOf(w)) \in Nat
<1> DEFINE c == CountOf(w)
           Near == {c[x] : x \in DOMAIN c}
<1>1. DOMAIN c = {w[p] : p \in D}
  BY DEF CountOf
<1>2. \A x \in DOMAIN c : c[x] \in Nat
  <2> SUFFICES ASSUME NEW x \in DOMAIN c PROVE c[x] \in Nat
    OBVIOUS
  <2>1. c[x] = Cardinality({p \in D : w[p] = x})
    BY <1>1 DEF CountOf
  <2>2. {p \in D : w[p] = x} \in SUBSET D
    OBVIOUS
  <2>3. Cardinality({p \in D : w[p] = x}) \in Nat
    BY <2>2, FS_Subset, FS_CardinalityType
  <2> QED
    BY <2>1, <2>3
<1>3. IsFiniteSet(Near)
  <2> DEFINE g == [p \in D |-> c[w[p]]]
  <2>1. \A p \in D : g[p] \in Near
    BY <1>1
  <2>2. \A y \in Near : \E p \in D : g[p] = y
    BY <1>1
  <2> HIDE DEF c
  <2>3. g \in Surjection(D, Near)
    BY <2>1, <2>2 DEF Surjection
  <2> QED
    BY <2>3, FS_Surjection
<1> HIDE DEF c
<1>4. Near # {} /\ Near \subseteq Int
  BY <1>1, <1>2
<1>5. PICK y \in Near : \A z \in Near : z <= y
  <2> HIDE DEF Near
  <2> QED
    BY <1>3, <1>4, Extremes
<1>6. Most(c) = CHOOSE y1 \in Near : \A x \in DOMAIN c : c[x] <= y1
  BY DEF Most
<1>7. \E y1 \in Near : \A x \in DOMAIN c : c[x] <= y1
  BY <1>5
<1>8. Most(c) \in Near
  BY <1>6, <1>7
<1> QED
  BY <1>2, <1>8 DEF c

\* Splitting x's places into classes, and asking for the share of the most frequent y in each.
Supported(x) == {g \in Classes(x) : Cardinality(g) >= 2}
MajorityOf(x, y) == [g \in Supported(x) |-> Most(CountOf([p \in g |-> y[p]]))]

LEMMA TellingIs ==
    ASSUME NEW x, NEW y, NEW c
    PROVE  LET covered == Cardinality(UNION Supported(x))
           IN  Telling(x, y, c) <=>
                   /\ Cardinality(Classes(x)) >= 2 /\ 2 * covered >= Cardinality(DOMAIN x)
                   /\ 100 * Total(MajorityOf(x, y)) >= c.min_purity * (IF covered = 0 THEN 1 ELSE covered)
                   /\ 100 * Most(CountOf(y)) < c.min_purity * Cardinality(DOMAIN x)
  BY Zenon DEF Telling, Supported, MajorityOf

LEMMA TellingVia ==
    ASSUME NEW f, NEW Q, NEW P, OneToOne(f, Q, P), NEW D, D \subseteq P, NEW x, DOMAIN x = D, NEW y, DOMAIN y = D, NEW c
    PROVE  Telling(Via(f, x), Via(f, y), c) <=> Telling(x, y, c)
<1> DEFINE u == Via(f, x)
           z == Via(f, y)
           S == Supported(x)
           R == Supported(u)
<1>1. Cardinality(DOMAIN u) = Cardinality(DOMAIN x) /\ DOMAIN z = From(f, D) /\ \A n \in DOMAIN z : z[n] = y[f[n]]
  BY ViaIs
<1>2. Classes(u) = FromEach(f, Classes(x)) /\ Classes(x) \subseteq SUBSET D
  BY ClassesVia
<1>3. Cardinality(Classes(u)) = Cardinality(Classes(x))
  <2>1. Classes(x) \subseteq SUBSET P
    BY <1>2
  <2>2. Cardinality(FromEach(f, Classes(x))) = Cardinality(Classes(x))
    BY <2>1, EachFrom
  <2> QED
    BY <1>2, <2>2
<1>4. Most(CountOf(z)) = Most(CountOf(y))
  BY CountVia
<1>5. S \subseteq SUBSET D /\ S \subseteq SUBSET P /\ \A g \in S : g # {} /\ IsFiniteSet(g)
  <2>1. S \subseteq SUBSET D /\ S \subseteq SUBSET P
    BY <1>2 DEF Supported
  <2>2. ASSUME NEW g \in S PROVE g # {} /\ IsFiniteSet(g)
    <3>1. Cardinality(g) >= 2 /\ g \in SUBSET P
      BY <2>1 DEF Supported
    <3>2. Cardinality({}) = 0
      BY FS_EmptySet
    <3>3. g # {}
      <4> SUFFICES ASSUME g = {} PROVE FALSE
        OBVIOUS
      <4>1. 0 >= 2
        BY <3>1, <3>2
      <4> QED
        BY <4>1
    <3> QED
      BY <3>1, <3>3, FS_Subset DEF OneToOne
  <2> QED
    BY <2>1, <2>2
<1>6. R = FromEach(f, S)
  <2>1. \A g \in Classes(x) : Cardinality(From(f, g)) = Cardinality(g)
    <3> SUFFICES ASSUME NEW g \in Classes(x) PROVE Cardinality(From(f, g)) = Cardinality(g)
      OBVIOUS
    <3>1. g \subseteq P
      BY <1>2
    <3> QED
      BY <3>1, FromSize
  <2> HIDE DEF u
  <2> QED
    BY <1>2, <2>1 DEF Supported, FromEach
<1>7. Cardinality(UNION R) = Cardinality(UNION S)
  <2>1. UNION R = From(f, UNION S) /\ UNION S \subseteq P
    BY <1>5, <1>6, EachFrom
  <2>2. Cardinality(From(f, UNION S)) = Cardinality(UNION S)
    BY <2>1, FromSize
  <2> QED
    BY <2>1, <2>2
<1>8. Total(MajorityOf(u, z)) = Total(MajorityOf(x, y))
  <2> DEFINE h == [g \in S |-> From(f, g)]
             a == MajorityOf(x, y)
             b == MajorityOf(u, z)
             One(t, g) == [p \in g |-> t[p]]
  <2>1. IsFiniteSet(S) /\ IsFiniteSet(R) /\ \A g, k \in S : From(f, g) = From(f, k) => g = k
    <3>1. IsFiniteSet(S) /\ IsFiniteSet(FromEach(f, S)) /\ \A g, k \in S : From(f, g) = From(f, k) => g = k
      BY <1>5, EachFrom
    <3> QED
      BY <1>6, <3>1
  <2>2. h \in [S -> R] /\ (\A g, k \in S : h[g] = h[k] => g = k) /\ (\A e \in R : \E g \in S : h[g] = e)
    <3>1. R = {From(f, g) : g \in S}
      BY <1>6 DEF FromEach
    <3> HIDE DEF S, R
    <3> QED
      BY <2>1, <3>1
  <2>3. a = [g \in S |-> Most(CountOf(One(y, g)))] /\ b = [g \in R |-> Most(CountOf(One(z, g)))]
    BY DEF MajorityOf
  <2>4. ASSUME NEW g \in S PROVE Most(CountOf(One(z, From(f, g)))) = Most(CountOf(One(y, g))) /\ Most(CountOf(One(y, g))) \in Nat
    <3>0. g \subseteq D /\ g \subseteq P /\ g # {} /\ IsFiniteSet(g)
      BY <1>5
    <3>1. DOMAIN One(y, g) = g
      OBVIOUS
    <3>2. From(f, g) \subseteq From(f, D) /\ \A n \in From(f, g) : f[n] \in g
      BY <3>0 DEF From
    <3> HIDE DEF z, S, R
    <3>3. One(z, From(f, g)) = Via(f, One(y, g))
      <4>1. \A n \in From(f, g) : z[n] = One(y, g)[f[n]]
        BY <1>1, <3>2
      <4> HIDE DEF One
      <4>2. Via(f, One(y, g)) = [n \in From(f, g) |-> One(y, g)[f[n]]]
        BY <3>1 DEF Via
      <4>3. One(z, From(f, g)) = [n \in From(f, g) |-> z[n]]
        BY DEF One
      <4> QED
        BY <4>1, <4>2, <4>3
    <3> HIDE DEF One
    <3>4. CountOf(One(z, From(f, g))) = CountOf(One(y, g))
      BY <3>0, <3>1, <3>3, CountVia
    <3>5. Most(CountOf(One(y, g))) \in Nat
      BY <3>0, <3>1, MostIs
    <3> QED
      BY <3>4, <3>5
  <2> HIDE DEF One, a, b, S, R
  <2>5. a \in [S -> Int]
    BY <2>3, <2>4
  <2>6. b \in [R -> Int] /\ \A g \in S : a[g] = b[h[g]]
    <3>1. R = {From(f, g) : g \in S} /\ \A g \in S : h[g] = From(f, g)
      BY <1>6 DEF FromEach
    <3> HIDE DEF h
    <3> QED
      BY <2>3, <2>4, <3>1
  <2> HIDE DEF h
  <2>7. Total(a) = Total(b)
    BY <2>1, <2>2, <2>5, <2>6, TotalReordered
  <2> QED
    BY <2>7 DEF a, b
<1> HIDE DEF u, z, S, R
<1>9. Telling(u, z, c) <=> Telling(x, y, c)
  BY <1>1, <1>3, <1>4, <1>7, <1>8, TellingIs, Zenon DEF S, R
<1> QED
  BY <1>9 DEF u, z

(***************************************************************************)
(* A table in another order, and some rows of a table.                     *)
(***************************************************************************)

Distinct(t) == \A x, y \in Places(t) : t.ids[x] = t.ids[y] => x = y

LEMMA ServedOnce == ASSUME NEW t, ServedTwice(t) = {} PROVE Distinct(t)
  BY DEF ServedTwice, Distinct

LEMMA DistinctServed == ASSUME NEW t, Distinct(t) PROVE ServedTwice(t) = {}
  BY DEF ServedTwice, Distinct

LEMMA DistinctFrom ==
    ASSUME NEW s, NEW t, NEW f, Embeds(s, t, f), Distinct(t)
    PROVE  Distinct(s)
  BY DEF Embeds, Distinct

\* If no sample is served twice, its last place is its only one.
LEMMA LastPlaceIs ==
    ASSUME NEW t \in Table, Distinct(t)
    PROVE  \A p \in Places(t) : LastPlace(t, t.ids[p]) = p
<1> SUFFICES ASSUME NEW p \in Places(t) PROVE LastPlace(t, t.ids[p]) = p
  OBVIOUS
<1> DEFINE Final(q) == q \in Places(t) /\ t.ids[q] = t.ids[p] /\ \A x \in Places(t) : t.ids[x] = t.ids[p] => x <= q
<1>1. Final(p)
  <2>1. \A x \in Places(t) : t.ids[x] = t.ids[p] => x = p
    BY DEF Distinct
  <2>2. p \in Int
    BY TableIs
  <2> QED
    BY <2>1, <2>2
<1>2. \A q : Final(q) => q = p
  BY DEF Distinct
<1> HIDE DEF Final
<1>3. LastPlace(t, t.ids[p]) = CHOOSE q : Final(q)
  BY Zenon DEF LastPlace, Final
<1> QED
  BY <1>1, <1>2, <1>3

LEMMA OrdersOnto ==
    ASSUME NEW t \in Table, NEW f \in Orders(t)
    PROVE  /\ f \in [Places(t) -> Places(t)] /\ \A m, n \in Places(t) : f[m] = f[n] => m = n
           /\ \A p \in Places(t) : \E n \in Places(t) : f[n] = p
<1>1. f \in [Places(t) -> Places(t)] /\ \A m, n \in Places(t) : f[m] = f[n] => m = n
  BY DEF Orders
<1>2. f \in Injection(Places(t), Places(t))
  BY <1>1 DEF Injection, IsInjective
<1>3. f \in Surjection(Places(t), Places(t))
  BY <1>2, TableIs, FS_Injection
<1> QED
  BY <1>1, <1>3 DEF Surjection

LEMMA LengthIs ==
    ASSUME NEW S, NEW n \in Nat, NEW g \in [1..n -> S]
    PROVE  g \in Seq(S) /\ Len(g) = n
  OBVIOUS

LEMMA ShuffledCovers ==
    ASSUME NEW t \in Table, NEW f \in Orders(t)
    PROVE  Covers(Shuffled(t, f), t, f)
<1> DEFINE s == Shuffled(t, f)
           n == Size(t)
<1>0. /\ f \in [Places(t) -> Places(t)] /\ \A i, k \in Places(t) : f[i] = f[k] => i = k
      /\ \A p \in Places(t) : \E k \in Places(t) : f[k] = p
  BY OrdersOnto
<1>1. /\ s.ids = [k \in Places(t) |-> t.ids[f[k]]] /\ s.rows = [k \in Places(t) |-> t.rows[f[k]]]
      /\ s.labels = IF Aligned(t) THEN [k \in Places(t) |-> t.labels[f[k]]] ELSE t.labels
      /\ s.declared = t.declared /\ s = [ids |-> s.ids, rows |-> s.rows, labels |-> s.labels, declared |-> s.declared]
  <2>1. t = [ids |-> t.ids, rows |-> t.rows, labels |-> t.labels, declared |-> t.declared]
    BY DEF Table
  <2> DEFINE A == [k \in Places(t) |-> t.ids[f[k]]]
             B == [k \in Places(t) |-> t.rows[f[k]]]
             C == IF Aligned(t) THEN [k \in Places(t) |-> t.labels[f[k]]] ELSE t.labels
  <2>2. s = [t EXCEPT !.ids = A, !.rows = B, !.labels = C]
    BY DEF Shuffled
  <2> HIDE DEF s, A, B, C
  <2>3. s = [ids |-> A, rows |-> B, labels |-> C, declared |-> t.declared]
    BY <2>1, <2>2
  <2> QED
    BY <2>3 DEF A, B, C
<1>2. /\ n \in Nat /\ Places(t) = 1..n /\ t.labels \in Seq(QualityCells) \cup {None} /\ t.declared \in Nat \cup {None}
      /\ \A p \in Places(t) : t.ids[p] \in Int /\ t.rows[p] \in Seq(QualityCells)
  BY TableIs
<1> HIDE DEF s
<1>3. s.ids \in Seq(Int) /\ Len(s.ids) = n /\ s.rows \in Seq(Seq(QualityCells)) /\ Len(s.rows) = n
  <2>1. s.ids \in [1..n -> Int] /\ s.rows \in [1..n -> Seq(QualityCells)]
    BY <1>0, <1>1, <1>2
  <2> HIDE DEF n
  <2> QED
    BY <1>2, <2>1, LengthIs
<1>4. Size(s) = n /\ Places(s) = Places(t)
  BY <1>2, <1>3 DEF Size, Places
<1>5. CASE Aligned(t)
  <2>1. s.labels \in [1..n -> QualityCells] /\ s.labels = [k \in Places(t) |-> t.labels[f[k]]]
    BY <1>0, <1>1, <1>2, <1>5, AlignedIs
  <2>2. s.labels \in Seq(QualityCells) /\ Len(s.labels) = n
    <3> HIDE DEF n
    <3> QED
      BY <1>2, <2>1, LengthIs
  <2>3. s.labels # None /\ t.labels # None /\ Len(t.labels) = n
    BY <1>5, <2>2, QualityAssumption, AlignedIs
  <2>4. Aligned(s)
    BY <1>4, <2>2, <2>3 DEF Aligned
  <2>5. s \in Table
    BY <1>1, <1>2, <1>3, <2>2 DEF Table
  <2>6. Embeds(s, t, f)
    BY <1>0, <1>1, <1>4, <1>5, <2>1, <2>4, <2>5 DEF Embeds
  <2>7. Size(s) = Size(t) /\ s.declared = t.declared /\ \A p \in Places(t) : \E k \in Places(s) : f[k] = p
    BY <1>0, <1>1, <1>4
  <2> QED
    BY <2>2, <2>3, <2>6, <2>7, Zenon DEF Covers, s
<1>6. CASE ~Aligned(t)
  <2>1. s.labels = t.labels
    BY <1>1, <1>6
  <2>2. ~Aligned(s)
    BY <1>4, <1>6, <2>1 DEF Aligned
  <2>3. s \in Table
    BY <1>1, <1>2, <1>3, <2>1 DEF Table
  <2>4. Embeds(s, t, f)
    BY <1>0, <1>1, <1>4, <1>6, <2>2, <2>3 DEF Embeds
  <2>5. Size(s) = Size(t) /\ s.declared = t.declared /\ \A p \in Places(t) : \E k \in Places(s) : f[k] = p
    BY <1>0, <1>1, <1>4
  <2> QED
    BY <2>1, <2>4, <2>5, Zenon DEF Covers, s
<1> QED
  BY <1>5, <1>6 DEF s

\* The rows of some places of a table.
LEMMA InOrderOf ==
    ASSUME NEW n \in Nat, NEW R \in SUBSET (1..n)
    PROVE  /\ Cardinality(R) \in Nat /\ InOrder(R) \in [1..Cardinality(R) -> R] /\ DOMAIN InOrder(R) = 1..Cardinality(R)
           /\ \A e \in R : \E k \in 1..Cardinality(R) : InOrder(R)[k] = e
           /\ \A k, l \in 1..Cardinality(R) : InOrder(R)[k] = InOrder(R)[l] => k = l
<1>1. IsFiniteSet(R) /\ R \subseteq Nat
  <2>1. IsFiniteSet(1..n) /\ 1..n \subseteq Nat
    BY FS_Interval
  <2>2. IsFiniteSet(R)
    BY <2>1, FS_Subset
  <2> QED
    BY <2>1, <2>2
<1>2. Cardinality(R) \in Nat
  BY <1>1, FS_CardinalityType
<1>3. /\ InOrder(R) \in Seq(R) /\ \A e \in R : \E k \in DOMAIN InOrder(R) : InOrder(R)[k] = e
  BY <1>1, InOrderLists
<1>4. DOMAIN InOrder(R) = 1..Cardinality(R)
  BY InOrderIs
<1>5. \A k \in 1..Cardinality(R) : Cardinality(Upto(R, InOrder(R)[k])) = k
  <2> SUFFICES ASSUME NEW k \in 1..Cardinality(R) PROVE Cardinality(Upto(R, InOrder(R)[k])) = k
    OBVIOUS
  <2>1. \E e \in R : Cardinality(Upto(R, e)) = k
    BY <1>1, RankOnto
  <2>2. InOrder(R)[k] = CHOOSE e \in R : Cardinality(Upto(R, e)) = k
    BY InOrderIs
  <2> QED
    BY <2>1, <2>2, Zenon
<1>6. InOrder(R) \in [1..Cardinality(R) -> R]
  BY <1>2, <1>3, <1>4, LenProperties
<1>7. \A k, l \in 1..Cardinality(R) : InOrder(R)[k] = InOrder(R)[l] => k = l
  BY <1>5
<1> QED
  BY <1>2, <1>3, <1>4, <1>6, <1>7

LEMMA SelectEmbeds ==
    ASSUME NEW t \in Table, NEW R \in SUBSET Places(t)
    PROVE  /\ Embeds(SelectRows(t, R), t, InOrder(R)) /\ Size(SelectRows(t, R)) = Cardinality(R)
           /\ \A p \in R : \E n \in Places(SelectRows(t, R)) : InOrder(R)[n] = p
           /\ \A n \in Places(SelectRows(t, R)) : InOrder(R)[n] \in R
<1> DEFINE s == SelectRows(t, R)
           m == Cardinality(R)
           f == InOrder(R)
           n == Size(t)
<1>1. /\ n \in Nat /\ Places(t) = 1..n /\ \A p \in Places(t) : t.ids[p] \in Int /\ t.rows[p] \in Seq(QualityCells)
  BY TableIs
<1>2. /\ m \in Nat /\ f \in [1..m -> R] /\ DOMAIN f = 1..m
      /\ \A e \in R : \E k \in 1..m : f[k] = e
      /\ \A k, l \in 1..m : f[k] = f[l] => k = l
  <2>1. R \in SUBSET (1..n)
    BY <1>1
  <2> HIDE DEF n
  <2> QED
    BY <1>1, <2>1, InOrderOf
<1>3. /\ s.ids = [k \in DOMAIN f |-> t.ids[f[k]]] /\ s.rows = [k \in DOMAIN f |-> t.rows[f[k]]]
      /\ s.labels = IF Aligned(t) THEN [k \in DOMAIN f |-> t.labels[f[k]]] ELSE None
      /\ s.declared = None /\ s = [ids |-> s.ids, rows |-> s.rows, labels |-> s.labels, declared |-> s.declared]
  BY DEF SelectRows
<1> HIDE DEF s, f, m, n
<1>4. s.ids \in Seq(Int) /\ Len(s.ids) = m /\ s.rows \in Seq(Seq(QualityCells)) /\ Len(s.rows) = m
  <2>1. s.ids \in [1..m -> Int] /\ s.rows \in [1..m -> Seq(QualityCells)]
    BY <1>1, <1>2, <1>3
  <2> QED
    BY <1>2, <2>1, LengthIs
<1>5. Size(s) = m /\ Places(s) = 1..m
  BY <1>4 DEF Size, Places
<1>6. f \in [Places(s) -> Places(t)]
  BY <1>1, <1>2, <1>5
<1>7. Embeds(s, t, f)
  <2>1. CASE Aligned(t)
    <3>1. s.labels \in [1..m -> QualityCells] /\ s.labels = [k \in DOMAIN f |-> t.labels[f[k]]]
      BY <1>1, <1>2, <1>3, <2>1, AlignedIs
    <3>2. s.labels \in Seq(QualityCells) /\ Len(s.labels) = m
      BY <1>2, <3>1, LengthIs
    <3>3. s.labels # None
      BY <3>2, QualityAssumption
    <3>4. Aligned(s)
      BY <1>5, <3>2, <3>3 DEF Aligned
    <3>5. s \in Table
      BY <1>3, <1>4, <3>2 DEF Table
    <3> QED
      BY <1>2, <1>3, <1>5, <1>6, <2>1, <3>1, <3>4, <3>5 DEF Embeds
  <2>2. CASE ~Aligned(t)
    <3>1. s.labels = None
      BY <1>3, <2>2
    <3>2. s \in Table
      BY <1>3, <1>4, <3>1 DEF Table
    <3> QED
      BY <1>2, <1>3, <1>5, <1>6, <2>2, <3>1, <3>2 DEF Embeds, Aligned
  <2> QED
    BY <2>1, <2>2
<1> QED
  BY <1>2, <1>5, <1>7 DEF s, f, m

(***************************************************************************)
(* In another order, the same is found: feature by feature.                *)
(***************************************************************************)

WellAsked == \E asked \in Checks : quality \in asked

LEMMA CoversIs ==
    ASSUME NEW s, NEW t, NEW f, Covers(s, t, f)
    PROVE  /\ Embeds(s, t, f) /\ s \in Table /\ t \in Table /\ Size(s) = Size(t) /\ s.declared = t.declared
           /\ (Aligned(s) <=> Aligned(t)) /\ (s.labels = None <=> t.labels = None)
           /\ (t.labels # None => Len(s.labels) = Len(t.labels))
           /\ OneToOne(f, Places(s), Places(t)) /\ DOMAIN f = Places(s) /\ \A n \in Places(s) : f[n] \in Places(t)
           /\ \A n \in Places(s) : s.ids[n] = t.ids[f[n]] /\ s.rows[n] = t.rows[f[n]]
           /\ Aligned(t) => \A n \in Places(s) : s.labels[n] = t.labels[f[n]]
<1>1. OneToOne(f, Places(s), Places(t))
  BY CoversPairs
<1> QED
  BY <1>1, Zenon DEF Covers, Embeds

\* Places of s that are those of t.
Alike(s, t, S, T) ==
    /\ IdsAt(s, S) = IdsAt(t, T) /\ Cardinality(S) = Cardinality(T) /\ (S = {} <=> T = {})

LEMMA FromAlike ==
    ASSUME NEW s, NEW t, NEW f, Covers(s, t, f), NEW S, S \subseteq Places(t)
    PROVE  Alike(s, t, From(f, S), S)
<1>1. IdsAt(s, From(f, S)) = IdsAt(t, S)
  BY IdsFrom
<1>2. Cardinality(From(f, S)) = Cardinality(S) /\ (From(f, S) = {} <=> S = {})
  BY CoversPairs, FromSize
<1> QED
  BY <1>1, <1>2 DEF Alike

LEMMA CellsAlike ==
    ASSUME NEW s, NEW t, NEW f, Covers(s, t, f)
    PROVE  /\ \A j, kind, states : Alike(s, t, InState(s, j, kind, states), InState(t, j, kind, states))
           /\ \A j : /\ Alike(s, t, ValidAt(s, j), ValidAt(t, j)) /\ Alike(s, t, Absent(s, j), Absent(t, j))
                     /\ Alike(s, t, Invalid(s, j), Invalid(t, j)) /\ Alike(s, t, Bad(s, j), Bad(t, j))
<1>1. \A j, kind, states : Alike(s, t, InState(s, j, kind, states), InState(t, j, kind, states))
  <2> SUFFICES ASSUME NEW j, NEW kind, NEW states
               PROVE  Alike(s, t, InState(s, j, kind, states), InState(t, j, kind, states))
    OBVIOUS
  <2>1. Embeds(s, t, f)
    BY DEF Covers
  <2>2. InState(s, j, kind, states) = From(f, InState(t, j, kind, states)) /\ InState(t, j, kind, states) \subseteq Places(t)
    BY <2>1, StatesFrom
  <2> QED
    BY <2>2, FromAlike
<1> QED
  BY <1>1, Zenon DEF ValidAt, Absent, Invalid, Bad

\* A violation is found for places of s if it is found for those of t.
LEMMA OnAlike ==
    ASSUME NEW s, NEW t, NEW S, NEW T, Alike(s, t, S, T), NEW rule, NEW j
    PROVE  /\ On(S # {}, Fail(rule, j, IdsAt(s, S))) = On(T # {}, Fail(rule, j, IdsAt(t, T)))
           /\ On(S # {}, Warn(rule, j, IdsAt(s, S))) = On(T # {}, Warn(rule, j, IdsAt(t, T)))
  BY Zenon DEF Alike, On

LEMMA ValidInts ==
    ASSUME NEW t \in Table, NEW j \in Nat \ {0}, KindOf(j) = "NUMERIC"
    PROVE  ValuesAt(t, j, ValidAt(t, j)) \in [ValidAt(t, j) -> Int]
<1>1. \A p \in ValidAt(t, j) : Column(t, j)[p] \in QualityCells /\ StateOf(Column(t, j)[p], "NUMERIC") = "valid"
  BY ColumnIs DEF ValidAt, InState
<1>2. \A p \in ValidAt(t, j) : Column(t, j)[p] \in Int
  BY <1>1, ValidNumber
<1> QED
  BY <1>2 DEF ValuesAt

LEMMA ChosenPositive ==
    ASSUME WellAsked
    PROVE  /\ \A j \in Chosen : j \in Nat \ {0}
           /\ \A kinds : \A j \in ChosenOf(kinds) : j \in Chosen /\ KindOf(j) \in kinds
<1>1. quality.config.features \cup DOMAIN quality.kinds \subseteq Nat \ {0}
  BY QualityAsked DEF WellAsked
<1>2. \A j \in 1..Columns : j \in Nat \ {0}
  BY QualityAssumption
<1>3. \A j \in Chosen : j \in Nat \ {0}
  BY <1>1, <1>2 DEF Chosen
<1> QED
  BY <1>3 DEF ChosenOf, KindOf

\* The valid values of a feature.
ValidOf(t, j) == ValuesAt(t, j, ValidAt(t, j))

LEMMA ValidVia ==
    ASSUME NEW s, NEW t, NEW f, Covers(s, t, f), NEW j
    PROVE  /\ ValidOf(s, j) = Via(f, ValidOf(t, j)) /\ DOMAIN ValidOf(t, j) = ValidAt(t, j) /\ ValidAt(t, j) \subseteq Places(t)
           /\ OneToOne(f, Places(s), Places(t))
<1>1. Embeds(s, t, f)
  BY DEF Covers
<1>2. ValidAt(s, j) = From(f, ValidAt(t, j)) /\ ValidAt(t, j) \subseteq Places(t)
  BY <1>1, CellsFrom
<1>3. ValuesAt(s, j, From(f, ValidAt(t, j))) = Via(f, ValuesAt(t, j, ValidAt(t, j)))
      /\ DOMAIN ValuesAt(t, j, ValidAt(t, j)) = ValidAt(t, j)
  BY <1>1, <1>2, ValuesFrom
<1> QED
  BY <1>2, <1>3, CoversPairs DEF ValidOf

LEMMA SameNumeric ==
    ASSUME NEW s, NEW t, NEW f, Covers(s, t, f), NEW c, NEW j \in Nat \ {0}, KindOf(j) = "NUMERIC"
    PROVE  NumericFeature(c, s, j) = NumericFeature(c, t, j)
<1> DEFINE n(u) == Cardinality(ValidAt(u, j))
           A(u) == On(Invalid(u, j) # {}, Fail("invalid_type", j, IdsAt(u, Invalid(u, j))))
           B(u) == On(InState(u, j, "NUMERIC", {"nonfinite"}) # {},
                      Warn("nonfinite_values", j, IdsAt(u, InState(u, j, "NUMERIC", {"nonfinite"}))))
           C(count) == On(Cardinality(DOMAIN count) = 1, Warn("constant_feature", j, {}))
           Near(count, m) == On(Cardinality(DOMAIN count) > 1 /\ 100 * Most(count) >= c.near_constant * m,
                             Warn("near_constant_feature", j, {}))
           D(sum, m) == On(c.min_variance # None /\ m > 1 /\ sum < c.min_variance * m * m * (m - 1),
                           Fail("variance_below_minimum", j, {}))
           Outside(u) == {p \in DOMAIN ValidOf(u, j) : (c.low # None /\ ValidOf(u, j)[p] < c.low) \/ (c.high # None /\ ValidOf(u, j)[p] > c.high)}
           E(u) == On(Outside(u) # {}, Fail("outside_bounds", j, IdsAt(u, Outside(u))))
           Far(u) == Outliers(ValidOf(u, j), c.method, c.k)
           F(far, m, ids) == On(Over(c.max_outlier_rate, far, m), Fail("outlier_rate_exceeded", j, ids))
           Shape(a, b, cc, nn, d, e, ff, m) ==
               IF m = 0 THEN JudgedIf(a \cup b, FALSE) ELSE Judged(a \cup b \cup cc \cup nn \cup d \cup e \cup ff)
<1>1. \A u : NumericFeature(c, u, j) =
               Shape(A(u), B(u), C(CountOf(ValidOf(u, j))), Near(CountOf(ValidOf(u, j)), n(u)), D(SquareSum(ValidOf(u, j)), n(u)), E(u),
                     F(Cardinality(Far(u)), n(u), IdsAt(u, Far(u))), n(u))
  <2> SUFFICES ASSUME NEW u
               PROVE  NumericFeature(c, u, j) =
                        Shape(A(u), B(u), C(CountOf(ValidOf(u, j))), Near(CountOf(ValidOf(u, j)), n(u)), D(SquareSum(ValidOf(u, j)), n(u)), E(u),
                              F(Cardinality(Far(u)), n(u), IdsAt(u, Far(u))), n(u))
    OBVIOUS
  <2> QED
    BY Zenon DEF NumericFeature, ValidOf
<1>2. n(s) = n(t)
  BY CellsAlike DEF Alike
<1>3. A(s) = A(t) /\ B(s) = B(t)
  BY CellsAlike, OnAlike
<1>4. /\ ValidOf(s, j) = Via(f, ValidOf(t, j)) /\ DOMAIN ValidOf(t, j) = ValidAt(t, j) /\ ValidAt(t, j) \subseteq Places(t)
      /\ OneToOne(f, Places(s), Places(t)) /\ ValidOf(t, j) \in [ValidAt(t, j) -> Int]
  BY ValidVia, ValidInts, CoversIs DEF ValidOf
<1>5. CountOf(ValidOf(s, j)) = CountOf(ValidOf(t, j))
  BY <1>4, CountVia
<1>6. SquareSum(ValidOf(s, j)) = SquareSum(ValidOf(t, j))
  BY <1>4, DeviationsVia
<1>7. E(s) = E(t)
  <2> DEFINE X == {y \in {ValidOf(t, j)[p] : p \in DOMAIN ValidOf(t, j)} : (c.low # None /\ y < c.low) \/ (c.high # None /\ y > c.high)}
  <2>1. Outside(t) = PlacesIn(ValidOf(t, j), X)
    BY Zenon DEF PlacesIn
  <2>2. {ValidOf(s, j)[p] : p \in DOMAIN ValidOf(s, j)} = {ValidOf(t, j)[p] : p \in DOMAIN ValidOf(t, j)}
    BY <1>4, ViaIs
  <2>3. Outside(s) = PlacesIn(ValidOf(s, j), X)
    BY <2>2, Zenon DEF PlacesIn
  <2> HIDE DEF X, Outside
  <2>4. Outside(s) = From(f, Outside(t)) /\ Outside(t) \subseteq Places(t)
    <3> DEFINE w == ValidOf(t, j)
    <3>1. Outside(s) = PlacesIn(Via(f, w), X) /\ Outside(t) = PlacesIn(w, X)
      BY <1>4, <2>1, <2>3, Zenon
    <3>2. DOMAIN w \subseteq Places(t) /\ OneToOne(f, Places(s), Places(t))
      BY <1>4, Zenon
    <3> HIDE DEF w
    <3>3. PlacesIn(Via(f, w), X) = From(f, PlacesIn(w, X))
      BY <3>2, PlacesVia
    <3>4. PlacesIn(w, X) \subseteq Places(t)
      BY <3>2 DEF PlacesIn
    <3> QED
      BY <3>1, <3>3, <3>4, Zenon
  <2>5. Alike(s, t, Outside(s), Outside(t))
    BY <2>4, FromAlike
  <2> QED
    BY <2>5, OnAlike
<1>8. Cardinality(Far(s)) = Cardinality(Far(t)) /\ IdsAt(s, Far(s)) = IdsAt(t, Far(t))
  <2>1. Far(s) = From(f, Far(t)) /\ Far(t) \subseteq Places(t)
    BY <1>4, OutliersVia
  <2> HIDE DEF Far
  <2>2. Alike(s, t, Far(s), Far(t))
    BY <2>1, FromAlike
  <2> QED
    BY <2>2 DEF Alike
<1> HIDE DEF Shape, A, B, C, Near, D, E, F, Far, n
<1> QED
  BY <1>1, <1>2, <1>3, <1>5, <1>6, <1>7, <1>8, Zenon

LEMMA SameCategorical ==
    ASSUME NEW s, NEW t, NEW f, Covers(s, t, f), NEW c, NEW j
    PROVE  CategoricalFeature(c, s, j) = CategoricalFeature(c, t, j)
<1> DEFINE A(u) == On(Bad(u, j) # {}, Fail("invalid_type", j, IdsAt(u, Bad(u, j))))
           Foreign(u) == {p \in DOMAIN ValidOf(u, j) : c.allowed # None /\ ValidOf(u, j)[p] \notin c.allowed}
           B(u) == On(Foreign(u) # {}, Fail("invalid_category", j, IdsAt(u, Foreign(u))))
           C(values) == On(c.max_cardinality # None /\ Cardinality(values) > c.max_cardinality, Fail("cardinality_exceeded", j, {}))
           V(u) == {ValidOf(u, j)[p] : p \in DOMAIN ValidOf(u, j)}
<1>1. \A u : CategoricalFeature(c, u, j) = JudgedIf(A(u) \cup B(u) \cup C(V(u)), ValidAt(u, j) # {})
  BY Zenon DEF CategoricalFeature, ValidOf
<1>2. A(s) = A(t) /\ (ValidAt(s, j) = {} <=> ValidAt(t, j) = {})
  <2>1. A(s) = A(t)
    BY CellsAlike, OnAlike
  <2>2. Alike(s, t, ValidAt(s, j), ValidAt(t, j))
    BY CellsAlike
  <2> QED
    BY <2>1, <2>2 DEF Alike
<1>4. /\ ValidOf(s, j) = Via(f, ValidOf(t, j)) /\ DOMAIN ValidOf(t, j) = ValidAt(t, j) /\ ValidAt(t, j) \subseteq Places(t)
      /\ OneToOne(f, Places(s), Places(t))
  BY ValidVia
<1>5. V(s) = V(t)
  BY <1>4, ViaIs
<1>7. B(s) = B(t)
  <2> DEFINE X == {y \in V(t) : c.allowed # None /\ y \notin c.allowed}
  <2>1. Foreign(t) = PlacesIn(ValidOf(t, j), X)
    BY Zenon DEF PlacesIn
  <2>3. Foreign(s) = PlacesIn(ValidOf(s, j), X)
    BY <1>5, Zenon DEF PlacesIn
  <2> HIDE DEF X, Foreign
  <2>a. PlacesIn(ValidOf(s, j), X) = From(f, PlacesIn(ValidOf(t, j), X))
    BY <1>4, PlacesVia
  <2>b. PlacesIn(ValidOf(t, j), X) \subseteq Places(t)
    BY <1>4 DEF PlacesIn
  <2>4. Foreign(s) = From(f, Foreign(t)) /\ Foreign(t) \subseteq Places(t)
    BY <2>1, <2>3, <2>a, <2>b
  <2>5. Alike(s, t, Foreign(s), Foreign(t))
    BY <2>4, FromAlike
  <2> QED
    BY <2>5, OnAlike
<1>8. JudgedIf(A(t) \cup B(t) \cup C(V(t)), ValidAt(s, j) # {}) = JudgedIf(A(t) \cup B(t) \cup C(V(t)), ValidAt(t, j) # {})
  BY <1>2, Zenon DEF JudgedIf
<1> HIDE DEF A, B, C, V
<1> QED
  BY <1>1, <1>2, <1>5, <1>7, <1>8

LEMMA SameDistribution ==
    ASSUME NEW s, NEW t, NEW f, Covers(s, t, f), NEW c, NEW j \in Nat \ {0}
    PROVE  DistributionFeature(c, s, j) = DistributionFeature(c, t, j)
<1> DEFINE A(value) == On(KindOf(j) = "NUMERIC" /\ c.max_abs_skew # None /\ Skewed(value, c.max_abs_skew), Warn("skew_exceeds_configured", j, {}))
           B(count, m) == On(Over(c.max_modal_fraction, Most(count), m), Warn("dominant_value", j, {}))
           C(count) == On(c.min_unique # None /\ Cardinality(DOMAIN count) < c.min_unique, Warn("few_distinct_values", j, {}))
           Shape(value, a, b, cc) == IF value = <<>> THEN Bare("INCONCLUSIVE") ELSE Judged(a \cup b \cup cc)
           S(u) == CountOf(ValidOf(u, j))
           n(u) == Cardinality(DOMAIN ValidOf(u, j))
<1>1. \A u : DistributionFeature(c, u, j) = Shape(ValidOf(u, j), A(ValidOf(u, j)), B(S(u), n(u)), C(S(u)))
  BY Zenon DEF DistributionFeature, ValidOf
<1>2. /\ ValidOf(s, j) = Via(f, ValidOf(t, j)) /\ DOMAIN ValidOf(t, j) = ValidAt(t, j) /\ ValidAt(t, j) \subseteq Places(t)
      /\ OneToOne(f, Places(s), Places(t))
  BY ValidVia
<1>3. S(s) = S(t)
  BY <1>2, CountVia
<1>4. n(s) = n(t) /\ DOMAIN ValidOf(s, j) = From(f, DOMAIN ValidOf(t, j))
  BY <1>2, ViaIs
<1>5. ValidOf(s, j) = <<>> <=> ValidOf(t, j) = <<>>
  <2>1. DOMAIN ValidOf(s, j) = {} <=> DOMAIN ValidOf(t, j) = {}
    BY <1>2, <1>4, FromSize
  <2>2. \A u : ValidOf(u, j) = [p \in DOMAIN ValidOf(u, j) |-> ValidOf(u, j)[p]]
    BY DEF ValidOf, ValuesAt
  <2>3. \A u : ValidOf(u, j) = <<>> <=> DOMAIN ValidOf(u, j) = {}
    BY <2>2
  <2> QED
    BY <2>1, <2>3
<1>6. A(ValidOf(s, j)) = A(ValidOf(t, j))
  <2>1. CASE KindOf(j) = "NUMERIC"
    <3>1. ValidOf(t, j) \in [ValidAt(t, j) -> Int]
      BY <2>1, ValidInts, CoversIs DEF ValidOf
    <3>2. Skewed(ValidOf(s, j), c.max_abs_skew) = Skewed(ValidOf(t, j), c.max_abs_skew)
      BY <1>2, <3>1, SkewedVia
    <3> QED
      BY <3>2
  <2>2. CASE KindOf(j) # "NUMERIC"
    BY <2>2 DEF On
  <2> QED
    BY <2>1, <2>2
<1> HIDE DEF A, B, C, S, n
<1> QED
  BY <1>1, <1>3, <1>4, <1>5, <1>6

(***************************************************************************)
(* In another order, the same is found: check by check.                    *)
(***************************************************************************)

LEMMA SameSchema ==
    ASSUME NEW s, NEW t, NEW f, Covers(s, t, f), NEW c
    PROVE  CheckSchema(c, s) = CheckSchema(c, t)
<1> DEFINE R(ids) == On(ids # {}, Fail("ragged_rows", 0, ids))
           Untyped(u) == {j \in Chosen \cap (1..Columns) : Invalid(u, j) # {}}
           U(u) == {Fail("invalid_type", j, IdsAt(u, Invalid(u, j))) : j \in Untyped(u)}
           lacking == c.required \ (1..Columns)
           extra == (1..Columns) \ (DOMAIN quality.kinds \cup c.required)
           A == On(lacking # {}, Fail("required_column_missing", 0, lacking))
                \cup On(~c.allow_extra /\ extra # {}, Fail("undeclared_column", 0, extra))
           B == {Fail("declared_feature_missing", j, {}) : j \in Chosen \ ((1..Columns) \cup c.required)}
           Odd(u) == {x \in Places(u) : Len(u.rows[x]) # Columns}
<1>1. \A u : CheckSchema(c, u) = Judged(A \cup R(Ragged(u)) \cup B \cup U(u))
  BY Zenon DEF CheckSchema
<1>2. Ragged(s) = Ragged(t)
  <2>1. Odd(s) = From(f, Odd(t)) /\ Odd(t) \subseteq Places(t)
    <3>1. DOMAIN f = Places(s) /\ \A n \in Places(s) : f[n] \in Places(t) /\ s.rows[n] = t.rows[f[n]]
      BY CoversIs
    <3> QED
      BY <3>1 DEF From
  <2>2. Ragged(s) = IdsAt(s, Odd(s)) /\ Ragged(t) = IdsAt(t, Odd(t))
    BY DEF Ragged, IdsAt
  <2> HIDE DEF Odd
  <2> QED
    BY <2>1, <2>2, IdsFrom
<1>3. U(s) = U(t)
  <2>1. \A j : (Invalid(s, j) = {} <=> Invalid(t, j) = {}) /\ IdsAt(s, Invalid(s, j)) = IdsAt(t, Invalid(t, j))
    BY CellsAlike DEF Alike
  <2>2. Untyped(s) = Untyped(t)
    BY <2>1
  <2> HIDE DEF Untyped
  <2> QED
    BY <2>1, <2>2
<1> HIDE DEF A, B, R, U
<1> QED
  BY <1>1, <1>2, <1>3

LEMMA SameSampleCount ==
    ASSUME NEW s, NEW t, NEW f, Covers(s, t, f), Distinct(t), NEW c
    PROVE  CheckSampleCount(c, s) = CheckSampleCount(c, t)
<1>1. ServedTwice(s) = {} /\ ServedTwice(t) = {}
  BY CoversIs, DistinctFrom, DistinctServed
<1> DEFINE A(n) == On(n = 0, Warn("empty_table", 0, {}))
                   \cup On(c.min # None /\ n < c.min, Fail("min_violated", 0, {}))
                   \cup On(c.max # None /\ n > c.max, Fail("max_violated", 0, {}))
                   \cup On(c.expected # None /\ n # c.expected, Fail("expected_violated", 0, {}))
           B(declared, n) == On(declared # None /\ declared # n, Fail("metadata_count_mismatch", 0, {}))
           targets == quality.task # None
           C(u) == On(targets /\ u.labels # None /\ Len(u.labels) # Size(u), Fail("feature_target_length_mismatch", 0, {}))
           D(u) == On(targets /\ u.labels = None /\ Size(u) > 0, Fail("target_absent", 0, {}))
           E(ids) == On(ids # {}, Warn("duplicate_sample_ids", 0, ids))
<1>2. \A u : CheckSampleCount(c, u) = Judged(A(Size(u)) \cup B(u.declared, Size(u)) \cup C(u) \cup D(u) \cup E(ServedTwice(u)))
  BY Zenon DEF CheckSampleCount
<1>3. Size(s) = Size(t) /\ s.declared = t.declared /\ C(s) = C(t) /\ D(s) = D(t)
  <2>1. /\ Size(s) = Size(t) /\ s.declared = t.declared /\ (s.labels = None <=> t.labels = None)
        /\ (t.labels # None => Len(s.labels) = Len(t.labels))
    BY CoversIs
  <2>2. C(s) = C(t)
    BY <2>1, Zenon DEF On
  <2>3. D(s) = D(t)
    BY <2>1, Zenon DEF On
  <2> QED
    BY <2>1, <2>2, <2>3
<1> HIDE DEF A, B, C, D, E
<1> QED
  BY <1>1, <1>2, <1>3

LEMMA SameMissingness ==
    ASSUME NEW s, NEW t, NEW f, Covers(s, t, f), NEW c
    PROVE  CheckMissingness(c, s) = CheckMissingness(c, t)
<1> DEFINE Gone(u, p) == {j \in Chosen : p \in Absent(u, j)}
           Late(u) == {p \in Places(u) : Over(c.max_row_rate, Cardinality(Gone(u, p)), Cardinality(Chosen))}
           Often(u) == {x \in Chosen : Over(c.max_feature_rate, Cardinality(Absent(u, x)), Size(u))}
           A(o) == {Fail("feature_missing_rate_exceeded", j, {}) : j \in o}
           B(u) == On(Late(u) # {}, Fail("row_missing_rate_exceeded", 0, IdsAt(u, Late(u))))
<1>1. \A u : CheckMissingness(c, u) = Judged(A(Often(u)) \cup B(u))
  BY Zenon DEF CheckMissingness
<1>2. Often(s) = Often(t)
  <2>1. \A j : Cardinality(Absent(s, j)) = Cardinality(Absent(t, j))
    BY CellsAlike DEF Alike
  <2>2. Size(s) = Size(t)
    BY CoversIs
  <2> QED
    BY <2>1, <2>2
<1>3. B(s) = B(t)
  <2>1. \A j : Absent(s, j) = From(f, Absent(t, j))
    BY CoversIs, CellsFrom
  <2>2. DOMAIN f = Places(s) /\ \A n \in Places(s) : f[n] \in Places(t)
    BY CoversIs
  <2>3. \A n \in Places(s) : Gone(s, n) = Gone(t, f[n])
    BY <2>1, <2>2 DEF From
  <2> HIDE DEF Gone
  <2>4. Late(s) = From(f, Late(t)) /\ Late(t) \subseteq Places(t)
    <3>1. \A n : n \in Late(s) <=> n \in Places(s) /\ f[n] \in Late(t)
      BY <2>2, <2>3
    <3>2. \A n : n \in From(f, Late(t)) <=> n \in Places(s) /\ f[n] \in Late(t)
      BY <2>2, Zenon DEF From
    <3> HIDE DEF Late
    <3> QED
      BY <3>1, <3>2 DEF Late
  <2> HIDE DEF Late
  <2>5. Alike(s, t, Late(s), Late(t))
    BY <2>4, FromAlike
  <2> QED
    BY <2>5, OnAlike
<1> HIDE DEF A, B, Often
<1> QED
  BY <1>1, <1>2, <1>3

LEMMA SameFeatures ==
    ASSUME WellAsked, NEW s, NEW t, NEW f, Covers(s, t, f), NEW c
    PROVE  /\ CheckNumeric(c, s) = CheckNumeric(c, t) /\ CheckCategorical(c, s) = CheckCategorical(c, t)
           /\ CheckDistribution(c, s) = CheckDistribution(c, t)
<1>1. \A j \in ChosenOf({"NUMERIC"}) : NumericFeature(c, s, j) = NumericFeature(c, t, j)
  <2>1. \A j \in ChosenOf({"NUMERIC"}) : j \in Nat \ {0} /\ KindOf(j) = "NUMERIC"
    BY ChosenPositive
  <2> QED
    BY <2>1, SameNumeric
<1>2. \A j \in ChosenOf({"CATEGORICAL", "BOOLEAN"}) : CategoricalFeature(c, s, j) = CategoricalFeature(c, t, j)
  BY SameCategorical
<1>3. \A j \in Chosen : DistributionFeature(c, s, j) = DistributionFeature(c, t, j)
  BY ChosenPositive, SameDistribution
<1>4. CheckNumeric(c, s) = CheckNumeric(c, t)
  BY <1>1, Zenon DEF CheckNumeric
<1>5. CheckCategorical(c, s) = CheckCategorical(c, t)
  BY <1>2, Zenon DEF CheckCategorical
<1>6. CheckDistribution(c, s) = CheckDistribution(c, t)
  BY <1>3, Zenon DEF CheckDistribution
<1> QED
  BY <1>4, <1>5, <1>6

\* Where the target is what.
LEMMA TargetsFrom ==
    ASSUME NEW s, NEW t, NEW f, Covers(s, t, f), Aligned(t)
    PROVE  /\ WithoutLabel(s) = From(f, WithoutLabel(t)) /\ WithoutLabel(t) \subseteq Places(t)
           /\ WithTarget(s) = From(f, WithTarget(t)) /\ WithTarget(t) \subseteq Places(t)
           /\ \A x : TargetsAt(s, x) = From(f, TargetsAt(t, x)) /\ TargetsAt(t, x) \subseteq Places(t)
           /\ ClassesOf(s) = Via(f, ClassesOf(t)) /\ DOMAIN ClassesOf(t) \subseteq Places(t)
<1>1. /\ DOMAIN f = Places(s) /\ \A n \in Places(s) : f[n] \in Places(t)
      /\ \A n \in Places(s) : s.ids[n] = t.ids[f[n]] /\ s.labels[n] = t.labels[f[n]]
  BY CoversIs
<1>2. WithoutLabel(s) = From(f, WithoutLabel(t)) /\ WithoutLabel(t) \subseteq Places(t)
  BY <1>1 DEF WithoutLabel, From
<1>3. IdsAt(s, WithoutLabel(s)) = IdsAt(t, WithoutLabel(t))
  BY <1>2, IdsFrom
<1>4. WithTarget(s) = From(f, WithTarget(t)) /\ WithTarget(t) \subseteq Places(t)
  <2> DEFINE I == IdsAt(t, WithoutLabel(t))
  <2>1. WithTarget(s) = {p \in Places(s) : s.ids[p] \notin I} /\ WithTarget(t) = {p \in Places(t) : t.ids[p] \notin I}
    BY <1>3 DEF WithTarget
  <2> HIDE DEF I
  <2> QED
    BY <1>1, <2>1 DEF From
<1>5. \A x : TargetsAt(s, x) = From(f, TargetsAt(t, x)) /\ TargetsAt(t, x) \subseteq Places(t)
  <2>1. \A n : n \in WithTarget(s) <=> n \in Places(s) /\ f[n] \in WithTarget(t)
    BY <1>1, <1>4 DEF From
  <2> QED
    BY <1>1, <1>4, <2>1 DEF TargetsAt, From
<1>6. ClassesOf(s) = Via(f, ClassesOf(t)) /\ DOMAIN ClassesOf(t) \subseteq Places(t)
  <2> DEFINE I == IdsAt(t, TargetsAt(t, Infinite))
             K(u) == {x \in WithTarget(u) : u.ids[x] \notin I}
  <2>1. IdsAt(s, TargetsAt(s, Infinite)) = I
    <3>1. TargetsAt(s, Infinite) = From(f, TargetsAt(t, Infinite)) /\ TargetsAt(t, Infinite) \subseteq Places(t)
      BY <1>5
    <3> QED
      BY <3>1, IdsFrom
  <2>2. ClassesOf(s) = [p \in K(s) |-> s.labels[p]] /\ ClassesOf(t) = [p \in K(t) |-> t.labels[p]]
    BY <2>1 DEF ClassesOf
  <2> HIDE DEF I
  <2>3. K(s) = From(f, K(t)) /\ K(t) \subseteq Places(t)
    BY <1>1, <1>4 DEF From
  <2>4. DOMAIN ClassesOf(t) = K(t)
    BY <2>2
  <2>5. \A n \in K(s) : s.labels[n] = ClassesOf(t)[f[n]]
    BY <1>1, <1>4, <2>2, <2>3 DEF From
  <2> HIDE DEF K
  <2>6. Via(f, ClassesOf(t)) = [n \in K(s) |-> ClassesOf(t)[f[n]]]
    BY <2>3, <2>4 DEF Via
  <2> QED
    BY <2>2, <2>3, <2>4, <2>5, <2>6
<1> QED
  BY <1>2, <1>4, <1>5, <1>6

LEMMA SameTarget ==
    ASSUME NEW s, NEW t, NEW f, Covers(s, t, f), NEW c
    PROVE  CheckTarget(c, s) = CheckTarget(c, t)
<1>1. Aligned(s) <=> Aligned(t)
  BY CoversIs
<1>2. CASE ~Aligned(t)
  BY <1>1, <1>2 DEF CheckTarget
<1>3. CASE Aligned(t)
  <2>1. /\ Alike(s, t, WithoutLabel(s), WithoutLabel(t)) /\ Alike(s, t, WithTarget(s), WithTarget(t))
        /\ \A x : Alike(s, t, TargetsAt(s, x), TargetsAt(t, x))
    <3>1. Alike(s, t, WithoutLabel(s), WithoutLabel(t)) /\ Alike(s, t, WithTarget(s), WithTarget(t))
      BY <1>3, TargetsFrom, FromAlike
    <3>2. ASSUME NEW x PROVE Alike(s, t, TargetsAt(s, x), TargetsAt(t, x))
      <4>1. TargetsAt(s, x) = From(f, TargetsAt(t, x)) /\ TargetsAt(t, x) \subseteq Places(t)
        BY <1>3, TargetsFrom
      <4> QED
        BY <4>1, FromAlike
    <3> QED
      BY <3>1, <3>2
  <2>2. MissingTargets(c, s) = MissingTargets(c, t)
    <3> DEFINE A(u) == On(WithoutLabel(u) # {}, Warn("missing_targets", 0, IdsAt(u, WithoutLabel(u))))
               B(n, m) == On(Over(c.max_missing_rate, n, m), Fail("missing_target_rate_exceeded", 0, {}))
    <3>1. \A u : MissingTargets(c, u) = A(u) \cup B(Cardinality(WithoutLabel(u)), Size(u))
      BY DEF MissingTargets
    <3>2. A(s) = A(t)
      BY <2>1, OnAlike
    <3>3. Cardinality(WithoutLabel(s)) = Cardinality(WithoutLabel(t)) /\ Size(s) = Size(t)
      BY <2>1, CoversIs DEF Alike
    <3> HIDE DEF A, B
    <3> QED
      BY <3>1, <3>2, <3>3
  <2>3. NumberTargets(s) = NumberTargets(t)
    <3>1. /\ On(TargetsAt(s, Word) # {}, Fail("non_numeric_target", 0, IdsAt(s, TargetsAt(s, Word))))
             = On(TargetsAt(t, Word) # {}, Fail("non_numeric_target", 0, IdsAt(t, TargetsAt(t, Word))))
          /\ On(TargetsAt(s, Infinite) # {}, Warn("nonfinite_target", 0, IdsAt(s, TargetsAt(s, Infinite))))
             = On(TargetsAt(t, Infinite) # {}, Warn("nonfinite_target", 0, IdsAt(t, TargetsAt(t, Infinite))))
      BY <2>1, OnAlike
    <3> QED
      BY <3>1, Zenon DEF NumberTargets
  <2>4. /\ ClassesOf(s) = Via(f, ClassesOf(t)) /\ DOMAIN ClassesOf(t) \subseteq Places(t)
        /\ OneToOne(f, Places(s), Places(t))
    BY <1>3, TargetsFrom, CoversIs
  <2>5. CountOf(ClassesOf(s)) = CountOf(ClassesOf(t)) /\ Cardinality(DOMAIN ClassesOf(s)) = Cardinality(DOMAIN ClassesOf(t))
    BY <2>4, CountVia, ViaIs
  <2>6. \A X : Alike(s, t, PlacesIn(ClassesOf(s), X), PlacesIn(ClassesOf(t), X))
    <3> SUFFICES ASSUME NEW X PROVE Alike(s, t, PlacesIn(ClassesOf(s), X), PlacesIn(ClassesOf(t), X))
      OBVIOUS
    <3>1. PlacesIn(ClassesOf(s), X) = From(f, PlacesIn(ClassesOf(t), X))
      BY <2>4, PlacesVia
    <3>2. PlacesIn(ClassesOf(t), X) \subseteq Places(t)
      BY <2>4 DEF PlacesIn
    <3> QED
      BY <3>1, <3>2, FromAlike
  <2>7. TargetsAt(s, Word) = WithTarget(s) <=> TargetsAt(t, Word) = WithTarget(t)
    <3>1. TargetsAt(s, Word) \subseteq WithTarget(s) /\ TargetsAt(t, Word) \subseteq WithTarget(t)
      BY DEF TargetsAt
    <3>2. IsFiniteSet(WithTarget(s)) /\ IsFiniteSet(WithTarget(t))
      <4>1. WithTarget(s) \in SUBSET Places(s) /\ WithTarget(t) \in SUBSET Places(t) /\ IsFiniteSet(Places(s)) /\ IsFiniteSet(Places(t))
        BY CoversIs, TableIs DEF WithTarget
      <4> QED
        BY <4>1, FS_Subset
    <3>3. Cardinality(TargetsAt(s, Word)) = Cardinality(TargetsAt(t, Word)) /\ Cardinality(WithTarget(s)) = Cardinality(WithTarget(t))
      BY <2>1 DEF Alike
    <3>4. TargetsAt(s, Word) = WithTarget(s) <=> Cardinality(TargetsAt(s, Word)) = Cardinality(WithTarget(s))
      BY <3>1, <3>2, FS_Subset
    <3>5. TargetsAt(t, Word) = WithTarget(t) <=> Cardinality(TargetsAt(t, Word)) = Cardinality(WithTarget(t))
      BY <3>1, <3>2, FS_Subset
    <3> QED
      BY <3>3, <3>4, <3>5
  <2>8. ClassTargets(c, s) = ClassTargets(c, t)
    <3> DEFINE count(u) == CountOf(ClassesOf(u))
               Having(u, classes) == {p \in DOMAIN ClassesOf(u) : ClassesOf(u)[p] \in classes}
               A(u) == On(TargetsAt(u, Word) # {} /\ TargetsAt(u, Word) # WithTarget(u), Fail("inconsistent_target_types", 0, {}))
               B(u) == On(TargetsAt(u, Infinite) # {}, Fail("nonfinite_target", 0, IdsAt(u, TargetsAt(u, Infinite))))
               Foreign(n) == {x \in DOMAIN n : c.allowed # None /\ x \notin c.allowed}
               Single(n) == {x \in DOMAIN n : n[x] = 1}
               Few(n) == {x \in DOMAIN n : c.min_class_count # None /\ n[x] < c.min_class_count}
               Thin(n, m) == {x \in DOMAIN n : c.min_class_share # None /\ 100 * n[x] < c.min_class_share * m}
               C(X, ids) == On(X # {}, Fail("invalid_target_value", 0, ids))
               D(X, ids) == On(X # {}, Warn("singleton_class", 0, ids))
               E(X, ids) == On(X # {}, Fail("class_below_min_count", 0, ids))
               F(X, ids) == On(X # {}, Fail("class_below_min_proportion", 0, ids))
               I(u, X) == IdsAt(u, Having(u, X))
               m(u) == Cardinality(DOMAIN ClassesOf(u))
               Shape(u) == A(u) \cup B(u) \cup C(Foreign(count(u)), I(u, Foreign(count(u)))) \cup D(Single(count(u)), I(u, Single(count(u))))
                           \cup E(Few(count(u)), I(u, Few(count(u)))) \cup F(Thin(count(u), m(u)), I(u, Thin(count(u), m(u))))
    <3>1. \A u : ClassTargets(c, u) = Shape(u)
      <4> SUFFICES ASSUME NEW u PROVE ClassTargets(c, u) = Shape(u)
        OBVIOUS
      <4> QED
        BY Zenon DEF ClassTargets
    <3>2. A(s) = A(t)
      <4>1. TargetsAt(s, Word) = {} <=> TargetsAt(t, Word) = {}
        BY <2>1 DEF Alike
      <4> QED
        BY <2>7, <4>1, Zenon DEF On
    <3>3. B(s) = B(t)
      BY <2>1, OnAlike
    <3>4. \A X : I(s, X) = I(t, X)
      <4>1. \A u, X : Having(u, X) = PlacesIn(ClassesOf(u), X)
        BY DEF PlacesIn
      <4> HIDE DEF Having
      <4> QED
        BY <2>6, <4>1 DEF Alike
    <3>5. count(s) = count(t) /\ m(s) = m(t)
      BY <2>5
    <3>6. Shape(s) = Shape(t)
      <4> HIDE DEF A, B, C, D, E, F, I, count, m, Foreign, Single, Few, Thin
      <4> QED
        BY <3>2, <3>3, <3>4, <3>5
    <3> HIDE DEF Shape
    <3> QED
      BY <3>1, <3>6
  <2>9. /\ DOMAIN ClassesOf(s) = {} <=> DOMAIN ClassesOf(t) = {}
        /\ TargetsAt(s, Word) \cup TargetsAt(s, Infinite) = WithTarget(s) <=> TargetsAt(t, Word) \cup TargetsAt(t, Infinite) = WithTarget(t)
    <3>1. DOMAIN ClassesOf(s) = {} <=> DOMAIN ClassesOf(t) = {}
      <4>1. DOMAIN ClassesOf(s) = From(f, DOMAIN ClassesOf(t))
        BY <2>4, ViaIs
      <4> QED
        BY <2>4, <4>1, FromSize
    <3>2. /\ TargetsAt(s, Word) = From(f, TargetsAt(t, Word)) /\ TargetsAt(s, Infinite) = From(f, TargetsAt(t, Infinite))
          /\ WithTarget(s) = From(f, WithTarget(t)) /\ WithTarget(t) \subseteq Places(t)
          /\ TargetsAt(t, Word) \subseteq Places(t) /\ TargetsAt(t, Infinite) \subseteq Places(t)
      BY <1>3, TargetsFrom
    <3>3. TargetsAt(s, Word) \cup TargetsAt(s, Infinite) = From(f, TargetsAt(t, Word) \cup TargetsAt(t, Infinite))
      BY <3>2 DEF From
    <3>4. TargetsAt(t, Word) \cup TargetsAt(t, Infinite) \subseteq Places(t)
      BY <3>2
    <3>5. \A S, T \in SUBSET Places(t) : From(f, S) = From(f, T) <=> S = T
      <4> SUFFICES ASSUME NEW S \in SUBSET Places(t), NEW T \in SUBSET Places(t) PROVE From(f, S) = From(f, T) <=> S = T
        OBVIOUS
      <4>1. S = {f[n] : n \in From(f, S)} /\ T = {f[n] : n \in From(f, T)}
        BY <2>4, FromSize
      <4> QED
        BY <4>1
    <3> QED
      BY <3>1, <3>2, <3>3, <3>4, <3>5
  <2>10. Aligned(s)
    BY <1>1, <1>3
  <2>11. CASE quality.task = "CLASSIFICATION"
    BY <1>3, <2>2, <2>8, <2>9, <2>10, <2>11, Zenon DEF CheckTarget, JudgedIf
  <2>12. CASE quality.task # "CLASSIFICATION"
    BY <1>3, <2>2, <2>3, <2>9, <2>10, <2>12, Zenon DEF CheckTarget, JudgedIf
  <2> QED
    BY <2>11, <2>12
<1> QED
  BY <1>2, <1>3

\* The rows that have both a value of the feature and a target.
PairsAt(t, j) == {p \in ValidAt(t, j) : StateOf(t.labels[p], LabelKind) = "valid"}
LabelsAt(t, j) == [p \in PairsAt(t, j) |-> t.labels[p]]

LEMMA PairInts ==
    ASSUME NEW t \in Table, Aligned(t), NEW j \in Nat \ {0}
    PROVE  /\ PairsAt(t, j) \subseteq Places(t) /\ IsFiniteSet(PairsAt(t, j))
           /\ DOMAIN ValuesAt(t, j, PairsAt(t, j)) = PairsAt(t, j) /\ DOMAIN LabelsAt(t, j) = PairsAt(t, j)
           /\ KindOf(j) = "NUMERIC" => ValuesAt(t, j, PairsAt(t, j)) \in [PairsAt(t, j) -> Int]
           /\ LabelKind = "NUMERIC" => LabelsAt(t, j) \in [PairsAt(t, j) -> Int]
<1>1. PairsAt(t, j) \subseteq ValidAt(t, j) /\ ValidAt(t, j) \subseteq Places(t)
  BY DEF PairsAt, ValidAt, InState
<1>2. IsFiniteSet(PairsAt(t, j))
  <2>1. PairsAt(t, j) \in SUBSET Places(t) /\ IsFiniteSet(Places(t))
    BY <1>1, TableIs
  <2> QED
    BY <2>1, FS_Subset
<1>3. ASSUME KindOf(j) = "NUMERIC" PROVE ValuesAt(t, j, PairsAt(t, j)) \in [PairsAt(t, j) -> Int]
  <2>1. \A p \in ValidAt(t, j) : Column(t, j)[p] \in QualityCells /\ StateOf(Column(t, j)[p], "NUMERIC") = "valid"
    BY <1>3, ColumnIs DEF ValidAt, InState
  <2>2. \A p \in PairsAt(t, j) : Column(t, j)[p] \in Int
    BY <1>1, <2>1, ValidNumber
  <2> QED
    BY <2>2 DEF ValuesAt
<1>4. ASSUME LabelKind = "NUMERIC" PROVE LabelsAt(t, j) \in [PairsAt(t, j) -> Int]
  <2>1. \A p \in PairsAt(t, j) : t.labels[p] \in QualityCells /\ StateOf(t.labels[p], "NUMERIC") = "valid"
    BY <1>1, <1>4, AlignedIs DEF PairsAt
  <2>2. \A p \in PairsAt(t, j) : t.labels[p] \in Int
    BY <2>1, ValidNumber
  <2> QED
    BY <2>2 DEF LabelsAt
<1> QED
  BY <1>1, <1>2, <1>3, <1>4 DEF ValuesAt, LabelsAt

LEMMA SameLeakage ==
    ASSUME NEW s, NEW t, NEW f, Covers(s, t, f), Distinct(t), Aligned(t), NEW c, NEW j \in Nat \ {0}
    PROVE  LeakageCandidate(c, s, j) = LeakageCandidate(c, t, j)
<1> DEFINE X(u) == ValuesAt(u, j, PairsAt(u, j))
           Y(u) == LabelsAt(u, j)
           Same(u) == {p \in PairsAt(u, j) : KindOf(j) = "NUMERIC" /\ X(u)[p] = u.labels[LastPlace(u, u.ids[p])]}
           Flagged(u) == \/ 100 * Cardinality(Same(u)) >= c.max_abs_correlation * Cardinality(PairsAt(u, j))
                         \/ KindOf(j) = "NUMERIC" /\ LabelKind = "NUMERIC" /\ Correlated(X(u), Y(u), c.max_abs_correlation)
                         \/ LabelKind = "CATEGORICAL" /\ Telling(X(u), Y(u), c)
           Shape(n, flags) == IF n < c.min_rows THEN Bare("INCONCLUSIVE") ELSE Judged(flags)
<1>1. \A u : LeakageCandidate(c, u, j) = Shape(Cardinality(PairsAt(u, j)), On(Flagged(u), Warn("leakage_indicator", j, {})))
  BY Zenon DEF LeakageCandidate, PairsAt, LabelsAt
<1>2. /\ DOMAIN f = Places(s) /\ s \in Table /\ t \in Table /\ Embeds(s, t, f) /\ OneToOne(f, Places(s), Places(t))
      /\ \A n \in Places(s) : f[n] \in Places(t) /\ s.labels[n] = t.labels[f[n]]
  BY CoversIs
<1>3. /\ PairsAt(t, j) \subseteq Places(t) /\ DOMAIN X(t) = PairsAt(t, j) /\ DOMAIN Y(t) = PairsAt(t, j)
      /\ KindOf(j) = "NUMERIC" => X(t) \in [PairsAt(t, j) -> Int]
      /\ LabelKind = "NUMERIC" => Y(t) \in [PairsAt(t, j) -> Int]
  BY <1>2, PairInts
<1>4. PairsAt(s, j) = From(f, PairsAt(t, j))
  <2>1. ValidAt(s, j) = From(f, ValidAt(t, j))
    BY <1>2, CellsFrom
  <2> QED
    BY <1>2, <2>1 DEF PairsAt, From
<1>5. Cardinality(PairsAt(s, j)) = Cardinality(PairsAt(t, j))
  BY <1>2, <1>3, <1>4, FromSize
<1>6. X(s) = Via(f, X(t))
  BY <1>2, <1>3, <1>4, ValuesFrom
<1>7. Y(s) = Via(f, Y(t))
  <2>1. \A n \in From(f, PairsAt(t, j)) : s.labels[n] = Y(t)[f[n]]
    BY <1>2 DEF LabelsAt, From
  <2> QED
    BY <1>3, <1>4, <2>1 DEF Via, LabelsAt
<1>8. Cardinality(Same(s)) = Cardinality(Same(t))
  <2>1. /\ \A p \in Places(s) : LastPlace(s, s.ids[p]) = p
        /\ \A p \in Places(t) : LastPlace(t, t.ids[p]) = p
    BY <1>2, DistinctFrom, LastPlaceIs
  <2>2. PairsAt(s, j) \subseteq Places(s)
    BY <1>2, <1>4 DEF From
  <2>3. Same(s) = {p \in PairsAt(s, j) : KindOf(j) = "NUMERIC" /\ X(s)[p] = s.labels[p]}
    BY <2>1, <2>2
  <2>4. Same(t) = {p \in PairsAt(t, j) : KindOf(j) = "NUMERIC" /\ X(t)[p] = t.labels[p]}
    BY <1>3, <2>1
  <2>5. \A n \in PairsAt(s, j) : X(s)[n] = X(t)[f[n]] /\ s.labels[n] = t.labels[f[n]]
    BY <1>2, <1>3, <1>4, <1>6, <2>2 DEF Via
  <2> HIDE DEF X, Same
  <2>6. Same(s) = From(f, Same(t)) /\ Same(t) \subseteq Places(t)
    BY <1>3, <1>4, <2>3, <2>4, <2>5 DEF From
  <2> QED
    BY <1>2, <2>6, FromSize
<1>9. Flagged(s) <=> Flagged(t)
  <2> HIDE DEF X, Y, Same
  <2>1. KindOf(j) = "NUMERIC" /\ LabelKind = "NUMERIC" =>
           (Correlated(X(s), Y(s), c.max_abs_correlation) <=> Correlated(X(t), Y(t), c.max_abs_correlation))
    BY <1>2, <1>3, <1>6, <1>7, CorrelatedVia
  <2>2. Telling(X(s), Y(s), c) <=> Telling(X(t), Y(t), c)
    BY <1>2, <1>3, <1>6, <1>7, TellingVia
  <2> QED
    BY <1>5, <1>8, <2>1, <2>2, Zenon
<1> HIDE DEF Flagged
<1>10. On(Flagged(s), Warn("leakage_indicator", j, {})) = On(Flagged(t), Warn("leakage_indicator", j, {}))
  BY <1>9 DEF On
<1> HIDE DEF Shape
<1> QED
  BY <1>1, <1>5, <1>10

LEMMA SameTargetLeakage ==
    ASSUME WellAsked, NEW s, NEW t, NEW f, Covers(s, t, f), Distinct(t), NEW c
    PROVE  CheckTargetLeakage(c, s) = CheckTargetLeakage(c, t)
<1>1. Aligned(s) <=> Aligned(t)
  BY CoversIs
<1>2. CASE ~Aligned(t)
  BY <1>1, <1>2 DEF CheckTargetLeakage
<1>3. CASE Aligned(t)
  <2>1. \A j \in Chosen : LeakageCandidate(c, s, j) = LeakageCandidate(c, t, j)
    BY <1>3, ChosenPositive, SameLeakage
  <2> QED
    BY <1>1, <1>3, <2>1, Zenon DEF CheckTargetLeakage
<1> QED
  BY <1>2, <1>3

\* Classes of more than one place.
Repeats(w) == {g \in Classes(w) : Cardinality(g) > 1}

LEMMA RepeatsVia ==
    ASSUME NEW f, NEW Q, NEW P, OneToOne(f, Q, P), NEW w, DOMAIN w \subseteq P
    PROVE  /\ Repeats(Via(f, w)) = FromEach(f, Repeats(w)) /\ Repeats(w) \subseteq SUBSET P
           /\ UNION Repeats(Via(f, w)) = From(f, UNION Repeats(w)) /\ UNION Repeats(w) \subseteq P
           /\ Cardinality(Repeats(Via(f, w))) = Cardinality(Repeats(w))
           /\ (Repeats(Via(f, w)) = {} <=> Repeats(w) = {})
<1>1. Classes(Via(f, w)) = FromEach(f, Classes(w)) /\ Classes(w) \subseteq SUBSET P
  BY ClassesVia
<1>2. \A g \in Classes(w) : Cardinality(From(f, g)) = Cardinality(g)
  <2> SUFFICES ASSUME NEW g \in Classes(w) PROVE Cardinality(From(f, g)) = Cardinality(g)
    OBVIOUS
  <2>1. g \subseteq P
    BY <1>1
  <2> QED
    BY <2>1, FromSize
<1>3. Repeats(Via(f, w)) = FromEach(f, Repeats(w)) /\ Repeats(w) \subseteq SUBSET P
  BY <1>1, <1>2 DEF Repeats, FromEach
<1> DEFINE G == Repeats(w)
<1>4. G \subseteq SUBSET P
  BY <1>3
<1> HIDE DEF G
<1>5. UNION FromEach(f, G) = From(f, UNION G) /\ UNION G \subseteq P
  BY <1>4, EachFrom, Zenon
<1>6. Cardinality(FromEach(f, G)) = Cardinality(G)
  BY <1>4, EachFrom, Zenon
<1>7. FromEach(f, G) = {} <=> G = {}
  BY EachNone
<1>8. Repeats(Via(f, w)) = FromEach(f, G)
  BY <1>3 DEF G
<1> QED
  BY <1>4, <1>5, <1>6, <1>7, <1>8, Zenon DEF G

\* What a sample's row says.
LEMMA RowFrom ==
    ASSUME NEW s, NEW t, NEW f, Covers(s, t, f), Distinct(t)
    PROVE  \A i \in IdsAt(t, Places(t)) :
               /\ LastPlace(s, i) \in Places(s) /\ LastPlace(t, i) \in Places(t) /\ f[LastPlace(s, i)] = LastPlace(t, i)
               /\ s.rows[LastPlace(s, i)] = t.rows[LastPlace(t, i)]
<1> SUFFICES ASSUME NEW p \in Places(t)
             PROVE  /\ LastPlace(s, t.ids[p]) \in Places(s) /\ LastPlace(t, t.ids[p]) \in Places(t)
                    /\ f[LastPlace(s, t.ids[p])] = LastPlace(t, t.ids[p])
                    /\ s.rows[LastPlace(s, t.ids[p])] = t.rows[LastPlace(t, t.ids[p])]
  BY DEF IdsAt
<1>1. s \in Table /\ t \in Table /\ \A n \in Places(s) : s.ids[n] = t.ids[f[n]] /\ s.rows[n] = t.rows[f[n]]
  BY CoversIs
<1>2. PICK n \in Places(s) : f[n] = p
  BY DEF Covers
<1>3. Distinct(s)
  BY CoversIs, DistinctFrom
<1>4. LastPlace(s, s.ids[n]) = n /\ LastPlace(t, t.ids[p]) = p
  BY <1>1, <1>3, LastPlaceIs
<1>5. s.ids[n] = t.ids[p] /\ s.rows[n] = t.rows[p]
  BY <1>1, <1>2
<1> QED
  BY <1>2, <1>4, <1>5

LEMMA SameIdentifiers ==
    ASSUME NEW s, NEW t, NEW f, Covers(s, t, f), Distinct(t), NEW c
    PROVE  CheckIdentifiers(c, s) = CheckIdentifiers(c, t)
<1> DEFINE usable(u) == InState(u, c.column, "CATEGORICAL", {"valid"})
           name(u) == IF c.column = None THEN <<>> ELSE ValuesAt(u, c.column, usable(u))
           lost(u) == IF c.column = None THEN {} ELSE InState(u, c.column, "CATEGORICAL", {"missing"})
           shared(u) == Repeats(name(u))
           Row(u, at) == [j \in (1..Columns) \ {c.column} |-> Column(u, j)[at]]
           Signature(u, i) == <<Row(u, LastPlace(u, i)), IF Aligned(u) THEN u.labels[LastPlace(u, i)] ELSE None>>
           torn(u) == {g \in shared(u) : Cardinality({Signature(u, u.ids[p]) : p \in g}) > 1}
           short(u) == {i \in IdsAt(u, UNION shared(u)) : Len(u.rows[LastPlace(u, i)]) < Columns}
           Identifies(u, j) == Cardinality(ValidAt(u, j)) >= c.min_samples
                               /\ 100 * Cardinality({Column(u, j)[p] : p \in ValidAt(u, j)}) >= c.unique_ratio * Cardinality(ValidAt(u, j))
           A(u) == On(shared(u) # {}, Either(c.require_unique, "duplicate_ids", c.column, IdsAt(u, UNION shared(u))))
           B(u) == On(torn(u) # {}, Either(c.require_unique, "conflicting_rows_share_id", c.column, IdsAt(u, UNION torn(u))))
           C(u) == On(lost(u) # {}, Warn("missing_ids", c.column, IdsAt(u, lost(u))))
           D(ids) == On(ids # {}, Warn("adapter_served_ids_twice", 0, ids))
           E(like) == {Warn("identifier_like", j, {}) : j \in like}
           like(u) == {x \in Chosen : Identifies(u, x)}
           Shape(cut, a, b, cc, d, e) == IF cut # {} THEN Bare("RAISED") ELSE Judged(a \cup b \cup cc \cup d \cup e)
<1>1. \A u : CheckIdentifiers(c, u) = Shape(short(u), A(u), B(u), C(u), D(ServedTwice(u)), E(like(u)))
  <2> SUFFICES ASSUME NEW u PROVE CheckIdentifiers(c, u) = Shape(short(u), A(u), B(u), C(u), D(ServedTwice(u)), E(like(u)))
    OBVIOUS
  <2> QED
    BY Zenon DEF CheckIdentifiers, Repeats
<1>2. ServedTwice(s) = {} /\ ServedTwice(t) = {}
  BY CoversIs, DistinctFrom, DistinctServed
<1>3. /\ DOMAIN f = Places(s) /\ s \in Table /\ t \in Table /\ Embeds(s, t, f) /\ OneToOne(f, Places(s), Places(t))
      /\ (Aligned(s) <=> Aligned(t)) /\ \A n \in Places(s) : f[n] \in Places(t) /\ s.ids[n] = t.ids[f[n]]
      /\ Aligned(t) => \A n \in Places(s) : s.labels[n] = t.labels[f[n]]
  BY CoversIs
<1>4. name(s) = Via(f, name(t)) /\ DOMAIN name(t) \subseteq Places(t)
  <2>1. CASE c.column = None
    <3>1. name(s) = <<>> /\ name(t) = <<>>
      BY <2>1
    <3>2. Via(f, <<>>) = <<>>
      <4>1. DOMAIN <<>> = {}
        OBVIOUS
      <4>2. From(f, {}) = {}
        BY DEF From
      <4>3. Via(f, <<>>) = [n \in {} |-> <<>>[f[n]]]
        BY <4>1, <4>2, Zenon DEF Via
      <4> QED
        BY <4>3
    <3> QED
      BY <3>1, <3>2
  <2>2. CASE c.column # None
    <3>1. usable(s) = From(f, usable(t)) /\ usable(t) \subseteq Places(t)
      BY <1>3, StatesFrom
    <3>2. name(s) = ValuesAt(s, c.column, usable(s)) /\ name(t) = ValuesAt(t, c.column, usable(t))
      BY <2>2
    <3> HIDE DEF usable, name
    <3> QED
      BY <1>3, <3>1, <3>2, ValuesFrom
  <2> QED
    BY <2>1, <2>2
<1>5. /\ shared(s) = FromEach(f, shared(t)) /\ shared(t) \subseteq SUBSET Places(t)
      /\ UNION shared(s) = From(f, UNION shared(t)) /\ UNION shared(t) \subseteq Places(t)
      /\ (shared(s) = {} <=> shared(t) = {})
  <2> DEFINE w == name(t)
             g == Repeats(w)
             h == Repeats(Via(f, w))
  <2>1. name(s) = Via(f, w) /\ DOMAIN w \subseteq Places(t) /\ OneToOne(f, Places(s), Places(t))
    BY <1>3, <1>4, Zenon
  <2>2. shared(s) = h /\ shared(t) = g
    BY <2>1, Zenon
  <2> HIDE DEF w
  <2>3. h = FromEach(f, g) /\ g \subseteq SUBSET Places(t)
    BY <2>1, RepeatsVia, ZenonT(60)
  <2>4. UNION h = From(f, UNION g) /\ UNION g \subseteq Places(t)
    BY <2>1, RepeatsVia, ZenonT(60)
  <2>5. h = {} <=> g = {}
    BY <2>1, RepeatsVia, ZenonT(60)
  <2> HIDE DEF g, h, shared
  <2> QED
    BY <2>2, <2>3, <2>4, <2>5, Zenon
<1>6. IdsAt(s, UNION shared(s)) = IdsAt(t, UNION shared(t)) /\ IdsAt(t, UNION shared(t)) \subseteq IdsAt(t, Places(t))
  <2> DEFINE S == UNION shared(s)
             T == UNION shared(t)
  <2>1. S = From(f, T) /\ T \subseteq Places(t)
    BY <1>5, Zenon
  <2> HIDE DEF shared, S, T
  <2>2. IdsAt(s, S) = IdsAt(t, T)
    BY <2>1, IdsFrom
  <2>3. IdsAt(t, T) \subseteq IdsAt(t, Places(t))
    BY <2>1 DEF IdsAt
  <2> QED
    BY <2>2, <2>3, Zenon DEF S, T
<1>7. short(s) = short(t)
  <2> HIDE DEF shared
  <2>1. \A i \in IdsAt(t, UNION shared(t)) : s.rows[LastPlace(s, i)] = t.rows[LastPlace(t, i)]
    BY <1>6, RowFrom
  <2> QED
    BY <1>6, <2>1
<1>8. A(s) = A(t)
  <2> HIDE DEF shared
  <2> QED
    BY <1>5, <1>6, Zenon DEF On
<1>9. torn(s) = FromEach(f, torn(t)) /\ torn(t) \subseteq SUBSET Places(t)
  <2>1. \A i \in IdsAt(t, Places(t)) : Signature(s, i) = Signature(t, i)
    <3> SUFFICES ASSUME NEW i \in IdsAt(t, Places(t)) PROVE Signature(s, i) = Signature(t, i)
      OBVIOUS
    <3>1. LastPlace(s, i) \in Places(s) /\ f[LastPlace(s, i)] = LastPlace(t, i)
      BY RowFrom
    <3>2. \A j : Column(s, j)[LastPlace(s, i)] = Column(t, j)[LastPlace(t, i)]
      BY <1>3, <3>1, ColumnFrom
    <3>3. Row(s, LastPlace(s, i)) = Row(t, LastPlace(t, i))
      BY <3>2
    <3>4. Aligned(t) => s.labels[LastPlace(s, i)] = t.labels[LastPlace(t, i)]
      BY <1>3, <3>1
    <3> HIDE DEF Row
    <3> QED
      BY <1>3, <3>3, <3>4
  <2> DEFINE Said2(u, g) == {Signature(u, u.ids[p]) : p \in g}
  <2>2. \A g \in shared(t) : Said2(s, From(f, g)) = Said2(t, g)
    <3> SUFFICES ASSUME NEW g \in shared(t) PROVE Said2(s, From(f, g)) = Said2(t, g)
      OBVIOUS
    <3>1. g \subseteq Places(t)
      BY <1>5
    <3>2. From(f, g) \subseteq Places(s) /\ g = {f[n] : n \in From(f, g)}
      BY <1>3, <3>1, FromSize
    <3>3. \A n \in From(f, g) : f[n] \in g /\ s.ids[n] = t.ids[f[n]] /\ t.ids[f[n]] \in IdsAt(t, Places(t))
      BY <1>3, <3>2 DEF From, IdsAt
    <3> HIDE DEF Signature, shared
    <3>4. \A n \in From(f, g) : Signature(s, s.ids[n]) = Signature(t, t.ids[f[n]])
      BY <2>1, <3>3
    <3> QED
      BY <3>2, <3>3, <3>4
  <2>3. \A u : torn(u) = {g \in shared(u) : Cardinality(Said2(u, g)) > 1}
    OBVIOUS
  <2> HIDE DEF torn, Said2, shared
  <2> QED
    BY <1>5, <2>2, <2>3 DEF FromEach
<1>10. B(s) = B(t)
  <2> HIDE DEF torn
  <2>1. UNION torn(s) = From(f, UNION torn(t)) /\ UNION torn(t) \subseteq Places(t) /\ (torn(s) = {} <=> torn(t) = {})
    <3>1. torn(s) = FromEach(f, torn(t)) /\ torn(t) \subseteq SUBSET Places(t) /\ OneToOne(f, Places(s), Places(t))
      BY <1>3, <1>9
    <3>2. UNION FromEach(f, torn(t)) = From(f, UNION torn(t)) /\ UNION torn(t) \subseteq Places(t)
      BY <3>1, EachFrom, Zenon
    <3>3. FromEach(f, torn(t)) = {} <=> torn(t) = {}
      BY EachNone
    <3> QED
      BY <3>1, <3>2, <3>3, Zenon
  <2>2. IdsAt(s, UNION torn(s)) = IdsAt(t, UNION torn(t))
    <3> DEFINE S == UNION torn(s)
               T == UNION torn(t)
    <3>1. S = From(f, T) /\ T \subseteq Places(t)
      BY <2>1, Zenon
    <3> HIDE DEF S, T
    <3>2. IdsAt(s, S) = IdsAt(t, T)
      BY <3>1, IdsFrom
    <3> QED
      BY <3>2 DEF S, T
  <2> QED
    BY <2>1, <2>2, Zenon DEF On
<1>11. C(s) = C(t)
  <2>1. CASE c.column = None
    BY <2>1 DEF On
  <2>2. CASE c.column # None
    <3>1. Alike(s, t, lost(s), lost(t))
      BY <2>2, CellsAlike
    <3> HIDE DEF lost
    <3> QED
      BY <3>1, OnAlike
  <2> QED
    BY <2>1, <2>2
<1>12. like(s) = like(t)
  <2>1. \A j : {Column(s, j)[p] : p \in ValidAt(s, j)} = {Column(t, j)[p] : p \in ValidAt(t, j)}
    <3> SUFFICES ASSUME NEW j PROVE {Column(s, j)[p] : p \in ValidAt(s, j)} = {Column(t, j)[p] : p \in ValidAt(t, j)}
      OBVIOUS
    <3>1. ValidOf(s, j) = Via(f, ValidOf(t, j)) /\ DOMAIN ValidOf(t, j) \subseteq Places(t)
      BY ValidVia
    <3>2. {ValidOf(s, j)[p] : p \in DOMAIN ValidOf(s, j)} = {ValidOf(t, j)[p] : p \in DOMAIN ValidOf(t, j)}
      BY <1>3, <3>1, ViaIs
    <3>3. \A u : DOMAIN ValidOf(u, j) = ValidAt(u, j) /\ \A p \in ValidAt(u, j) : ValidOf(u, j)[p] = Column(u, j)[p]
      BY DEF ValidOf, ValuesAt
    <3> QED
      BY <3>2, <3>3
  <2>2. \A j : Cardinality(ValidAt(s, j)) = Cardinality(ValidAt(t, j))
    BY CellsAlike DEF Alike
  <2>3. \A j : Identifies(s, j) <=> Identifies(t, j)
    BY <2>1, <2>2, Zenon
  <2> HIDE DEF Identifies
  <2> QED
    BY <2>3
<1> HIDE DEF Shape, A, B, C, D, E, short, like
<1> QED
  BY <1>1, <1>2, <1>7, <1>8, <1>10, <1>11, <1>12

\* Violations of the same kinds say the same.
SaidOf(V) == {<<v.severity, v.rule, v.subject>> : v \in V}

LEMMA SaidJudged ==
    ASSUME NEW V, NEW W, SaidOf(V) = SaidOf(W)
    PROVE  Said(Judged(V)) = Said(Judged(W))
<1>1. \A X : (X = {} <=> SaidOf(X) = {}) /\ (Fails(X) = {} <=> \A k \in SaidOf(X) : k[1] # "FAIL")
  <2> SUFFICES ASSUME NEW X PROVE (X = {} <=> SaidOf(X) = {}) /\ (Fails(X) = {} <=> \A k \in SaidOf(X) : k[1] # "FAIL")
    OBVIOUS
  <2>1. X = {} <=> SaidOf(X) = {}
    <3>1. \A v \in X : <<v.severity, v.rule, v.subject>> \in SaidOf(X)
      BY DEF SaidOf
    <3>2. \A k \in SaidOf(X) : \E v \in X : TRUE
      BY DEF SaidOf
    <3> QED
      BY <3>1, <3>2
  <2>2. \A v \in X : <<v.severity, v.rule, v.subject>> \in SaidOf(X) /\ <<v.severity, v.rule, v.subject>>[1] = v.severity
    BY DEF SaidOf
  <2>3. \A k \in SaidOf(X) : \E v \in X : k = <<v.severity, v.rule, v.subject>> /\ k[1] = v.severity
    BY DEF SaidOf
  <2>4. Fails(X) = {} <=> \A k \in SaidOf(X) : k[1] # "FAIL"
    BY <2>2, <2>3 DEF Fails
  <2> QED
    BY <2>1, <2>4
<1>2. StatusOf(V) = StatusOf(W)
  BY <1>1 DEF StatusOf
<1>3. \A X : Said(Judged(X)) = <<StatusOf(X), SaidOf(X)>>
  BY DEF Said, Judged, SaidOf
<1> QED
  BY <1>2, <1>3

LEMMA KindsJoined ==
    ASSUME NEW V, NEW W, NEW X
    PROVE  SaidOf(V \cup W \cup X) = SaidOf(V) \cup SaidOf(W) \cup SaidOf(X)
  BY DEF SaidOf

LEMMA KindsOn ==
    ASSUME NEW rule, NEW j, NEW I, NEW J, NEW U, NEW V, U = {} <=> V = {}
    PROVE  SaidOf(On(U # {}, Warn(rule, j, I))) = SaidOf(On(V # {}, Warn(rule, j, J)))
<1>1. \A K : /\ Warn(rule, j, K).severity = "WARNING" /\ Warn(rule, j, K).rule = rule /\ Warn(rule, j, K).subject = j
  BY DEF Warn
<1>2. \A K : SaidOf({Warn(rule, j, K)}) = {<<"WARNING", rule, j>>}
  BY <1>1 DEF SaidOf
<1>3. CASE U = {}
  BY <1>3, Zenon DEF On
<1>4. CASE U # {}
  BY <1>2, <1>4 DEF On
<1> QED
  BY <1>3, <1>4

\* What is left of some classes without the first of each.
Later(G) == UNION {g \ {FirstOf(g)} : g \in G}

LEMMA LaterAre ==
    ASSUME NEW n \in Nat, NEW G, G \subseteq SUBSET (1..n), \A g \in G : g # {},
           \A g, h \in G : g # h => g \cap h = {}
    PROVE  Cardinality(Later(G)) = Cardinality(UNION G) - Cardinality(G)
<1> DEFINE F == {FirstOf(g) : g \in G}
           e == [g \in G |-> FirstOf(g)]
<1>1. IsFiniteSet(1..n) /\ IsFiniteSet(SUBSET (1..n)) /\ IsFiniteSet(G)
  <2>1. IsFiniteSet(1..n)
    BY FS_Interval
  <2>2. IsFiniteSet(SUBSET (1..n))
    BY <2>1, FS_SUBSET
  <2> QED
    BY <2>1, <2>2, FS_Subset
<1>2. \A g \in G : FirstOf(g) \in g
  <2> SUFFICES ASSUME NEW g \in G PROVE FirstOf(g) \in g
    OBVIOUS
  <2>1. g \in SUBSET (1..n) /\ g # {}
    OBVIOUS
  <2>a. IsFiniteSet(g)
    BY <1>1, <2>1, FS_Subset
  <2>b. g \subseteq Int
    BY <2>1
  <2>2. IsFiniteSet(g) /\ g \subseteq Int
    BY <2>a, <2>b
  <2>3. \E p \in g : \A q \in g : p <= q
    BY <2>1, <2>2, Extremes
  <2> QED
    BY <2>3 DEF FirstOf
<1>3. \A g, h \in G : FirstOf(g) \in h => g = h
  BY <1>2
<1>4. e \in Bijection(G, F)
  <2>1. e \in Surjection(G, F)
    BY Zenon DEF Surjection
  <2>2. \A g \in G : e[g] = FirstOf(g)
    OBVIOUS
  <2> HIDE DEF e, F
  <2>3. \A g, h \in G : e[g] = e[h] => g = h
    BY <1>2, <1>3, <2>2
  <2> QED
    BY <2>1, <2>3 DEF Bijection, Injection, IsInjective, Surjection
<1>5. IsFiniteSet(F) /\ Cardinality(F) = Cardinality(G)
  <2> HIDE DEF e, F
  <2>1. ExistsBijection(G, F)
    BY <1>4 DEF ExistsBijection
  <2> QED
    BY <1>1, <2>1, FS_Bijection
<1>6. F \subseteq UNION G
  BY <1>2
<1>7. Later(G) = (UNION G) \ F
  <2>1. ASSUME NEW p \in Later(G) PROVE p \in (UNION G) \ F
    <3>1. PICK g \in G : p \in g /\ p # FirstOf(g)
      BY <2>1 DEF Later
    <3>2. p \notin F
      BY <1>3, <3>1
    <3> QED
      BY <3>1, <3>2
  <2>2. ASSUME NEW p \in (UNION G) \ F PROVE p \in Later(G)
    <3>1. PICK g \in G : p \in g
      BY <2>2
    <3>2. p # FirstOf(g)
      BY <2>2
    <3> QED
      BY <3>1, <3>2 DEF Later
  <2> QED
    BY <2>1, <2>2
<1>8. IsFiniteSet(UNION G)
  <2>1. UNION G \in SUBSET (1..n)
    OBVIOUS
  <2> QED
    BY <1>1, <2>1, FS_Subset
<1> DEFINE U == UNION G
<1> HIDE DEF U, F
<1>9. Cardinality(U \ F) = Cardinality(U) - Cardinality(U \cap F)
  BY <1>8, FS_Difference DEF U
<1>10. U \cap F = F
  BY <1>6 DEF U
<1> QED
  BY <1>5, <1>7, <1>9, <1>10 DEF U

LEMMA RepeatsApart ==
    ASSUME NEW w
    PROVE  /\ \A g \in Repeats(w) : g # {} /\ g \subseteq DOMAIN w
           /\ \A g, h \in Repeats(w) : g # h => g \cap h = {}
<1> DEFINE At(x) == {p \in DOMAIN w : w[p] = x}
<1>1. \A g \in Repeats(w) : \E q \in DOMAIN w : g = At(w[q])
  <2>1. Classes(w) = {At(x) : x \in {w[q] : q \in DOMAIN w}}
    BY DEF Classes
  <2> HIDE DEF At
  <2> QED
    BY <2>1 DEF Repeats
<1>2. \A q \in DOMAIN w : At(w[q]) # {} /\ At(w[q]) \subseteq DOMAIN w
  OBVIOUS
<1>3. \A x, y : At(x) \cap At(y) # {} => x = y
  OBVIOUS
<1> HIDE DEF At
<1> QED
  BY <1>1, <1>2, <1>3

VectorsOf(t) == [p \in Places(t) |-> Features(t, p)]
RowKeys(c, t) ==
    [p \in Places(t) |-> IF c.include_target /\ Aligned(t) THEN <<Features(t, p), t.labels[p]>> ELSE <<Features(t, p)>>]

LEMMA VectorsFrom ==
    ASSUME NEW s, NEW t, NEW f, Covers(s, t, f), NEW c
    PROVE  /\ \A n \in Places(s) : Features(s, n) = Features(t, f[n])
           /\ VectorsOf(s) = Via(f, VectorsOf(t)) /\ DOMAIN VectorsOf(t) = Places(t)
           /\ RowKeys(c, s) = Via(f, RowKeys(c, t)) /\ DOMAIN RowKeys(c, t) = Places(t)
<1>1. /\ DOMAIN f = Places(s) /\ Embeds(s, t, f) /\ (Aligned(s) <=> Aligned(t)) /\ \A n \in Places(s) : f[n] \in Places(t)
      /\ Aligned(t) => \A n \in Places(s) : s.labels[n] = t.labels[f[n]]
  BY CoversIs
<1>2. \A n \in Places(s) : Features(s, n) = Features(t, f[n])
  BY <1>1, ColumnFrom DEF Features
<1>3. From(f, Places(t)) = Places(s)
  BY <1>1 DEF From
<1>4. VectorsOf(s) = Via(f, VectorsOf(t)) /\ DOMAIN VectorsOf(t) = Places(t)
  BY <1>1, <1>2, <1>3 DEF VectorsOf, Via
<1>5. RowKeys(c, s) = Via(f, RowKeys(c, t)) /\ DOMAIN RowKeys(c, t) = Places(t)
  <2>1. DOMAIN RowKeys(c, t) = Places(t)
    BY DEF RowKeys
  <2>2. \A n \in Places(s) : RowKeys(c, s)[n] = RowKeys(c, t)[f[n]]
    BY <1>1, <1>2 DEF RowKeys
  <2>3. RowKeys(c, s) = [n \in Places(s) |-> RowKeys(c, s)[n]]
    BY DEF RowKeys
  <2> QED
    BY <1>3, <2>1, <2>2, <2>3 DEF Via
<1> QED
  BY <1>2, <1>4, <1>5

LEMMA SameDuplicates ==
    ASSUME NEW s, NEW t, NEW f, Covers(s, t, f), NEW c
    PROVE  Said(CheckDuplicates(c, s)) = Said(CheckDuplicates(c, t))
<1> DEFINE again(u) == Later(Repeats(RowKeys(c, u)))
           torn(u) == IF Aligned(u) THEN {g \in Classes(VectorsOf(u)) : \E p, q \in g : u.labels[p] # u.labels[q]} ELSE {}
           Broken(u) == Over(c.max_conflicting_rate, Cardinality(UNION torn(u)), Size(u))
           Many(u) == On(Over(c.max_duplicate_rate, Cardinality(again(u)), Size(u)), Fail("duplicate_rate_exceeded", 0, {}))
           A(u) == Many(u) \cup On(Broken(u), Fail("conflicting_rate_exceeded", 0, {}))
           B(u) == On(again(u) # {} /\ A(u) = {}, Warn("duplicate_rows", 0, IdsAt(u, again(u))))
           C(u) == On(torn(u) # {} /\ ~Broken(u), Warn("identical_features_different_target", 0, IdsAt(u, UNION torn(u))))
<1>1. \A u : CheckDuplicates(c, u) = Judged(A(u) \cup B(u) \cup C(u))
  <2> SUFFICES ASSUME NEW u PROVE CheckDuplicates(c, u) = Judged(A(u) \cup B(u) \cup C(u))
    OBVIOUS
  <2> DEFINE vector == [p \in Places(u) |-> Features(u, p)]
             key == [p \in Places(u) |-> IF c.include_target /\ Aligned(u) THEN <<vector[p], u.labels[p]>> ELSE <<vector[p]>>]
  <2>1. vector = VectorsOf(u) /\ key = RowKeys(c, u)
    BY DEF VectorsOf, RowKeys
  <2>2. CheckDuplicates(c, u) =
          LET repeats == {g \in Classes(key) : Cardinality(g) > 1}
              late == UNION {g \ {FirstOf(g)} : g \in repeats}
              tears == IF Aligned(u) THEN {g \in Classes(vector) : \E p, q \in g : u.labels[p] # u.labels[q]} ELSE {}
              broken == Over(c.max_conflicting_rate, Cardinality(UNION tears), Size(u))
              fails == On(Over(c.max_duplicate_rate, Cardinality(late), Size(u)), Fail("duplicate_rate_exceeded", 0, {}))
                       \cup On(broken, Fail("conflicting_rate_exceeded", 0, {}))
          IN  Judged(fails \cup On(late # {} /\ fails = {}, Warn("duplicate_rows", 0, IdsAt(u, late)))
                     \cup On(tears # {} /\ ~broken, Warn("identical_features_different_target", 0, IdsAt(u, UNION tears))))
    BY Zenon DEF CheckDuplicates
  <2> HIDE DEF vector, key
  <2> QED
    BY <2>1, <2>2, Zenon DEF Later, Repeats
<1>2. /\ DOMAIN f = Places(s) /\ s \in Table /\ t \in Table /\ OneToOne(f, Places(s), Places(t)) /\ Size(s) = Size(t)
      /\ (Aligned(s) <=> Aligned(t)) /\ \A n \in Places(s) : f[n] \in Places(t)
      /\ Aligned(t) => \A n \in Places(s) : s.labels[n] = t.labels[f[n]]
  BY CoversIs
<1>3. /\ VectorsOf(s) = Via(f, VectorsOf(t)) /\ DOMAIN VectorsOf(t) \subseteq Places(t)
      /\ RowKeys(c, s) = Via(f, RowKeys(c, t)) /\ DOMAIN RowKeys(c, t) \subseteq Places(t)
  BY VectorsFrom
<1>4. Cardinality(again(s)) = Cardinality(again(t))
  <2> DEFINE S == Repeats(RowKeys(c, s))
             T == Repeats(RowKeys(c, t))
  <2>1. UNION S = From(f, UNION T) /\ UNION T \subseteq Places(t) /\ Cardinality(S) = Cardinality(T)
    <3> DEFINE w == RowKeys(c, t)
               v == RowKeys(c, s)
    <3>1. OneToOne(f, Places(s), Places(t)) /\ v = Via(f, w) /\ DOMAIN w \subseteq Places(t)
      BY <1>2, <1>3
    <3> HIDE DEF v, w
    <3>2. /\ UNION Repeats(Via(f, w)) = From(f, UNION Repeats(w)) /\ UNION Repeats(w) \subseteq Places(t)
          /\ Cardinality(Repeats(Via(f, w))) = Cardinality(Repeats(w))
      BY <3>1, RepeatsVia, Zenon
    <3> QED
      BY <3>1, <3>2, Zenon DEF v, w
  <2>2. Cardinality(From(f, UNION T)) = Cardinality(UNION T)
    BY <1>2, <2>1, FromSize
  <2>3. \A u \in Table : LET G == Repeats(RowKeys(c, u)) IN Cardinality(Later(G)) = Cardinality(UNION G) - Cardinality(G)
    <3> SUFFICES ASSUME NEW u \in Table, NEW G, G = Repeats(RowKeys(c, u))
                 PROVE  Cardinality(Later(G)) = Cardinality(UNION G) - Cardinality(G)
      BY Zenon
    <3>1. DOMAIN RowKeys(c, u) = 1..Size(u) /\ Size(u) \in Nat
      BY TableIs DEF RowKeys
    <3>2. G \subseteq SUBSET (1..Size(u)) /\ (\A g \in G : g # {}) /\ \A g, h \in G : g # h => g \cap h = {}
      BY <3>1, RepeatsApart
    <3> QED
      BY <3>1, <3>2, LaterAre
  <2> QED
    BY <1>2, <2>1, <2>2, <2>3
<1>5. again(s) = {} <=> again(t) = {}
  <2>1. \A u \in Table : IsFiniteSet(again(u))
    <3> SUFFICES ASSUME NEW u \in Table PROVE IsFiniteSet(again(u))
      OBVIOUS
    <3>1. \A g \in Repeats(RowKeys(c, u)) : g \subseteq Places(u)
      BY RepeatsApart DEF RowKeys
    <3>2. again(u) \in SUBSET Places(u) /\ IsFiniteSet(Places(u))
      BY <3>1, TableIs DEF Later
    <3> QED
      BY <3>2, FS_Subset
  <2> HIDE DEF again
  <2> QED
    BY <1>2, <1>4, <2>1, FS_EmptySet
<1>6. torn(s) = FromEach(f, torn(t)) /\ torn(t) \subseteq SUBSET Places(t)
  <2>1. Classes(VectorsOf(s)) = FromEach(f, Classes(VectorsOf(t))) /\ Classes(VectorsOf(t)) \subseteq SUBSET Places(t)
    BY <1>2, <1>3, ClassesVia
  <2>2. CASE ~Aligned(t)
    BY <1>2, <2>2 DEF FromEach
  <2>3. CASE Aligned(t)
    <3> DEFINE Tears(u, g) == \E p, q \in g : u.labels[p] # u.labels[q]
    <3>1. \A g \in Classes(VectorsOf(t)) : Tears(s, From(f, g)) <=> Tears(t, g)
      <4> SUFFICES ASSUME NEW g \in Classes(VectorsOf(t)) PROVE Tears(s, From(f, g)) <=> Tears(t, g)
        OBVIOUS
      <4>1. g \subseteq Places(t)
        BY <2>1
      <4>2. From(f, g) \subseteq Places(s) /\ g = {f[n] : n \in From(f, g)}
        BY <1>2, <4>1, FromSize
      <4>3. \A n \in From(f, g) : s.labels[n] = t.labels[f[n]] /\ f[n] \in g
        BY <1>2, <2>3, <4>2
      <4>4. \A p \in g : \E n \in From(f, g) : f[n] = p
        BY <4>2
      <4> QED
        BY <4>3, <4>4
    <3>2. torn(s) = {g \in Classes(VectorsOf(s)) : Tears(s, g)} /\ torn(t) = {g \in Classes(VectorsOf(t)) : Tears(t, g)}
      BY <1>2, <2>3
    <3> HIDE DEF torn, Tears
    <3> QED
      BY <2>1, <3>1, <3>2 DEF FromEach
  <2> QED
    BY <2>2, <2>3
<1>7. /\ Cardinality(UNION torn(s)) = Cardinality(UNION torn(t)) /\ (torn(s) = {} <=> torn(t) = {})
      /\ IdsAt(s, UNION torn(s)) = IdsAt(t, UNION torn(t))
  <2> DEFINE G == torn(t)
             H == torn(s)
  <2>1. H = FromEach(f, G) /\ G \subseteq SUBSET Places(t)
    BY <1>6
  <2> HIDE DEF G, H
  <2>a. OneToOne(f, Places(s), Places(t)) /\ G \subseteq SUBSET Places(t)
    BY <1>2, <2>1
  <2>b. UNION FromEach(f, G) = From(f, UNION G)
    BY <2>a, EachFrom
  <2>c. UNION G \subseteq Places(t)
    BY <2>a
  <2>3. FromEach(f, G) = {} <=> G = {}
    BY EachNone
  <2> DEFINE U == UNION G
  <2>4. UNION H = From(f, U)
    BY <2>1, <2>b, Zenon
  <2>2. U \subseteq Places(t)
    BY <2>c
  <2> HIDE DEF U
  <2>5. Alike(s, t, From(f, U), U)
    BY <2>2, FromAlike
  <2> QED
    BY <2>1, <2>3, <2>4, <2>5 DEF Alike, G, H, U
<1>8. (Broken(s) <=> Broken(t)) /\ Many(s) = Many(t)
  <2> HIDE DEF again, torn
  <2>1. Broken(s) <=> Broken(t)
    BY <1>2, <1>7
  <2>2. Many(s) = Many(t)
    BY <1>2, <1>4
  <2> QED
    BY <2>1, <2>2
<1> HIDE DEF Broken, again, torn, Many
<1>9. A(s) = A(t)
  BY <1>8, Zenon DEF On
<1>10. C(s) = C(t)
  BY <1>7, <1>8, Zenon DEF On
<1> HIDE DEF A, C
<1>11. SaidOf(B(s)) = SaidOf(B(t))
  <2>1. CASE A(t) = {}
    <3>1. \A u : A(u) = {} => B(u) = On(again(u) # {}, Warn("duplicate_rows", 0, IdsAt(u, again(u))))
      BY Zenon DEF On
    <3> HIDE DEF B
    <3>2. /\ B(s) = On(again(s) # {}, Warn("duplicate_rows", 0, IdsAt(s, again(s))))
          /\ B(t) = On(again(t) # {}, Warn("duplicate_rows", 0, IdsAt(t, again(t))))
      BY <1>9, <2>1, <3>1
    <3> QED
      BY <1>5, <3>2, KindsOn
  <2>2. CASE A(t) # {}
    <3>1. B(s) = {} /\ B(t) = {}
      BY <1>9, <2>2 DEF On
    <3> QED
      BY <3>1
  <2> QED
    BY <2>1, <2>2
<1> HIDE DEF B
<1>12. SaidOf(A(s) \cup B(s) \cup C(s)) = SaidOf(A(t) \cup B(t) \cup C(t))
  <2>1. \A X, Y, Z : SaidOf(X \cup Y \cup Z) = SaidOf(X) \cup SaidOf(Y) \cup SaidOf(Z)
    BY KindsJoined
  <2>2. SaidOf(A(s) \cup B(s) \cup C(s)) = SaidOf(A(s)) \cup SaidOf(B(s)) \cup SaidOf(C(s))
    BY <2>1
  <2>3. SaidOf(A(t) \cup B(t) \cup C(t)) = SaidOf(A(t)) \cup SaidOf(B(t)) \cup SaidOf(C(t))
    BY <2>1
  <2> QED
    BY <1>9, <1>10, <1>11, <2>2, <2>3
<1> QED
  BY <1>1, <1>12, SaidJudged

LEMMA SameOverlap ==
    ASSUME NEW s, NEW t, NEW f, Covers(s, t, f), NEW u, NEW c
    PROVE  CheckSplitOverlap(c, s, u) = CheckSplitOverlap(c, t, u)
<1> DEFINE both(r) == {r.ids[p] : p \in Places(r)} \cap {u.ids[p] : p \in Places(u)}
           Hit(r, p) == \E x \in Places(r) : Features(u, p) = Features(r, x)
           hits(r) == {p \in Places(u) : Hit(r, p)}
           Torn(r, p) == \A x \in Places(r) : Features(u, p) = Features(r, x) => u.labels[p] # r.labels[x]
           torn(r) == {p \in hits(r) : Aligned(r) /\ Aligned(u) /\ Torn(r, p)}
           TooMany(n) == c.max_overlap # None /\ n > c.max_overlap
           A(b) == On(b # {}, Either(TooMany(Cardinality(b)), "sample_id_overlap", 0, b))
           B(h) == On(h # {}, Either(TooMany(Cardinality(h)), "identical_feature_vector_across_splits", 0, IdsAt(u, h)))
           C(h) == On(h # {}, Warn("identical_features_different_target_across_splits", 0, IdsAt(u, h)))
<1>1. \A r : CheckSplitOverlap(c, r, u) = Judged(A(both(r)) \cup B(hits(r)) \cup C(torn(r)))
  <2> SUFFICES ASSUME NEW r PROVE CheckSplitOverlap(c, r, u) = Judged(A(both(r)) \cup B(hits(r)) \cup C(torn(r)))
    OBVIOUS
  <2> QED
    BY Zenon DEF CheckSplitOverlap
<1>2. /\ \A n \in Places(s) : f[n] \in Places(t) /\ s.ids[n] = t.ids[f[n]] /\ Features(s, n) = Features(t, f[n])
      /\ \A p \in Places(t) : \E n \in Places(s) : f[n] = p
      /\ (Aligned(s) <=> Aligned(t)) /\ (Aligned(t) => \A n \in Places(s) : s.labels[n] = t.labels[f[n]])
  <2>1. \A p \in Places(t) : \E n \in Places(s) : f[n] = p
    BY DEF Covers
  <2>2. \A n \in Places(s) : Features(s, n) = Features(t, f[n])
    BY VectorsFrom
  <2>3. /\ \A n \in Places(s) : f[n] \in Places(t) /\ s.ids[n] = t.ids[f[n]]
        /\ (Aligned(s) <=> Aligned(t)) /\ (Aligned(t) => \A n \in Places(s) : s.labels[n] = t.labels[f[n]])
    BY CoversIs
  <2> QED
    BY <2>1, <2>2, <2>3
<1>3. both(s) = both(t)
  <2>1. {s.ids[p] : p \in Places(s)} = {t.ids[p] : p \in Places(t)}
    BY <1>2
  <2> QED
    BY <2>1
<1>4. \A p : Hit(s, p) <=> Hit(t, p)
  BY <1>2
<1>5. hits(s) = hits(t)
  <2> HIDE DEF Hit
  <2> QED
    BY <1>4
<1>6. torn(s) = torn(t)
  <2>1. CASE Aligned(t)
    <3>1. \A p : Torn(s, p) <=> Torn(t, p)
      BY <1>2, <2>1
    <3> HIDE DEF Torn, hits
    <3> QED
      BY <1>2, <1>5, <3>1
  <2>2. CASE ~Aligned(t)
    BY <1>2, <2>2
  <2> QED
    BY <2>1, <2>2
<1> HIDE DEF A, B, C, both, hits, torn
<1> QED
  BY <1>1, <1>3, <1>5, <1>6

LEMMA OrderKeysAre ==
    ASSUME NEW t \in Table, Distinct(t), NEW by, by # None
    PROVE  /\ DOMAIN OrderKeys(t, by) = IdsAt(t, InState(t, by, "NUMERIC", {"valid"}))
           /\ \A p \in InState(t, by, "NUMERIC", {"valid"}) : OrderKeys(t, by)[t.ids[p]] = Column(t, by)[p]
<1> DEFINE usable == InState(t, by, "NUMERIC", {"valid"})
           Final(i) == CHOOSE p \in usable : t.ids[p] = i /\ \A x \in usable : t.ids[x] = i => x <= p
<1>1. OrderKeys(t, by) = [i \in IdsAt(t, usable) |-> Column(t, by)[Final(i)]]
  BY DEF OrderKeys
<1>2. usable \subseteq Places(t) /\ Places(t) \subseteq Int
  BY TableIs DEF InState
<1>3. \A p \in usable : Final(t.ids[p]) = p
  <2> HIDE DEF usable
  <2> SUFFICES ASSUME NEW p \in usable PROVE Final(t.ids[p]) = p
    OBVIOUS
  <2>1. \A x \in usable : t.ids[x] = t.ids[p] => x = p
    BY <1>2 DEF Distinct
  <2>2. p \in Int
    BY <1>2
  <2>3. p \in usable /\ t.ids[p] = t.ids[p] /\ \A x \in usable : t.ids[x] = t.ids[p] => x <= p
    BY <2>1, <2>2
  <2>4. Final(t.ids[p]) \in usable /\ t.ids[Final(t.ids[p])] = t.ids[p]
    BY <2>3
  <2> QED
    BY <2>1, <2>4
<1> HIDE DEF usable, Final
<1>4. \A p \in usable : t.ids[p] \in IdsAt(t, usable)
  BY DEF IdsAt
<1> QED
  BY <1>1, <1>3, <1>4 DEF usable

LEMMA SameOrderKeys ==
    ASSUME NEW s, NEW t, NEW f, Covers(s, t, f), Distinct(t), NEW by
    PROVE  OrderKeys(s, by) = OrderKeys(t, by)
<1>1. CASE by = None
  <2>1. \A u : OrderKeys(u, by) = [i \in IdsAt(u, Places(u)) |-> i]
    BY <1>1 DEF OrderKeys
  <2>2. From(f, Places(t)) = Places(s)
    BY CoversIs DEF From
  <2>3. IdsAt(s, From(f, Places(t))) = IdsAt(t, Places(t))
    BY IdsFrom
  <2> QED
    BY <2>1, <2>2, <2>3
<1>2. CASE by # None
  <2> DEFINE S == InState(s, by, "NUMERIC", {"valid"})
             T == InState(t, by, "NUMERIC", {"valid"})
  <2>1. s \in Table /\ t \in Table /\ Embeds(s, t, f) /\ Distinct(s) /\ DOMAIN f = Places(s) /\ \A n \in Places(s) : s.ids[n] = t.ids[f[n]]
    BY CoversIs, DistinctFrom
  <2>2. /\ DOMAIN OrderKeys(s, by) = IdsAt(s, S) /\ \A p \in S : OrderKeys(s, by)[s.ids[p]] = Column(s, by)[p]
    BY <1>2, <2>1, OrderKeysAre
  <2>3. /\ DOMAIN OrderKeys(t, by) = IdsAt(t, T) /\ \A p \in T : OrderKeys(t, by)[t.ids[p]] = Column(t, by)[p]
    BY <1>2, <2>1, OrderKeysAre
  <2>4. IdsAt(s, S) = IdsAt(t, T)
    BY CellsAlike DEF Alike
  <2>5. S = From(f, T)
    BY <2>1, StatesFrom
  <2>6. \A n \in S : f[n] \in T /\ s.ids[n] = t.ids[f[n]] /\ Column(s, by)[n] = Column(t, by)[f[n]]
    BY <2>1, <2>5, ColumnFrom DEF From
  <2>7. \A u : OrderKeys(u, by) = [i \in DOMAIN OrderKeys(u, by) |-> OrderKeys(u, by)[i]]
    BY DEF OrderKeys
  <2> HIDE DEF S, T
  <2>8. \A i \in IdsAt(s, S) : OrderKeys(s, by)[i] = OrderKeys(t, by)[i]
    <3> SUFFICES ASSUME NEW n \in S PROVE OrderKeys(s, by)[s.ids[n]] = OrderKeys(t, by)[s.ids[n]]
      BY DEF IdsAt
    <3> QED
      BY <2>2, <2>3, <2>6
  <2> QED
    BY <2>2, <2>3, <2>4, <2>7, <2>8
<1> QED
  BY <1>1, <1>2

LEMMA SameTemporalOrder ==
    ASSUME NEW s, NEW t, NEW f, Covers(s, t, f), Distinct(t), NEW u, NEW c
    PROVE  CheckTemporalOrder(c, s, u) = CheckTemporalOrder(c, t, u)
<1> DEFINE Early(x, y) == IF c.allow_ties THEN x < y ELSE x <= y
           ck == OrderKeys(u, c.ordering)
           early(rk) == {i \in DOMAIN ck : \E h \in DOMAIN rk : Early(ck[i], rk[h])}
           late(rk) == {h \in DOMAIN rk : \E i \in DOMAIN ck : Early(ck[i], rk[h])}
           A(rk) == On(early(rk) # {}, Warn("comparison_rows_not_after_reference", 0, early(rk)))
           B(rk) == On(late(rk) # {}, Warn("reference_rows_not_before_comparison", 0, late(rk)))
           lost(r) == Unusable(r, c.ordering)
           C(r) == On(lost(r) # {}, Warn("unusable_ordering_key", 1, IdsAt(r, lost(r))))
           D == On(lost(u) # {}, Warn("unusable_ordering_key", 2, IdsAt(u, lost(u))))
           Shape(rk, a, b, cc) == IF DOMAIN rk = {} \/ DOMAIN ck = {} THEN Bare("INCONCLUSIVE") ELSE Judged(a \cup b \cup cc \cup D)
           KeysOf(r) == OrderKeys(r, c.ordering)
<1>1. \A r : CheckTemporalOrder(c, r, u) = Shape(KeysOf(r), A(KeysOf(r)), B(KeysOf(r)), C(r))
  <2> SUFFICES ASSUME NEW r PROVE CheckTemporalOrder(c, r, u) = Shape(KeysOf(r), A(KeysOf(r)), B(KeysOf(r)), C(r))
    OBVIOUS
  <2> QED
    BY Zenon DEF CheckTemporalOrder
<1>2. KeysOf(s) = KeysOf(t)
  BY SameOrderKeys
<1>3. C(s) = C(t)
  <2>1. CASE c.ordering = None
    BY <2>1 DEF On, Unusable
  <2>2. CASE c.ordering # None
    <3>1. Alike(s, t, lost(s), lost(t))
      BY <2>2, CellsAlike DEF Unusable
    <3> HIDE DEF lost
    <3> QED
      BY <3>1, OnAlike
  <2> QED
    BY <2>1, <2>2
<1> HIDE DEF Shape, A, B, C, KeysOf
<1> QED
  BY <1>1, <1>2, <1>3

\* What a comparison asks of a group: how many rows, which samples, which values.
ValuesOf(t, j) == {Column(t, j)[p] : p \in ValidAt(t, j)}

LEMMA SelectedAre ==
    ASSUME NEW t \in Table, NEW R \in SUBSET Places(t)
    PROVE  /\ Size(SelectRows(t, R)) = Cardinality(R) /\ IdsAt(SelectRows(t, R), Places(SelectRows(t, R))) = IdsAt(t, R)
           /\ \A j : ValuesOf(SelectRows(t, R), j) = {Column(t, j)[p] : p \in R \cap ValidAt(t, j)}
<1> DEFINE g == SelectRows(t, R)
           h == InOrder(R)
<1>1. /\ Embeds(g, t, h) /\ Size(g) = Cardinality(R)
      /\ \A p \in R : \E n \in Places(g) : h[n] = p
      /\ \A n \in Places(g) : h[n] \in R
  BY SelectEmbeds
<1> HIDE DEF g, h
<1>2. DOMAIN h = Places(g) /\ \A n \in Places(g) : g.ids[n] = t.ids[h[n]]
  BY <1>1 DEF Embeds
<1>3. IdsAt(g, Places(g)) = IdsAt(t, R)
  BY <1>1, <1>2 DEF IdsAt
<1>4. ASSUME NEW j PROVE ValuesOf(g, j) = {Column(t, j)[p] : p \in R \cap ValidAt(t, j)}
  <2>1. ValidAt(g, j) = From(h, ValidAt(t, j))
    BY <1>1, CellsFrom
  <2>2. \A n \in Places(g) : Column(g, j)[n] = Column(t, j)[h[n]]
    BY <1>1, ColumnFrom
  <2>3. \A n \in ValidAt(g, j) : h[n] \in R \cap ValidAt(t, j) /\ Column(g, j)[n] = Column(t, j)[h[n]]
    BY <1>1, <1>2, <2>1, <2>2 DEF From
  <2>4. \A p \in R \cap ValidAt(t, j) : \E n \in ValidAt(g, j) : h[n] = p
    BY <1>1, <1>2, <2>1 DEF From
  <2> QED
    BY <2>3, <2>4 DEF ValuesOf
<1> QED
  BY <1>1, <1>3, <1>4 DEF g

LEMMA SameValues ==
    ASSUME NEW s, NEW t, NEW f, Covers(s, t, f), NEW R, R \subseteq Places(t), NEW j
    PROVE  {Column(s, j)[n] : n \in From(f, R) \cap ValidAt(s, j)} = {Column(t, j)[p] : p \in R \cap ValidAt(t, j)}
<1>1. Embeds(s, t, f) /\ DOMAIN f = Places(s) /\ \A p \in Places(t) : \E n \in Places(s) : f[n] = p
  BY CoversIs DEF Covers
<1>2. ValidAt(s, j) = From(f, ValidAt(t, j))
  BY <1>1, CellsFrom
<1>3. \A n \in Places(s) : Column(s, j)[n] = Column(t, j)[f[n]]
  BY <1>1, ColumnFrom
<1>4. \A n \in From(f, R) \cap ValidAt(s, j) : f[n] \in R \cap ValidAt(t, j) /\ Column(s, j)[n] = Column(t, j)[f[n]]
  BY <1>1, <1>2, <1>3 DEF From
<1>5. \A p \in R \cap ValidAt(t, j) : \E n \in From(f, R) \cap ValidAt(s, j) : f[n] = p
  BY <1>1, <1>2 DEF From
<1> QED
  BY <1>4, <1>5

SameRows(g, h) ==
    /\ Size(g) = Size(h) /\ IdsAt(g, Places(g)) = IdsAt(h, Places(h)) /\ \A j : ValuesOf(g, j) = ValuesOf(h, j)

LEMMA SameGroup ==
    ASSUME NEW s, NEW t, NEW f, Covers(s, t, f), Distinct(t), NEW window, NEW by
    PROVE  SameRows(GroupOf(s, window, by), GroupOf(t, window, by))
<1>0. s \in Table /\ t \in Table /\ Size(s) = Size(t) /\ DOMAIN f = Places(s) /\ \A n \in Places(s) : f[n] \in Places(t) /\ s.ids[n] = t.ids[f[n]]
  BY CoversIs
<1>1. CASE window = None
  <2>1. GroupOf(s, window, by) = s /\ GroupOf(t, window, by) = t
    BY <1>1 DEF GroupOf
  <2>2. From(f, Places(t)) = Places(s)
    BY <1>0 DEF From
  <2>3. IdsAt(s, From(f, Places(t))) = IdsAt(t, Places(t))
    BY IdsFrom
  <2>4. \A u, j : ValidAt(u, j) \subseteq Places(u)
    BY DEF ValidAt, InState
  <2>5. ASSUME NEW j PROVE ValuesOf(s, j) = ValuesOf(t, j)
    <3>1. {Column(s, j)[n] : n \in From(f, Places(t)) \cap ValidAt(s, j)} = {Column(t, j)[p] : p \in Places(t) \cap ValidAt(t, j)}
      BY SameValues
    <3>2. From(f, Places(t)) \cap ValidAt(s, j) = ValidAt(s, j) /\ Places(t) \cap ValidAt(t, j) = ValidAt(t, j)
      BY <2>2, <2>4
    <3> QED
      BY <3>1, <3>2 DEF ValuesOf
  <2> QED
    BY <1>0, <2>1, <2>2, <2>3, <2>5 DEF SameRows
<1>2. CASE window # None
  <2> DEFINE key == OrderKeys(t, by)
             R(u) == {p \in Places(u) : u.ids[p] \in DOMAIN key /\ window[1] <= key[u.ids[p]] /\ key[u.ids[p]] < window[2]}
  <2>1. GroupOf(s, window, by) = SelectRows(s, R(s)) /\ GroupOf(t, window, by) = SelectRows(t, R(t))
    <3>1. OrderKeys(s, by) = key
      BY SameOrderKeys
    <3> HIDE DEF key
    <3>2. GroupOf(s, window, by) = SelectRows(s, R(s))
      BY <1>2, <3>1, Zenon DEF GroupOf
    <3> QED
      BY <1>2, <3>2, Zenon DEF GroupOf, key
  <2>2. R(s) = From(f, R(t)) /\ R(t) \subseteq Places(t) /\ R(s) \subseteq Places(s)
    <3> DEFINE Inside(i) == i \in DOMAIN key /\ window[1] <= key[i] /\ key[i] < window[2]
    <3>1. R(s) = {p \in Places(s) : Inside(s.ids[p])} /\ R(t) = {p \in Places(t) : Inside(t.ids[p])}
      OBVIOUS
    <3> HIDE DEF Inside, R, key
    <3> QED
      BY <1>0, <3>1 DEF From
  <2> HIDE DEF R
  <2>3. Cardinality(R(s)) = Cardinality(R(t))
    BY <2>2, CoversIs, FromSize
  <2>4. IdsAt(s, R(s)) = IdsAt(t, R(t))
    BY <2>2, IdsFrom
  <2>5. \A j : {Column(s, j)[n] : n \in R(s) \cap ValidAt(s, j)} = {Column(t, j)[p] : p \in R(t) \cap ValidAt(t, j)}
    BY <2>2, SameValues
  <2>6. /\ Size(SelectRows(s, R(s))) = Cardinality(R(s)) /\ IdsAt(SelectRows(s, R(s)), Places(SelectRows(s, R(s)))) = IdsAt(s, R(s))
        /\ \A j : ValuesOf(SelectRows(s, R(s)), j) = {Column(s, j)[n] : n \in R(s) \cap ValidAt(s, j)}
    BY <1>0, <2>2, SelectedAre
  <2>7. /\ Size(SelectRows(t, R(t))) = Cardinality(R(t)) /\ IdsAt(SelectRows(t, R(t)), Places(SelectRows(t, R(t)))) = IdsAt(t, R(t))
        /\ \A j : ValuesOf(SelectRows(t, R(t)), j) = {Column(t, j)[p] : p \in R(t) \cap ValidAt(t, j)}
    BY <1>0, <2>2, SelectedAre
  <2> QED
    BY <2>1, <2>3, <2>4, <2>5, <2>6, <2>7 DEF SameRows
<1> QED
  BY <1>1, <1>2

LEMMA SameGroups ==
    ASSUME NEW s, NEW t, NEW f, Covers(s, t, f), Distinct(t), NEW u, NEW c
    PROVE  CheckGroupComparison(c, s, u) = CheckGroupComparison(c, t, u)
<1> DEFINE ref(r) == GroupOf(r, c.windows[1], c.ordering)
           cmp == GroupOf(u, c.windows[2], c.ordering)
           Shared(ids) == c.same_split /\ ids \cap IdsAt(cmp, Places(cmp)) # {}
           Enough(n) == n >= quality.min_members /\ Size(cmp) >= quality.min_members
           new(r) == {j \in ChosenOf({"CATEGORICAL", "BOOLEAN"}) : ValuesOf(cmp, j) \ ValuesOf(ref(r), j) # {}}
           Shape(ids, n, news) ==
               IF Shared(ids) \/ n = 0 \/ Size(cmp) = 0 THEN Bare("INCONCLUSIVE")
               ELSE JudgedIf({Warn("observed_new_category", j, {}) : j \in IF "categories" \in c.aspects THEN news ELSE {}},
                             Enough(n) \/ ("categories" \in c.aspects /\ news # {}))
<1>1. \A r : CheckGroupComparison(c, r, u) = Shape(IdsAt(ref(r), Places(ref(r))), Size(ref(r)), new(r))
  <2> SUFFICES ASSUME NEW r PROVE CheckGroupComparison(c, r, u) = Shape(IdsAt(ref(r), Places(ref(r))), Size(ref(r)), new(r))
    OBVIOUS
  <2> QED
    BY Zenon DEF CheckGroupComparison, ValuesOf
<1>2. SameRows(ref(s), ref(t))
  BY SameGroup
<1> HIDE DEF ref, Shape, cmp
<1>3. new(s) = new(t)
  BY <1>2 DEF SameRows
<1> HIDE DEF new
<1> QED
  BY <1>1, <1>2, <1>3 DEF SameRows

(***************************************************************************)
(* In another order, the same is found: check by check.                    *)
(***************************************************************************)

LEMMA TablesAre ==
    ASSUME WellAsked
    PROVE  /\ quality.tables \in Seq(Table) /\ DOMAIN quality.tables = 1..Len(quality.tables)
           /\ Len(quality.tables) = (IF quality.check \in PairCheckName THEN 2 ELSE 1)
           /\ First \in Table /\ Second \in Table /\ quality.tables[1] = First /\ 1 \in DOMAIN quality.tables
           /\ quality.check \in PairCheckName => Second = quality.tables[2] /\ 2 \in DOMAIN quality.tables
<1>1. quality.tables \in Seq(Table) /\ Len(quality.tables) = (IF quality.check \in PairCheckName THEN 2 ELSE 1)
  BY QualityAsked DEF WellAsked
<1>2. DOMAIN quality.tables = 1..Len(quality.tables)
  BY <1>1
<1>3. First \in Table /\ Second \in Table
  BY <1>1 DEF First, Second
<1> QED
  BY <1>1, <1>2, <1>3 DEF First, Second

LEMMA InPlaceOfFirst ==
    ASSUME WellAsked, NEW s
    PROVE  /\ [quality.tables EXCEPT ![1] = s][1] = s
           /\ quality.check \in PairCheckName => [quality.tables EXCEPT ![1] = s][2] = Second
BY TablesAre

LEMMA SameOfRows ==
    ASSUME NEW s, NEW t, Size(s) = Size(t), NEW r, NEW q, Said(r) = Said(q)
    PROVE  Said(OfRows(s, r)) = Said(OfRows(t, q))
BY Zenon DEF OfRows

LEMMA RowOrder ==
    ASSUME WellAsked, OnWhole = OutcomeOf(quality.tables)
    PROVE  RowOrderIrrelevant
<1> SUFFICES ASSUME AllDistinct, NEW f \in Orders(First)
             PROVE  Said(OutcomeOf([quality.tables EXCEPT ![1] = Shuffled(First, f)])) = Said(OutcomeOf(quality.tables))
  BY DEF RowOrderIrrelevant
<1> DEFINE s == Shuffled(First, f)
           t == First
           c == quality.config
           T == [quality.tables EXCEPT ![1] = Shuffled(First, f)]
<1>1. Covers(s, t, f)
  BY TablesAre, ShuffledCovers
<1>2. Distinct(t)
  BY TablesAre, ServedOnce DEF AllDistinct
<1>3. Size(s) = Size(t)
  BY <1>1, CoversIs
<1>4. T[1] = s /\ quality.tables[1] = t
  BY InPlaceOfFirst, TablesAre
<1>5. quality.check \in PairCheckName => T[2] = Second /\ quality.tables[2] = Second
  BY InPlaceOfFirst, TablesAre
<1>6. quality.check \in CheckName \cup PairCheckName
  BY QualityAsked DEF WellAsked
<1> HIDE DEF s, t, c, T
<1>7. /\ quality.check = "schema" => OutcomeOf(T) = CheckSchema(c, s) /\ OutcomeOf(quality.tables) = CheckSchema(c, t)
      /\ quality.check = "sample_count" =>
             OutcomeOf(T) = CheckSampleCount(c, s) /\ OutcomeOf(quality.tables) = CheckSampleCount(c, t)
  BY <1>4, OutcomeIs, Zenon DEF c
<1>8. CASE quality.check \in {"schema", "sample_count"}
  <2>1. CheckSchema(c, s) = CheckSchema(c, t) /\ CheckSampleCount(c, s) = CheckSampleCount(c, t)
    BY <1>1, <1>2, SameSchema, SameSampleCount
  <2> QED
    BY <1>7, <1>8, <2>1 DEF T
<1>9. CASE quality.check \in CheckName \ {"schema", "sample_count"}
  <2> DEFINE Same(name, r, q) ==
                 quality.check = name =>
                     OutcomeOf(T) = OfRows(s, r) /\ OutcomeOf(quality.tables) = OfRows(t, q) /\ Said(r) = Said(q)
  <2>1. ASSUME NEW name, NEW r, NEW q, Same(name, r, q), quality.check = name
        PROVE  Said(OutcomeOf(T)) = Said(OutcomeOf(quality.tables))
    BY <1>3, <2>1, SameOfRows
  <2>2. Same("missingness", CheckMissingness(c, s), CheckMissingness(c, t))
    BY <1>1, <1>4, OutcomeIs, SameMissingness, Zenon DEF c
  <2>3. Same("duplicates", CheckDuplicates(c, s), CheckDuplicates(c, t))
    BY <1>1, <1>4, OutcomeIs, SameDuplicates, Zenon DEF c
  <2>4. Same("identifiers", CheckIdentifiers(c, s), CheckIdentifiers(c, t))
    BY <1>1, <1>2, <1>4, OutcomeIs, SameIdentifiers, Zenon DEF c
  <2>5. CheckNumeric(c, s) = CheckNumeric(c, t) /\ CheckCategorical(c, s) = CheckCategorical(c, t)
        /\ CheckDistribution(c, s) = CheckDistribution(c, t)
    BY <1>1, SameFeatures
  <2>6. Same("numeric", CheckNumeric(c, s), CheckNumeric(c, t))
    BY <1>4, <2>5, OutcomeIs, Zenon DEF c
  <2>7. Same("categorical", CheckCategorical(c, s), CheckCategorical(c, t))
    BY <1>4, <2>5, OutcomeIs, Zenon DEF c
  <2>8. Same("distribution", CheckDistribution(c, s), CheckDistribution(c, t))
    BY <1>4, <2>5, OutcomeIs, Zenon DEF c
  <2>9. Same("target", CheckTarget(c, s), CheckTarget(c, t))
    BY <1>1, <1>4, OutcomeIs, SameTarget, Zenon DEF c
  <2>10. Same("target_leakage", CheckTargetLeakage(c, s), CheckTargetLeakage(c, t))
    BY <1>1, <1>2, <1>4, OutcomeIs, SameTargetLeakage, Zenon DEF c
  <2> HIDE DEF Same
  <2>11. \/ quality.check = "missingness" \/ quality.check = "duplicates" \/ quality.check = "identifiers"
         \/ quality.check = "numeric" \/ quality.check = "categorical" \/ quality.check = "distribution"
         \/ quality.check = "target" \/ quality.check = "target_leakage"
    BY <1>9 DEF CheckName
  <2>12. Said(OutcomeOf(T)) = Said(OutcomeOf(quality.tables))
    BY <2>1, <2>2, <2>3, <2>4, <2>6, <2>7, <2>8, <2>9, <2>10, <2>11, Zenon
  <2> QED
    BY <2>12 DEF T
<1>10. CASE quality.check \in PairCheckName
  <2>1. /\ quality.check = "split_overlap" => /\ OutcomeOf(T) = CheckSplitOverlap(c, s, Second)
                                              /\ OutcomeOf(quality.tables) = CheckSplitOverlap(c, t, Second)
        /\ quality.check = "temporal_order" => /\ OutcomeOf(T) = CheckTemporalOrder(c, s, Second)
                                               /\ OutcomeOf(quality.tables) = CheckTemporalOrder(c, t, Second)
        /\ quality.check = "group_comparison" => /\ OutcomeOf(T) = CheckGroupComparison(c, s, Second)
                                                 /\ OutcomeOf(quality.tables) = CheckGroupComparison(c, t, Second)
    BY <1>4, <1>5, <1>10, OutcomeIs, Zenon DEF c
  <2>2. CheckSplitOverlap(c, s, Second) = CheckSplitOverlap(c, t, Second)
    BY <1>1, SameOverlap
  <2>3. CheckTemporalOrder(c, s, Second) = CheckTemporalOrder(c, t, Second)
    BY <1>1, <1>2, SameTemporalOrder
  <2>4. CheckGroupComparison(c, s, Second) = CheckGroupComparison(c, t, Second)
    BY <1>1, <1>2, SameGroups
  <2>5. quality.check = "split_overlap" \/ quality.check = "temporal_order" \/ quality.check = "group_comparison"
    BY <1>10 DEF PairCheckName
  <2> QED
    BY <2>1, <2>2, <2>3, <2>4, <2>5, Zenon DEF T
<1> QED
  BY <1>6, <1>8, <1>9, <1>10

(***************************************************************************)
(* On a slice, the samples of the slice are at fault that are on the split.*)
(***************************************************************************)

\* s has the rows of t whose sample is in I.
Slices(s, t, f, I) ==
    /\ Embeds(s, t, f)
    /\ \A p \in Places(t) : t.ids[p] \in I => \E n \in Places(s) : f[n] = p
    /\ \A n \in Places(s) : t.ids[f[n]] \in I

FaultIn(V, rule, j) == UNION {v.ids : v \in {w \in V : w.rule = rule /\ w.subject = j}}
Agree(V, W, I) == \A rule \in SampleRules : \A j : FaultIn(V, rule, j) = FaultIn(W, rule, j) \cap I
Harmless(V) == \A v \in V : v.rule \notin SampleRules

LEMMA FaultJoin ==
    ASSUME NEW V, NEW W, NEW rule, NEW j
    PROVE  FaultIn(V \cup W, rule, j) = FaultIn(V, rule, j) \cup FaultIn(W, rule, j)
  BY DEF FaultIn

LEMMA AgreeJoin ==
    ASSUME NEW I, NEW V, NEW W, NEW V2, NEW W2, Agree(V, W, I), Agree(V2, W2, I)
    PROVE  Agree(V \cup V2, W \cup W2, I)
<1> SUFFICES ASSUME NEW rule \in SampleRules, NEW j
             PROVE  FaultIn(V \cup V2, rule, j) = FaultIn(W \cup W2, rule, j) \cap I
  BY DEF Agree
<1>1. FaultIn(V, rule, j) = FaultIn(W, rule, j) \cap I /\ FaultIn(V2, rule, j) = FaultIn(W2, rule, j) \cap I
  BY DEF Agree
<1> DEFINE A == V \cup V2
           B == W \cup W2
<1>2. FaultIn(A, rule, j) = FaultIn(V, rule, j) \cup FaultIn(V2, rule, j)
  BY FaultJoin
<1>3. FaultIn(B, rule, j) = FaultIn(W, rule, j) \cup FaultIn(W2, rule, j)
  BY FaultJoin
<1> HIDE DEF A, B
<1>4. FaultIn(A, rule, j) = FaultIn(B, rule, j) \cap I
  BY <1>1, <1>2, <1>3
<1> QED
  BY <1>4 DEF A, B

LEMMA HarmlessAgree ==
    ASSUME NEW I, NEW V, NEW W, Harmless(V), Harmless(W)
    PROVE  Agree(V, W, I)
<1> SUFFICES ASSUME NEW rule \in SampleRules, NEW j
             PROVE  FaultIn(V, rule, j) = {} /\ FaultIn(W, rule, j) = {}
  BY DEF Agree
<1> QED
  BY DEF FaultIn, Harmless

LEMMA HarmlessJoin ==
    ASSUME NEW V, NEW W, Harmless(V), Harmless(W)
    PROVE  Harmless(V \cup W)
  BY DEF Harmless

LEMMA HarmlessOn ==
    ASSUME NEW condition, NEW rule, rule \notin SampleRules, NEW j, NEW ids
    PROVE  Harmless(On(condition, Fail(rule, j, ids))) /\ Harmless(On(condition, Warn(rule, j, ids))) /\ Harmless({})
  BY DEF Harmless, On, Fail, Warn

LEMMA IdsSliced ==
    ASSUME NEW s, NEW t, NEW f, NEW I, Slices(s, t, f, I), NEW U, U \subseteq Places(t)
    PROVE  IdsAt(s, From(f, U)) = IdsAt(t, U) \cap I
<1>1. /\ DOMAIN f = Places(s) /\ \A n \in Places(s) : s.ids[n] = t.ids[f[n]] /\ t.ids[f[n]] \in I
      /\ \A p \in Places(t) : t.ids[p] \in I => \E n \in Places(s) : f[n] = p
  BY DEF Slices, Embeds
<1>2. ASSUME NEW p \in U, t.ids[p] \in I PROVE \E n \in From(f, U) : s.ids[n] = t.ids[p]
  BY <1>1, <1>2 DEF From
<1>3. ASSUME NEW n \in From(f, U) PROVE s.ids[n] \in I /\ \E p \in U : s.ids[n] = t.ids[p]
  BY <1>1 DEF From
<1> QED
  BY <1>2, <1>3 DEF IdsAt

LEMMA FaultOn ==
    ASSUME NEW t, NEW U, NEW rule, NEW j, NEW q, NEW k
    PROVE  /\ FaultIn(On(U # {}, Fail(rule, j, IdsAt(t, U))), q, k) = IF q = rule /\ k = j THEN IdsAt(t, U) ELSE {}
           /\ FaultIn(On(U # {}, Warn(rule, j, IdsAt(t, U))), q, k) = IF q = rule /\ k = j THEN IdsAt(t, U) ELSE {}
<1>1. U = {} => IdsAt(t, U) = {}
  BY DEF IdsAt
<1> DEFINE ids == IdsAt(t, U)
<1> HIDE DEF ids
<1>2. FaultIn({Fail(rule, j, ids)}, q, k) = IF q = rule /\ k = j THEN ids ELSE {}
  <2> DEFINE v == Fail(rule, j, ids)
  <2>1. v.rule = rule /\ v.subject = j /\ v.ids = ids
    BY DEF Fail
  <2> HIDE DEF v
  <2>2. {w \in {v} : w.rule = q /\ w.subject = k} = IF q = rule /\ k = j THEN {v} ELSE {}
    BY <2>1
  <2>3. CASE q = rule /\ k = j
    <3>1. FaultIn({v}, q, k) = UNION {w.ids : w \in {v}}
      BY <2>2, <2>3 DEF FaultIn
    <3> QED
      BY <2>1, <2>3, <3>1 DEF v
  <2>4. CASE ~(q = rule /\ k = j)
    <3>1. FaultIn({v}, q, k) = UNION {w.ids : w \in {}}
      BY <2>2, <2>4 DEF FaultIn
    <3> QED
      BY <2>4, <3>1 DEF v
  <2> QED
    BY <2>3, <2>4
<1>3. FaultIn({Warn(rule, j, ids)}, q, k) = IF q = rule /\ k = j THEN ids ELSE {}
  <2> DEFINE v == Warn(rule, j, ids)
  <2>1. v.rule = rule /\ v.subject = j /\ v.ids = ids
    BY DEF Warn
  <2> HIDE DEF v
  <2>2. {w \in {v} : w.rule = q /\ w.subject = k} = IF q = rule /\ k = j THEN {v} ELSE {}
    BY <2>1
  <2>3. CASE q = rule /\ k = j
    <3>1. FaultIn({v}, q, k) = UNION {w.ids : w \in {v}}
      BY <2>2, <2>3 DEF FaultIn
    <3> QED
      BY <2>1, <2>3, <3>1 DEF v
  <2>4. CASE ~(q = rule /\ k = j)
    <3>1. FaultIn({v}, q, k) = UNION {w.ids : w \in {}}
      BY <2>2, <2>4 DEF FaultIn
    <3> QED
      BY <2>4, <3>1 DEF v
  <2> QED
    BY <2>3, <2>4
<1>4. FaultIn({}, q, k) = {}
  BY DEF FaultIn
<1> QED
  BY <1>1, <1>2, <1>3, <1>4 DEF On, ids

\* A violation of the samples at some places agrees.
LEMMA AgreeOn ==
    ASSUME NEW s, NEW t, NEW f, NEW I, Slices(s, t, f, I), NEW S, NEW U, U \subseteq Places(t), S = From(f, U), NEW rule, NEW j
    PROVE  /\ Agree(On(S # {}, Fail(rule, j, IdsAt(s, S))), On(U # {}, Fail(rule, j, IdsAt(t, U))), I)
           /\ Agree(On(S # {}, Warn(rule, j, IdsAt(s, S))), On(U # {}, Warn(rule, j, IdsAt(t, U))), I)
<1>1. IdsAt(s, S) = IdsAt(t, U) \cap I
  BY IdsSliced
<1>2. ASSUME NEW q, NEW k
      PROVE  /\ FaultIn(On(S # {}, Fail(rule, j, IdsAt(s, S))), q, k) = FaultIn(On(U # {}, Fail(rule, j, IdsAt(t, U))), q, k) \cap I
             /\ FaultIn(On(S # {}, Warn(rule, j, IdsAt(s, S))), q, k) = FaultIn(On(U # {}, Warn(rule, j, IdsAt(t, U))), q, k) \cap I
  BY <1>1, FaultOn
<1> QED
  BY <1>2, Zenon DEF Agree

\* What agrees for each feature agrees for them together.
LEMMA AgreeEach ==
    ASSUME NEW I, NEW J, NEW p, NEW q, DOMAIN p = J, DOMAIN q = J, \A j \in J : Agree(p[j].violations, q[j].violations, I)
    PROVE  Agree(Together(p).violations, Together(q).violations, I)
<1> SUFFICES ASSUME NEW rule \in SampleRules, NEW k
             PROVE  FaultIn(Together(p).violations, rule, k) = FaultIn(Together(q).violations, rule, k) \cap I
  BY DEF Agree
<1>1. \A r : DOMAIN r = J => Together(r).violations = UNION {r[j].violations : j \in J}
  BY DEF Together
<1>2. \A r : DOMAIN r = J => FaultIn(Together(r).violations, rule, k) = UNION {FaultIn(r[j].violations, rule, k) : j \in J}
  <2> SUFFICES ASSUME NEW r, DOMAIN r = J
               PROVE  FaultIn(UNION {r[j].violations : j \in J}, rule, k) = UNION {FaultIn(r[j].violations, rule, k) : j \in J}
    BY <1>1
  <2> QED
    BY DEF FaultIn
<1>3. \A j \in J : FaultIn(p[j].violations, rule, k) = FaultIn(q[j].violations, rule, k) \cap I
  BY DEF Agree
<1> QED
  BY <1>2, <1>3

LEMMA SlicesIs ==
    ASSUME NEW s, NEW t, NEW f, NEW I, Slices(s, t, f, I)
    PROVE  /\ Embeds(s, t, f) /\ s \in Table /\ t \in Table /\ (Aligned(s) <=> Aligned(t))
           /\ DOMAIN f = Places(s) /\ \A n \in Places(s) : f[n] \in Places(t) /\ t.ids[f[n]] \in I /\ s.ids[n] = t.ids[f[n]]
           /\ Aligned(t) => \A n \in Places(s) : s.labels[n] = t.labels[f[n]]
  BY DEF Slices, Embeds

LEMMA ValidSliced ==
    ASSUME NEW s, NEW t, NEW f, Embeds(s, t, f), NEW j
    PROVE  /\ ValidOf(s, j) = Via(f, ValidOf(t, j)) /\ DOMAIN ValidOf(t, j) = ValidAt(t, j) /\ ValidAt(t, j) \subseteq Places(t)
           /\ DOMAIN ValidOf(s, j) = ValidAt(s, j)
<1>1. ValidAt(s, j) = From(f, ValidAt(t, j)) /\ ValidAt(t, j) \subseteq Places(t)
  BY CellsFrom
<1>2. ValuesAt(s, j, From(f, ValidAt(t, j))) = Via(f, ValuesAt(t, j, ValidAt(t, j)))
      /\ DOMAIN ValuesAt(t, j, ValidAt(t, j)) = ValidAt(t, j)
  BY <1>1, ValuesFrom
<1>3. DOMAIN ValuesAt(s, j, ValidAt(s, j)) = ValidAt(s, j)
  BY DEF ValuesAt
<1> QED
  BY <1>1, <1>2, <1>3 DEF ValidOf

LEMMA PlacesSliced ==
    ASSUME NEW f, NEW w, NEW X
    PROVE  PlacesIn(Via(f, w), X) = From(f, PlacesIn(w, X))
  BY DEF PlacesIn, Via, From

LEMMA NumericSliced ==
    ASSUME NEW s, NEW t, NEW f, NEW I, Slices(s, t, f, I), NEW c, NEW j
    PROVE  Agree(NumericFeature(c, s, j).violations, NumericFeature(c, t, j).violations, I)
<1> DEFINE n(u) == Cardinality(ValidAt(u, j))
           A(u) == On(Invalid(u, j) # {}, Fail("invalid_type", j, IdsAt(u, Invalid(u, j))))
           B(u) == On(InState(u, j, "NUMERIC", {"nonfinite"}) # {},
                      Warn("nonfinite_values", j, IdsAt(u, InState(u, j, "NUMERIC", {"nonfinite"}))))
           C(u) == On(Cardinality(DOMAIN CountOf(ValidOf(u, j))) = 1, Warn("constant_feature", j, {}))
           Near(u) == On(Cardinality(DOMAIN CountOf(ValidOf(u, j))) > 1 /\ 100 * Most(CountOf(ValidOf(u, j))) >= c.near_constant * n(u),
                      Warn("near_constant_feature", j, {}))
           D(u) == On(c.min_variance # None /\ n(u) > 1 /\ SquareSum(ValidOf(u, j)) < c.min_variance * n(u) * n(u) * (n(u) - 1),
                      Fail("variance_below_minimum", j, {}))
           Outside(u) == {p \in DOMAIN ValidOf(u, j) : (c.low # None /\ ValidOf(u, j)[p] < c.low) \/ (c.high # None /\ ValidOf(u, j)[p] > c.high)}
           E(u) == On(Outside(u) # {}, Fail("outside_bounds", j, IdsAt(u, Outside(u))))
           F(u) == On(Over(c.max_outlier_rate, Cardinality(Outliers(ValidOf(u, j), c.method, c.k)), n(u)),
                      Fail("outlier_rate_exceeded", j, IdsAt(u, Outliers(ValidOf(u, j), c.method, c.k))))
           H(u) == IF n(u) = 0 THEN {} ELSE ((C(u) \cup Near(u)) \cup D(u)) \cup F(u)
<1>1. \A u : NumericFeature(c, u, j) = IF n(u) = 0 THEN JudgedIf(A(u) \cup B(u), FALSE)
                                       ELSE Judged(A(u) \cup B(u) \cup C(u) \cup Near(u) \cup D(u) \cup E(u) \cup F(u))
  <2> SUFFICES ASSUME NEW u
               PROVE  NumericFeature(c, u, j) = IF n(u) = 0 THEN JudgedIf(A(u) \cup B(u), FALSE)
                                                ELSE Judged(A(u) \cup B(u) \cup C(u) \cup Near(u) \cup D(u) \cup E(u) \cup F(u))
    OBVIOUS
  <2> QED
    BY Zenon DEF NumericFeature, ValidOf
<1>2. ASSUME NEW u \in Table, DOMAIN ValidOf(u, j) = ValidAt(u, j), ValidAt(u, j) \subseteq Places(u)
      PROVE  NumericFeature(c, u, j).violations = ((A(u) \cup B(u)) \cup E(u)) \cup H(u)
  <2>1. CASE n(u) = 0
    <3>1. IsFiniteSet(ValidAt(u, j))
      <4>1. ValidAt(u, j) \in SUBSET Places(u)
        BY <1>2
      <4> QED
        BY <4>1, TableIs, FS_Subset
    <3>2. ValidAt(u, j) = {}
      BY <2>1, <3>1, FS_EmptySet
    <3>3. Outside(u) = {}
      BY <1>2, <3>2
    <3>4. E(u) = {}
      <4> HIDE DEF Outside
      <4> QED
        BY <3>3 DEF On
    <3>5. H(u) = {}
      BY <2>1
    <3>6. NumericFeature(c, u, j) = JudgedIf(A(u) \cup B(u), FALSE)
      BY <1>1, <2>1
    <3> HIDE DEF A, B, E, H, n
    <3> QED
      BY <3>4, <3>5, <3>6 DEF JudgedIf
  <2>2. CASE n(u) # 0
    <3>1. H(u) = ((C(u) \cup Near(u)) \cup D(u)) \cup F(u)
      BY <2>2
    <3>2. NumericFeature(c, u, j) = Judged(A(u) \cup B(u) \cup C(u) \cup Near(u) \cup D(u) \cup E(u) \cup F(u))
      BY <1>1, <2>2
    <3> HIDE DEF A, B, C, Near, D, E, F, H, n
    <3>3. NumericFeature(c, u, j).violations = A(u) \cup B(u) \cup C(u) \cup Near(u) \cup D(u) \cup E(u) \cup F(u)
      BY <3>2 DEF Judged
    <3> QED
      BY <3>1, <3>3
  <2> QED
    BY <2>1, <2>2
<1>3. \A u : Harmless(H(u))
  <2> SUFFICES ASSUME NEW u PROVE Harmless(H(u))
    OBVIOUS
  <2>1. /\ "constant_feature" \notin SampleRules /\ "near_constant_feature" \notin SampleRules
        /\ "variance_below_minimum" \notin SampleRules /\ "outlier_rate_exceeded" \notin SampleRules
    BY DEF SampleRules
  <2>2. Harmless(C(u)) /\ Harmless(Near(u))
    BY <2>1, HarmlessOn, Zenon
  <2>3. Harmless(D(u)) /\ Harmless(F(u)) /\ Harmless({})
    BY <2>1, HarmlessOn, Zenon
  <2> HIDE DEF C, Near, D, F, n
  <2>4. Harmless(C(u) \cup Near(u))
    BY <2>2, HarmlessJoin
  <2>5. Harmless((C(u) \cup Near(u)) \cup D(u))
    BY <2>3, <2>4, HarmlessJoin
  <2>6. Harmless(((C(u) \cup Near(u)) \cup D(u)) \cup F(u))
    BY <2>3, <2>5, HarmlessJoin
  <2> QED
    BY <2>3, <2>6
<1>4. Embeds(s, t, f) /\ s \in Table /\ t \in Table
  BY SlicesIs
<1>5. /\ ValidOf(s, j) = Via(f, ValidOf(t, j)) /\ DOMAIN ValidOf(t, j) = ValidAt(t, j) /\ ValidAt(t, j) \subseteq Places(t)
      /\ DOMAIN ValidOf(s, j) = ValidAt(s, j)
  BY <1>4, ValidSliced
<1>6. ValidAt(s, j) \subseteq Places(s)
  BY DEF ValidAt, InState
<1>7. Agree(A(s), A(t), I)
  <2>1. Invalid(s, j) = From(f, Invalid(t, j)) /\ Invalid(t, j) \subseteq Places(t)
    BY <1>4, CellsFrom
  <2> QED
    BY <2>1, AgreeOn
<1>8. Agree(B(s), B(t), I)
  <2> DEFINE K(u) == InState(u, j, "NUMERIC", {"nonfinite"})
  <2>1. K(s) = From(f, K(t)) /\ K(t) \subseteq Places(t)
    BY <1>4, StatesFrom
  <2> HIDE DEF K
  <2>2. Agree(On(K(s) # {}, Warn("nonfinite_values", j, IdsAt(s, K(s)))), On(K(t) # {}, Warn("nonfinite_values", j, IdsAt(t, K(t)))), I)
    BY <2>1, AgreeOn
  <2> QED
    BY <2>2 DEF K
<1>9. Agree(E(s), E(t), I)
  <2>1. Outside(s) = From(f, Outside(t))
    <3>1. \A k \in DOMAIN ValidOf(s, j) : f[k] \in DOMAIN ValidOf(t, j) /\ ValidOf(s, j)[k] = ValidOf(t, j)[f[k]]
      BY <1>5 DEF Via, From
    <3>2. \A k \in DOMAIN f : f[k] \in DOMAIN ValidOf(t, j) => k \in DOMAIN ValidOf(s, j)
      BY <1>5 DEF Via, From
    <3>3. DOMAIN ValidOf(s, j) \subseteq DOMAIN f
      BY <1>5 DEF Via, From
    <3> QED
      BY <3>1, <3>2, <3>3 DEF From
  <2>2. Outside(t) \subseteq Places(t)
    BY <1>5
  <2> HIDE DEF Outside
  <2> QED
    BY <2>1, <2>2, AgreeOn
<1>10. NumericFeature(c, s, j).violations = ((A(s) \cup B(s)) \cup E(s)) \cup H(s)
  BY <1>2, <1>4, <1>5, <1>6
<1>11. NumericFeature(c, t, j).violations = ((A(t) \cup B(t)) \cup E(t)) \cup H(t)
  BY <1>2, <1>4, <1>5, <1>6
<1> HIDE DEF A, B, E, H, n
<1>12. Agree(H(s), H(t), I)
  BY <1>3, HarmlessAgree
<1>13. Agree(A(s) \cup B(s), A(t) \cup B(t), I)
  BY <1>7, <1>8, AgreeJoin
<1>14. Agree((A(s) \cup B(s)) \cup E(s), (A(t) \cup B(t)) \cup E(t), I)
  BY <1>9, <1>13, AgreeJoin
<1>15. Agree(((A(s) \cup B(s)) \cup E(s)) \cup H(s), ((A(t) \cup B(t)) \cup E(t)) \cup H(t), I)
  BY <1>12, <1>14, AgreeJoin
<1> QED
  BY <1>10, <1>11, <1>15

LEMMA CategoricalSliced ==
    ASSUME NEW s, NEW t, NEW f, NEW I, Slices(s, t, f, I), NEW c, NEW j
    PROVE  Agree(CategoricalFeature(c, s, j).violations, CategoricalFeature(c, t, j).violations, I)
<1> DEFINE A(u) == On(Bad(u, j) # {}, Fail("invalid_type", j, IdsAt(u, Bad(u, j))))
           Foreign(u) == {p \in DOMAIN ValidOf(u, j) : c.allowed # None /\ ValidOf(u, j)[p] \notin c.allowed}
           B(u) == On(Foreign(u) # {}, Fail("invalid_category", j, IdsAt(u, Foreign(u))))
           C(u) == On(c.max_cardinality # None /\ Cardinality({ValidOf(u, j)[p] : p \in DOMAIN ValidOf(u, j)}) > c.max_cardinality,
                      Fail("cardinality_exceeded", j, {}))
<1>1. \A u : CategoricalFeature(c, u, j) = JudgedIf(A(u) \cup B(u) \cup C(u), ValidAt(u, j) # {})
  BY Zenon DEF CategoricalFeature, ValidOf
<1>2. Embeds(s, t, f) /\ s \in Table /\ t \in Table
  BY SlicesIs
<1>3. /\ ValidOf(s, j) = Via(f, ValidOf(t, j)) /\ DOMAIN ValidOf(t, j) = ValidAt(t, j) /\ ValidAt(t, j) \subseteq Places(t)
  BY <1>2, ValidSliced
<1>4. Agree(A(s), A(t), I)
  <2>1. Bad(s, j) = From(f, Bad(t, j)) /\ Bad(t, j) \subseteq Places(t)
    BY <1>2, CellsFrom
  <2> QED
    BY <2>1, AgreeOn
<1>5. Agree(B(s), B(t), I)
  <2>1. Foreign(s) = From(f, Foreign(t))
    <3>1. \A k \in DOMAIN ValidOf(s, j) : f[k] \in DOMAIN ValidOf(t, j) /\ ValidOf(s, j)[k] = ValidOf(t, j)[f[k]]
      BY <1>3 DEF Via, From
    <3>2. \A k \in DOMAIN f : f[k] \in DOMAIN ValidOf(t, j) => k \in DOMAIN ValidOf(s, j)
      BY <1>3 DEF Via, From
    <3>3. DOMAIN ValidOf(s, j) \subseteq DOMAIN f
      BY <1>3 DEF Via, From
    <3> QED
      BY <3>1, <3>2, <3>3 DEF From
  <2>2. Foreign(t) \subseteq Places(t)
    BY <1>3
  <2> HIDE DEF Foreign
  <2> QED
    BY <2>1, <2>2, AgreeOn
<1>6. Agree(C(s), C(t), I)
  <2>1. "cardinality_exceeded" \notin SampleRules
    BY DEF SampleRules
  <2>2. Harmless(C(s)) /\ Harmless(C(t))
    BY <2>1, HarmlessOn, Zenon
  <2> HIDE DEF C
  <2> QED
    BY <2>2, HarmlessAgree
<1> HIDE DEF A, B, C
<1>7. Agree(A(s) \cup B(s), A(t) \cup B(t), I)
  BY <1>4, <1>5, AgreeJoin
<1>8. Agree((A(s) \cup B(s)) \cup C(s), (A(t) \cup B(t)) \cup C(t), I)
  BY <1>6, <1>7, AgreeJoin
<1>9. ASSUME NEW u PROVE CategoricalFeature(c, u, j).violations = (A(u) \cup B(u)) \cup C(u)
  <2>1. CategoricalFeature(c, u, j) = JudgedIf((A(u) \cup B(u)) \cup C(u), ValidAt(u, j) # {})
    BY <1>1
  <2> QED
    BY <2>1 DEF JudgedIf
<1> QED
  BY <1>8, <1>9

LEMMA TargetsSliced ==
    ASSUME NEW s, NEW t, NEW f, NEW I, Slices(s, t, f, I), Aligned(t)
    PROVE  /\ WithoutLabel(s) = From(f, WithoutLabel(t)) /\ WithoutLabel(t) \subseteq Places(t)
           /\ \A x : TargetsAt(s, x) = From(f, TargetsAt(t, x)) /\ TargetsAt(t, x) \subseteq Places(t)
           /\ ClassesOf(s) = Via(f, ClassesOf(t)) /\ DOMAIN ClassesOf(t) \subseteq Places(t)
<1>1. /\ DOMAIN f = Places(s) /\ \A n \in Places(s) : f[n] \in Places(t) /\ t.ids[f[n]] \in I
      /\ \A n \in Places(s) : s.ids[n] = t.ids[f[n]] /\ s.labels[n] = t.labels[f[n]]
  BY SlicesIs
<1>2. WithoutLabel(s) = From(f, WithoutLabel(t)) /\ WithoutLabel(t) \subseteq Places(t)
  BY <1>1 DEF WithoutLabel, From
<1>3. IdsAt(s, WithoutLabel(s)) = IdsAt(t, WithoutLabel(t)) \cap I
  BY <1>2, IdsSliced
<1>4. WithTarget(s) = From(f, WithTarget(t)) /\ WithTarget(t) \subseteq Places(t)
  <2> DEFINE X == IdsAt(t, WithoutLabel(t))
  <2>1. WithTarget(s) = {p \in Places(s) : s.ids[p] \notin X \cap I} /\ WithTarget(t) = {p \in Places(t) : t.ids[p] \notin X}
    BY <1>3 DEF WithTarget
  <2> HIDE DEF X
  <2> QED
    BY <1>1, <2>1 DEF From
<1>5. \A x : TargetsAt(s, x) = From(f, TargetsAt(t, x)) /\ TargetsAt(t, x) \subseteq Places(t)
  <2>1. \A n : n \in WithTarget(s) <=> n \in Places(s) /\ f[n] \in WithTarget(t)
    BY <1>1, <1>4 DEF From
  <2> QED
    BY <1>1, <1>4, <2>1 DEF TargetsAt, From
<1>6. ClassesOf(s) = Via(f, ClassesOf(t)) /\ DOMAIN ClassesOf(t) \subseteq Places(t)
  <2> DEFINE X == IdsAt(t, TargetsAt(t, Infinite))
             K == {x \in WithTarget(t) : t.ids[x] \notin X}
             L == {x \in WithTarget(s) : s.ids[x] \notin X \cap I}
  <2>1. IdsAt(s, TargetsAt(s, Infinite)) = X \cap I
    <3>1. TargetsAt(s, Infinite) = From(f, TargetsAt(t, Infinite)) /\ TargetsAt(t, Infinite) \subseteq Places(t)
      BY <1>5
    <3> QED
      BY <3>1, IdsSliced
  <2>2. ClassesOf(s) = [p \in L |-> s.labels[p]] /\ ClassesOf(t) = [p \in K |-> t.labels[p]]
    BY <2>1 DEF ClassesOf
  <2> HIDE DEF X
  <2>3. L = From(f, K) /\ K \subseteq Places(t)
    BY <1>1, <1>4 DEF From
  <2>4. DOMAIN ClassesOf(t) = K
    BY <2>2
  <2>5. \A n \in L : s.labels[n] = ClassesOf(t)[f[n]]
    BY <1>1, <1>4, <2>2, <2>3 DEF From
  <2> HIDE DEF K, L
  <2>6. Via(f, ClassesOf(t)) = [n \in L |-> ClassesOf(t)[f[n]]]
    BY <2>3, <2>4 DEF Via
  <2> QED
    BY <2>2, <2>3, <2>4, <2>5, <2>6
<1> QED
  BY <1>2, <1>5, <1>6

\* The samples of a class that is not allowed.
Outsiders(c, w) == {p \in DOMAIN w : c.allowed # None /\ w[p] \notin c.allowed}

LEMMA OutsidersSliced ==
    ASSUME NEW c, NEW f, NEW w
    PROVE  Outsiders(c, Via(f, w)) = From(f, Outsiders(c, w))
  BY DEF Outsiders, Via, From

LEMMA ClassesSliced ==
    ASSUME NEW s, NEW t, NEW f, NEW I, Slices(s, t, f, I), Aligned(t), NEW c
    PROVE  Agree(ClassTargets(c, s), ClassTargets(c, t), I)
<1> DEFINE class(u) == ClassesOf(u)
           count(u) == CountOf(class(u))
           Having(u, classes) == {p \in DOMAIN class(u) : class(u)[p] \in classes}
           foreign(u) == {x \in DOMAIN count(u) : c.allowed # None /\ x \notin c.allowed}
           single(u) == {x \in DOMAIN count(u) : count(u)[x] = 1}
           few(u) == {x \in DOMAIN count(u) : c.min_class_count # None /\ count(u)[x] < c.min_class_count}
           thin(u) == {x \in DOMAIN count(u) : c.min_class_share # None /\ 100 * count(u)[x] < c.min_class_share * Cardinality(DOMAIN class(u))}
           A(u) == On(TargetsAt(u, Word) # {} /\ TargetsAt(u, Word) # WithTarget(u), Fail("inconsistent_target_types", 0, {}))
           B(u) == On(TargetsAt(u, Infinite) # {}, Fail("nonfinite_target", 0, IdsAt(u, TargetsAt(u, Infinite))))
           C(u) == On(foreign(u) # {}, Fail("invalid_target_value", 0, IdsAt(u, Having(u, foreign(u)))))
           D(u) == On(single(u) # {}, Warn("singleton_class", 0, IdsAt(u, Having(u, single(u)))))
           E(u) == On(few(u) # {}, Fail("class_below_min_count", 0, IdsAt(u, Having(u, few(u)))))
           F(u) == On(thin(u) # {}, Fail("class_below_min_proportion", 0, IdsAt(u, Having(u, thin(u)))))
<1>1. \A u : ClassTargets(c, u) = ((((A(u) \cup B(u)) \cup C(u)) \cup D(u)) \cup E(u)) \cup F(u)
  BY Zenon DEF ClassTargets
<1>2. /\ "inconsistent_target_types" \notin SampleRules /\ "singleton_class" \notin SampleRules
      /\ "class_below_min_count" \notin SampleRules /\ "class_below_min_proportion" \notin SampleRules
  BY DEF SampleRules
<1>3. \A u : Harmless(A(u)) /\ Harmless(D(u)) /\ Harmless(E(u)) /\ Harmless(F(u))
  BY <1>2, HarmlessOn, Zenon
<1>4. Agree(B(s), B(t), I)
  <2>1. TargetsAt(s, Infinite) = From(f, TargetsAt(t, Infinite)) /\ TargetsAt(t, Infinite) \subseteq Places(t)
    BY TargetsSliced
  <2> QED
    BY <2>1, AgreeOn
<1>5. Agree(C(s), C(t), I)
  <2>1. \A u : DOMAIN count(u) = {class(u)[p] : p \in DOMAIN class(u)}
    BY DEF CountOf
  <2>2. ASSUME NEW u
        PROVE  Having(u, foreign(u)) = Outsiders(c, class(u)) /\ (foreign(u) # {} <=> Outsiders(c, class(u)) # {})
    <3> HIDE DEF class, count
    <3>1. \A x : x \in foreign(u) <=> (\E p \in DOMAIN class(u) : x = class(u)[p]) /\ c.allowed # None /\ x \notin c.allowed
      <4> SUFFICES ASSUME NEW x
                   PROVE  x \in foreign(u) <=> (\E p \in DOMAIN class(u) : x = class(u)[p]) /\ c.allowed # None /\ x \notin c.allowed
        OBVIOUS
      <4>1. x \in DOMAIN count(u) <=> \E p \in DOMAIN class(u) : x = class(u)[p]
        BY <2>1
      <4> QED
        BY <4>1
    <3>2. Having(u, foreign(u)) = Outsiders(c, class(u))
      BY <3>1 DEF Outsiders
    <3>3. foreign(u) # {} <=> Outsiders(c, class(u)) # {}
      BY <3>1 DEF Outsiders
    <3> QED
      BY <3>2, <3>3
  <2>3. \A u : C(u) = On(Outsiders(c, class(u)) # {}, Fail("invalid_target_value", 0, IdsAt(u, Outsiders(c, class(u)))))
    <3> HIDE DEF Having, foreign, class
    <3> QED
      BY <2>2, Zenon DEF On
  <2>4. class(s) = Via(f, class(t)) /\ DOMAIN class(t) \subseteq Places(t)
    BY TargetsSliced
  <2>5. Outsiders(c, class(s)) = From(f, Outsiders(c, class(t))) /\ Outsiders(c, class(t)) \subseteq Places(t)
    <3>1. Outsiders(c, class(t)) \subseteq DOMAIN class(t)
      BY DEF Outsiders
    <3> HIDE DEF class
    <3> QED
      BY <2>4, <3>1, OutsidersSliced
  <2>6. Agree(On(Outsiders(c, class(s)) # {}, Fail("invalid_target_value", 0, IdsAt(s, Outsiders(c, class(s))))),
              On(Outsiders(c, class(t)) # {}, Fail("invalid_target_value", 0, IdsAt(t, Outsiders(c, class(t))))), I)
    <3> HIDE DEF class
    <3> QED
      BY <2>5, AgreeOn
  <2> HIDE DEF C, class
  <2> QED
    BY <2>3, <2>6
<1> HIDE DEF A, B, C, D, E, F
<1>6. Agree(A(s), A(t), I) /\ Agree(D(s), D(t), I) /\ Agree(E(s), E(t), I) /\ Agree(F(s), F(t), I)
  BY <1>3, HarmlessAgree
<1>7. Agree((A(s) \cup B(s)) \cup C(s), (A(t) \cup B(t)) \cup C(t), I)
  <2>1. Agree(A(s) \cup B(s), A(t) \cup B(t), I)
    BY <1>4, <1>6, AgreeJoin
  <2> QED
    BY <1>5, <2>1, AgreeJoin
<1>8. Agree(((A(s) \cup B(s)) \cup C(s)) \cup D(s), ((A(t) \cup B(t)) \cup C(t)) \cup D(t), I)
  BY <1>6, <1>7, AgreeJoin
<1>9. Agree((((A(s) \cup B(s)) \cup C(s)) \cup D(s)) \cup E(s), (((A(t) \cup B(t)) \cup C(t)) \cup D(t)) \cup E(t), I)
  BY <1>6, <1>8, AgreeJoin
<1>10. Agree(((((A(s) \cup B(s)) \cup C(s)) \cup D(s)) \cup E(s)) \cup F(s), ((((A(t) \cup B(t)) \cup C(t)) \cup D(t)) \cup E(t)) \cup F(t), I)
  BY <1>6, <1>9, AgreeJoin
<1> QED
  BY <1>1, <1>10

LEMMA TargetSliced ==
    ASSUME NEW s, NEW t, NEW f, NEW I, Slices(s, t, f, I), NEW c
    PROVE  Agree(CheckTarget(c, s).violations, CheckTarget(c, t).violations, I)
<1>0. Aligned(s) <=> Aligned(t)
  BY SlicesIs
<1>1. CASE ~Aligned(t)
  <2>1. CheckTarget(c, s).violations = {} /\ CheckTarget(c, t).violations = {}
    BY <1>0, <1>1 DEF CheckTarget, Bare
  <2>2. Harmless({})
    BY DEF Harmless
  <2> QED
    BY <2>1, <2>2, HarmlessAgree
<1>2. CASE Aligned(t)
  <2> DEFINE A(u) == On(WithoutLabel(u) # {}, Warn("missing_targets", 0, IdsAt(u, WithoutLabel(u))))
             B(u) == On(Over(c.max_missing_rate, Cardinality(WithoutLabel(u)), Size(u)), Fail("missing_target_rate_exceeded", 0, {}))
             C(u) == On(TargetsAt(u, Word) # {}, Fail("non_numeric_target", 0, IdsAt(u, TargetsAt(u, Word))))
             D(u) == On(TargetsAt(u, Infinite) # {}, Warn("nonfinite_target", 0, IdsAt(u, TargetsAt(u, Infinite))))
  <2>1. \A u : MissingTargets(c, u) = A(u) \cup B(u) /\ NumberTargets(u) = C(u) \cup D(u)
    BY Zenon DEF MissingTargets, NumberTargets
  <2>2. Agree(A(s), A(t), I)
    <3>1. WithoutLabel(s) = From(f, WithoutLabel(t)) /\ WithoutLabel(t) \subseteq Places(t)
      BY <1>2, TargetsSliced
    <3> QED
      BY <3>1, AgreeOn
  <2>3. Agree(B(s), B(t), I)
    <3>1. "missing_target_rate_exceeded" \notin SampleRules
      BY DEF SampleRules
    <3>2. Harmless(B(s)) /\ Harmless(B(t))
      BY <3>1, HarmlessOn, Zenon
    <3> HIDE DEF B
    <3> QED
      BY <3>2, HarmlessAgree
  <2>4. \A x : TargetsAt(s, x) = From(f, TargetsAt(t, x)) /\ TargetsAt(t, x) \subseteq Places(t)
    BY <1>2, TargetsSliced
  <2>5. Agree(C(s), C(t), I)
    BY <2>4, AgreeOn
  <2>6. Agree(D(s), D(t), I)
    BY <2>4, AgreeOn
  <2> HIDE DEF A, B, C, D
  <2>7. Agree(MissingTargets(c, s), MissingTargets(c, t), I)
    BY <2>1, <2>2, <2>3, AgreeJoin
  <2>8. Agree(NumberTargets(s), NumberTargets(t), I)
    BY <2>1, <2>5, <2>6, AgreeJoin
  <2>9. Agree(ClassTargets(c, s), ClassTargets(c, t), I)
    BY <1>2, ClassesSliced
  <2>10. \A u : Aligned(u) => CheckTarget(c, u).violations = IF quality.task = "CLASSIFICATION"
                                                             THEN MissingTargets(c, u) \cup ClassTargets(c, u)
                                                             ELSE MissingTargets(c, u) \cup NumberTargets(u)
    BY DEF CheckTarget, JudgedIf
  <2>11. Agree(MissingTargets(c, s) \cup ClassTargets(c, s), MissingTargets(c, t) \cup ClassTargets(c, t), I)
    BY <2>7, <2>9, AgreeJoin
  <2>12. Agree(MissingTargets(c, s) \cup NumberTargets(s), MissingTargets(c, t) \cup NumberTargets(t), I)
    BY <2>7, <2>8, AgreeJoin
  <2> QED
    BY <1>0, <1>2, <2>10, <2>11, <2>12
<1> QED
  BY <1>1, <1>2

LEMMA HarmlessChecks ==
    ASSUME NEW c, NEW u
    PROVE  Harmless(CheckMissingness(c, u).violations) /\ Harmless(CheckDuplicates(c, u).violations)
           /\ Harmless(CheckDistribution(c, u).violations)
<1>0. /\ \A V : Judged(V).violations = V
      /\ "feature_missing_rate_exceeded" \notin SampleRules /\ "row_missing_rate_exceeded" \notin SampleRules
      /\ "duplicate_rate_exceeded" \notin SampleRules /\ "conflicting_rate_exceeded" \notin SampleRules
      /\ "duplicate_rows" \notin SampleRules /\ "identical_features_different_target" \notin SampleRules
      /\ "skew_exceeds_configured" \notin SampleRules /\ "dominant_value" \notin SampleRules
      /\ "few_distinct_values" \notin SampleRules
  BY DEF Judged, SampleRules
<1>1. Harmless(CheckMissingness(c, u).violations)
  <2> DEFINE X == {x \in Chosen : Over(c.max_feature_rate, Cardinality(Absent(u, x)), Size(u))}
             late == {p \in Places(u) : Over(c.max_row_rate, Cardinality({j \in Chosen : p \in Absent(u, j)}), Cardinality(Chosen))}
             A == {Fail("feature_missing_rate_exceeded", j, {}) : j \in X}
             B == On(late # {}, Fail("row_missing_rate_exceeded", 0, IdsAt(u, late)))
  <2>1. CheckMissingness(c, u) = Judged(A \cup B)
    BY Zenon DEF CheckMissingness
  <2> HIDE DEF X, late
  <2>2. Harmless(A)
    BY <1>0 DEF Harmless, Fail
  <2>3. Harmless(B)
    BY <1>0, HarmlessOn
  <2> HIDE DEF A, B
  <2>4. Harmless(A \cup B)
    BY <2>2, <2>3, HarmlessJoin
  <2> QED
    BY <1>0, <2>1, <2>4
<1>2. Harmless(CheckDuplicates(c, u).violations)
  <2>1. \A condition, ids : /\ Harmless(On(condition, Fail("duplicate_rate_exceeded", 0, ids)))
                            /\ Harmless(On(condition, Fail("conflicting_rate_exceeded", 0, ids)))
    BY <1>0, HarmlessOn, Zenon
  <2>2. \A condition, ids : /\ Harmless(On(condition, Warn("duplicate_rows", 0, ids)))
                            /\ Harmless(On(condition, Warn("identical_features_different_target", 0, ids)))
    BY <1>0, HarmlessOn, Zenon
  <2>3. \A V, W : Harmless(V) /\ Harmless(W) => Harmless(V \cup W)
    BY HarmlessJoin
  <2>4. \A V : Harmless(V) => Harmless(Judged(V).violations)
    BY <1>0
  <2> QED
    BY <2>1, <2>2, <2>3, <2>4, Zenon DEF CheckDuplicates
<1>3. ASSUME NEW j PROVE Harmless(DistributionFeature(c, u, j).violations)
  <2> DEFINE value == ValuesAt(u, j, ValidAt(u, j))
             count == CountOf(value)
             A == On(KindOf(j) = "NUMERIC" /\ c.max_abs_skew # None /\ Skewed(value, c.max_abs_skew), Warn("skew_exceeds_configured", j, {}))
             B == On(Over(c.max_modal_fraction, Most(count), Cardinality(DOMAIN value)), Warn("dominant_value", j, {}))
             C == On(c.min_unique # None /\ Cardinality(DOMAIN count) < c.min_unique, Warn("few_distinct_values", j, {}))
  <2>1. DistributionFeature(c, u, j) = IF value = <<>> THEN Bare("INCONCLUSIVE") ELSE Judged((A \cup B) \cup C)
    BY Zenon DEF DistributionFeature
  <2>2. Harmless(A) /\ Harmless(B) /\ Harmless(C)
    BY <1>0, HarmlessOn, Zenon
  <2> HIDE DEF A, B, C
  <2>3. Harmless(A \cup B)
    BY <2>2, HarmlessJoin
  <2>4. Harmless((A \cup B) \cup C)
    BY <2>2, <2>3, HarmlessJoin
  <2>5. Harmless(Bare("INCONCLUSIVE").violations)
    BY DEF Harmless, Bare
  <2> QED
    BY <1>0, <2>1, <2>4, <2>5
<1>4. Harmless(CheckDistribution(c, u).violations)
  <2> DEFINE per == [j \in Chosen |-> DistributionFeature(c, u, j)]
  <2>1. CheckDistribution(c, u).violations = UNION {per[j].violations : j \in DOMAIN per}
    BY DEF CheckDistribution, Together
  <2>2. \A j \in DOMAIN per : Harmless(per[j].violations)
    BY <1>3
  <2> HIDE DEF per
  <2> QED
    BY <2>1, <2>2 DEF Harmless
<1> QED
  BY <1>1, <1>2, <1>4

IsResult(r) == r = [status |-> r.status, violations |-> r.violations]

LEMMA SliceableOutcome ==
    ASSUME quality.check \in SLICEABLE, NEW s, NEW t, NEW f, NEW I, Slices(s, t, f, I), Size(s) # 0, Size(t) # 0,
           NEW S, NEW U, S[1] = s, U[1] = t
    PROVE  /\ Agree(OutcomeOf(S).violations, OutcomeOf(U).violations, I)
           /\ IsResult(OutcomeOf(S))
<1> DEFINE c == quality.config
<1>1. \A r : OfRows(s, r) = r /\ OfRows(t, r) = r
  BY DEF OfRows
<1>2. /\ quality.check = "missingness" => OutcomeOf(S) = CheckMissingness(c, s) /\ OutcomeOf(U) = CheckMissingness(c, t)
      /\ quality.check = "duplicates" => OutcomeOf(S) = CheckDuplicates(c, s) /\ OutcomeOf(U) = CheckDuplicates(c, t)
      /\ quality.check = "numeric" => OutcomeOf(S) = CheckNumeric(c, s) /\ OutcomeOf(U) = CheckNumeric(c, t)
      /\ quality.check = "categorical" => OutcomeOf(S) = CheckCategorical(c, s) /\ OutcomeOf(U) = CheckCategorical(c, t)
      /\ quality.check = "target" => OutcomeOf(S) = CheckTarget(c, s) /\ OutcomeOf(U) = CheckTarget(c, t)
      /\ quality.check = "distribution" => OutcomeOf(S) = CheckDistribution(c, s) /\ OutcomeOf(U) = CheckDistribution(c, t)
  BY <1>1, OutcomeIs, Zenon
<1> HIDE DEF c
<1>3. /\ Agree(CheckMissingness(c, s).violations, CheckMissingness(c, t).violations, I)
      /\ Agree(CheckDuplicates(c, s).violations, CheckDuplicates(c, t).violations, I)
      /\ Agree(CheckDistribution(c, s).violations, CheckDistribution(c, t).violations, I)
  BY HarmlessChecks, HarmlessAgree
<1>4. Agree(CheckTarget(c, s).violations, CheckTarget(c, t).violations, I)
  BY TargetSliced
<1>5. Agree(CheckNumeric(c, s).violations, CheckNumeric(c, t).violations, I)
  <2> DEFINE J == ChosenOf({"NUMERIC"})
             p == [j \in J |-> NumericFeature(c, s, j)]
             q == [j \in J |-> NumericFeature(c, t, j)]
  <2>1. \A j \in J : Agree(p[j].violations, q[j].violations, I)
    BY NumericSliced
  <2>2. DOMAIN p = J /\ DOMAIN q = J /\ CheckNumeric(c, s) = Together(p) /\ CheckNumeric(c, t) = Together(q)
    BY Zenon DEF CheckNumeric
  <2> HIDE DEF p, q, J
  <2> QED
    BY <2>1, <2>2, AgreeEach
<1>6. Agree(CheckCategorical(c, s).violations, CheckCategorical(c, t).violations, I)
  <2> DEFINE J == ChosenOf({"CATEGORICAL", "BOOLEAN"})
             p == [j \in J |-> CategoricalFeature(c, s, j)]
             q == [j \in J |-> CategoricalFeature(c, t, j)]
  <2>1. \A j \in J : Agree(p[j].violations, q[j].violations, I)
    BY CategoricalSliced
  <2>2. DOMAIN p = J /\ DOMAIN q = J /\ CheckCategorical(c, s) = Together(p) /\ CheckCategorical(c, t) = Together(q)
    BY Zenon DEF CheckCategorical
  <2> HIDE DEF p, q, J
  <2> QED
    BY <2>1, <2>2, AgreeEach
<1>7. \/ quality.check = "missingness" \/ quality.check = "duplicates" \/ quality.check = "numeric"
      \/ quality.check = "categorical" \/ quality.check = "target" \/ quality.check = "distribution"
  BY DEF SLICEABLE
<1>8. Agree(OutcomeOf(S).violations, OutcomeOf(U).violations, I)
  BY <1>2, <1>3, <1>4, <1>5, <1>6, <1>7, Zenon
<1>9. /\ \A any : IsResult(Judged(any))
      /\ \A any, e : IsResult(JudgedIf(any, e))
      /\ \A x : IsResult(Bare(x))
      /\ \A per : IsResult(Together(per))
  <2>1. \A V : IsResult(Judged(V))
    BY DEF IsResult, Judged
  <2>2. \A V, e : IsResult(JudgedIf(V, e))
    BY DEF IsResult, JudgedIf
  <2>3. \A x : IsResult(Bare(x))
    BY DEF IsResult, Bare
  <2>4. \A p : IsResult(Together(p))
    BY DEF IsResult, Together
  <2> QED
    BY <2>1, <2>2, <2>3, <2>4
<1>10. /\ IsResult(CheckMissingness(c, s)) /\ IsResult(CheckDuplicates(c, s)) /\ IsResult(CheckTarget(c, s))
       /\ IsResult(CheckNumeric(c, s)) /\ IsResult(CheckCategorical(c, s)) /\ IsResult(CheckDistribution(c, s))
  <2>1. IsResult(CheckMissingness(c, s))
    BY <1>9, Zenon DEF CheckMissingness
  <2>2. IsResult(CheckDuplicates(c, s))
    BY <1>9, Zenon DEF CheckDuplicates
  <2>3. IsResult(CheckTarget(c, s))
    BY <1>9, Zenon DEF CheckTarget
  <2>4. IsResult(CheckNumeric(c, s)) /\ IsResult(CheckCategorical(c, s)) /\ IsResult(CheckDistribution(c, s))
    BY <1>9, Zenon DEF CheckNumeric, CheckCategorical, CheckDistribution
  <2> QED
    BY <2>1, <2>2, <2>3, <2>4
<1>11. IsResult(OutcomeOf(S))
  BY <1>2, <1>7, <1>10, Zenon
<1> QED
  BY <1>8, <1>11

\* The rows of a slice, in a table whose samples are distinct.
SlicePlaces(t) == {p \in Places(t) : t.ids[p] \in quality.slice.ids}

LEMMA SliceRows ==
    ASSUME NEW t \in Table, Withheld(t) = None
    PROVE  /\ Slices(SliceOf(t), t, InOrder(SlicePlaces(t)), quality.slice.ids)
           /\ Size(SliceOf(t)) = Cardinality(quality.slice.ids \cap IdsAt(t, Places(t)))
           /\ Size(SliceOf(t)) # 0 /\ Size(t) # 0
<1> DEFINE I == quality.slice.ids
           R == SlicePlaces(t)
           H == I \cap IdsAt(t, Places(t))
           g == [p \in R |-> t.ids[p]]
<1>1. Distinct(t) /\ H # {}
  <2>1. ServedTwice(t) = {} /\ ~(quality.slice.ids \cap IdsAt(t, Places(t)) = {})
    BY QualityAssumption DEF Withheld
  <2> QED
    BY <2>1, ServedOnce
<1>2. SliceOf(t) = SelectRows(t, R)
  BY DEF SliceOf, SlicePlaces
<1>3. R \in SUBSET Places(t) /\ \A p \in Places(t) : p \in R <=> t.ids[p] \in I
  BY DEF SlicePlaces
<1>4. IsFiniteSet(R) /\ IsFiniteSet(Places(t)) /\ Cardinality(Places(t)) = Size(t) /\ Size(t) \in Nat
  BY <1>3, TableIs, FS_Subset
<1> HIDE DEF R, I
<1>5. /\ Embeds(SelectRows(t, R), t, InOrder(R)) /\ Size(SelectRows(t, R)) = Cardinality(R)
      /\ \A p \in R : \E n \in Places(SelectRows(t, R)) : InOrder(R)[n] = p
      /\ \A n \in Places(SelectRows(t, R)) : InOrder(R)[n] \in R
  BY <1>3, SelectEmbeds
<1>6. Slices(SliceOf(t), t, InOrder(R), I)
  BY <1>2, <1>3, <1>5 DEF Slices
<1>7. H = {t.ids[p] : p \in R}
  BY <1>3 DEF IdsAt
<1>8. Cardinality(H) = Cardinality(R)
  <2>1. \A p \in R : g[p] = t.ids[p] /\ p \in Places(t)
    BY <1>3
  <2>2. g \in [R -> H]
    BY <1>7
  <2>3. \A p, q \in R : g[p] = g[q] => p = q
    BY <1>1, <2>1 DEF Distinct
  <2>4. \A i \in H : \E p \in R : g[p] = i
    BY <1>7
  <2> HIDE DEF g, H
  <2>5. g \in Bijection(R, H)
    BY <2>2, <2>3, <2>4 DEF Bijection, Injection, IsInjective, Surjection
  <2>6. ExistsBijection(R, H)
    BY <2>5 DEF ExistsBijection
  <2> QED
    BY <1>4, <2>6, FS_Bijection
<1>9. Cardinality(R) # 0
  <2>1. R # {}
    BY <1>1, <1>7
  <2> QED
    BY <1>4, <2>1, FS_EmptySet
<1>10. Size(t) # 0
  <2>1. Places(t) # {}
    BY <1>3, <1>9, <1>1, <1>7
  <2> QED
    BY <1>4, <2>1, FS_EmptySet
<1> QED
  BY <1>2, <1>5, <1>6, <1>8, <1>9, <1>10 DEF I, R

LEMMA SliceAgreed ==
    ASSUME WellAsked, finding = Results
    PROVE  SliceAgrees
<1> DEFINE t == First
           s == SliceOf(First)
           I == quality.slice.ids
           r == OutcomeOf(<<SliceOf(First)>>)
           w == OutcomeOf(quality.tables)
           n == Cardinality(quality.slice.ids \cap IdsAt(First, Places(First)))
<1> SUFFICES ASSUME quality.slice # None, quality.check \in SLICEABLE, Withheld(First) = None
             PROVE  /\ \A rule \in SampleRules, j \in 0..Columns :
                          AtFault(finding.slice, rule, j) = AtFault(OnWhole, rule, j) \cap I
                    /\ n < quality.min_members => finding.slice.status \notin {"PASS", "WARNING"}
  BY DEF SliceAgrees
<1>1. t \in Table /\ quality.tables[1] = t
  BY TablesAre
<1>2. Slices(s, t, InOrder(SlicePlaces(t)), I) /\ Size(s) = n /\ Size(s) # 0 /\ Size(t) # 0
  BY <1>1, SliceRows
<1>3. finding.slice = SliceOutcome(t) /\ OnWhole = w
  BY <1>1 DEF Results, OnWhole
<1>4. SliceOutcome(t) = IF Size(s) < quality.min_members /\ r.status \in {"PASS", "WARNING"}
                        THEN [r EXCEPT !.status = "INCONCLUSIVE"] ELSE r
  BY DEF SliceOutcome
<1>5. Agree(r.violations, w.violations, I) /\ IsResult(r)
  <2> DEFINE S == <<s>>
  <2>1. S[1] = s /\ r = OutcomeOf(S)
    OBVIOUS
  <2> HIDE DEF S, s, t, I, r
  <2>2. Agree(OutcomeOf(S).violations, OutcomeOf(quality.tables).violations, I) /\ IsResult(OutcomeOf(S))
    BY <1>1, <1>2, <2>1, SliceableOutcome
  <2> QED
    BY <2>1, <2>2
<1> HIDE DEF r, w, s, t, I, n
<1>6. r = [status |-> r.status, violations |-> r.violations]
  BY <1>5 DEF IsResult
<1>7. finding.slice.violations = r.violations
  BY <1>3, <1>4, <1>6
<1>8. ASSUME n < quality.min_members PROVE finding.slice.status \notin {"PASS", "WARNING"}
  BY <1>2, <1>3, <1>4, <1>6, <1>8
<1>9. ASSUME NEW rule \in SampleRules, NEW j PROVE AtFault(finding.slice, rule, j) = AtFault(OnWhole, rule, j) \cap I
  <2>1. FaultIn(r.violations, rule, j) = FaultIn(w.violations, rule, j) \cap I
    BY <1>5 DEF Agree
  <2>2. \A q : AtFault(q, rule, j) = FaultIn(q.violations, rule, j)
    BY DEF AtFault, FaultIn
  <2> QED
    BY <1>3, <1>7, <2>1, <2>2
<1> QED
  BY <1>8, <1>9

(***************************************************************************)
(* What single checks promise.                                             *)
(***************************************************************************)

LEMMA PassIs ==
    ASSUME NEW V
    PROVE  Judged(V).status = "PASS" <=> V = {}
<1>1. V = {} => Fails(V) = {}
  BY DEF Fails
<1>2. Judged(V).status = StatusOf(V)
  BY DEF Judged
<1> QED
  BY <1>1, <1>2 DEF StatusOf

LEMMA MostStay ==
    ASSUME WellAsked
    PROVE  MostAreNoOutliers
<1> SUFFICES ASSUME quality.check = "numeric", quality.config.k >= 2, NEW j \in ChosenOf({"NUMERIC"})
             PROVE  LET value == ValuesAt(First, j, ValidAt(First, j))
                    IN  2 * Cardinality(Outliers(value, quality.config.method, quality.config.k)) <= Cardinality(ValidAt(First, j))
  BY DEF MostAreNoOutliers
<1> DEFINE D == ValidAt(First, j)
           w == ValuesAt(First, j, D)
<1>1. j \in Nat \ {0} /\ KindOf(j) = "NUMERIC" /\ quality.config.k \in Nat /\ First \in Table
  <2>1. j \in Chosen /\ KindOf(j) \in {"NUMERIC"}
    BY ChosenPositive
  <2>2. j \in Nat \ {0}
    BY <2>1, ChosenPositive
  <2>3. quality.config.k \in Nat
    BY QualityAsked DEF WellAsked
  <2> QED
    BY <2>1, <2>2, <2>3, TablesAre
<1>2. w \in [D -> Int]
  BY <1>1, ValidInts
<1>3. IsFiniteSet(D)
  <2>1. D \in SUBSET Places(First)
    BY DEF ValidAt, InState
  <2> QED
    BY <1>1, <2>1, TableIs, FS_Subset
<1> HIDE DEF w, D
<1>4. 2 * Cardinality(Outliers(w, quality.config.method, quality.config.k)) <= Cardinality(D)
  BY <1>1, <1>2, <1>3, OutliersAreFew
<1> QED
  BY <1>4 DEF w, D

\* Two splits that share neither a sample nor a row.
Disjoint(t, u) ==
    /\ {t.ids[p] : p \in Places(t)} \cap {u.ids[p] : p \in Places(u)} = {}
    /\ \A p \in Places(u), x \in Places(t) : Features(u, p) # Features(t, x)

LEMMA OverlapPasses ==
    ASSUME NEW t, NEW u, NEW c
    PROVE  CheckSplitOverlap(c, t, u).status = "PASS" <=> Disjoint(t, u)
<1> DEFINE both == {t.ids[p] : p \in Places(t)} \cap {u.ids[p] : p \in Places(u)}
           hits == {p \in Places(u) : \E x \in Places(t) : Features(u, p) = Features(t, x)}
           torn == {p \in hits : /\ Aligned(t) /\ Aligned(u)
                                 /\ \A x \in Places(t) : Features(u, p) = Features(t, x) => u.labels[p] # t.labels[x]}
           TooMany(n) == c.max_overlap # None /\ n > c.max_overlap
           A == On(both # {}, Either(TooMany(Cardinality(both)), "sample_id_overlap", 0, both))
           B == On(hits # {}, Either(TooMany(Cardinality(hits)), "identical_feature_vector_across_splits", 0, IdsAt(u, hits)))
           C == On(torn # {}, Warn("identical_features_different_target_across_splits", 0, IdsAt(u, torn)))
<1>1. CheckSplitOverlap(c, t, u) = Judged((A \cup B) \cup C)
  BY Zenon DEF CheckSplitOverlap
<1>2. torn \subseteq hits
  OBVIOUS
<1>3. Disjoint(t, u) <=> both = {} /\ hits = {}
  <2>1. hits = {} <=> \A p \in Places(u), x \in Places(t) : Features(u, p) # Features(t, x)
    OBVIOUS
  <2> HIDE DEF hits
  <2> QED
    BY <2>1 DEF Disjoint
<1> HIDE DEF both, hits, torn
<1>4. (A = {} <=> both = {}) /\ (B = {} <=> hits = {}) /\ (C = {} <=> torn = {})
  BY DEF On
<1> HIDE DEF A, B, C
<1>5. CheckSplitOverlap(c, t, u).status = "PASS" <=> (A \cup B) \cup C = {}
  BY <1>1, PassIs
<1> QED
  BY <1>2, <1>3, <1>4, <1>5

LEMMA OverlapMutual ==
    ASSUME WellAsked, OnWhole = OutcomeOf(quality.tables)
    PROVE  OverlapIsMutual
<1> SUFFICES ASSUME quality.check = "split_overlap"
             PROVE  (OnWhole.status = "PASS") = (OutcomeOf(<<Second, First>>).status = "PASS")
  BY DEF OverlapIsMutual
<1>1. quality.tables[1] = First /\ quality.tables[2] = Second
  BY TablesAre DEF PairCheckName
<1>2. OnWhole = CheckSplitOverlap(quality.config, First, Second)
  BY <1>1, OutcomeIs
<1>3. OutcomeOf(<<Second, First>>) = CheckSplitOverlap(quality.config, Second, First)
  <2> DEFINE T == <<Second, First>>
  <2>1. T[1] = Second /\ T[2] = First
    OBVIOUS
  <2> HIDE DEF T
  <2>2. OutcomeOf(T) = CheckSplitOverlap(quality.config, Second, First)
    BY <2>1, OutcomeIs
  <2> QED
    BY <2>2 DEF T
<1>4. Disjoint(First, Second) <=> Disjoint(Second, First)
  BY DEF Disjoint
<1>5. CheckSplitOverlap(quality.config, First, Second).status = "PASS" <=> Disjoint(First, Second)
  BY OverlapPasses
<1>6. CheckSplitOverlap(quality.config, Second, First).status = "PASS" <=> Disjoint(Second, First)
  BY OverlapPasses
<1> QED
  BY <1>2, <1>3, <1>4, <1>5, <1>6

LEMMA NoneLost ==
    ASSUME NEW t \in Table, NEW by \in Nat \ {0}, by # None, Unusable(t, by) = {}
    PROVE  \A p \in Places(t) : StateOf(Column(t, by)[p], "NUMERIC") = "valid" /\ Column(t, by)[p] \in Int
<1> SUFFICES ASSUME NEW p \in Places(t)
             PROVE  StateOf(Column(t, by)[p], "NUMERIC") = "valid" /\ Column(t, by)[p] \in Int
  OBVIOUS
<1>1. StateOf(Column(t, by)[p], "NUMERIC") \notin {"missing", "nonfinite", "invalid"}
  BY DEF Unusable, InState
<1>2. StateOf(Column(t, by)[p], "NUMERIC") = "valid"
  BY <1>1 DEF StateOf
<1> QED
  BY <1>2, ColumnIs, ValidNumber

LEMMA OrderPasses ==
    ASSUME NEW t \in Table, NEW u \in Table, NEW c, Distinct(t), Distinct(u), c.ordering \in Nat \ {0}, c.ordering # None,
           CheckTemporalOrder(c, t, u).status = "PASS"
    PROVE  /\ Unusable(t, c.ordering) = {} /\ Unusable(u, c.ordering) = {}
           /\ \A i \in DOMAIN OrderKeys(u, c.ordering), h \in DOMAIN OrderKeys(t, c.ordering) :
                  ~(IF c.allow_ties THEN OrderKeys(u, c.ordering)[i] < OrderKeys(t, c.ordering)[h]
                    ELSE OrderKeys(u, c.ordering)[i] <= OrderKeys(t, c.ordering)[h])
<1> DEFINE Early(x, y) == IF c.allow_ties THEN x < y ELSE x <= y
           rk == OrderKeys(t, c.ordering)
           ck == OrderKeys(u, c.ordering)
           early == {i \in DOMAIN ck : \E h \in DOMAIN rk : Early(ck[i], rk[h])}
           late == {h \in DOMAIN rk : \E i \in DOMAIN ck : Early(ck[i], rk[h])}
           lost(r) == Unusable(r, c.ordering)
           A == On(early # {}, Warn("comparison_rows_not_after_reference", 0, early))
           B == On(late # {}, Warn("reference_rows_not_before_comparison", 0, late))
           C == On(lost(t) # {}, Warn("unusable_ordering_key", 1, IdsAt(t, lost(t))))
           D == On(lost(u) # {}, Warn("unusable_ordering_key", 2, IdsAt(u, lost(u))))
<1>1. CheckTemporalOrder(c, t, u) = IF DOMAIN rk = {} \/ DOMAIN ck = {} THEN Bare("INCONCLUSIVE")
                                    ELSE Judged(((A \cup B) \cup C) \cup D)
  BY Zenon DEF CheckTemporalOrder
<1>2. Bare("INCONCLUSIVE").status # "PASS"
  BY DEF Bare
<1>3. early = {} => \A i \in DOMAIN ck, h \in DOMAIN rk : ~Early(ck[i], rk[h])
  <2> HIDE DEF Early, ck, rk
  <2> QED
    OBVIOUS
<1>a. \A W, rule, j, ids : On(W # {}, Warn(rule, j, ids)) = {} => W = {}
  BY DEF On
<1>4. (A = {} => early = {}) /\ (C = {} => lost(t) = {}) /\ (D = {} => lost(u) = {})
  <2> HIDE DEF early, lost
  <2> QED
    BY <1>a, Zenon
<1> HIDE DEF A, B, C, D
<1>5. CheckTemporalOrder(c, t, u) = Judged(((A \cup B) \cup C) \cup D)
  BY <1>1, <1>2
<1>6. ((A \cup B) \cup C) \cup D = {}
  BY <1>5, PassIs
<1>7. A = {} /\ C = {} /\ D = {}
  BY <1>6
<1> QED
  BY <1>3, <1>4, <1>7

LEMMA OrderKept ==
    ASSUME WellAsked, OnWhole = OutcomeOf(quality.tables)
    PROVE  OrderHolds
<1> DEFINE by == quality.config.ordering
<1> SUFFICES ASSUME quality.check = "temporal_order", by # None, AllDistinct, OnWhole.status = "PASS",
                    NEW m \in Places(First), NEW n \in Places(Second)
             PROVE  /\ StateOf(Column(First, by)[m], "NUMERIC") = "valid"
                    /\ StateOf(Column(Second, by)[n], "NUMERIC") = "valid"
                    /\ \/ Column(First, by)[m] < Column(Second, by)[n]
                       \/ quality.config.allow_ties /\ Column(First, by)[m] = Column(Second, by)[n]
  BY DEF OrderHolds
<1>1. /\ First \in Table /\ Second \in Table /\ quality.tables[1] = First /\ quality.tables[2] = Second
      /\ 1 \in DOMAIN quality.tables /\ 2 \in DOMAIN quality.tables
  BY TablesAre DEF PairCheckName
<1>2. Distinct(First) /\ Distinct(Second)
  BY <1>1, ServedOnce DEF AllDistinct
<1>3. by \in Nat \ {0}
  BY QualityAsked DEF WellAsked
<1>4. OnWhole = CheckTemporalOrder(quality.config, First, Second)
  BY <1>1, OutcomeIs
<1>5. /\ Unusable(First, by) = {} /\ Unusable(Second, by) = {}
      /\ \A i \in DOMAIN OrderKeys(Second, by), h \in DOMAIN OrderKeys(First, by) :
             ~(IF quality.config.allow_ties THEN OrderKeys(Second, by)[i] < OrderKeys(First, by)[h]
               ELSE OrderKeys(Second, by)[i] <= OrderKeys(First, by)[h])
  BY <1>1, <1>2, <1>3, <1>4, OrderPasses
<1>6. StateOf(Column(First, by)[m], "NUMERIC") = "valid" /\ Column(First, by)[m] \in Int
  BY <1>1, <1>3, <1>5, NoneLost
<1>7. StateOf(Column(Second, by)[n], "NUMERIC") = "valid" /\ Column(Second, by)[n] \in Int
  BY <1>1, <1>3, <1>5, NoneLost
<1> HIDE DEF by
<1>8. First.ids[m] \in DOMAIN OrderKeys(First, by) /\ OrderKeys(First, by)[First.ids[m]] = Column(First, by)[m]
  <2>1. m \in InState(First, by, "NUMERIC", {"valid"})
    BY <1>6 DEF InState
  <2>2. by # None
    BY DEF by
  <2>3. First.ids[m] \in IdsAt(First, InState(First, by, "NUMERIC", {"valid"}))
    BY <2>1 DEF IdsAt
  <2> QED
    BY <1>1, <1>2, <2>1, <2>2, <2>3, OrderKeysAre
<1>9. Second.ids[n] \in DOMAIN OrderKeys(Second, by) /\ OrderKeys(Second, by)[Second.ids[n]] = Column(Second, by)[n]
  <2>1. n \in InState(Second, by, "NUMERIC", {"valid"})
    BY <1>7 DEF InState
  <2>2. by # None
    BY DEF by
  <2>3. Second.ids[n] \in IdsAt(Second, InState(Second, by, "NUMERIC", {"valid"}))
    BY <2>1 DEF IdsAt
  <2> QED
    BY <1>1, <1>2, <2>1, <2>2, <2>3, OrderKeysAre
<1>10. ~(IF quality.config.allow_ties THEN Column(Second, by)[n] < Column(First, by)[m] ELSE Column(Second, by)[n] <= Column(First, by)[m])
  BY <1>5, <1>8, <1>9
<1>11. \/ Column(First, by)[m] < Column(Second, by)[n]
       \/ quality.config.allow_ties /\ Column(First, by)[m] = Column(Second, by)[n]
  BY <1>6, <1>7, <1>10
<1> QED
  BY <1>6, <1>7, <1>11 DEF by

LEMMA LineFlagged ==
    ASSUME NEW t \in Table, Aligned(t), NEW c, c.max_abs_correlation \in 0..100, c.min_rows \in Nat, NEW j \in Nat \ {0},
           KindOf(j) = "NUMERIC", LabelKind = "NUMERIC", Cardinality(PairsAt(t, j)) >= c.min_rows,
           Differs(ValuesAt(t, j, PairsAt(t, j))), Differs(LabelsAt(t, j)), Collinear(ValuesAt(t, j, PairsAt(t, j)), LabelsAt(t, j))
    PROVE  LeakageCandidate(c, t, j).violations = {Warn("leakage_indicator", j, {})}
<1> DEFINE x == ValuesAt(t, j, PairsAt(t, j))
           y == LabelsAt(t, j)
           n == Cardinality(PairsAt(t, j))
           same == {p \in PairsAt(t, j) : KindOf(j) = "NUMERIC" /\ x[p] = t.labels[LastPlace(t, t.ids[p])]}
           flagged == \/ 100 * Cardinality(same) >= c.max_abs_correlation * n
                      \/ KindOf(j) = "NUMERIC" /\ LabelKind = "NUMERIC" /\ Correlated(x, y, c.max_abs_correlation)
                      \/ LabelKind = "CATEGORICAL" /\ Telling(x, y, c)
<1>1. LeakageCandidate(c, t, j) = IF n < c.min_rows THEN Bare("INCONCLUSIVE")
                                  ELSE Judged(On(flagged, Warn("leakage_indicator", j, {})))
  BY Zenon DEF LeakageCandidate, PairsAt, LabelsAt
<1>2. /\ IsFiniteSet(PairsAt(t, j)) /\ x \in [PairsAt(t, j) -> Int] /\ y \in [PairsAt(t, j) -> Int]
  BY PairInts
<1>3. Correlated(x, y, c.max_abs_correlation)
  <2> HIDE DEF x, y
  <2> QED
    BY <1>2, LineCorrelates DEF x, y
<1>4. flagged
  <2> HIDE DEF x, y, same
  <2> QED
    BY <1>3
<1>5. ~(n < c.min_rows)
  <2>1. n \in Nat
    BY <1>2, FS_CardinalityType
  <2> HIDE DEF n
  <2> QED
    BY <2>1 DEF n
<1> HIDE DEF flagged, n
<1> QED
  BY <1>1, <1>4, <1>5 DEF Judged, On

LEMMA LinesIndicated ==
    ASSUME WellAsked, OnWhole = OutcomeOf(quality.tables)
    PROVE  LinesAreIndicated
<1> DEFINE t == First
           c == quality.config
           Goal(j, places) ==
               LET x == ValuesAt(First, j, places)
                   y == [n \in places |-> First.labels[n]]
                   Varies(f) == \E m, n \in places : f[m] # f[n]
               IN  KindOf(j) = "NUMERIC" /\ Cardinality(places) >= quality.config.min_rows /\ Varies(x) /\ Varies(y) /\ Collinear(x, y) =>
                       \E v \in OnWhole.violations : v.rule = "leakage_indicator" /\ v.subject = j
<1> SUFFICES ASSUME quality.check = "target_leakage", quality.task = "REGRESSION", Aligned(First), NEW j \in Chosen
             PROVE  Goal(j, {n \in ValidAt(First, j) : StateOf(First.labels[n], "NUMERIC") = "valid"})
  BY DEF LinesAreIndicated
<1> DEFINE P == PairsAt(t, j)
           X == ValuesAt(t, j, P)
           Y == LabelsAt(t, j)
<1>1. LabelKind = "NUMERIC"
  BY DEF LabelKind
<1>2. P = {n \in ValidAt(First, j) : StateOf(First.labels[n], "NUMERIC") = "valid"} /\ Y = [n \in P |-> First.labels[n]]
  BY <1>1 DEF PairsAt, LabelsAt
<1>3. /\ t \in Table /\ j \in Nat \ {0} /\ c.max_abs_correlation \in 0..100 /\ c.min_rows \in Nat /\ quality.tables[1] = t
  <2>1. c.max_abs_correlation \in 0..100 /\ c.min_rows \in Nat
    BY QualityAsked DEF WellAsked
  <2> QED
    BY <2>1, TablesAre, ChosenPositive
<1>4. P \subseteq Places(t) /\ DOMAIN X = P /\ DOMAIN Y = P
  BY <1>3, PairInts
<1>a. Goal(j, P) => Goal(j, {n \in ValidAt(First, j) : StateOf(First.labels[n], "NUMERIC") = "valid"})
  <2> HIDE DEF P, Goal
  <2> QED
    BY <1>2
<1> SUFFICES ASSUME KindOf(j) = "NUMERIC", Cardinality(P) >= c.min_rows, \E m, n \in P : X[m] # X[n], \E m, n \in P : Y[m] # Y[n],
                    Collinear(X, Y)
             PROVE  \E v \in OnWhole.violations : v.rule = "leakage_indicator" /\ v.subject = j
  <2>1. ASSUME KindOf(j) = "NUMERIC", Cardinality(P) >= c.min_rows, \E m, n \in P : X[m] # X[n],
               \E m, n \in P : [k \in P |-> First.labels[k]][m] # [k \in P |-> First.labels[k]][n], Collinear(X, [k \in P |-> First.labels[k]])
        PROVE  \E v \in OnWhole.violations : v.rule = "leakage_indicator" /\ v.subject = j
    <3> DEFINE Z == [k \in P |-> First.labels[k]]
    <3>1. Y = Z
      BY <1>2
    <3>2. \E m, n \in P : Z[m] # Z[n]
      BY <2>1, Zenon
    <3>3. Collinear(X, Z)
      BY <2>1, Zenon
    <3> HIDE DEF Z, Y, X, P
    <3> QED
      BY <2>1, <3>1, <3>2, <3>3
  <2>2. Goal(j, P)
    <3> HIDE DEF P
    <3> QED
      BY <2>1, Zenon
  <2> QED
    BY <1>a, <2>2
<1>5. Differs(X) /\ Differs(Y)
  <2> HIDE DEF P, X, Y
  <2> QED
    BY <1>4 DEF Differs
<1>6. LeakageCandidate(c, t, j).violations = {Warn("leakage_indicator", j, {})}
  <2> HIDE DEF c, t
  <2> QED
    BY <1>1, <1>3, <1>5, LineFlagged DEF t
<1>7. Size(t) # 0
  <2>1. Places(t) # {}
    <3> HIDE DEF X, P
    <3> QED
      BY <1>4
  <2> QED
    BY <1>3, <2>1, TableIs
<1>8. OnWhole = CheckTargetLeakage(c, t)
  <2>1. OnWhole = OfRows(t, CheckTargetLeakage(c, t))
    BY <1>3, OutcomeIs
  <2> HIDE DEF t
  <2> QED
    BY <1>7, <2>1 DEF OfRows
<1>9. OnWhole = Together([i \in Chosen |-> LeakageCandidate(c, t, i)])
  BY <1>8 DEF CheckTargetLeakage
<1>10. OnWhole.violations = UNION {LeakageCandidate(c, t, i).violations : i \in Chosen}
  BY <1>9 DEF Together
<1>11. Warn("leakage_indicator", j, {}) \in OnWhole.violations
  <2> HIDE DEF c, t
  <2> QED
    BY <1>6, <1>10
<1> QED
  BY <1>11 DEF Warn

(***************************************************************************)
(* What is found depends on the question only, which no step changes.      *)
(***************************************************************************)

LEMMA CellsStay ==
    ASSUME quality' = quality
    PROVE  /\ (Chosen)' = Chosen /\ \A kinds : (ChosenOf(kinds))' = ChosenOf(kinds)
           /\ \A j : (KindOf(j))' = KindOf(j)
           /\ \A t, j : (ValidAt(t, j))' = ValidAt(t, j)
           /\ \A t, j : (Absent(t, j))' = Absent(t, j)
           /\ \A t, j : (Invalid(t, j))' = Invalid(t, j)
           /\ \A t, j : (Bad(t, j))' = Bad(t, j)
           /\ \A t, p : (Features(t, p))' = Features(t, p)
           /\ (LabelKind)' = LabelKind
<1>1. (Chosen)' = Chosen
  BY DEF Chosen
<1>2. \A kinds : (ChosenOf(kinds))' = ChosenOf(kinds)
  BY <1>1 DEF ChosenOf
<1>3. \A j : (KindOf(j))' = KindOf(j)
  BY DEF KindOf
<1>4. \A t, j : (ValidAt(t, j))' = ValidAt(t, j)
  BY <1>3, Zenon DEF ValidAt
<1>5. \A t, j : (Absent(t, j))' = Absent(t, j)
  BY <1>3, Zenon DEF Absent
<1>6. \A t, j : (Invalid(t, j))' = Invalid(t, j)
  BY <1>3, Zenon DEF Invalid
<1>7. \A t, j : (Bad(t, j))' = Bad(t, j)
  BY <1>3, Zenon DEF Bad
<1>8. \A t, p : (Features(t, p))' = Features(t, p)
  BY <1>1, Zenon DEF Features
<1>9. (LabelKind)' = LabelKind
  BY DEF LabelKind
<1> QED
  BY <1>1, <1>2, <1>3, <1>4, <1>5, <1>6, <1>7, <1>8, <1>9

LEMMA FeatureChecksStay ==
    ASSUME quality' = quality
    PROVE  /\ \A c, t, j : (NumericFeature(c, t, j))' = NumericFeature(c, t, j)
           /\ \A c, t, j : (CategoricalFeature(c, t, j))' = CategoricalFeature(c, t, j)
           /\ \A c, t, j : (DistributionFeature(c, t, j))' = DistributionFeature(c, t, j)
           /\ \A c, t, j : (LeakageCandidate(c, t, j))' = LeakageCandidate(c, t, j)
<1>1. ASSUME NEW c, NEW t, NEW j PROVE (NumericFeature(c, t, j))' = NumericFeature(c, t, j)
  <2>1. (ValidAt(t, j))' = ValidAt(t, j) /\ (Invalid(t, j))' = Invalid(t, j)
    BY CellsStay
  <2> QED
    BY <2>1, SMT DEF NumericFeature
<1>2. ASSUME NEW c, NEW t, NEW j PROVE (CategoricalFeature(c, t, j))' = CategoricalFeature(c, t, j)
  <2>1. (ValidAt(t, j))' = ValidAt(t, j) /\ (Bad(t, j))' = Bad(t, j)
    BY CellsStay
  <2> QED
    BY <2>1, Zenon DEF CategoricalFeature
<1>3. ASSUME NEW c, NEW t, NEW j PROVE (DistributionFeature(c, t, j))' = DistributionFeature(c, t, j)
  <2>1. (ValidAt(t, j))' = ValidAt(t, j) /\ (KindOf(j))' = KindOf(j)
    BY CellsStay
  <2> QED
    BY <2>1, Zenon DEF DistributionFeature
<1>4. ASSUME NEW c, NEW t, NEW j PROVE (LeakageCandidate(c, t, j))' = LeakageCandidate(c, t, j)
  <2>1. (ValidAt(t, j))' = ValidAt(t, j) /\ (KindOf(j))' = KindOf(j) /\ (LabelKind)' = LabelKind
    BY CellsStay
  <2> QED
    BY <2>1, Zenon DEF LeakageCandidate
<1> QED
  BY <1>1, <1>2, <1>3, <1>4

LEMMA TableChecksStay ==
    ASSUME quality' = quality
    PROVE  /\ \A c, t : (CheckSchema(c, t))' = CheckSchema(c, t)
           /\ \A c, t : (CheckSampleCount(c, t))' = CheckSampleCount(c, t)
           /\ \A c, t : (CheckMissingness(c, t))' = CheckMissingness(c, t)
           /\ \A c, t : (CheckDuplicates(c, t))' = CheckDuplicates(c, t)
           /\ \A c, t : (CheckIdentifiers(c, t))' = CheckIdentifiers(c, t)
<1>1. ASSUME NEW c, NEW t PROVE (CheckSchema(c, t))' = CheckSchema(c, t)
  <2>1. (Chosen)' = Chosen /\ \A j : (Invalid(t, j))' = Invalid(t, j)
    BY CellsStay
  <2> QED
    BY <2>1, Zenon DEF CheckSchema
<1>2. \A c, t : (CheckSampleCount(c, t))' = CheckSampleCount(c, t)
  BY CellsStay, ZenonT(60) DEF CheckSampleCount
<1>3. \A c, t : (CheckMissingness(c, t))' = CheckMissingness(c, t)
  BY CellsStay, ZenonT(60) DEF CheckMissingness
<1>4. ASSUME NEW c, NEW t PROVE (CheckDuplicates(c, t))' = CheckDuplicates(c, t)
  <2>1. \A p : (Features(t, p))' = Features(t, p)
    BY CellsStay
  <2>2. [p \in Places(t) |-> (Features(t, p))'] = [p \in Places(t) |-> Features(t, p)]
    BY <2>1, Zenon
  <2> QED
    BY <2>2, ZenonT(60) DEF CheckDuplicates
<1>5. ASSUME NEW c, NEW t PROVE (CheckIdentifiers(c, t))' = CheckIdentifiers(c, t)
  <2> DEFINE Identifies(n, j) ==
                 n >= c.min_samples /\ 100 * Cardinality({Column(t, j)[p] : p \in ValidAt(t, j)}) >= c.unique_ratio * n
             Likely == {x \in Chosen : Identifies(Cardinality(ValidAt(t, x)), x)}
  <2>1. (Chosen)' = Chosen /\ \A j : (ValidAt(t, j))' = ValidAt(t, j)
    BY CellsStay
  <2>2. (Likely)' = Likely
    BY <2>1, SMT
  <2> QED
    BY <2>2, Zenon DEF CheckIdentifiers
<1> QED
  BY <1>1, <1>2, <1>3, <1>4, <1>5

LEMMA OtherChecksStay ==
    ASSUME quality' = quality
    PROVE  /\ \A c, t : (CheckNumeric(c, t))' = CheckNumeric(c, t)
           /\ \A c, t : (CheckCategorical(c, t))' = CheckCategorical(c, t)
           /\ \A c, t : (CheckDistribution(c, t))' = CheckDistribution(c, t)
           /\ \A c, t : (CheckTargetLeakage(c, t))' = CheckTargetLeakage(c, t)
           /\ \A c, t : (CheckTarget(c, t))' = CheckTarget(c, t)
           /\ \A c, t, u : (CheckSplitOverlap(c, t, u))' = CheckSplitOverlap(c, t, u)
           /\ \A c, t, u : (CheckGroupComparison(c, t, u))' = CheckGroupComparison(c, t, u)
<1>1. ASSUME NEW c, NEW t PROVE (CheckNumeric(c, t))' = CheckNumeric(c, t)
  <2>1. (ChosenOf({"NUMERIC"}))' = ChosenOf({"NUMERIC"}) /\ \A j : (NumericFeature(c, t, j))' = NumericFeature(c, t, j)
    BY CellsStay, FeatureChecksStay
  <2> QED
    BY <2>1, Zenon DEF CheckNumeric
<1>2. ASSUME NEW c, NEW t PROVE (CheckCategorical(c, t))' = CheckCategorical(c, t)
  <2>1. /\ (ChosenOf({"CATEGORICAL", "BOOLEAN"}))' = ChosenOf({"CATEGORICAL", "BOOLEAN"})
        /\ \A j : (CategoricalFeature(c, t, j))' = CategoricalFeature(c, t, j)
    BY CellsStay, FeatureChecksStay
  <2> QED
    BY <2>1, Zenon DEF CheckCategorical
<1>3. \A c, t : (CheckDistribution(c, t))' = CheckDistribution(c, t)
  BY CellsStay, FeatureChecksStay, Zenon DEF CheckDistribution
<1>4. \A c, t : (CheckTargetLeakage(c, t))' = CheckTargetLeakage(c, t)
  BY CellsStay, FeatureChecksStay, Zenon DEF CheckTargetLeakage
<1>5. \A c, t : (CheckTarget(c, t))' = CheckTarget(c, t)
  BY Zenon DEF CheckTarget
<1>6. ASSUME NEW c, NEW t, NEW u PROVE (CheckSplitOverlap(c, t, u))' = CheckSplitOverlap(c, t, u)
  <2>1. \A p : (Features(t, p))' = Features(t, p) /\ (Features(u, p))' = Features(u, p)
    BY CellsStay
  <2> DEFINE hits == {p \in Places(u) : \E x \in Places(t) : Features(u, p) = Features(t, x)}
             Torn(p) == \A x \in Places(t) : Features(u, p) = Features(t, x) => u.labels[p] # t.labels[x]
             torn == {p \in hits : Aligned(t) /\ Aligned(u) /\ Torn(p)}
  <2>2. (hits)' = hits
    BY <2>1, SMT
  <2>3. (torn)' = torn
    BY <2>1, SMT
  <2> QED
    BY <2>2, <2>3, Zenon DEF CheckSplitOverlap
<1>7. ASSUME NEW c, NEW t, NEW u PROVE (CheckGroupComparison(c, t, u))' = CheckGroupComparison(c, t, u)
  <2> DEFINE ref == GroupOf(t, c.windows[1], c.ordering)
             cmp == GroupOf(u, c.windows[2], c.ordering)
             Values(r, j) == {Column(r, j)[p] : p \in ValidAt(r, j)}
             Grouped == {"CATEGORICAL", "BOOLEAN"}
             new == {j \in ChosenOf(Grouped) : Values(cmp, j) \ Values(ref, j) # {}}
  <2>1. (ChosenOf(Grouped))' = ChosenOf(Grouped)
    BY CellsStay
  <2>2. \A r, j : (ValidAt(r, j))' = ValidAt(r, j)
    BY CellsStay
  <2>3. (new)' = new
    <3> HIDE DEF Grouped
    <3> QED
      BY <2>1, <2>2, SMT
  <2> QED
    BY <2>3, Zenon DEF CheckGroupComparison
<1> QED
  BY <1>1, <1>2, <1>3, <1>4, <1>5, <1>6, <1>7

LEMMA ResultsStay ==
    ASSUME quality' = quality
    PROVE  (Results)' = Results
<1>1. \A tables : (OutcomeOf(tables))' = OutcomeOf(tables)
  BY TableChecksStay, OtherChecksStay, Zenon DEF OutcomeOf
<1>2. \A t : (SliceOf(t))' = SliceOf(t) /\ (Withheld(t))' = Withheld(t)
  BY Zenon DEF SliceOf, Withheld
<1>3. \A t : (SliceOutcome(t))' = SliceOutcome(t)
  BY <1>1, <1>2, Zenon DEF SliceOutcome
<1> QED
  BY <1>1, <1>3, Zenon DEF Results

(***************************************************************************)
(* The theorem.                                                            *)
(***************************************************************************)

QualityInv == WellAsked /\ (finding = None \/ finding = Results)

LEMMA ResultsKept ==
    ASSUME WellAsked, finding = Results
    PROVE  ResultsHonest
<1>1. quality.check \in CheckName \cup PairCheckName
  BY QualityAsked DEF WellAsked
<1>2. HonestResult(Results.whole)
  BY <1>1, OutcomesHonest DEF Results
<1>3. HonestResult(Bare("NOT_APPLICABLE"))
  BY BareRanked DEF Ranked
<1>4. HonestResult(SliceOutcome(quality.tables[1]))
  BY <1>1, SliceHonest
<1>5. HonestResult(Results.slice)
  BY <1>3, <1>4 DEF Results
<1> QED
  BY <1>2, <1>5 DEF ResultsHonest

LEMMA QualityKept == QualityInv => QualityHonest
<1> SUFFICES ASSUME WellAsked, finding = Results
             PROVE  ResultsHonest /\ RowOrderIrrelevant /\ SliceAgrees /\ MostAreNoOutliers
                    /\ OverlapIsMutual /\ OrderHolds /\ LinesAreIndicated
  BY DEF QualityInv, QualityHonest
<1>1. OnWhole = OutcomeOf(quality.tables)
  BY DEF OnWhole, Results
<1> QED
  BY <1>1, ResultsKept, RowOrder, SliceAgreed, MostStay, OverlapMutual, OrderKept, LinesIndicated

\* What is found of a table or of two can be relied on: results agree with their violations, the order of the
\* rows does not matter, a slice is at fault where the split is, most values are no outliers, overlap is
\* mutual, an order that passes holds, and a line between a feature and the target is indicated.
THEOREM QualityResultsHonest == QualityBehaviour => []QualityHonest
<1>1. QualityInit => QualityInv
  BY DEF QualityInit, QualityInv, WellAsked
<1>2. QualityInv /\ [QualityNext]_qualityVars => QualityInv'
  <2> SUFFICES ASSUME QualityInv, [QualityNext]_qualityVars PROVE QualityInv'
    OBVIOUS
  <2>1. CASE Check
    <3>1. quality' = quality /\ finding' = Results
      BY <2>1 DEF Check
    <3>2. (WellAsked)'
      BY <3>1 DEF QualityInv, WellAsked
    <3>3. (Results)' = Results
      BY <3>1, ResultsStay
    <3> QED
      BY <3>1, <3>2, <3>3 DEF QualityInv
  <2>2. CASE UNCHANGED qualityVars
    <3>1. quality' = quality /\ finding' = finding
      BY <2>2 DEF qualityVars
    <3>2. (WellAsked)'
      BY <3>1 DEF QualityInv, WellAsked
    <3>3. (Results)' = Results
      BY <3>1, ResultsStay
    <3> QED
      BY <3>1, <3>2, <3>3 DEF QualityInv
  <2> QED
    BY <2>1, <2>2 DEF QualityNext
<1>3. QualityInv => QualityHonest
  BY QualityKept
<1> QED
  BY <1>1, <1>2, <1>3, PTL DEF QualityBehaviour
=============================================================================
