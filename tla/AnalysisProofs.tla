--------------------------- MODULE AnalysisProofs ---------------------------
(***************************************************************************)
(* Proofs about the analyses: a search of the graph finds the nodes at     *)
(* their distances, and a path that it rules out does not exist; the       *)
(* outcome of a replay is never better than what it compared; clusters of  *)
(* failure signals are the components of their links; a schedule expands   *)
(* to the one plan it allows or is refused for a cycle; and the windows of *)
(* a drift analysis are those its design asks for.                         *)
(***************************************************************************)
EXTENDS GraphTraversal, ReplayVerdict, FailureClustering, PlanExpansion, ShiftWindows,
        FiniteSetTheorems, SequenceTheorems, NaturalsInduction, WellFoundedInduction, TLAPS

(***************************************************************************)
(* Functions defined step by step.                                         *)
(***************************************************************************)

\* Induction over the naturals, for a set.
LEMMA NatSet ==
    ASSUME NEW S, 0 \in S, \A n \in Nat : n \in S => n + 1 \in S
    PROVE  Nat \subseteq S
<1> DEFINE T == Nat \ S
           R == OpToRel(<, Nat)
<1> SUFFICES ASSUME T # {} PROVE FALSE
  OBVIOUS
<1>1. \E x \in T : \A y \in T : ~(<<y, x>> \in R)
  <2>1. IsWellFoundedOn(R, Nat)
    BY NatLessThanWellFounded
  <2>2. T \subseteq Nat
    OBVIOUS
  <2> HIDE DEF T, R
  <2> QED
    BY <2>1, <2>2, WFMin
<1>2. PICK x \in T : \A y \in T : ~(y < x)
  BY <1>1 DEF OpToRel
<1>3. x # 0 /\ x - 1 \in Nat /\ x - 1 < x /\ (x - 1) + 1 = x
  OBVIOUS
<1>4. x - 1 \in S
  BY <1>2, <1>3
<1> QED
  BY <1>3, <1>4

\* The values f(0) .. f(k) of the function that starts with a and goes on with step.
Unrolled(f, k, S, a, step) ==
    f \in [0..k -> S] /\ f[0] = a /\ \A i \in Nat : i < k => f[i + 1] = step[<<i, f[i]>>]

LEMMA UnrolledOnce ==
    ASSUME NEW S, NEW a, NEW step, NEW k \in Nat, NEW l \in Nat, NEW f, NEW g,
           Unrolled(f, k, S, a, step), Unrolled(g, l, S, a, step)
    PROVE  \A i \in Nat : i <= k /\ i <= l => f[i] = g[i]
<1> DEFINE I == {i \in Nat : i <= k /\ i <= l => f[i] = g[i]}
<1>1. 0 \in I
  BY DEF Unrolled
<1>2. ASSUME NEW n \in Nat, n \in I PROVE n + 1 \in I
  <2> SUFFICES ASSUME n + 1 <= k, n + 1 <= l PROVE f[n + 1] = g[n + 1]
    OBVIOUS
  <2>1. n < k /\ n < l /\ f[n] = g[n]
    BY <1>2
  <2>2. f[n + 1] = step[<<n, f[n]>>] /\ g[n + 1] = step[<<n, g[n]>>]
    BY <2>1 DEF Unrolled
  <2> QED
    BY <2>1, <2>2
<1> HIDE DEF I
<1>3. Nat \subseteq I
  BY <1>1, <1>2, NatSet
<1> QED
  BY <1>3 DEF I

LEMMA UnrolledTo ==
    ASSUME NEW S, NEW a \in S, NEW step \in [Nat \X S -> S], NEW k \in Nat
    PROVE  \E f : Unrolled(f, k, S, a, step)
<1> DEFINE I == {n \in Nat : \E f : Unrolled(f, n, S, a, step)}
<1>1. 0 \in I
  <2>1. Unrolled([i \in 0..0 |-> a], 0, S, a, step)
    BY DEF Unrolled
  <2> QED
    BY <2>1
<1>2. ASSUME NEW n \in Nat, n \in I PROVE n + 1 \in I
  <2>1. PICK f : Unrolled(f, n, S, a, step)
    BY <1>2
  <2> DEFINE g == [i \in 0..(n + 1) |-> IF i = n + 1 THEN step[<<n, f[n]>>] ELSE f[i]]
  <2>2. f \in [0..n -> S] /\ n \in 0..n /\ <<n, f[n]>> \in Nat \X S
    BY <2>1 DEF Unrolled
  <2>3. g \in [0..(n + 1) -> S]
    BY <2>2
  <2>4. ASSUME NEW i \in Nat, i < n + 1 PROVE g[i + 1] = step[<<i, g[i]>>]
    <3>1. i \in 0..(n + 1) /\ i + 1 \in 0..(n + 1) /\ i # n + 1 /\ g[i] = f[i]
      BY <2>4
    <3>2. CASE i = n
      BY <3>1, <3>2
    <3>3. CASE i # n
      <4>1. i < n /\ i + 1 # n + 1
        BY <2>4, <3>3
      <4>2. f[i + 1] = step[<<i, f[i]>>]
        BY <2>1, <4>1 DEF Unrolled
      <4> QED
        BY <3>1, <4>1, <4>2
    <3> QED
      BY <3>2, <3>3
  <2>a. g[0] = a
    BY <2>1 DEF Unrolled
  <2>5. Unrolled(g, n + 1, S, a, step)
    BY <2>3, <2>4, <2>a DEF Unrolled
  <2> QED
    BY <2>5
<1> HIDE DEF I
<1>3. k \in I
  BY <1>1, <1>2, NatSet
<1> QED
  BY <1>3 DEF I

\* A first value and a step determine a function on the naturals.
StepsFrom(f, S, a, step) ==
    f \in [Nat -> S] /\ f[0] = a /\ \A n \in Nat : f[n + 1] = step[<<n, f[n]>>]

LEMMA Recursion ==
    ASSUME NEW S, NEW a \in S, NEW step \in [Nat \X S -> S]
    PROVE  \E f : StepsFrom(f, S, a, step)
<1> DEFINE P(f, k) == Unrolled(f, k, S, a, step)
           F == [k \in Nat |-> CHOOSE f : P(f, k)]
           h == [k \in Nat |-> F[k][k]]
<1>1. \A k \in Nat : P(F[k], k)
  <2> SUFFICES ASSUME NEW k \in Nat PROVE P(F[k], k)
    OBVIOUS
  <2>1. \E f : P(f, k)
    BY UnrolledTo
  <2>2. P(CHOOSE f : P(f, k), k)
    BY <2>1
  <2> QED
    BY <2>2
<1> HIDE DEF F
<1>2. h \in [Nat -> S]
  BY <1>1 DEF Unrolled
<1>3. h[0] = a
  BY <1>1 DEF Unrolled
<1>4. ASSUME NEW n \in Nat PROVE h[n + 1] = step[<<n, h[n]>>]
  <2>1. P(F[n], n) /\ P(F[n + 1], n + 1)
    BY <1>1
  <2>2. F[n][n] = F[n + 1][n]
    <3>1. n + 1 \in Nat /\ n <= n /\ n <= n + 1
      OBVIOUS
    <3>2. \A f, g : Unrolled(f, n, S, a, step) /\ Unrolled(g, n + 1, S, a, step) =>
              \A i \in Nat : i <= n /\ i <= n + 1 => f[i] = g[i]
      BY <3>1, UnrolledOnce
    <3> QED
      BY <2>1, <3>1, <3>2
  <2>3. F[n + 1][n + 1] = step[<<n, F[n + 1][n]>>]
    BY <2>1 DEF Unrolled
  <2> QED
    BY <2>2, <2>3
<1>5. StepsFrom(h, S, a, step)
  <2> HIDE DEF h, P
  <2> QED
    BY <1>2, <1>3, <1>4 DEF StepsFrom
<1> QED
  BY <1>5

(***************************************************************************)
(* Graph traversal.                                                        *)
(***************************************************************************)

Upto(E, x) == {f \in E : f <= x}

\* Members of a finite set of numbers have different ranks, one for each place.
LEMMA RankOnto ==
    ASSUME NEW E, E \subseteq Nat, IsFiniteSet(E)
    PROVE  /\ Cardinality(E) \in Nat
           /\ \A e \in E : Cardinality(Upto(E, e)) \in 1..Cardinality(E)
           /\ \A k \in 1..Cardinality(E) : \E e \in E : Cardinality(Upto(E, e)) = k
           /\ \A x, y \in E : Cardinality(Upto(E, x)) = Cardinality(Upto(E, y)) => x = y
<1> DEFINE rank == [e \in E |-> Cardinality(Upto(E, e))]
           places == 1..Cardinality(E)
<1>0. Cardinality(E) \in Nat
  BY FS_CardinalityType
<1>1. \A x \in E : IsFiniteSet(Upto(E, x)) /\ Cardinality(Upto(E, x)) \in Nat /\ Cardinality(Upto(E, x)) <= Cardinality(E)
  <2> SUFFICES ASSUME NEW x \in E
               PROVE  IsFiniteSet(Upto(E, x)) /\ Cardinality(Upto(E, x)) \in Nat /\ Cardinality(Upto(E, x)) <= Cardinality(E)
    OBVIOUS
  <2>1. Upto(E, x) \in SUBSET E
    BY DEF Upto
  <2> QED
    BY <2>1, FS_Subset, FS_CardinalityType
<1>2. \A x \in E : Cardinality(Upto(E, x)) # 0
  <2> SUFFICES ASSUME NEW x \in E PROVE Cardinality(Upto(E, x)) # 0
    OBVIOUS
  <2>1. x \in Upto(E, x)
    BY DEF Upto
  <2> QED
    BY <2>1, <1>1, FS_EmptySet
<1>3. ASSUME NEW x \in E, NEW y \in E, x < y
      PROVE  Cardinality(Upto(E, x)) # Cardinality(Upto(E, y))
  <2>1. ASSUME NEW f \in E, f <= x PROVE f <= y
    <3>1. f \in Nat /\ x \in Nat /\ y \in Nat
      OBVIOUS
    <3> QED
      BY <3>1, <2>1, <1>3
  <2>2. Upto(E, x) \in SUBSET Upto(E, y)
    BY <2>1 DEF Upto
  <2>3. y \in Upto(E, y) /\ y \notin Upto(E, x)
    <3>1. x \in Nat /\ y \in Nat
      OBVIOUS
    <3> QED
      BY <3>1, <1>3 DEF Upto
  <2> QED
    BY <2>2, <2>3, <1>1, FS_Subset
<1>4. ASSUME NEW x \in E, NEW y \in E, Cardinality(Upto(E, x)) = Cardinality(Upto(E, y))
      PROVE  x = y
  <2>1. x \in Nat /\ y \in Nat
    OBVIOUS
  <2> QED
    BY <2>1, <1>3, <1>4
<1>5. rank \in Injection(E, places)
  BY <1>0, <1>1, <1>2, <1>4 DEF Injection, IsInjective
<1>6. IsFiniteSet(places) /\ Cardinality(places) = Cardinality(E)
  BY <1>0, FS_Interval
<1>7. rank \in Surjection(E, places)
  BY <1>5, <1>6, FS_Injection
<1>8. \A k \in places : \E e \in E : rank[e] = k
  BY <1>7 DEF Surjection
<1> QED
  BY <1>0, <1>1, <1>2, <1>4, <1>8

LEMMA FunctionIsSeq ==
    ASSUME NEW S, NEW n \in Nat, NEW f \in [1..n -> S]
    PROVE  f \in Seq(S)
  OBVIOUS

LEMMA InOrderIs ==
    ASSUME NEW E
    PROVE  InOrder(E) = [k \in 1..Cardinality(E) |-> CHOOSE e \in E : Cardinality(Upto(E, e)) = k]
  BY DEF InOrder, Upto

\* InOrder lists every member of a finite set of numbers, and nothing else.
LEMMA InOrderLists ==
    ASSUME NEW E, E \subseteq Nat, IsFiniteSet(E)
    PROVE  /\ InOrder(E) \in Seq(E)
           /\ \A e \in E : \E k \in DOMAIN InOrder(E) : InOrder(E)[k] = e
<1>1. \A k \in 1..Cardinality(E) : InOrder(E)[k] \in E /\ Cardinality(Upto(E, InOrder(E)[k])) = k
  BY RankOnto, InOrderIs
<1>2. InOrder(E) \in Seq(E) /\ DOMAIN InOrder(E) = 1..Cardinality(E)
  <2>1. InOrder(E) \in [1..Cardinality(E) -> E]
    BY <1>1, InOrderIs
  <2> QED
    BY <2>1, RankOnto, FunctionIsSeq
<1>3. ASSUME NEW e \in E PROVE \E k \in 1..Cardinality(E) : InOrder(E)[k] = e
  <2>1. Cardinality(Upto(E, e)) \in 1..Cardinality(E)
    BY RankOnto
  <2>2. Cardinality(Upto(E, InOrder(E)[Cardinality(Upto(E, e))])) = Cardinality(Upto(E, e))
    BY <1>1, <2>1
  <2> QED
    BY <2>1, <2>2, <1>1, RankOnto
<1> QED
  BY <1>2, <1>3

\* A node that was visited, and whose hops were not all taken, still waits in the queue or is
\* the one being scanned.
Pending(m, n) ==
    \/ \E k \in DOMAIN queue : queue[k] = m
    \/ search = "scan" /\ m = cur /\ \E k \in DOMAIN hops : Allowed(hops[k]) /\ hops[k].next = n

SearchTypes ==
    /\ graph \in Graphs /\ query \in Queries
    /\ visited \subseteq Nodes /\ query.start \in visited
    /\ queue \in Seq(Nodes) /\ cur \in Nodes /\ hops \in Seq(Hop)
    /\ search \in {"dequeue", "scan", "done", "found"} /\ truncated \in BOOLEAN

SearchClosed ==
    query.goal # NoGoal /\ search # "found" =>
        /\ query.goal \notin visited
        /\ ~truncated => \A m \in visited, n \in Nodes : Reaches(m, n) => n \in visited \/ Pending(m, n)

SearchDone == search = "done" => truncated \/ queue = <<>>

SearchInv == SearchTypes /\ SearchClosed /\ SearchDone
-----------------------------------------------------------------------------
LEMMA GraphAssumed ==
    ASSUME SearchTypes
    PROVE  /\ graph \in [Edges -> [from : Nodes, to : Nodes]] /\ query \in Query
           /\ query.start \in Nodes /\ query.edges \subseteq Edges /\ query.nodes \subseteq Nodes
           /\ IsFiniteSet(Edges) /\ Edges \subseteq Nat /\ NoGoal \notin Nodes
  BY TraversalAssumption DEF SearchTypes, Query

EdgesFrom(n) == {e \in Edges : graph[e].from = n}

EdgesInto(n) == {e \in Edges : graph[e].to = n}

Out(n) == [k \in DOMAIN InOrder(EdgesFrom(n)) |->
            [edge |-> InOrder(EdgesFrom(n))[k], next |-> graph[InOrder(EdgesFrom(n))[k]].to]]

In(n) == [k \in DOMAIN InOrder(EdgesInto(n)) |->
            [edge |-> InOrder(EdgesInto(n))[k], next |-> graph[InOrder(EdgesInto(n))[k]].from]]

LEMMA AdjacentIs ==
    ASSUME NEW n
    PROVE  Adjacent(n) = CASE query.direction = "OUT" -> Out(n)
                           [] query.direction = "IN" -> In(n)
                           [] query.direction = "BOTH" -> Out(n) \o In(n)
  BY DEF Adjacent, Out, In, EdgesFrom, EdgesInto

\* The hops scanned from a node are all the edges at it that the direction admits.
LEMMA AdjacentLists ==
    ASSUME SearchTypes, NEW m \in Nodes
    PROVE  /\ Adjacent(m) \in Seq(Hop)
           /\ \A n \in Nodes : Reaches(m, n) => \E k \in DOMAIN Adjacent(m) : Allowed(Adjacent(m)[k]) /\ Adjacent(m)[k].next = n
<1>1. /\ graph \in [Edges -> [from : Nodes, to : Nodes]]
      /\ query.direction \in Direction /\ query.edges \subseteq Edges
  BY GraphAssumed DEF Query
<1>2. EdgesFrom(m) \in SUBSET Edges /\ EdgesInto(m) \in SUBSET Edges
  BY DEF EdgesFrom, EdgesInto
<1>3. /\ EdgesFrom(m) \subseteq Nat /\ IsFiniteSet(EdgesFrom(m))
      /\ EdgesInto(m) \subseteq Nat /\ IsFiniteSet(EdgesInto(m))
  BY <1>2, GraphAssumed, FS_Subset
<1>4. Out(m) \in Seq(Hop) /\ \A e \in EdgesFrom(m) : \E k \in DOMAIN Out(m) : Out(m)[k] = [edge |-> e, next |-> graph[e].to]
  <2>1. InOrder(EdgesFrom(m)) \in Seq(Edges)
    BY <1>2, <1>3, InOrderLists
  <2>2. Out(m) \in [1..Len(InOrder(EdgesFrom(m))) -> Hop]
    BY <2>1, <1>1 DEF Out, Hop
  <2>3. Out(m) \in Seq(Hop)
    BY <2>1, <2>2, FunctionIsSeq
  <2> QED
    BY <2>3, <1>3, InOrderLists DEF Out
<1>5. In(m) \in Seq(Hop) /\ \A e \in EdgesInto(m) : \E k \in DOMAIN In(m) : In(m)[k] = [edge |-> e, next |-> graph[e].from]
  <2>1. InOrder(EdgesInto(m)) \in Seq(Edges)
    BY <1>2, <1>3, InOrderLists
  <2>2. In(m) \in [1..Len(InOrder(EdgesInto(m))) -> Hop]
    BY <2>1, <1>1 DEF In, Hop
  <2>3. In(m) \in Seq(Hop)
    BY <2>1, <2>2, FunctionIsSeq
  <2> QED
    BY <2>3, <1>3, InOrderLists DEF In
<1>6. ASSUME NEW e \in EdgesFrom(m), query.direction \in {"OUT", "BOTH"}
      PROVE  \E k \in DOMAIN Adjacent(m) : Adjacent(m)[k] = [edge |-> e, next |-> graph[e].to]
  <2>1. PICK k \in DOMAIN Out(m) : Out(m)[k] = [edge |-> e, next |-> graph[e].to]
    BY <1>4
  <2>2. k \in DOMAIN (Out(m) \o In(m)) /\ (Out(m) \o In(m))[k] = Out(m)[k]
    BY <1>4, <1>5
  <2> QED
    BY <1>6, <2>1, <2>2, AdjacentIs
<1>7. ASSUME NEW e \in EdgesInto(m), query.direction \in {"IN", "BOTH"}
      PROVE  \E k \in DOMAIN Adjacent(m) : Adjacent(m)[k] = [edge |-> e, next |-> graph[e].from]
  <2>1. PICK k \in DOMAIN In(m) : In(m)[k] = [edge |-> e, next |-> graph[e].from]
    BY <1>5
  <2>2. /\ Len(Out(m)) + k \in DOMAIN (Out(m) \o In(m))
        /\ (Out(m) \o In(m))[Len(Out(m)) + k] = In(m)[k]
    BY <1>4, <1>5
  <2> QED
    BY <1>7, <2>1, <2>2, AdjacentIs
<1>8. Adjacent(m) \in Seq(Hop)
  <2>1. Out(m) \o In(m) \in Seq(Hop)
    BY <1>4, <1>5
  <2> QED
    BY <1>1, <1>4, <1>5, <2>1, AdjacentIs DEF Direction
<1>9. ASSUME NEW n \in Nodes, Reaches(m, n)
      PROVE  \E k \in DOMAIN Adjacent(m) : Allowed(Adjacent(m)[k]) /\ Adjacent(m)[k].next = n
  <2>1. PICK e \in query.edges :
            \/ query.direction \in {"OUT", "BOTH"} /\ graph[e] = [from |-> m, to |-> n]
            \/ query.direction \in {"IN", "BOTH"} /\ graph[e] = [from |-> n, to |-> m]
    BY <1>9 DEF Reaches
  <2>2. \E k \in DOMAIN Adjacent(m) : Adjacent(m)[k] = [edge |-> e, next |-> n]
    BY <2>1, <1>1, <1>6, <1>7 DEF EdgesFrom, EdgesInto
  <2>3. n \in query.nodes
    BY <1>9 DEF Reaches
  <2> QED
    BY <2>1, <2>2, <2>3 DEF Allowed
<1> QED
  BY <1>8, <1>9
-----------------------------------------------------------------------------
LEMMA SearchInitial == TraversalInit => SearchInv
<1> SUFFICES ASSUME TraversalInit PROVE SearchInv
  OBVIOUS
<1> USE DEF TraversalInit
<1>1. query \in Query
  BY TraversalAssumption
<1>2. query.start \in Nodes /\ visited = {query.start} /\ queue \in Seq(Nodes) /\ hops \in Seq(Hop)
  BY <1>1 DEF Query, visited
<1>3. SearchTypes
  BY <1>2 DEF SearchTypes
<1>4. SearchClosed
  <2>1. queue[1] = query.start /\ 1 \in DOMAIN queue
    OBVIOUS
  <2> QED
    BY <1>2, <2>1 DEF SearchClosed, Pending
<1>5. SearchDone
  BY DEF SearchDone
<1> QED
  BY <1>3, <1>4, <1>5 DEF SearchInv

\* What is pending stays pending when a node leaves the queue or a hop is taken that leads elsewhere.
LEMMA TailKeeps ==
    ASSUME NEW S, NEW s \in Seq(S), s # <<>>, NEW k \in DOMAIN s, k # 1
    PROVE  Tail(s) \in Seq(S) /\ \E i \in DOMAIN Tail(s) : Tail(s)[i] = s[k]
<1>1. k - 1 \in DOMAIN Tail(s) /\ Tail(s)[k - 1] = s[k]
  OBVIOUS
<1> QED
  BY <1>1

LEMMA HeadFirst ==
    ASSUME NEW S, NEW s \in Seq(S), s # <<>>
    PROVE  Head(s) = s[1] /\ Head(s) \in S /\ 1 \in DOMAIN s /\ Tail(s) \in Seq(S)
  OBVIOUS

LEMMA AppendKeeps ==
    ASSUME NEW S, NEW s \in Seq(S), NEW x \in S
    PROVE  /\ Append(s, x) \in Seq(S)
           /\ \A k \in DOMAIN s : k \in DOMAIN Append(s, x) /\ Append(s, x)[k] = s[k]
           /\ Len(s) + 1 \in DOMAIN Append(s, x) /\ Append(s, x)[Len(s) + 1] = x
  OBVIOUS

\* Reaches and Allowed depend on the query and the graph alone.
LEMMA SearchStep ==
    ASSUME SearchInv, [TraversalNext]_traversalVars
    PROVE  SearchInv'
<1> USE DEF SearchInv
<1>q. SearchTypes /\ SearchClosed /\ SearchDone
  OBVIOUS
<1>0. CASE UNCHANGED traversalVars
  <2>1. visited' = visited /\ (\A m, n : Reaches(m, n)' <=> Reaches(m, n)) /\ \A m, n : Pending(m, n)' <=> Pending(m, n)
    BY <1>0 DEF traversalVars, visited, Reaches, Pending, Allowed
  <2> QED
    BY <1>0, <1>q, <2>1 DEF traversalVars, SearchTypes, SearchClosed, SearchDone
<1>1. CASE QueueEmpty
  <2> USE <1>1 DEF QueueEmpty
  <2>1. visited' = visited /\ \A m, n : Reaches(m, n)' <=> Reaches(m, n)
    BY DEF visited, Reaches
  <2>2. \A m, n : ~Pending(m, n)
    BY DEF Pending
  <2> QED
    BY <1>q, <2>1, <2>2 DEF SearchTypes, SearchClosed, SearchDone
<1>2. CASE SkipAtDepth
  <2> USE <1>2 DEF SkipAtDepth
  <2>1. visited' = visited /\ Tail(queue) \in Seq(Nodes)
    BY HeadFirst DEF visited, SearchTypes
  <2>2. SearchTypes'
    BY <2>1 DEF SearchTypes
  <2>3. query.goal # NoGoal => truncated'
    OBVIOUS
  <2> QED
    BY <2>1, <2>2, <2>3 DEF SearchClosed, SearchDone
<1>3. CASE ExpandNode
  <2> USE <1>3 DEF ExpandNode
  <2>1. visited' = visited /\ \A m, n : Reaches(m, n)' <=> Reaches(m, n)
    BY DEF visited, Reaches
  <2>2. Tail(queue) \in Seq(Nodes) /\ Head(queue) \in Nodes /\ Head(queue) = queue[1]
    BY HeadFirst DEF SearchTypes
  <2>3. Adjacent(cur') \in Seq(Hop)
    BY <2>2, AdjacentLists
  <2>4. SearchTypes'
    BY <2>1, <2>2, <2>3 DEF SearchTypes
  <2>5. ASSUME NEW m \in visited, NEW n \in Nodes, Reaches(m, n), Pending(m, n)
        PROVE  Pending(m, n)'
    <3>1. PICK k \in DOMAIN queue : queue[k] = m
      BY <2>5 DEF Pending
    <3>2. CASE k = 1
      <4>1. m = Head(queue)
        BY <2>2, <3>1, <3>2
      <4>2. PICK i \in DOMAIN Adjacent(m) : Allowed(Adjacent(m)[i]) /\ Adjacent(m)[i].next = n
        BY <4>1, <2>2, <2>5, AdjacentLists
      <4>3. hops' = Adjacent(m) /\ cur' = m /\ search' = "scan"
        BY <4>1
      <4> QED
        BY <4>2, <4>3 DEF Pending, Allowed
    <3>3. CASE k # 1
      <4>1. \E i \in DOMAIN Tail(queue) : Tail(queue)[i] = m
        BY <3>1, <3>3, TailKeeps DEF SearchTypes
      <4> QED
        BY <4>1 DEF Pending
    <3> QED
      BY <3>2, <3>3
  <2> QED
    BY <2>1, <2>4, <2>5 DEF SearchClosed, SearchDone
<1>4. CASE Expanded
  <2> USE <1>4 DEF Expanded
  <2>1. visited' = visited /\ \A m, n : Reaches(m, n)' <=> Reaches(m, n)
    BY DEF visited, Reaches
  <2>2. \A m, n : Pending(m, n) => Pending(m, n)'
    BY DEF Pending
  <2> QED
    BY <1>q, <2>1, <2>2 DEF SearchTypes, SearchClosed, SearchDone
<1>5. CASE PassOver
  <2> USE <1>5 DEF PassOver
  <2>1. visited' = visited /\ \A m, n : Reaches(m, n)' <=> Reaches(m, n)
    BY DEF visited, Reaches
  <2>2. Tail(hops) \in Seq(Hop) /\ Head(hops) = hops[1]
    BY HeadFirst DEF SearchTypes
  <2>3. SearchTypes'
    BY <2>1, <2>2 DEF SearchTypes
  <2>4. ASSUME NEW m, NEW n, Pending(m, n), n \notin visited
        PROVE  Pending(m, n)'
    <3>1. CASE \E k \in DOMAIN queue : queue[k] = m
      BY <3>1 DEF Pending
    <3>2. CASE m = cur /\ \E k \in DOMAIN hops : Allowed(hops[k]) /\ hops[k].next = n
      <4>1. PICK k \in DOMAIN hops : Allowed(hops[k]) /\ hops[k].next = n
        BY <3>2
      <4>2. k # 1
        BY <4>1, <2>2, <2>4 DEF Follow
      <4>3. PICK i \in DOMAIN Tail(hops) : Tail(hops)[i] = hops[k]
        BY <4>2, TailKeeps DEF SearchTypes
      <4> QED
        BY <3>2, <4>1, <4>3 DEF Pending, Allowed
    <3> QED
      BY <2>4, <3>1, <3>2 DEF Pending
  <2> QED
    BY <2>1, <2>3, <2>4 DEF SearchClosed, SearchDone
<1>6. CASE StopFull
  <2>1. visited' = visited
    BY <1>6 DEF StopFull, visited
  <2> QED
    BY <1>6, <2>1 DEF StopFull, SearchTypes, SearchClosed, SearchDone
<1>7. CASE Visit
  <2> USE <1>7 DEF Visit
  <2>0. PICK hop : hop = Head(hops)
    OBVIOUS
  <2>1. /\ visited' = visited \cup {hop.next} /\ queue' = Append(queue, hop.next)
        /\ \A m, n : Reaches(m, n)' <=> Reaches(m, n)
    BY <2>0 DEF visited, Reaches
  <2>2. Tail(hops) \in Seq(Hop) /\ hop = hops[1] /\ hop \in Hop
    BY <2>0, HeadFirst DEF SearchTypes
  <2>3. hop.next \in Nodes
    BY <2>2 DEF Hop
  <2>4. Append(queue, hop.next) \in Seq(Nodes)
    BY <2>3, AppendKeeps DEF SearchTypes
  <2>5. SearchTypes'
    BY <2>1, <2>2, <2>3, <2>4 DEF SearchTypes
  <2>6. ASSUME NEW m, NEW n, Pending(m, n), n # hop.next
        PROVE  Pending(m, n)' \/ search' = "found"
    <3>1. CASE \E k \in DOMAIN queue : queue[k] = m
      BY <3>1, <2>1, <2>3, AppendKeeps DEF Pending, SearchTypes
    <3>2. CASE m = cur /\ \E k \in DOMAIN hops : Allowed(hops[k]) /\ hops[k].next = n
      <4>1. PICK k \in DOMAIN hops : Allowed(hops[k]) /\ hops[k].next = n
        BY <3>2
      <4>2. k # 1
        BY <4>1, <2>2, <2>6
      <4>3. PICK i \in DOMAIN Tail(hops) : Tail(hops)[i] = hops[k]
        BY <4>2, TailKeeps DEF SearchTypes
      <4> QED
        BY <3>2, <4>1, <4>3 DEF Pending, Allowed
    <3> QED
      BY <2>6, <3>1, <3>2 DEF Pending
  <2>7. \A n : Pending(hop.next, n)'
    BY <2>1, <2>3, AppendKeeps DEF Pending, SearchTypes
  <2>8. SearchClosed'
    <3> SUFFICES ASSUME query.goal # NoGoal, search' # "found"
                 PROVE  /\ query.goal \notin visited'
                        /\ ~truncated => \A m \in visited', n \in Nodes : Reaches(m, n) => n \in visited' \/ Pending(m, n)'
      BY <2>1 DEF SearchClosed
    <3>1. query.goal \notin visited'
      BY <2>1 DEF SearchClosed
    <3>2. ASSUME ~truncated, NEW m \in visited', NEW n \in Nodes, Reaches(m, n), n \notin visited'
          PROVE  Pending(m, n)'
      <4>1. CASE m = hop.next
        BY <4>1, <2>7
      <4>2. CASE m \in visited
        <5>1. Pending(m, n)
          BY <4>2, <3>2, <2>1 DEF SearchClosed
        <5> QED
          BY <5>1, <2>6, <3>2, <2>1
      <4> QED
        BY <3>2, <4>1, <4>2, <2>1
    <3> QED
      BY <3>1, <3>2
  <2> QED
    BY <2>5, <2>8 DEF SearchDone
<1> QED
  BY <1>0, <1>1, <1>2, <1>3, <1>4, <1>5, <1>6, <1>7 DEF TraversalNext

LEMMA SearchRulesOut == SearchInv => PathRuledOut
<1> SUFFICES ASSUME SearchInv, search = "done", query.goal # NoGoal, ~truncated
             PROVE  /\ query.start \in visited /\ query.goal \notin visited
                    /\ \A m \in visited, n \in Nodes : Reaches(m, n) => n \in visited
  BY DEF PathRuledOut
<1>1. \A m, n : ~Pending(m, n)
  BY DEF SearchInv, SearchDone, Pending
<1> QED
  BY <1>1 DEF SearchInv, SearchTypes, SearchClosed

\* SnapshotIndex.path answers "no path" without marking the answer truncated only when no path
\* exists at any length, for every graph, filter, direction and bound.
THEOREM PathsRuledOut == TraversalSpec => []PathRuledOut
<1>1. TraversalSpec => []SearchInv
  BY SearchInitial, SearchStep, PTL DEF TraversalSpec
<1> QED
  BY <1>1, SearchRulesOut, PTL
-----------------------------------------------------------------------------
\* The next ball holds the last and what is one hop away from it.
Spread(B) == B \cup {n \in Nodes : \E m \in B : Reaches(m, n)}

LEMMA WithinIs ==
    ASSUME query.start \in Nodes
    PROVE  /\ Within(0) = {query.start}
           /\ \A k \in Nat : Within(k) \in SUBSET Nodes /\ Within(k + 1) = Spread(Within(k))
<1> DEFINE S == SUBSET Nodes
           step == [x \in Nat \X S |-> Spread(x[2])]
<1>1. {query.start} \in S /\ step \in [Nat \X S -> S]
  BY DEF Spread
<1>2. PICK f : StepsFrom(f, S, {query.start}, step)
  <2> HIDE DEF S, step
  <2> QED
    BY <1>1, Recursion
<1>3. f \in [Nat -> S] /\ f[0] = {query.start} /\ \A n \in Nat : f[n + 1] = Spread(f[n])
  BY <1>2 DEF StepsFrom
<1>4. ASSUME NEW k \in Nat PROVE Within(k) = f[k]
  <2> DEFINE Equation(b) == b = [i \in 0..k |-> IF i = 0 THEN {query.start}
                                     ELSE b[i - 1] \cup {n \in Nodes : \E m \in b[i - 1] : Reaches(m, n)}]
             ball == CHOOSE b : Equation(b)
             fk == [i \in 0..k |-> f[i]]
  <2>1. ASSUME NEW i \in 0..k, i # 0
        PROVE  f[i] = fk[i - 1] \cup {n \in Nodes : \E m \in fk[i - 1] : Reaches(m, n)}
    <3>1. i - 1 \in Nat /\ i - 1 \in 0..k /\ (i - 1) + 1 = i
      BY <2>1
    <3> QED
      BY <3>1, <1>3 DEF Spread
  <2>2. Equation(fk)
    BY <1>3, <2>1
  <2>3. Equation(ball)
    BY <2>2
  <2>4. Within(k) = ball[k]
    BY DEF Within
  <2> HIDE DEF ball
  <2>5. ball[0] = {query.start} /\ \A i \in Nat : i < k => ball[i + 1] = Spread(ball[i])
    <3>1. ball[0] = {query.start}
      BY <2>3
    <3>2. ASSUME NEW i \in Nat, i < k PROVE ball[i + 1] = Spread(ball[i])
      <4>1. i + 1 \in 0..k /\ i + 1 # 0 /\ (i + 1) - 1 = i
        BY <3>2
      <4> QED
        BY <2>3, <4>1 DEF Spread
    <3> QED
      BY <3>1, <3>2
  <2> DEFINE I == {i \in Nat : i <= k => ball[i] = f[i]}
  <2>6. 0 \in I
    BY <1>3, <2>5
  <2>7. ASSUME NEW i \in Nat, i \in I PROVE i + 1 \in I
    BY <2>7, <1>3, <2>5
  <2> HIDE DEF I
  <2>8. k \in I
    BY <2>6, <2>7, NatSet
  <2> QED
    BY <2>4, <2>8 DEF I
<1> QED
  BY <1>3, <1>4

LEMMA WithinGrows ==
    ASSUME query.start \in Nodes, NEW k \in Nat, NEW l \in Nat, k <= l
    PROVE  Within(k) \subseteq Within(l)
<1> DEFINE I == {d \in Nat : Within(k) \subseteq Within(k + d)}
<1>1. 0 \in I
  OBVIOUS
<1>2. ASSUME NEW d \in Nat, d \in I PROVE d + 1 \in I
  <2>1. Within((k + d) + 1) = Spread(Within(k + d)) /\ (k + d) + 1 = k + (d + 1)
    BY WithinIs
  <2> QED
    BY <1>2, <2>1 DEF Spread
<1> HIDE DEF I
<1>3. l - k \in I
  BY <1>1, <1>2, NatSet
<1>4. k + (l - k) = l
  OBVIOUS
<1> QED
  BY <1>3, <1>4 DEF I

LEMMA WithinKept ==
    ASSUME graph' = graph, query' = query, NEW k
    PROVE  Within(k)' = Within(k)
  BY DEF Within, Reaches

\* A hop that may be scanned at m is over an edge between m and the node it leads to.
IsHop(m, hop) ==
    /\ {graph[hop.edge].from, graph[hop.edge].to} = {m, hop.next}
    /\ Allowed(hop) => Reaches(m, hop.next)

LEMMA AdjacentHops ==
    ASSUME SearchTypes, NEW m \in Nodes, NEW k \in DOMAIN Adjacent(m)
    PROVE  IsHop(m, Adjacent(m)[k])
<1>1. /\ graph \in [Edges -> [from : Nodes, to : Nodes]]
      /\ query.direction \in Direction /\ query.edges \subseteq Edges
  BY GraphAssumed DEF Query
<1>2. EdgesFrom(m) \in SUBSET Edges /\ EdgesInto(m) \in SUBSET Edges
  BY DEF EdgesFrom, EdgesInto
<1>3. /\ EdgesFrom(m) \subseteq Nat /\ IsFiniteSet(EdgesFrom(m))
      /\ EdgesInto(m) \subseteq Nat /\ IsFiniteSet(EdgesInto(m))
  BY <1>2, GraphAssumed, FS_Subset
<1>4. InOrder(EdgesFrom(m)) \in Seq(EdgesFrom(m)) /\ InOrder(EdgesInto(m)) \in Seq(EdgesInto(m))
  BY <1>3, InOrderLists
<1>5. ASSUME NEW i \in DOMAIN Out(m), query.direction \in {"OUT", "BOTH"} PROVE IsHop(m, Out(m)[i])
  <2>1. PICK e \in EdgesFrom(m) : Out(m)[i] = [edge |-> e, next |-> graph[e].to]
    BY <1>4 DEF Out
  <2>2. graph[e] = [from |-> m, to |-> graph[e].to]
    BY <1>1, <1>2 DEF EdgesFrom
  <2> QED
    BY <1>5, <2>1, <2>2 DEF IsHop, Allowed, Reaches
<1>6. ASSUME NEW i \in DOMAIN In(m), query.direction \in {"IN", "BOTH"} PROVE IsHop(m, In(m)[i])
  <2>1. PICK e \in EdgesInto(m) : In(m)[i] = [edge |-> e, next |-> graph[e].from]
    BY <1>4 DEF In
  <2>2. graph[e] = [from |-> graph[e].from, to |-> m]
    BY <1>1, <1>2 DEF EdgesInto
  <2> QED
    BY <1>6, <2>1, <2>2 DEF IsHop, Allowed, Reaches
<1>7. CASE query.direction = "OUT"
  BY <1>5, <1>7, AdjacentIs
<1>8. CASE query.direction = "IN"
  BY <1>6, <1>8, AdjacentIs
<1>9. CASE query.direction = "BOTH"
  <2>1. Out(m) \in Seq(Hop) /\ In(m) \in Seq(Hop)
    <3>1. InOrder(EdgesFrom(m)) \in Seq(Edges) /\ InOrder(EdgesInto(m)) \in Seq(Edges)
      BY <1>2, <1>4
    <3>2. Out(m) \in [1..Len(InOrder(EdgesFrom(m))) -> Hop]
      BY <1>1, <3>1 DEF Out, Hop
    <3>3. Out(m) \in Seq(Hop)
      BY <3>1, <3>2, FunctionIsSeq
    <3>4. In(m) \in [1..Len(InOrder(EdgesInto(m))) -> Hop]
      BY <1>1, <3>1 DEF In, Hop
    <3>5. In(m) \in Seq(Hop)
      BY <3>1, <3>4, FunctionIsSeq
    <3> QED
      BY <3>3, <3>5
  <2>2. Adjacent(m) = Out(m) \o In(m)
    BY <1>9, AdjacentIs
  <2>3. CASE k \in DOMAIN Out(m)
    <3>1. Adjacent(m)[k] = Out(m)[k]
      BY <2>1, <2>2, <2>3
    <3> QED
      BY <1>5, <1>9, <2>3, <3>1
  <2>4. CASE k \notin DOMAIN Out(m)
    <3>1. k - Len(Out(m)) \in DOMAIN In(m) /\ Adjacent(m)[k] = In(m)[k - Len(Out(m))]
      BY <2>1, <2>2, <2>4
    <3> QED
      BY <1>6, <1>9, <3>1
  <2> QED
    BY <2>3, <2>4
<1> QED
  BY <1>1, <1>7, <1>8, <1>9 DEF Direction
-----------------------------------------------------------------------------
\* The search works off its nodes level by level.
Depths ==
    /\ \A n \in visited : depth[n] \in Nat /\ depth[n] <= query.max_depth
    /\ cur \in visited /\ \A k \in DOMAIN queue : queue[k] \in visited

Scanning ==
    search = "scan" => depth[cur] < query.max_depth /\ \A k \in DOMAIN hops : IsHop(cur, hops[k])

InLevels ==
    /\ \A i, j \in DOMAIN queue :
           i <= j => depth[queue[i]] <= depth[queue[j]] /\ depth[queue[j]] <= depth[queue[i]] + 1
    /\ search = "scan" =>
           \A i \in DOMAIN queue : depth[cur] <= depth[queue[i]] /\ depth[queue[i]] <= depth[cur] + 1

Nearest ==
    \A n \in visited : n \in Within(depth[n]) /\ (depth[n] > 0 => n \notin Within(depth[n] - 1))

Linked ==
    \A n \in DOMAIN via :
        n \in visited /\ \E m \in visited : depth[m] + 1 = depth[n] /\ {graph[via[n]].from, graph[via[n]].to} = {m, n}

Bounded == IsFiniteSet(visited) /\ Cardinality(visited) <= query.max_visited

Closed ==
    search \in {"dequeue", "scan"} \/ (search = "done" /\ ~truncated) =>
        \A m \in visited, n \in Nodes :
            depth[m] < query.max_depth /\ Reaches(m, n) => n \in visited \/ Pending(m, n)

LevelInv == Depths /\ Scanning /\ InLevels /\ Nearest /\ Linked /\ Bounded /\ Closed

\* Where the nodes nearer than d are expanded, everything within d hops is visited.
LEMMA ClosedUpTo ==
    ASSUME SearchTypes, Depths, Nearest, NEW d \in Nat,
           \A m \in visited, n \in Nodes : depth[m] < d /\ Reaches(m, n) => n \in visited
    PROVE  Within(d) \subseteq visited
<1>0. query.start \in Nodes /\ query.start \in visited
  BY GraphAssumed DEF SearchTypes
<1> DEFINE I == {j \in Nat : j <= d => Within(j) \subseteq visited}
<1>1. 0 \in I
  BY <1>0, WithinIs
<1>2. ASSUME NEW j \in Nat, j \in I PROVE j + 1 \in I
  <2> SUFFICES ASSUME j + 1 <= d, NEW n \in Within(j + 1) PROVE n \in visited
    OBVIOUS
  <2>1. Within(j) \subseteq visited /\ Within(j + 1) = Spread(Within(j)) /\ j < d
    BY <1>0, <1>2, WithinIs
  <2>2. CASE n \in Within(j)
    BY <2>1, <2>2
  <2>3. ASSUME n \in Nodes, NEW m \in Within(j), Reaches(m, n) PROVE n \in visited
    <3>1. m \in visited /\ depth[m] \in Nat
      BY <2>1 DEF Depths
    <3>2. depth[m] <= j
      <4> SUFFICES ASSUME j < depth[m] PROVE FALSE
        BY <3>1
      <4>1. depth[m] > 0 /\ depth[m] - 1 \in Nat /\ j <= depth[m] - 1
        BY <3>1
      <4>2. Within(j) \subseteq Within(depth[m] - 1)
        BY <1>0, <4>1, WithinGrows
      <4> QED
        BY <3>1, <4>1, <4>2 DEF Nearest
    <3> QED
      BY <2>1, <2>3, <3>1, <3>2
  <2> QED
    BY <2>1, <2>2, <2>3 DEF Spread
<1> HIDE DEF I
<1>3. d \in I
  BY <1>1, <1>2, NatSet
<1> QED
  BY <1>3 DEF I

LEMMA LevelInitial == TraversalInit => LevelInv
<1> SUFFICES ASSUME TraversalInit PROVE LevelInv
  OBVIOUS
<1> USE DEF TraversalInit
<1>1. query \in Query /\ query.start \in Nodes /\ query.max_depth \in Nat /\ query.max_visited \in Nat \ {0}
  BY TraversalAssumption DEF Query
<1>2. visited = {query.start} /\ depth[query.start] = 0 /\ queue \in Seq(visited) /\ DOMAIN via = {}
  BY DEF visited
<1>3. DOMAIN queue = {1} /\ queue[1] = query.start
  OBVIOUS
<1>4. Depths /\ Scanning /\ InLevels
  BY <1>1, <1>2, <1>3 DEF Depths, Scanning, InLevels
<1>5. Nearest
  BY <1>1, <1>2, WithinIs DEF Nearest
<1>6. Bounded
  <2>1. IsFiniteSet({query.start}) /\ Cardinality({query.start}) = 1
    BY FS_Singleton
  <2> HIDE DEF TraversalInit
  <2> QED
    BY <1>1, <1>2, <2>1 DEF Bounded
<1>7. Closed
  BY <1>2, <1>3 DEF Closed, Pending
<1> QED
  BY <1>2, <1>4, <1>5, <1>6, <1>7 DEF LevelInv, Linked

\* Steps that visit nothing keep what is said of the visited nodes.
LEMMA SameVisited ==
    ASSUME Nearest, Linked, Bounded, UNCHANGED <<graph, query, depth, via>>
    PROVE  Nearest' /\ Linked' /\ Bounded'
<1>1. visited' = visited
  BY DEF visited
<1>2. \A k : Within(k)' = Within(k)
  BY DEF Within, Reaches
<1> QED
  BY <1>1, <1>2 DEF Nearest, Linked, Bounded

LEMMA TailLevels ==
    ASSUME SearchTypes, Depths, InLevels, queue # <<>>
    PROVE  /\ Tail(queue) \in Seq(Nodes)
           /\ Head(queue) \in visited /\ Head(queue) = queue[1] /\ 1 \in DOMAIN queue
           /\ \A i \in DOMAIN Tail(queue) : i \in Nat /\ i + 1 \in DOMAIN queue /\ Tail(queue)[i] = queue[i + 1] /\ 1 <= i + 1
<1>1. queue \in Seq(Nodes)
  BY DEF SearchTypes
<1>2. Tail(queue) \in Seq(Nodes) /\ Head(queue) = queue[1] /\ 1 \in DOMAIN queue
  BY <1>1, HeadFirst
<1>3. \A i \in DOMAIN Tail(queue) : i \in Nat /\ i + 1 \in DOMAIN queue /\ Tail(queue)[i] = queue[i + 1] /\ 1 <= i + 1
  BY <1>1
<1> QED
  BY <1>2, <1>3 DEF Depths

LEMMA LevelStep ==
    ASSUME SearchInv, LevelInv, [TraversalNext]_traversalVars
    PROVE  LevelInv'
<1> USE DEF LevelInv
<1>q. /\ SearchTypes /\ SearchDone /\ Depths /\ Scanning /\ InLevels /\ Nearest /\ Linked /\ Bounded /\ Closed
  BY DEF SearchInv
<1>g. /\ query.start \in Nodes /\ query.max_depth \in Nat /\ query.max_visited \in Nat
      /\ search \in {"dequeue", "scan", "done", "found"}
  BY <1>q, GraphAssumed DEF Query, SearchTypes
<1>s. ASSUME UNCHANGED <<graph, query, depth>>
      PROVE  visited' = visited /\ (\A m, n : Reaches(m, n)' <=> Reaches(m, n)) /\ \A m, h : IsHop(m, h)' <=> IsHop(m, h)
  BY <1>s DEF visited, Reaches, IsHop, Allowed
<1>0. CASE UNCHANGED traversalVars
  <2> USE <1>0 DEF traversalVars
  <2>1. \A m, n : Pending(m, n)' <=> Pending(m, n)
    BY DEF Pending, Allowed
  <2>2. Depths' /\ Scanning' /\ InLevels' /\ Closed'
    BY <1>q, <1>s, <2>1 DEF Depths, Scanning, InLevels, Closed
  <2> QED
    BY <1>q, <2>2, SameVisited
<1>1. CASE QueueEmpty
  <2> USE <1>1 DEF QueueEmpty
  <2>1. \A m, n : ~Pending(m, n)
    BY DEF Pending
  <2>2. Depths' /\ Scanning' /\ InLevels' /\ Closed'
    BY <1>q, <1>s, <2>1 DEF Depths, Scanning, InLevels, Closed
  <2> QED
    BY <1>q, <2>2, SameVisited
<1>2. CASE SkipAtDepth
  <2> USE <1>2 DEF SkipAtDepth
  <2>1. /\ Head(queue) \in visited /\ Head(queue) = queue[1]
        /\ \A i \in DOMAIN queue' : i \in Nat /\ i + 1 \in DOMAIN queue /\ queue'[i] = queue[i + 1]
    BY <1>q, TailLevels
  <2>2. Depths' /\ Scanning'
    BY <1>q, <1>s, <2>1 DEF Depths, Scanning
  <2>3. InLevels'
    BY <1>q, <2>1 DEF InLevels
  <2>4. Closed'
    <3> SUFFICES ASSUME NEW m \in visited, NEW n \in Nodes, depth[m] < query.max_depth, Reaches(m, n), n \notin visited
                 PROVE  Pending(m, n)'
      BY <1>s DEF Closed
    <3>1. PICK k \in DOMAIN queue : queue[k] = m
      BY <1>q DEF Closed, Pending
    <3>2. m # Head(queue)
      BY <1>q, <1>g DEF AtDepth, Depths
    <3>3. \E i \in DOMAIN Tail(queue) : Tail(queue)[i] = m
      BY <1>q, <2>1, <3>1, <3>2, TailKeeps DEF SearchTypes
    <3> QED
      BY <3>3 DEF Pending
  <2> QED
    BY <1>q, <2>2, <2>3, <2>4, SameVisited
<1>3. CASE ExpandNode
  <2> USE <1>3 DEF ExpandNode
  <2>1. /\ Head(queue) \in visited /\ Head(queue) = queue[1] /\ 1 \in DOMAIN queue
        /\ \A i \in DOMAIN queue' : i \in Nat /\ i + 1 \in DOMAIN queue /\ queue'[i] = queue[i + 1] /\ 1 <= i + 1
    BY <1>q, TailLevels
  <2>2. Head(queue) \in Nodes /\ depth[Head(queue)] < query.max_depth
    BY <1>q, <1>g, <2>1 DEF AtDepth, Depths, SearchTypes
  <2>3. Depths'
    BY <1>q, <1>s, <2>1 DEF Depths
  <2>4. Scanning'
    <3>1. \A k \in DOMAIN Adjacent(Head(queue)) : IsHop(Head(queue), Adjacent(Head(queue))[k])
      BY <1>q, <2>2, AdjacentHops
    <3>2. hops' = Adjacent(Head(queue)) /\ cur' = Head(queue)
      OBVIOUS
    <3> QED
      BY <1>s, <2>2, <3>1, <3>2 DEF Scanning
  <2>5. InLevels'
    BY <1>q, <2>1 DEF InLevels
  <2>6. Closed'
    <3> SUFFICES ASSUME NEW m \in visited, NEW n \in Nodes, depth[m] < query.max_depth, Reaches(m, n), n \notin visited
                 PROVE  Pending(m, n)'
      BY <1>s DEF Closed
    <3>1. PICK k \in DOMAIN queue : queue[k] = m
      BY <1>q DEF Closed, Pending
    <3>2. CASE m = Head(queue)
      <4>1. PICK i \in DOMAIN Adjacent(m) : Allowed(Adjacent(m)[i]) /\ Adjacent(m)[i].next = n
        BY <1>q, <2>2, <3>2, AdjacentLists
      <4>2. hops' = Adjacent(m) /\ cur' = m /\ search' = "scan"
        BY <3>2
      <4> QED
        BY <4>1, <4>2 DEF Pending, Allowed
    <3>3. CASE m # Head(queue)
      <4>1. \E i \in DOMAIN Tail(queue) : Tail(queue)[i] = m
        BY <1>q, <2>1, <3>1, <3>3, TailKeeps DEF SearchTypes
      <4> QED
        BY <4>1 DEF Pending
    <3> QED
      BY <3>2, <3>3
  <2> QED
    BY <1>q, <2>3, <2>4, <2>5, <2>6, SameVisited
<1>4. CASE Expanded
  <2> USE <1>4 DEF Expanded
  <2>1. \A m, n : Pending(m, n) => Pending(m, n)'
    BY DEF Pending
  <2>2. Depths' /\ Scanning' /\ InLevels' /\ Closed'
    BY <1>q, <1>s, <2>1 DEF Depths, Scanning, InLevels, Closed
  <2> QED
    BY <1>q, <2>2, SameVisited
<1>5. CASE PassOver
  <2> USE <1>5 DEF PassOver
  <2>1. hops \in Seq(Hop) /\ Head(hops) = hops[1]
    BY <1>q, HeadFirst DEF SearchTypes
  <2>2. \A i \in DOMAIN hops' : i + 1 \in DOMAIN hops /\ hops'[i] = hops[i + 1]
    BY <2>1
  <2>3. Depths' /\ Scanning' /\ InLevels'
    BY <1>q, <1>s, <2>2 DEF Depths, Scanning, InLevels
  <2>4. ASSUME NEW m, NEW n, Pending(m, n), n \notin visited
        PROVE  Pending(m, n)'
    <3>1. CASE \E k \in DOMAIN queue : queue[k] = m
      BY <3>1 DEF Pending
    <3>2. CASE m = cur /\ \E k \in DOMAIN hops : Allowed(hops[k]) /\ hops[k].next = n
      <4>1. PICK k \in DOMAIN hops : Allowed(hops[k]) /\ hops[k].next = n
        BY <3>2
      <4>2. k # 1
        BY <4>1, <2>1, <2>4 DEF Follow
      <4>3. PICK i \in DOMAIN Tail(hops) : Tail(hops)[i] = hops[k]
        BY <2>1, <4>2, TailKeeps
      <4> QED
        BY <3>2, <4>1, <4>3 DEF Pending, Allowed
    <3> QED
      BY <2>4, <3>1, <3>2 DEF Pending
  <2>5. Closed'
    BY <1>q, <1>s, <2>4 DEF Closed
  <2> QED
    BY <1>q, <2>3, <2>5, SameVisited
<1>6. CASE StopFull
  <2> USE <1>6 DEF StopFull
  <2>1. Depths' /\ Scanning' /\ InLevels' /\ Closed'
    BY <1>q, <1>s DEF Depths, Scanning, InLevels, Closed
  <2> QED
    BY <1>q, <2>1, SameVisited
<1>7. CASE Visit
  <2> USE <1>7 DEF Visit
  <2>0. PICK hop : hop = Head(hops)
    OBVIOUS
  <2> DEFINE d == depth[cur]
  <2>1. /\ visited' = visited \cup {hop.next} /\ queue' = Append(queue, hop.next)
        /\ DOMAIN via' = DOMAIN via \cup {hop.next} /\ via'[hop.next] = hop.edge
        /\ \A n \in DOMAIN via : n # hop.next => via'[n] = via[n]
        /\ depth'[hop.next] = d + 1 /\ \A n \in visited : n # hop.next => depth'[n] = depth[n]
        /\ \A m, n : Reaches(m, n)' <=> Reaches(m, n)
        /\ \A k : Within(k)' = Within(k)
    BY <2>0 DEF visited, Reaches, Within
  <2>2. /\ hops \in Seq(Hop) /\ hop = hops[1] /\ 1 \in DOMAIN hops /\ hop \in Hop
        /\ Allowed(hop) /\ hop.next \notin visited /\ hop.next \in Nodes
    <3>1. hops \in Seq(Hop) /\ hop = hops[1] /\ hop \in Hop /\ 1 \in DOMAIN hops
      BY <1>q, <2>0, HeadFirst DEF SearchTypes
    <3> QED
      BY <2>0, <3>1 DEF Follow, Hop
  <2>3. /\ {graph[hop.edge].from, graph[hop.edge].to} = {cur, hop.next}
        /\ Reaches(cur, hop.next) /\ d < query.max_depth
    BY <1>q, <2>2 DEF Scanning, IsHop
  <2>4. cur \in visited /\ d \in Nat /\ d + 1 <= query.max_depth
    BY <1>q, <1>g, <2>3 DEF Depths
  <2>5. \A n \in visited : n # hop.next /\ depth'[n] = depth[n]
    BY <2>1, <2>2
  <2>6. /\ queue \in Seq(Nodes)
        /\ \A k \in DOMAIN queue : queue[k] \in visited /\ queue[k] # hop.next
        /\ \A k \in DOMAIN queue' : k \in Nat /\ k <= Len(queue) + 1 /\ (k \in DOMAIN queue \/ k = Len(queue) + 1)
        /\ \A k \in DOMAIN queue : queue'[k] = queue[k] /\ k \in Nat /\ k <= Len(queue)
        /\ queue'[Len(queue) + 1] = hop.next
    <3>1. queue \in Seq(Nodes) /\ \A k \in DOMAIN queue : queue[k] \in visited
      BY <1>q DEF SearchTypes, Depths
    <3> QED
      BY <2>1, <2>2, <3>1
  <2>7. Depths'
    <3>1. \A n \in visited' : depth'[n] \in Nat /\ depth'[n] <= query.max_depth
      BY <1>q, <2>1, <2>4, <2>5 DEF Depths
    <3>2. \A k \in DOMAIN queue' : queue'[k] \in visited'
      BY <2>1, <2>6
    <3> QED
      BY <2>1, <2>4, <3>1, <3>2 DEF Depths
  <2>8. Scanning'
    <3>1. \A i \in DOMAIN Tail(hops) : i + 1 \in DOMAIN hops /\ Tail(hops)[i] = hops[i + 1]
      BY <2>2
    <3>2. \A m, h : IsHop(m, h)' <=> IsHop(m, h)
      BY <2>1 DEF IsHop, Allowed
    <3> QED
      BY <1>q, <2>4, <2>5, <3>1, <3>2 DEF Scanning
  <2>9. InLevels'
    <3>0. ASSUME NEW i \in DOMAIN queue PROVE d <= depth[queue[i]] /\ depth[queue[i]] <= d + 1 /\ depth[queue[i]] \in Nat
      BY <1>q, <2>6 DEF InLevels, Depths
    <3>1. ASSUME NEW i \in DOMAIN queue'
          PROVE  d <= depth'[queue'[i]] /\ depth'[queue'[i]] <= d + 1 /\ depth'[queue'[i]] \in Nat
      <4>1. CASE i \in DOMAIN queue
        BY <2>5, <2>6, <3>0, <4>1
      <4>2. CASE i = Len(queue) + 1
        BY <2>1, <2>4, <2>6, <4>2
      <4> QED
        BY <2>6, <4>1, <4>2
    <3>2. ASSUME NEW i \in DOMAIN queue', NEW j \in DOMAIN queue', i <= j
          PROVE  depth'[queue'[i]] <= depth'[queue'[j]] /\ depth'[queue'[j]] <= depth'[queue'[i]] + 1
      <4>1. CASE j \in DOMAIN queue
        <5>1. i \in DOMAIN queue
          BY <2>6, <3>2, <4>1
        <5> QED
          BY <1>q, <2>5, <2>6, <3>2, <4>1, <5>1 DEF InLevels
      <4>2. CASE j = Len(queue) + 1
        <5>1. depth'[queue'[j]] = d + 1
          BY <2>1, <2>6, <4>2
        <5>2. d <= depth'[queue'[i]] /\ depth'[queue'[i]] <= d + 1 /\ depth'[queue'[i]] \in Nat
          BY <3>1
        <5> DEFINE near == depth'[queue'[i]]
                   far == depth'[queue'[j]]
        <5>3. d \in Nat /\ near \in Nat /\ d <= near /\ near <= d + 1 /\ far = d + 1
          BY <2>4, <5>1, <5>2
        <5> HIDE DEF d, near, far
        <5>4. near <= far /\ far <= near + 1
          BY <5>3
        <5> QED
          BY <5>4 DEF near, far
      <4> QED
        BY <2>6, <4>1, <4>2
    <3>3. cur' = cur /\ depth'[cur] = d
      BY <2>4, <2>5
    <3> QED
      BY <3>1, <3>2, <3>3 DEF InLevels
  <2>10. Within(d) \subseteq visited
    <3>1. ASSUME NEW m \in visited, NEW n \in Nodes, depth[m] < d, Reaches(m, n) PROVE n \in visited
      <4>1. depth[m] \in Nat /\ depth[m] < query.max_depth
        BY <1>q, <1>g, <2>3, <2>4, <3>1 DEF Depths
      <4>2. ~Pending(m, n)
        BY <1>q, <2>4, <3>1, <4>1 DEF Pending, InLevels
      <4> QED
        BY <1>q, <3>1, <4>1, <4>2 DEF Closed
    <3> QED
      BY <1>q, <2>4, <3>1, ClosedUpTo
  <2>11. Nearest'
    <3>1. hop.next \in Within(d + 1) /\ hop.next \notin Within(d)
      <4>1. cur \in Within(d)
        BY <1>q, <2>4 DEF Nearest
      <4>2. Within(d + 1) = Spread(Within(d))
        BY <1>g, <2>4, WithinIs
      <4> QED
        BY <2>2, <2>3, <2>10, <4>1, <4>2 DEF Spread
    <3>2. (d + 1) - 1 = d
      BY <2>4
    <3>3. ASSUME NEW n \in visited'
          PROVE  n \in Within(depth'[n]) /\ (depth'[n] > 0 => n \notin Within(depth'[n] - 1))
      <4>1. CASE n = hop.next
        BY <2>1, <3>1, <3>2, <4>1
      <4>2. CASE n \in visited
        BY <1>q, <2>5, <4>2 DEF Nearest
      <4> QED
        BY <2>1, <4>1, <4>2
    <3> QED
      BY <2>1, <3>3 DEF Nearest
  <2>12. Linked'
    <3>1. ASSUME NEW n \in DOMAIN via'
          PROVE  n \in visited' /\ \E m \in visited' : depth'[m] + 1 = depth'[n] /\ {graph[via'[n]].from, graph[via'[n]].to} = {m, n}
      <4>1. CASE n = hop.next
        BY <2>1, <2>3, <2>4, <2>5, <4>1
      <4>2. CASE n # hop.next
        <5>1. n \in DOMAIN via /\ via'[n] = via[n]
          BY <2>1, <4>2
        <5>2. n \in visited /\ \E m \in visited : depth[m] + 1 = depth[n] /\ {graph[via[n]].from, graph[via[n]].to} = {m, n}
          BY <1>q, <5>1 DEF Linked
        <5> QED
          BY <2>1, <2>5, <5>1, <5>2
      <4> QED
        BY <4>1, <4>2
    <3> QED
      BY <3>1 DEF Linked
  <2>13. Bounded'
    <3>1. IsFiniteSet(visited') /\ Cardinality(visited') = Cardinality(visited) + 1
      BY <1>q, <2>1, <2>2, FS_AddElement DEF Bounded
    <3>2. Cardinality(visited) \in Nat
      BY <1>q, FS_CardinalityType DEF Bounded
    <3> QED
      BY <1>g, <3>1, <3>2 DEF Bounded, Full
  <2>14. Closed'
    <3> SUFFICES ASSUME search' = "scan", NEW m \in visited', NEW n \in Nodes,
                        depth'[m] < query.max_depth, Reaches(m, n), n \notin visited'
                 PROVE  Pending(m, n)'
      BY <2>1 DEF Closed
    <3>1. CASE m = hop.next
      <4>1. \E k \in DOMAIN queue' : queue'[k] = m
        BY <2>1, <2>2, <2>6, <3>1, AppendKeeps
      <4> QED
        BY <4>1 DEF Pending
    <3>2. CASE m \in visited
      <4>1. Pending(m, n)
        BY <1>q, <2>1, <2>5, <3>2 DEF Closed
      <4>2. CASE \E k \in DOMAIN queue : queue[k] = m
        <5>1. \E k \in DOMAIN queue' : queue'[k] = m
          BY <2>1, <2>2, <2>6, <4>2, AppendKeeps
        <5> QED
          BY <5>1 DEF Pending
      <4>3. CASE m = cur /\ \E k \in DOMAIN hops : Allowed(hops[k]) /\ hops[k].next = n
        <5>1. PICK k \in DOMAIN hops : Allowed(hops[k]) /\ hops[k].next = n
          BY <4>3
        <5>2. k # 1
          BY <2>1, <2>2, <5>1
        <5>3. PICK i \in DOMAIN Tail(hops) : Tail(hops)[i] = hops[k]
          BY <2>2, <5>2, TailKeeps
        <5> QED
          BY <4>3, <5>1, <5>3 DEF Pending, Allowed
      <4> QED
        BY <4>1, <4>2, <4>3 DEF Pending
    <3> QED
      BY <2>1, <3>1, <3>2
  <2> QED
    BY <2>7, <2>8, <2>9, <2>11, <2>12, <2>13, <2>14
<1> QED
  BY <1>0, <1>1, <1>2, <1>3, <1>4, <1>5, <1>6, <1>7 DEF TraversalNext

LEMMA LevelsHonest == SearchInv /\ LevelInv => TraversalHonest
<1> SUFFICES ASSUME SearchInv, LevelInv PROVE TraversalHonest
  OBVIOUS
<1>q. /\ SearchTypes /\ SearchDone /\ Depths /\ Nearest /\ Linked /\ Bounded /\ Closed
  BY DEF SearchInv, LevelInv
<1>g. query.start \in Nodes /\ query.max_depth \in Nat
  BY <1>q, GraphAssumed DEF Query
<1>1. ASSUME search = "done", ~truncated PROVE visited = Within(query.max_depth)
  <2>1. ASSUME NEW m \in visited, NEW n \in Nodes, depth[m] < query.max_depth, Reaches(m, n) PROVE n \in visited
    <3>1. ~Pending(m, n)
      BY <1>q, <1>1 DEF SearchDone, Pending
    <3> QED
      BY <1>q, <1>1, <2>1, <3>1 DEF Closed
  <2>2. Within(query.max_depth) \subseteq visited
    BY <1>q, <1>g, <2>1, ClosedUpTo
  <2>3. ASSUME NEW n \in visited PROVE n \in Within(query.max_depth)
    <3>1. n \in Within(depth[n]) /\ depth[n] \in Nat /\ depth[n] <= query.max_depth
      BY <1>q DEF Nearest, Depths
    <3>2. Within(depth[n]) \subseteq Within(query.max_depth)
      BY <1>g, <3>1, WithinGrows
    <3> QED
      BY <3>1, <3>2
  <2> QED
    BY <2>2, <2>3
<1>2. Cardinality(visited) <= query.max_visited
  BY <1>q DEF Bounded
<1>3. \A n \in visited : n \in Within(depth[n]) /\ (depth[n] > 0 => n \notin Within(depth[n] - 1))
  BY <1>q DEF Nearest
<1>4. \A n \in DOMAIN via : \E m \in visited : depth[m] + 1 = depth[n] /\ {graph[via[n]].from, graph[via[n]].to} = {m, n}
  BY <1>q DEF Linked
<1> QED
  BY <1>1, <1>2, <1>3, <1>4 DEF TraversalHonest

\* A search of SnapshotIndex (_bfs) has each node it visited at its distance, reached over an edge of the
\* graph from a node one nearer, keeps to its bounds, and has left out nothing within its depth unless it
\* says that it was truncated: for every graph, filter, direction and depth.
THEOREM TraversalsHonest == TraversalSpec => []TraversalHonest
<1>1. TraversalInit => SearchInv /\ LevelInv
  BY SearchInitial, LevelInitial
<1>2. SearchInv /\ LevelInv /\ [TraversalNext]_traversalVars => SearchInv' /\ LevelInv'
  BY SearchStep, LevelStep
<1>3. SearchInv /\ LevelInv => TraversalHonest
  BY LevelsHonest
<1> QED
  BY <1>1, <1>2, <1>3, PTL DEF TraversalSpec

(***************************************************************************)
(* The verdict of a replay.                                                *)
(***************************************************************************)

\* Every document read that does not agree is among the differences.
DifferencesListed ==
    check \in {"replayed", "compared"} => request.mode # "PROVENANCE_ONLY" /\
        (world.completed =>
            /\ \A d \in Documents \ unread : Readable(d) /\ ~ComparesEqual(d) => d \in differences
            /\ check = "compared" => unread = {} /\ (~world.others => "others" \in differences))

\* Of a schedule nothing is compared but its units, and these whether or not it completed.
UnitsListed ==
    request.kind = "SCHEDULE" =>
        /\ world.others /\ ~world.sources_changed
        /\ check = "start" => differences = {}
        /\ check \in {"replayed", "compared"} => differences = {d \in Documents \ unread : world.distance[d] # "same"}
        /\ check = "compared" => unread = {}

VerdictInv ==
    /\ request \in Request /\ world \in World
    /\ world.resource_keys # {} => request.kind = "SCHEDULE"
    /\ DifferencesListed
    /\ UnitsListed
    /\ check = "replayed" => world.completed \/ request.kind = "SCHEDULE"
    /\ OutcomeSupported
-----------------------------------------------------------------------------
LEMMA VerdictInitial == VerdictInit => VerdictInv
<1> SUFFICES ASSUME VerdictInit PROVE VerdictInv
  OBVIOUS
<1>1. UnitsListed
  BY DEF VerdictInit, UnitsListed, Fingerprinted
<1> QED
  BY <1>1 DEF VerdictInit, VerdictInv, DifferencesListed, OutcomeSupported, WasReplayed

\* _classify gives EQUAL and APPROXIMATELY_EQUAL only on what the differences and the fields show.
LEMMA ClassifySupported ==
    ASSUME VerdictInv, check = "compared", classify \in {"EQUAL", "APPROXIMATELY_EQUAL"}
    PROVE  /\ world.completed /\ ~sources_changed
           /\ LET agreed == {"same", "tiny"} \cup IF classify = "EQUAL" THEN {} ELSE request.tolerated
              IN  \A d \in Documents \ world.resource_keys : Readable(d) => world.distance[d] \in agreed
           /\ IF classify = "EQUAL" THEN world.others ELSE request.mode \in TOLERANCE_MODES
<1>1. world.completed /\ ~sources_changed
  BY DEF classify
<1>2. classify = IF deterministic THEN "EQUAL"
                 ELSE IF request.mode \in TOLERANCE_MODES /\ FieldDifferences # {} THEN Worst ELSE "DIFFERENT"
  BY <1>1 DEF classify
<1>3. Worst \in {"INCOMPARABLE", "DIFFERENT", "APPROXIMATELY_EQUAL"}
  BY DEF Worst
<1>4. CASE deterministic
  <2>1. differences \subseteq world.resource_keys /\ classify = "EQUAL"
    BY <1>2, <1>4 DEF deterministic, non_resource_diffs
  <2>2. unread = {} /\ \A d \in Documents \ world.resource_keys : Readable(d) => ComparesEqual(d)
    BY <1>1, <2>1 DEF VerdictInv, DifferencesListed
  <2>3. world.others
    <3>1. CASE request.kind = "SCHEDULE"
      BY <3>1 DEF VerdictInv, UnitsListed
    <3>2. CASE request.kind # "SCHEDULE"
      BY <1>1, <2>1, <3>2 DEF VerdictInv, DifferencesListed
    <3> QED
      BY <3>1, <3>2
  <2> QED
    BY <1>1, <2>1, <2>2, <2>3 DEF ComparesEqual
<1>5. CASE ~deterministic
  <2>1. request.mode \in TOLERANCE_MODES /\ FieldDifferences # {} /\ Worst = "APPROXIMATELY_EQUAL" /\ classify # "EQUAL"
    BY <1>2, <1>3, <1>5
  <2>2. \A d \in FieldDifferences : world.distance[d] \in request.tolerated
    BY <2>1 DEF Worst
  <2>3. \A d \in Documents : Readable(d) => world.distance[d] = "same" \/ d \in FieldDifferences
    BY <2>1 DEF FieldDifferences
  <2> QED
    BY <1>1, <2>1, <2>2, <2>3
<1> QED
  BY <1>4, <1>5

\* A schedule is EQUAL exactly when it completed and no unit but RESOURCE units differs.
LEMMA ScheduleVerdict ==
    ASSUME VerdictInv, check = "compared", request.kind = "SCHEDULE"
    PROVE  /\ differences = {d \in Documents : world.distance[d] # "same"}
           /\ classify = "EQUAL" <=> world.completed /\ differences \subseteq world.resource_keys
<1>1. differences = {d \in Documents : world.distance[d] # "same"}
  BY DEF VerdictInv, UnitsListed
<1>2. ~sources_changed
  BY DEF VerdictInv, UnitsListed, sources_changed
<1>3. deterministic <=> differences \subseteq world.resource_keys
  BY DEF deterministic, non_resource_diffs
<1>4. FieldDifferences = {}
  BY DEF FieldDifferences, DocumentKinds
<1> QED
  BY <1>1, <1>2, <1>3, <1>4 DEF classify

LEMMA VerdictStep ==
    ASSUME VerdictInv, [VerdictNext]_verdictVars
    PROVE  VerdictInv'
<1> USE DEF VerdictInv
<1>0. CASE UNCHANGED verdictVars
  BY <1>0 DEF verdictVars, DifferencesListed, UnitsListed, OutcomeSupported, WasReplayed, Readable, ComparesEqual, sources_changed
<1>1. CASE ProvenanceOnly
  BY <1>1 DEF ProvenanceOnly, Record, DifferencesListed, UnitsListed, OutcomeSupported, WasReplayed
<1>2. CASE Replay
  BY <1>2 DEF Replay, DifferencesListed, UnitsListed, OutcomeSupported, WasReplayed
<1>3. CASE ReplayRefused
  BY <1>3 DEF ReplayRefused, DifferencesListed, UnitsListed, OutcomeSupported, WasReplayed
<1>4. CASE CompareOthers
  <2> USE <1>4 DEF CompareOthers
  <2>1. DifferencesListed'
    BY DEF DifferencesListed, Readable, ComparesEqual
  <2>2. UnitsListed'
    BY DEF UnitsListed
  <2> QED
    BY <2>1, <2>2 DEF OutcomeSupported, WasReplayed
<1>5. CASE Classify
  <2> USE <1>5 DEF Classify, Record
  <2>1. DifferencesListed' /\ UnitsListed'
    BY DEF DifferencesListed, UnitsListed
  <2>2. \A d : Readable(d)' <=> Readable(d)
    BY DEF Readable
  <2>3. sources_changed' <=> sources_changed
    BY DEF sources_changed, Readable
  <2>4. OutcomeSupported'
    BY <2>2, <2>3, ClassifySupported, ScheduleVerdict DEF OutcomeSupported
  <2> QED
    BY <2>1, <2>4
<1>6. ASSUME NEW d \in Documents, ReadDocument(d)
      PROVE  VerdictInv'
  <2> USE <1>6 DEF ReadDocument
  <2>1. DifferencesListed'
    BY DEF DifferencesListed, Readable, ComparesEqual
  <2>2. UnitsListed'
    <3> SUFFICES ASSUME request.kind = "SCHEDULE" PROVE UnitsListed'
      BY DEF UnitsListed
    <3>1. Readable(d) /\ (ComparesEqual(d) <=> world.distance[d] = "same")
      BY DEF Readable, DocumentKinds, ComparesEqual
    <3> QED
      BY <3>1 DEF UnitsListed
  <2> QED
    BY <2>1, <2>2 DEF OutcomeSupported, WasReplayed
<1>7. ASSUME NEW d \in Documents, RefuseDocument(d)
      PROVE  VerdictInv'
  BY <1>7 DEF RefuseDocument, DifferencesListed, UnitsListed, OutcomeSupported, WasReplayed
<1> QED
  BY <1>0, <1>1, <1>2, <1>3, <1>4, <1>5, <1>6, <1>7 DEF VerdictNext

\* run_reproduction calls a replay EQUAL or APPROXIMATELY_EQUAL only on what it compared, for
\* any documents, whatever their originals, distances and tolerance.
THEOREM OutcomesSupported == VerdictSpec => []OutcomeSupported
<1>1. VerdictSpec => []VerdictInv
  BY VerdictInitial, VerdictStep, PTL DEF VerdictSpec
<1>2. VerdictInv => OutcomeSupported
  BY DEF VerdictInv
<1> QED
  BY <1>1, <1>2, PTL

(***************************************************************************)
(* Clusters of failure signals.                                            *)
(***************************************************************************)

\* Sets closed under the parents, and sets closed under joined pairs.
ClosedUp(S) == \A x \in S : parent[x] \in S

ClosedJoined(S) == \A x \in S, y \in Signals : Joined(x, y) => y \in S

\* r gives the root of every signal: it is constant along the parents, stays within every
\* set that the parents do not leave, and is connected with the signal.
RootsOf(r) ==
    /\ \A s \in Signals : r[parent[s]] = r[s] /\ parent[r[s]] = r[s]
    /\ \A S \in SUBSET Signals : ClosedUp(S) => \A s \in S : r[s] \in S
    /\ \A s \in Signals : r[s] \in Connected(s)

\* The roots found so far are those of the signals s.
Found(r, s) == roots \in Seq(Signals) /\ Len(roots) = Len(s) /\ \A k \in 1..Len(s) : roots[k] = r[s[k]]

\* The finds in progress are those of a joined pair, each twice.
FindsOf(r, i, j) ==
    /\ Joined(i, j)
    /\ r[cursor] = r[Head(finds)]
    /\ \/ finds = <<i, j, i, j>> /\ roots = <<>>
       \/ finds = <<j, i, j>> /\ Found(r, <<i>>)
       \/ finds = <<i, j>> /\ Found(r, <<i, j>>)
       \/ finds = <<j>> /\ Found(r, <<i, j, i>>)

\* The links taken so far, but for the pair in progress, are joined.
AllJoined(r, P) ==
    blocks = {} =>
        \A l \in links \ joining : l.score >= LinkThreshold /\ l.pair \notin P => r[l.pair[1]] = r[l.pair[2]]

ForestInv ==
    \E r \in [Signals -> Signals] :
        /\ RootsOf(r)
        /\ \/ finds = <<>> /\ AllJoined(r, {})
           \/ finds # <<>> /\ \E i, j \in Signals : FindsOf(r, i, j) /\ AllJoined(r, {<<i, j>>})

LinksInv ==
    /\ \A l \in links : input.block[l.pair[1]] = input.block[l.pair[2]]
    /\ \A l \in links : input.block[l.pair[1]] \notin blocks
    /\ \A l \in links : input.block[l.pair[1]] \in fallback => input.signature[l.pair[1]] = input.signature[l.pair[2]]
    /\ fallback \cap blocks = {}

ClusteringTypes ==
    /\ input \in Input /\ links \subseteq Link /\ joining \subseteq links
    /\ parent \in [Signals -> Signals]
    /\ finds # <<>> => cursor \in Signals
    /\ blocks # {} => joining = {} /\ finds = <<>>

ParentsBelow == \A s \in Signals : parent[s] <= s /\ input.block[parent[s]] = input.block[s]

ClusteringInv == ClusteringTypes /\ LinksInv /\ ParentsBelow /\ ForestInv
-----------------------------------------------------------------------------
LEMMA SignalsAreNumbers ==
    Signals \subseteq Nat /\ LinkThreshold \in Nat /\ LowestThreshold \in Nat /\ LowestThreshold <= LinkThreshold
  BY ClusteringAssumption DEF Signals

LEMMA LinkTyped ==
    ASSUME NEW l \in Link
    PROVE  /\ l.pair[1] \in Signals /\ l.pair[2] \in Signals /\ l.pair = <<l.pair[1], l.pair[2]>>
           /\ l.score \in Nat
  BY DEF Link, Pairs

LEMMA ConnectedIs ==
    ASSUME NEW s \in Signals, NEW t \in Signals
    PROVE  t \in Connected(s) <=> \A S \in SUBSET Signals : s \in S /\ ClosedJoined(S) => t \in S
  BY DEF Connected, ClosedJoined

LEMMA ConnectedSelf == ASSUME NEW s \in Signals PROVE s \in Connected(s)
  BY ConnectedIs

LEMMA JoinedConnected ==
    ASSUME NEW s \in Signals, NEW t \in Signals, Joined(s, t)
    PROVE  t \in Connected(s)
  BY ConnectedIs DEF ClosedJoined

LEMMA ConnectedTrans ==
    ASSUME NEW s \in Signals, NEW t \in Signals, NEW u \in Signals, t \in Connected(s), u \in Connected(t)
    PROVE  u \in Connected(s)
  BY ConnectedIs

LEMMA ConnectedSym ==
    ASSUME NEW s \in Signals, NEW t \in Signals, t \in Connected(s)
    PROVE  s \in Connected(t)
<1> SUFFICES ASSUME NEW S \in SUBSET Signals, t \in S, ClosedJoined(S), s \notin S
             PROVE  FALSE
  BY ConnectedIs
<1>1. \A x, y : Joined(x, y) => Joined(y, x)
  BY DEF Joined
<1>2. ClosedJoined(Signals \ S)
  BY <1>1 DEF ClosedJoined
<1> QED
  BY <1>2, ConnectedIs

\* The recursive definition of Root gives what r gives.
LEMMA RootIs ==
    ASSUME NEW r \in [Signals -> Signals], RootsOf(r), parent \in [Signals -> Signals], NEW s \in Signals
    PROVE  Root(s) = r[s]
<1> DEFINE Equation(f) == f = [x \in Signals |-> IF parent[x] = x THEN x ELSE f[parent[x]]]
           root == CHOOSE f : Equation(f)
<1>1. \A x \in Signals : parent[x] = x => r[x] = x
  <2> SUFFICES ASSUME NEW x \in Signals, parent[x] = x PROVE r[x] = x
    OBVIOUS
  <2>1. ClosedUp({x})
    BY DEF ClosedUp
  <2> QED
    BY <2>1 DEF RootsOf
<1>2. Equation(r)
  BY <1>1 DEF RootsOf
<1>3. Equation(root)
  BY <1>2
<1> HIDE DEF root
<1>4. \A x \in Signals : root[x] = IF parent[x] = x THEN x ELSE root[parent[x]]
  BY <1>3
<1>5. \A x \in Signals : root[parent[x]] = root[x]
  BY <1>4
<1>6. ClosedUp({x \in Signals : root[x] = root[s]})
  BY <1>5 DEF ClosedUp
<1>7. r[s] \in {x \in Signals : root[x] = root[s]}
  BY <1>6 DEF RootsOf
<1>8. root[r[s]] = r[s]
  BY <1>4 DEF RootsOf
<1>9. Root(s) = root[s]
  BY DEF Root, root
<1> QED
  BY <1>7, <1>8, <1>9
-----------------------------------------------------------------------------
LEMMA ClusteringInitial == ClusteringInit => ClusteringInv
<1> SUFFICES ASSUME ClusteringInit PROVE ClusteringInv
  OBVIOUS
<1> USE DEF ClusteringInit
<1> DEFINE r == [s \in Signals |-> s]
<1>1. ClusteringTypes /\ LinksInv
  BY ClusteringAssumption DEF ClusteringTypes, LinksInv
<1>2. ParentsBelow
  BY SignalsAreNumbers DEF ParentsBelow
<1>3. RootsOf(r)
  BY ConnectedSelf DEF RootsOf
<1>4. AllJoined(r, {})
  BY DEF AllJoined
<1>5. ForestInv
  BY <1>3, <1>4 DEF ForestInv
<1> QED
  BY <1>1, <1>2, <1>5 DEF ClusteringInv

\* A pair stays joined while no link is dropped, so what is connected stays connected.
LEMMA ConnectedGrows ==
    ASSUME links \subseteq links', NEW s \in Signals, NEW t \in Signals, t \in Connected(s)
    PROVE  t \in Connected(s)'
<1>1. \A x, y : Joined(x, y) => Joined(x, y)'
  BY DEF Joined
<1>2. \A S : ClosedJoined(S)' => ClosedJoined(S)
  BY <1>1 DEF ClosedJoined
<1>3. t \in Connected(s)' <=> \A S \in SUBSET Signals : s \in S /\ ClosedJoined(S)' => t \in S
  BY DEF Connected, ClosedJoined
<1> QED
  BY <1>2, <1>3, ConnectedIs

LEMMA RootsKept ==
    ASSUME NEW r \in [Signals -> Signals], RootsOf(r), parent' = parent, links \subseteq links'
    PROVE  RootsOf(r)'
<1>1. \A S : ClosedUp(S)' <=> ClosedUp(S)
  BY DEF ClosedUp
<1>2. \A s \in Signals : r[s] \in Connected(s)'
  BY ConnectedGrows DEF RootsOf
<1> QED
  BY <1>1, <1>2 DEF RootsOf

LEMMA CompareBlockInv ==
    ASSUME ClusteringInv, NEW b \in blocks, CompareBlock(b)
    PROVE  ClusteringInv'
<1> USE DEF ClusteringInv
<1>1. /\ input' = input /\ parent' = parent /\ finds' = finds /\ roots' = roots /\ cursor' = cursor
      /\ blocks' = blocks \ {b} /\ joining' = IF blocks' = {} THEN links' ELSE {}
  BY DEF CompareBlock
<1>2. \A p \in PairsOf(b) : p \in Pairs /\ input.block[p[1]] = b /\ input.block[p[2]] = b
  BY DEF PairsOf, Members
<1>3. \A l \in links' : l \in links \/ l.pair \in PairsOf(b)
  BY DEF CompareBlock, LinkOf
<1>4. links \subseteq links'
  BY DEF CompareBlock
<1>5. finds = <<>>
  BY DEF ClusteringTypes
<1>6. ClusteringTypes'
  <2>1. links' \subseteq Link
    BY <1>2, SignalsAreNumbers DEF CompareBlock, LinkOf, ClusteringTypes, Input, Link
  <2> QED
    BY <1>1, <1>5, <2>1 DEF ClusteringTypes
<1>7. LinksInv'
  <2>1. \A l \in links' \ links : input.block[l.pair[1]] = b /\ input.block[l.pair[2]] = b
    BY <1>2, <1>3
  <2>2. \A l \in links : input.block[l.pair[1]] # b
    BY DEF LinksInv
  <2>3. CASE WithinBudget(b)
    BY <1>1, <2>1, <2>2, <2>3 DEF CompareBlock, LinksInv
  <2>4. CASE ~WithinBudget(b)
    <3>1. \A l \in links' \ links : input.signature[l.pair[1]] = input.signature[l.pair[2]]
      BY <2>4 DEF CompareBlock, LinkOf
    <3>2. fallback' = fallback \cup {b}
      BY <2>4 DEF CompareBlock
    <3> QED
      BY <1>1, <2>1, <2>2, <3>1, <3>2 DEF LinksInv
  <2> QED
    BY <2>3, <2>4
<1>8. ParentsBelow'
  BY <1>1 DEF ParentsBelow
<1>9. ForestInv'
  <2>1. PICK r \in [Signals -> Signals] : RootsOf(r)
    BY DEF ForestInv
  <2>2. RootsOf(r)'
    BY <1>1, <1>4, <2>1, RootsKept
  <2>3. AllJoined(r, {})'
    BY <1>1 DEF AllJoined
  <2> QED
    BY <1>1, <1>5, <2>2, <2>3 DEF ForestInv
<1> QED
  BY <1>6, <1>7, <1>8, <1>9

LEMMA TakeLinkInv ==
    ASSUME ClusteringInv, NEW l \in joining, TakeLink(l)
    PROVE  ClusteringInv'
<1> USE DEF ClusteringInv
<1>1. /\ input' = input /\ blocks' = blocks /\ fallback' = fallback /\ links' = links /\ parent' = parent
      /\ finds = <<>> /\ joining' = joining \ {l}
  BY DEF TakeLink
<1>2. l \in links /\ l \in Link /\ blocks = {}
  BY DEF ClusteringTypes
<1>3. PICK i \in Signals, j \in Signals : i = l.pair[1] /\ j = l.pair[2] /\ l.pair = <<i, j>>
  BY <1>2, LinkTyped
<1>4. IF l.score >= LinkThreshold
      THEN finds' = <<i, j, i, j>> /\ roots' = <<>> /\ cursor' = i
      ELSE finds' = <<>> /\ roots' = roots /\ cursor' = cursor
  BY <1>1, <1>3 DEF TakeLink
<1>5. ClusteringTypes'
  BY <1>1, <1>2, <1>3, <1>4 DEF ClusteringTypes
<1>6. LinksInv' /\ ParentsBelow'
  BY <1>1 DEF LinksInv, ParentsBelow
<1>7. ForestInv'
  <2>1. PICK r \in [Signals -> Signals] : RootsOf(r) /\ AllJoined(r, {})
    BY <1>1 DEF ForestInv
  <2>2. RootsOf(r)'
    BY <1>1, <2>1, RootsKept
  <2>3. CASE l.score >= LinkThreshold
    <3>1. Joined(i, j)'
      BY <1>1, <1>2, <1>3, <2>3 DEF Joined
    <3>2. FindsOf(r, i, j)'
      BY <1>4, <2>3, <3>1 DEF FindsOf
    <3>3. AllJoined(r, {<<i, j>>})'
      BY <1>1, <1>2, <1>3, <2>1 DEF AllJoined
    <3>4. finds' # <<>>
      BY <1>4, <2>3
    <3> QED
      BY <2>2, <3>2, <3>3, <3>4 DEF ForestInv
  <2>4. CASE ~(l.score >= LinkThreshold)
    <3>1. AllJoined(r, {})'
      BY <1>1, <1>2, <2>1, <2>4 DEF AllJoined
    <3> QED
      BY <1>4, <2>2, <2>4, <3>1 DEF ForestInv
  <2> QED
    BY <2>3, <2>4
<1> QED
  BY <1>5, <1>6, <1>7

\* Halving a path moves a signal closer to its root, which stays the same.
LEMMA HalveInv ==
    ASSUME ClusteringInv, Halve
    PROVE  ClusteringInv'
<1> USE DEF ClusteringInv
<1>1. /\ input' = input /\ blocks' = blocks /\ fallback' = fallback /\ links' = links /\ joining' = joining
      /\ finds' = finds /\ roots' = roots /\ finds # <<>>
  BY DEF Halve
<1>2. PICK c \in Signals : c = cursor
  BY <1>1 DEF ClusteringTypes
<1>3. PICK q \in Signals : q = parent[c]
  BY <1>2 DEF ClusteringTypes
<1>4. PICK g \in Signals : g = parent[q]
  BY <1>3 DEF ClusteringTypes
<1>5. parent[c] # c /\ parent' = [parent EXCEPT ![c] = g] /\ cursor' = g
  BY <1>2, <1>3, <1>4 DEF Halve, ClusteringTypes
<1>6. ClusteringTypes'
  BY <1>1, <1>4, <1>5 DEF ClusteringTypes
<1>7. LinksInv'
  BY <1>1 DEF LinksInv
<1>8. ParentsBelow'
  <2>1. g <= c /\ input.block[g] = input.block[c]
    BY <1>3, <1>4, SignalsAreNumbers DEF ParentsBelow
  <2> QED
    BY <1>1, <1>5, <2>1 DEF ParentsBelow, ClusteringTypes
<1>9. ForestInv'
  <2>1. PICK r \in [Signals -> Signals] :
            RootsOf(r) /\ \E i, j \in Signals : FindsOf(r, i, j) /\ AllJoined(r, {<<i, j>>})
    BY <1>1 DEF ForestInv
  <2>2. PICK i \in Signals, j \in Signals : FindsOf(r, i, j) /\ AllJoined(r, {<<i, j>>})
    BY <2>1
  <2>3. r[g] = r[c] /\ r[q] = r[c]
    BY <1>3, <1>4, <2>1 DEF RootsOf
  <2>4. \A s \in Signals : r[parent'[s]] = r[s] /\ parent'[r[s]] = r[s]
    BY <1>5, <2>1, <2>3 DEF RootsOf, ClusteringTypes
  <2>5. ASSUME NEW S \in SUBSET Signals, ClosedUp(S)', NEW s \in S PROVE r[s] \in S
    <3>1. CASE c \notin S
      <4>1. ClosedUp(S)
        BY <1>5, <2>5, <3>1 DEF ClosedUp, ClusteringTypes
      <4> QED
        BY <4>1, <2>1 DEF RootsOf
    <3>2. CASE c \in S
      <4>1. g \in S
        BY <1>5, <2>5, <3>2 DEF ClosedUp, ClusteringTypes
      <4>2. ClosedUp(S \cup {q})
        BY <1>3, <1>4, <1>5, <2>5, <4>1 DEF ClosedUp, ClusteringTypes
      <4>3. r[s] \in S \cup {q}
        BY <4>2, <2>1 DEF RootsOf
      <4>4. r[s] = q => q = g
        BY <1>4, <2>1 DEF RootsOf
      <4> QED
        BY <4>1, <4>3, <4>4
    <3> QED
      BY <3>1, <3>2
  <2>6. \A s \in Signals : r[s] \in Connected(s)'
    BY <1>1, <2>1, ConnectedGrows DEF RootsOf
  <2>7. RootsOf(r)'
    BY <2>4, <2>5, <2>6 DEF RootsOf
  <2>8. FindsOf(r, i, j)'
    BY <1>1, <1>2, <1>5, <2>2, <2>3 DEF FindsOf, Found, Joined
  <2>9. AllJoined(r, {<<i, j>>})'
    BY <1>1, <2>2 DEF AllJoined
  <2> QED
    BY <1>1, <2>7, <2>8, <2>9 DEF ForestInv
<1> QED
  BY <1>6, <1>7, <1>8, <1>9

LEMMA SmallerLarger ==
    ASSUME NEW x \in Signals, NEW y \in Signals
    PROVE  /\ Smaller(x, y) \in {x, y} /\ Larger(x, y) \in {x, y} /\ Smaller(x, y) <= Larger(x, y)
           /\ {Smaller(x, y), Larger(x, y)} = {x, y}
  BY SignalsAreNumbers DEF Smaller, Larger

\* A joined pair is of one block.
LEMMA JoinedOneBlock ==
    ASSUME LinksInv, NEW S, S \subseteq Signals, \E s \in Signals : S = {t \in Signals : input.block[t] = input.block[s]}
    PROVE  ClosedJoined(S)
<1>1. \A x \in Signals, y \in Signals : Joined(x, y) => input.block[x] = input.block[y]
  BY DEF Joined, LinksInv
<1> QED
  BY <1>1 DEF ClosedJoined

LEMMA ConnectedOneBlock ==
    ASSUME LinksInv, NEW s \in Signals, NEW t \in Signals, t \in Connected(s)
    PROVE  input.block[t] = input.block[s]
<1>1. ClosedJoined({u \in Signals : input.block[u] = input.block[s]})
  BY JoinedOneBlock
<1> QED
  BY <1>1, ConnectedIs

\* The larger of the two roots is put under the smaller one.
LEMMA UnionInv ==
    ASSUME ClusteringTypes, LinksInv, ParentsBelow,
           NEW r \in [Signals -> Signals], RootsOf(r), NEW i \in Signals, NEW j \in Signals, Joined(i, j),
           AllJoined(r, {<<i, j>>}),
           links' = links, joining' = joining, blocks' = blocks, input' = input,
           parent' = [parent EXCEPT ![Larger(r[i], r[j])] = Smaller(r[i], r[j])],
           NEW u, u = [s \in Signals |-> IF r[s] = Larger(r[i], r[j]) THEN Smaller(r[i], r[j]) ELSE r[s]]
    PROVE  ParentsBelow' /\ RootsOf(u)' /\ AllJoined(u, {})'
<1>1. PICK x \in Signals, y \in Signals : x = Smaller(r[i], r[j]) /\ y = Larger(r[i], r[j])
  BY SmallerLarger
<1>2. x <= y /\ {x, y} = {r[i], r[j]}
  BY <1>1, SmallerLarger
<1>3. parent' = [parent EXCEPT ![y] = x] /\ u = [s \in Signals |-> IF r[s] = y THEN x ELSE r[s]]
  BY <1>1
<1>4. parent[x] = x /\ parent[y] = y
  BY <1>2 DEF RootsOf
<1>5. \A s \in Signals : (parent[s] = s) => r[s] = s
  <2> SUFFICES ASSUME NEW s \in Signals, parent[s] = s PROVE r[s] = s
    OBVIOUS
  <2>1. ClosedUp({s})
    BY DEF ClosedUp
  <2> QED
    BY <2>1 DEF RootsOf
<1>6. r[x] = x /\ r[y] = y
  BY <1>4, <1>5
<1>7. x \in Connected(y)
  <2>1. r[i] \in Connected(i) /\ r[j] \in Connected(j) /\ j \in Connected(i)
    BY JoinedConnected DEF RootsOf
  <2>2. r[j] \in Connected(i) /\ i \in Connected(r[i])
    BY <2>1, ConnectedTrans, ConnectedSym
  <2>3. r[j] \in Connected(r[i]) /\ r[i] \in Connected(r[j])
    BY <2>2, ConnectedTrans, ConnectedSym
  <2> QED
    BY <1>2, <2>3, ConnectedSelf
<1>8. ParentsBelow'
  <2>1. input.block[x] = input.block[y]
    BY <1>7, ConnectedOneBlock
  <2> QED
    BY <1>2, <1>3, <2>1 DEF ParentsBelow, ClusteringTypes
<1>9. \A s \in Signals : u[parent'[s]] = u[s] /\ parent'[u[s]] = u[s]
  BY <1>3, <1>4, <1>6 DEF RootsOf, ClusteringTypes
<1>10. ASSUME NEW S \in SUBSET Signals, ClosedUp(S)', NEW s \in S PROVE u[s] \in S
  <2>1. ClosedUp(S)
    BY <1>3, <1>4, <1>10 DEF ClosedUp, ClusteringTypes
  <2>2. r[s] \in S
    BY <2>1 DEF RootsOf
  <2>3. y \in S => x \in S
    BY <1>3, <1>10 DEF ClosedUp, ClusteringTypes
  <2> QED
    BY <1>3, <2>2, <2>3
<1>11. ASSUME NEW s \in Signals PROVE u[s] \in Connected(s)'
  <2>1. r[s] \in Connected(s)
    BY DEF RootsOf
  <2>2. u[s] \in Connected(s)
    BY <1>3, <1>7, <2>1, ConnectedTrans
  <2>3. u[s] \in Signals
    BY <1>3
  <2> QED
    BY <2>2, <2>3, ConnectedGrows
<1>12. RootsOf(u)'
  BY <1>9, <1>10, <1>11 DEF RootsOf
<1>13. AllJoined(u, {})'
  <2> SUFFICES ASSUME blocks = {}, NEW l \in links \ joining, l.score >= LinkThreshold
               PROVE  u[l.pair[1]] = u[l.pair[2]]
    BY DEF AllJoined
  <2>1. l.pair[1] \in Signals /\ l.pair[2] \in Signals
    BY LinkTyped DEF ClusteringTypes
  <2>2. CASE l.pair = <<i, j>>
    BY <1>2, <1>3, <2>1, <2>2
  <2>3. CASE l.pair # <<i, j>>
    <3>1. r[l.pair[1]] = r[l.pair[2]]
      BY <2>3 DEF AllJoined
    <3> QED
      BY <1>3, <2>1, <3>1
  <2> QED
    BY <2>2, <2>3
<1> QED
  BY <1>8, <1>12, <1>13

\* One root more is found.
LEMMA FoundOneMore ==
    ASSUME roots \in Seq(Signals), NEW c \in Signals, roots' = Append(roots, c)
    PROVE  /\ roots' \in Seq(Signals) /\ Len(roots') = Len(roots) + 1 /\ roots'[Len(roots) + 1] = c
           /\ \A k \in 1..Len(roots) : roots'[k] = roots[k]
  OBVIOUS

LEMMA FoundRootInv ==
    ASSUME ClusteringInv, FoundRoot
    PROVE  ClusteringInv'
<1> USE DEF ClusteringInv
<1>1. /\ input' = input /\ blocks' = blocks /\ fallback' = fallback /\ links' = links /\ joining' = joining
      /\ finds # <<>> /\ finds' = Tail(finds) /\ roots' = Append(roots, cursor) /\ parent[cursor] = cursor
      /\ cursor \in Signals
  BY DEF FoundRoot, ClusteringTypes
<1>2. PICK r \in [Signals -> Signals] :
          RootsOf(r) /\ \E i, j \in Signals : FindsOf(r, i, j) /\ AllJoined(r, {<<i, j>>})
  BY <1>1 DEF ForestInv
<1>3. PICK i \in Signals, j \in Signals : FindsOf(r, i, j) /\ AllJoined(r, {<<i, j>>})
  BY <1>2
<1>4. r[cursor] = cursor
  <2>1. ClosedUp({cursor})
    BY <1>1 DEF ClosedUp
  <2> QED
    BY <1>1, <1>2, <2>1 DEF RootsOf
<1>5. cursor = r[Head(finds)]
  BY <1>3, <1>4 DEF FindsOf
<1>6. LinksInv'
  BY <1>1 DEF LinksInv
<1>7. CASE Tail(finds) # <<>>
  <2>1. parent' = parent /\ cursor' = Head(Tail(finds))
    BY <1>7 DEF FoundRoot
  <2>2. /\ cursor' \in Signals
        /\ \/ finds' = <<j, i, j>> /\ Found(r, <<i>>)'
           \/ finds' = <<i, j>> /\ Found(r, <<i, j>>)'
           \/ finds' = <<j>> /\ Found(r, <<i, j, i>>)'
    <3>1. CASE finds = <<i, j, i, j>> /\ roots = <<>>
      <4>1. roots \in Seq(Signals) /\ Len(roots) = 0
        BY <3>1
      <4>2. cursor = r[i] /\ finds' = <<j, i, j>> /\ cursor' = j
        BY <1>1, <1>5, <2>1, <3>1
      <4>3. roots' \in Seq(Signals) /\ Len(roots') = 1 /\ roots'[1] = r[i]
        BY <1>1, <4>1, <4>2, FoundOneMore
      <4>4. Len(<<i>>) = 1 /\ \A k \in 1..1 : k = 1 /\ <<i>>[k] = i
        OBVIOUS
      <4>5. Found(r, <<i>>)'
        BY <4>3, <4>4 DEF Found
      <4> QED
        BY <4>2, <4>5
    <3>2. CASE finds = <<j, i, j>> /\ Found(r, <<i>>)
      <4>1. cursor = r[j] /\ finds' = <<i, j>> /\ cursor' = i
        BY <1>1, <1>5, <2>1, <3>2
      <4> QED
        BY <1>1, <3>2, <4>1, FoundOneMore DEF Found
    <3>3. CASE finds = <<i, j>> /\ Found(r, <<i, j>>)
      <4>1. cursor = r[i] /\ finds' = <<j>> /\ cursor' = j
        BY <1>1, <1>5, <2>1, <3>3
      <4> QED
        BY <1>1, <3>3, <4>1, FoundOneMore DEF Found
    <3>4. CASE finds = <<j>>
      BY <1>7, <3>4
    <3> QED
      BY <1>3, <3>1, <3>2, <3>3, <3>4 DEF FindsOf
  <2>3. FindsOf(r, i, j)'
    BY <1>1, <1>3, <2>1, <2>2 DEF FindsOf, Joined
  <2>4. RootsOf(r)' /\ AllJoined(r, {<<i, j>>})'
    BY <1>1, <1>2, <1>3, <2>1, RootsKept DEF AllJoined
  <2>5. ForestInv'
    BY <1>1, <1>7, <2>3, <2>4 DEF ForestInv
  <2>6. ClusteringTypes'
    BY <1>1, <2>1, <2>2 DEF ClusteringTypes
  <2>7. ParentsBelow'
    BY <1>1, <2>1 DEF ParentsBelow
  <2> QED
    BY <1>6, <2>5, <2>6, <2>7
<1>8. CASE Tail(finds) = <<>>
  <2>1. finds = <<j>> /\ roots[1] = r[i] /\ roots[2] = r[j] /\ roots[3] = r[i]
    <3>1. Tail(<<i, j, i, j>>) # <<>> /\ Tail(<<j, i, j>>) # <<>> /\ Tail(<<i, j>>) # <<>>
      OBVIOUS
    <3>2. finds = <<j>> /\ Found(r, <<i, j, i>>)
      BY <1>3, <1>8, <3>1 DEF FindsOf
    <3>3. /\ Len(<<i, j, i>>) = 3 /\ 1 \in 1..3 /\ 2 \in 1..3 /\ 3 \in 1..3
          /\ <<i, j, i>>[1] = i /\ <<i, j, i>>[2] = j /\ <<i, j, i>>[3] = i
      OBVIOUS
    <3> QED
      BY <3>2, <3>3 DEF Found
  <2>2. cursor = r[j] /\ cursor' = cursor
    BY <1>5, <1>8, <2>1 DEF FoundRoot
  <2>3. parent' = [parent EXCEPT ![Larger(r[i], r[j])] = Smaller(r[i], r[j])]
    BY <1>8, <2>1, <2>2 DEF FoundRoot
  <2>4. Larger(r[i], r[j]) \in Signals /\ Smaller(r[i], r[j]) \in Signals
    BY SmallerLarger
  <2>5. PICK u \in [Signals -> Signals] :
            u = [s \in Signals |-> IF r[s] = Larger(r[i], r[j]) THEN Smaller(r[i], r[j]) ELSE r[s]]
    BY <2>4
  <2>6. Joined(i, j)
    BY <1>3 DEF FindsOf
  <2>7. ParentsBelow' /\ RootsOf(u)' /\ AllJoined(u, {})'
    BY <1>1, <1>2, <1>3, <2>3, <2>5, <2>6, UnionInv
  <2>8. ForestInv'
    BY <1>1, <1>8, <2>7 DEF ForestInv
  <2>9. ClusteringTypes'
    BY <1>1, <1>8, <2>3, <2>4 DEF ClusteringTypes
  <2> QED
    BY <1>6, <2>7, <2>8, <2>9
<1> QED
  BY <1>7, <1>8

LEMMA ClusteringStep ==
    ASSUME ClusteringInv, [ClusteringNext]_clusteringVars
    PROVE  ClusteringInv'
<1>1. CASE UNCHANGED clusteringVars
  <2> USE <1>1 DEF clusteringVars
  <2>1. PICK r \in [Signals -> Signals] :
            /\ RootsOf(r)
            /\ \/ finds = <<>> /\ AllJoined(r, {})
               \/ finds # <<>> /\ \E i, j \in Signals : FindsOf(r, i, j) /\ AllJoined(r, {<<i, j>>})
    BY DEF ClusteringInv, ForestInv
  <2>2. RootsOf(r)'
    BY <2>1, RootsKept
  <2>3. ASSUME NEW i \in Signals, NEW j \in Signals, FindsOf(r, i, j)
        PROVE  FindsOf(r, i, j)'
    BY <2>3 DEF FindsOf, Found, Joined
  <2>4. ASSUME NEW P, AllJoined(r, P) PROVE AllJoined(r, P)'
    BY <2>4 DEF AllJoined, Joined
  <2>5. ForestInv'
    BY <2>1, <2>2, <2>3, <2>4 DEF ForestInv
  <2> QED
    BY <2>5 DEF ClusteringInv, ClusteringTypes, LinksInv, ParentsBelow
<1> QED
  BY <1>1, CompareBlockInv, TakeLinkInv, HalveInv, FoundRootInv DEF ClusteringNext

LEMMA ClustersExact == ClusteringInv => ClustersAreComponents
<1> SUFFICES ASSUME ClusteringInv PROVE ClustersAreComponents
  OBVIOUS
<1> USE DEF ClusteringInv
<1>1. BlocksNeverMix
  BY DEF BlocksNeverMix, LinksInv, ParentsBelow
<1>2. ASSUME Clustered, NEW s \in Signals, NEW t \in Signals
      PROVE  (Root(s) = Root(t)) <=> t \in Connected(s)
  <2>1. PICK r \in [Signals -> Signals] : RootsOf(r) /\ AllJoined(r, {})
    BY <1>2 DEF Clustered, ForestInv
  <2>2. Root(s) = r[s] /\ Root(t) = r[t]
    BY <2>1, RootIs DEF ClusteringTypes
  <2>3. r[s] \in Connected(s) /\ r[t] \in Connected(t)
    BY <2>1 DEF RootsOf
  <2>4. ASSUME r[s] = r[t] PROVE t \in Connected(s)
    BY <2>3, <2>4, ConnectedSym, ConnectedTrans
  <2>5. \A x \in Signals, y \in Signals : Joined(x, y) => r[x] = r[y]
    BY <1>2, <2>1 DEF Joined, Clustered, AllJoined
  <2>6. ClosedJoined({x \in Signals : r[x] = r[s]})
    BY <2>5 DEF ClosedJoined
  <2>7. ASSUME t \in Connected(s) PROVE r[s] = r[t]
    BY <2>6, <2>7, ConnectedIs
  <2> QED
    BY <2>2, <2>4, <2>7
<1> QED
  BY <1>1, <1>2 DEF ClustersAreComponents

\* components returns exactly the groups of signals that links at the threshold connect, and
\* no group crosses a block, for any number of signals, blocks, scores and budget.
THEOREM ClustersCorrect == ClusteringSpec => []ClustersAreComponents
<1>1. ClusteringSpec => []ClusteringInv
  BY ClusteringInitial, ClusteringStep, PTL DEF ClusteringSpec
<1> QED
  BY <1>1, ClustersExact, PTL

(***************************************************************************)
(* Plan expansion, for every finite set of units, every dependency         *)
(* relation and every priority.                                            *)
(***************************************************************************)

\* Counting is defined for every set of units.
LEMMA FiniteKeys ==
    ASSUME NEW S \in SUBSET Keys
    PROVE  IsFiniteSet(S) /\ Cardinality(S) \in Nat
<1>1. IsFiniteSet(S)
  BY KeysAssumption, FS_Subset
<1> QED
  BY <1>1, FS_CardinalityType

\* What Init sets up is a state in which indegree and available mean what they should.
LEMMA PlanInitial == PlanInit => PlanInv
<1> SUFFICES ASSUME PlanInit PROVE PlanInv
  OBVIOUS
<1> USE DEF PlanInit
<1>1. Placed = {} /\ ordered \in Seq(Keys) /\ Len(ordered) = 0
  BY DEF Placed
<1>2. \A k \in Keys : Cardinality(deps[k]) \in Nat
  BY FiniteKeys
<1>3. PlanTypeOK
  BY <1>1, <1>2 DEF PlanTypeOK
<1>4. \A k \in Keys : deps[k] \ Placed = deps[k]
  BY <1>1
<1>5. \A k \in Keys : indegree[k] = Cardinality(deps[k] \ Placed)
  BY <1>4
<1>6. available = {k \in Keys \ Placed : deps[k] \subseteq Placed}
  <2>1. \A k \in Keys : indegree[k] = 0 <=> deps[k] = {}
    BY FiniteKeys, FS_EmptySet
  <2> QED
    BY <1>1, <2>1
<1>7. Cardinality(Placed) = Len(ordered)
  BY <1>1, FS_EmptySet
<1>8. DOMAIN ordered = {} /\ phase = "ordering"
  OBVIOUS
<1> QED
  BY <1>3, <1>5, <1>6, <1>7, <1>8 DEF PlanInv

\* Placing a key adds it at the end of the plan and leaves the rest as it was.
LEMMA PlacedGrows ==
    ASSUME NEW k \in Keys, ordered \in Seq(Keys), ordered' = Append(ordered, k)
    PROVE  /\ ordered' \in Seq(Keys) /\ Len(ordered') = Len(ordered) + 1
           /\ \A i \in DOMAIN ordered : ordered'[i] = ordered[i]
           /\ ordered'[Len(ordered) + 1] = k
           /\ DOMAIN ordered = 1 .. Len(ordered) /\ DOMAIN ordered' = 1 .. Len(ordered) + 1
           /\ Placed' = Placed \cup {k} /\ Placed \subseteq Keys
<1>1. /\ ordered' \in Seq(Keys) /\ Len(ordered') = Len(ordered) + 1
      /\ \A i \in DOMAIN ordered : ordered'[i] = ordered[i]
      /\ ordered'[Len(ordered) + 1] = k
      /\ DOMAIN ordered = 1 .. Len(ordered) /\ DOMAIN ordered' = 1 .. Len(ordered) + 1
  OBVIOUS
<1>2. Len(ordered) \in Nat
  OBVIOUS
<1>3. Placed' = Placed \cup {k}
  BY <1>1, <1>2 DEF Placed
<1>4. Placed \subseteq Keys
  BY DEF Placed
<1> QED
  BY <1>1, <1>3, <1>4

\* A turn of the loop preserves the invariant.
LEMMA PlacePreserves == PlanInv /\ Place => PlanInv'
<1> SUFFICES ASSUME PlanInv, Place PROVE PlanInv'
  OBVIOUS
<1> USE DEF spec
<1>0. PICK k \in available :
          /\ ordered' = Append(ordered, k)
          /\ indegree' = [l \in Keys |-> IF k \in deps[l] THEN indegree[l] - 1 ELSE indegree[l]]
          /\ available' = (available \ {k}) \cup Released(k)
  BY DEF Place
<1>1. phase' = phase /\ phase = "ordering" /\ named' = named /\ deps' = deps /\ priority' = priority
  BY DEF Place
<1>2. /\ k \in Keys \ Placed /\ deps[k] \subseteq Placed
      /\ ordered \in Seq(Keys) /\ deps \in [Keys -> SUBSET Keys] /\ indegree \in [Keys -> Nat]
  BY <1>0 DEF PlanInv, PlanTypeOK
<1>3. /\ ordered' \in Seq(Keys) /\ Len(ordered') = Len(ordered) + 1
      /\ \A i \in DOMAIN ordered : ordered'[i] = ordered[i]
      /\ ordered'[Len(ordered) + 1] = k
      /\ DOMAIN ordered = 1 .. Len(ordered) /\ DOMAIN ordered' = 1 .. Len(ordered) + 1
      /\ Placed' = Placed \cup {k} /\ Placed \subseteq Keys
  BY <1>0, <1>2, PlacedGrows
<1>4. Len(ordered) \in Nat
  BY <1>2
<1>5. \A i \in DOMAIN ordered' : DepsBefore(i)'
  <2> SUFFICES ASSUME NEW i \in 1 .. Len(ordered) + 1
               PROVE  deps[ordered'[i]] \subseteq {ordered'[j] : j \in 1 .. i - 1}
    BY <1>1, <1>3 DEF DepsBefore
  <2>1. {ordered'[j] : j \in 1 .. i - 1} = {ordered[j] : j \in 1 .. i - 1}
    BY <1>3, <1>4
  <2>2. CASE i \in 1 .. Len(ordered)
    BY <2>1, <2>2, <1>3 DEF PlanInv, DepsBefore
  <2>3. CASE i = Len(ordered) + 1
    <3>1. {ordered[j] : j \in 1 .. i - 1} = Placed
      BY <2>3, <1>3, <1>4 DEF Placed
    <3> QED
      BY <3>1, <2>1, <2>3, <1>2, <1>3
  <2> QED
    BY <2>2, <2>3, <1>4
<1>6. \A i, j \in DOMAIN ordered' : i # j => ordered'[i] # ordered'[j]
  <2>1. \A i \in 1 .. Len(ordered) : ordered[i] \in Placed
    BY <1>3 DEF Placed
  <2>2. \A i, j \in 1 .. Len(ordered) : i # j => ordered[i] # ordered[j]
    BY <1>3 DEF PlanInv
  <2>3. \A i \in 1 .. Len(ordered) : ordered'[i] = ordered[i] /\ ordered'[i] # k
    BY <2>1, <1>2, <1>3
  <2> QED
    BY <2>2, <2>3, <1>3, <1>4
<1>7. Cardinality(Placed') = Len(ordered')
  <2>1. Cardinality(Placed \cup {k}) = Cardinality(Placed) + 1
    BY <1>2, <1>3, FiniteKeys, FS_AddElement
  <2>2. Cardinality(Placed) = Len(ordered)
    BY DEF PlanInv
  <2> QED
    BY <2>1, <2>2, <1>3
<1>8. \A l \in Keys : indegree'[l] = Cardinality(deps[l] \ Placed') /\ indegree'[l] \in Nat
  <2> SUFFICES ASSUME NEW l \in Keys
               PROVE  indegree'[l] = Cardinality(deps[l] \ Placed')
    <3>1. \A l \in Keys : deps[l] \ Placed' \in SUBSET Keys
      BY <1>2
    <3>2. \A l \in Keys : Cardinality(deps[l] \ Placed') \in Nat
      BY <3>1, FiniteKeys
    <3> QED
      BY <3>2
  <2>1. deps[l] \ Placed' = (deps[l] \ Placed) \ {k}
    BY <1>3
  <2>2. IsFiniteSet(deps[l] \ Placed)
    BY <1>2, FiniteKeys
  <2>3. Cardinality((deps[l] \ Placed) \ {k})
          = IF k \in deps[l] \ Placed THEN Cardinality(deps[l] \ Placed) - 1
                                      ELSE Cardinality(deps[l] \ Placed)
    BY <2>2, FS_RemoveElement
  <2>4. indegree[l] = Cardinality(deps[l] \ Placed)
    BY DEF PlanInv
  <2> QED
    BY <2>1, <2>3, <2>4, <1>0, <1>2
<1>9. available' = {l \in Keys \ Placed' : deps[l] \subseteq Placed'}
  <2>1. available = {l \in Keys \ Placed : deps[l] \subseteq Placed}
    BY DEF PlanInv
  <2>2. ASSUME NEW l \in Keys \ Placed', deps[l] \subseteq Placed', l \notin available
        PROVE  l \in Released(k)
    <3>1. deps[l] \ Placed = {k}
      BY <2>1, <2>2, <1>3
    <3>2. Cardinality(deps[l] \ Placed) = 1
      BY <3>1, FS_Singleton
    <3> QED
      BY <3>1, <3>2 DEF Released, PlanInv
  <2>3. ASSUME NEW l \in Released(k)
        PROVE  l \in Keys \ Placed' /\ deps[l] \subseteq Placed'
    <3>1. l \in Keys /\ k \in deps[l] /\ Cardinality(deps[l] \ Placed) = 1
      BY <2>3 DEF Released, PlanInv
    <3>2. PICK x : deps[l] \ Placed = {x}
      BY <3>1, <1>2, FiniteKeys, FS_Singleton
    <3>3. deps[l] \ Placed = {k}
      BY <3>1, <3>2, <1>2
    <3>4. l # k
      BY <3>1, <1>2
    <3>5. l \notin Placed
      <4> SUFFICES ASSUME l \in Placed PROVE FALSE
        OBVIOUS
      <4>1. PICK i \in DOMAIN ordered : l = ordered[i]
        BY DEF Placed
      <4>2. deps[l] \subseteq {ordered[j] : j \in 1 .. i - 1}
        BY <4>1 DEF PlanInv, DepsBefore
      <4>3. 1 .. i - 1 \subseteq DOMAIN ordered
        BY <4>1, <1>3, <1>4
      <4>4. deps[l] \subseteq Placed
        BY <4>2, <4>3 DEF Placed
      <4> QED
        BY <4>4, <3>3, <1>2
    <3> QED
      BY <3>1, <3>3, <3>4, <3>5, <1>3
  <2>4. k \in available
    OBVIOUS
  <2> QED
    BY <2>1, <2>2, <2>3, <1>0, <1>3
<1>10. PlanTypeOK'
  <2>1. indegree' \in [Keys -> Nat]
    BY <1>0, <1>8
  <2>2. available' \subseteq Keys
    BY <1>9
  <2> QED
    BY <2>1, <2>2, <1>1, <1>3 DEF PlanTypeOK, PlanInv
<1> QED
  BY <1>1, <1>5, <1>6, <1>7, <1>8, <1>9, <1>10 DEF PlanInv

\* The end of the loop: a plan with as many entries as the spec has units has all of them.
LEMMA AllPlaced ==
    ASSUME PlanInv
    PROVE  PlacedAll <=> Placed = Keys
<1>1. Placed \subseteq Keys
  BY DEF Placed, PlanInv, PlanTypeOK
<1>2. Cardinality(Placed) = Len(ordered)
  BY DEF PlanInv
<1>3. Cardinality(Keys) = Cardinality(Placed) => Keys = Placed
  BY <1>1, KeysAssumption, FS_Subset
<1> QED
  BY <1>1, <1>2, <1>3 DEF PlacedAll

\* Every step preserves the invariant.
LEMMA PlanStep == PlanInv /\ [PlanNext]_planVars => PlanInv'
<1> SUFFICES ASSUME PlanInv, [PlanNext]_planVars PROVE PlanInv'
  OBVIOUS
<1>1. CASE Place
  BY <1>1, PlacePreserves
<1>2. CASE Expand
  <2>1. Placed = Keys
    BY <1>2, AllPlaced DEF Expand
  <2>2. /\ deps' = deps /\ priority' = priority /\ indegree' = indegree /\ ordered' = ordered
        /\ available' = available /\ available = {} /\ named' = named /\ phase' = "expanded"
    BY <1>2 DEF Expand, spec
  <2>3. Placed' = Placed /\ \A i : DepsBefore(i)' <=> DepsBefore(i)
    BY <2>2 DEF Placed, DepsBefore
  <2> QED
    BY <2>1, <2>2, <2>3 DEF PlanInv, PlanTypeOK
<1>3. CASE Refuse
  <2>1. Placed # Keys
    BY <1>3, AllPlaced DEF Refuse
  <2>2. Placed \subseteq Keys
    BY DEF Placed, PlanInv, PlanTypeOK
  <2>3. /\ deps' = deps /\ priority' = priority /\ indegree' = indegree /\ ordered' = ordered
        /\ available' = available /\ available = {} /\ named' = Keys \ Placed
        /\ phase' = "refused"
    BY <1>3 DEF Refuse, spec
  <2>4. Placed' = Placed /\ \A i : DepsBefore(i)' <=> DepsBefore(i)
    BY <2>3 DEF Placed, DepsBefore
  <2> QED
    BY <2>1, <2>2, <2>3, <2>4 DEF PlanInv, PlanTypeOK
<1>4. CASE UNCHANGED planVars
  BY <1>4 DEF PlanInv, PlanTypeOK, Placed, DepsBefore, planVars
<1> QED
  BY <1>1, <1>2, <1>3, <1>4 DEF PlanNext

\* The loop's own bookkeeping is right at every turn: indegree counts what is
\* still to be placed, and available holds exactly the keys that may come next.
THEOREM PlanBookkeeping == PlanSpec => []PlanInv
<1>1. PlanInit => PlanInv
  BY PlanInitial
<1>2. PlanInv /\ [PlanNext]_planVars => PlanInv'
  BY PlanStep
<1> QED
  BY <1>1, <1>2, PTL DEF PlanSpec

\* No unit enters a plan before its dependencies or twice, and expand returns
\* only plans that have every unit of the spec.
THEOREM Topological == PlanSpec => []PlanIsTopological
<1>1. PlanInv => PlanIsTopological
  BY DEF PlanInv, PlanIsTopological
<1> QED
  BY <1>1, PlanBookkeeping, PTL

\* No unit of a knot ever enters the plan: the first one that did would have a
\* dependency of the knot before it.
LEMMA KnotsAreLeftOut ==
    ASSUME PlanInv, NEW S \in SUBSET Keys, Knot(S)
    PROVE  S \cap Placed = {}
<1> DEFINE T == {i \in DOMAIN ordered : ordered[i] \in S}
           R == OpToRel(<, Nat)
<1> SUFFICES ASSUME T # {} PROVE FALSE
  BY DEF Placed
<1>1. ordered \in Seq(Keys) /\ DOMAIN ordered = 1 .. Len(ordered) /\ Len(ordered) \in Nat
  BY DEF PlanInv, PlanTypeOK
<1>2. T \subseteq Nat
  BY <1>1
<1>3. \E x \in T : \A y \in T : ~(<<y, x>> \in R)
  <2>1. IsWellFoundedOn(R, Nat)
    BY NatLessThanWellFounded
  <2> HIDE DEF T, R
  <2> QED
    BY <1>2, <2>1, WFMin
<1>4. PICK i \in T : \A j \in T : ~(j < i)
  BY <1>2, <1>3 DEF OpToRel
<1>5. PICK d \in deps[ordered[i]] : d \in S
  BY DEF Knot
<1>6. deps[ordered[i]] \subseteq {ordered[j] : j \in 1 .. i - 1}
  BY DEF PlanInv, DepsBefore
<1>7. PICK j \in 1 .. i - 1 : d = ordered[j]
  BY <1>5, <1>6
<1>8. j \in T /\ j < i
  BY <1>1, <1>5, <1>7
<1> QED
  BY <1>4, <1>8

\* expand refuses exactly the specs whose dependencies have a cycle, and the
\* refusal names the largest set of units that wait on one another.
THEOREM RefusalIsRight == PlanSpec => []RefusedIffCyclic
<1>1. ASSUME PlanInv PROVE RefusedIffCyclic
  <2>1. ASSUME phase = "refused"
        PROVE  Knot(named) /\ \A S \in SUBSET Keys : Knot(S) => S \subseteq named
    <3>1. named = Keys \ Placed /\ named # {} /\ available = {}
      BY <1>1, <2>1 DEF PlanInv
    <3>2. \A k \in Keys \ Placed : ~(deps[k] \subseteq Placed)
      BY <1>1, <3>1 DEF PlanInv
    <3>3. \A k \in Keys : deps[k] \subseteq Keys
      BY <1>1 DEF PlanInv, PlanTypeOK
    <3>4. Knot(named)
      BY <3>1, <3>2, <3>3 DEF Knot
    <3>5. \A S \in SUBSET Keys : Knot(S) => S \cap Placed = {}
      BY <1>1, KnotsAreLeftOut
    <3> QED
      BY <3>1, <3>4, <3>5
  <2>2. ASSUME phase = "expanded", NEW S \in SUBSET Keys PROVE ~Knot(S)
    <3>1. Placed = Keys
      BY <1>1, <2>2 DEF PlanInv
    <3>2. Knot(S) => S \cap Placed = {}
      BY <1>1, KnotsAreLeftOut
    <3> QED
      BY <3>1, <3>2 DEF Knot
  <2> QED
    BY <2>1, <2>2 DEF RefusedIffCyclic
<1> QED
  BY <1>1, PlanBookkeeping, PTL
\* A turn of the loop keeps the order of the plan: what may stand at the new
\* position is exactly what is available.
LEMMA PlaceKeepsOrder == PlanInv /\ BestFirst /\ Place => BestFirst'
<1> SUFFICES ASSUME PlanInv, BestFirst, Place PROVE BestFirst'
  OBVIOUS
<1>1. PICK k \in available :
          /\ \A l \in available \ {k} : Before(k, l)
          /\ ordered' = Append(ordered, k)
  BY DEF Place
<1>2. k \in Keys /\ ordered \in Seq(Keys) /\ deps' = deps /\ priority' = priority
  BY <1>1 DEF Place, PlanInv, PlanTypeOK, spec
<1>3. /\ \A i \in DOMAIN ordered : ordered'[i] = ordered[i]
      /\ ordered'[Len(ordered) + 1] = k
      /\ DOMAIN ordered = 1 .. Len(ordered) /\ DOMAIN ordered' = 1 .. Len(ordered) + 1
  BY <1>1, <1>2, PlacedGrows
<1>4. Len(ordered) \in Nat
  BY <1>2
<1> SUFFICES ASSUME NEW i \in 1 .. Len(ordered) + 1, NEW l \in Eligible(i)' \ {ordered'[i]}
             PROVE  \/ priority[ordered'[i]] > priority[l]
                    \/ priority[ordered'[i]] = priority[l] /\ KeyRank[ordered'[i]] < KeyRank[l]
  BY <1>2, <1>3 DEF BestFirst
<1>5. {ordered'[j] : j \in 1 .. i - 1} = {ordered[j] : j \in 1 .. i - 1}
  BY <1>3, <1>4
<1>6. Eligible(i)' = Eligible(i)
  BY <1>2, <1>5 DEF Eligible
<1>7. CASE i \in 1 .. Len(ordered)
  BY <1>3, <1>6, <1>7 DEF BestFirst
<1>8. CASE i = Len(ordered) + 1
  <2>1. {ordered[j] : j \in 1 .. i - 1} = Placed
    BY <1>3, <1>4, <1>8 DEF Placed
  <2>2. Eligible(i) = available
    BY <2>1 DEF Eligible, PlanInv
  <2> QED
    BY <1>1, <1>3, <1>6, <1>8, <2>2 DEF Before
<1> QED
  BY <1>4, <1>7, <1>8

\* The plan is the deterministic one: every position holds, of the units that may
\* stand there, the one of highest priority, ties broken by key.
THEOREM TieBreak == PlanSpec => []BestFirst
<1>1. PlanInit => BestFirst
  <2> SUFFICES ASSUME PlanInit PROVE BestFirst
    OBVIOUS
  <2>1. DOMAIN ordered = {}
    BY DEF PlanInit
  <2> QED
    BY <2>1 DEF BestFirst
<1>2. PlanInv /\ BestFirst /\ [PlanNext]_planVars => BestFirst'
  <2> SUFFICES ASSUME PlanInv, BestFirst, [PlanNext]_planVars PROVE BestFirst'
    OBVIOUS
  <2>1. CASE Place
    BY <2>1, PlaceKeepsOrder
  <2>2. CASE Expand \/ Refuse \/ UNCHANGED planVars
    <3>1. ordered' = ordered /\ priority' = priority /\ deps' = deps
      BY <2>2 DEF Expand, Refuse, planVars, spec
    <3>2. \A i : Eligible(i)' = Eligible(i)
      BY <3>1 DEF Eligible
    <3> QED
      BY <3>1, <3>2 DEF BestFirst
  <2> QED
    BY <2>1, <2>2 DEF PlanNext
<1> QED
  BY <1>1, <1>2, PlanBookkeeping, PTL DEF PlanSpec

\* What expand (scheduler/graph.py) promises: every plan is in topological order with ties broken as documented,
\* so that equal specs have equal plans; and a spec is refused exactly for a cycle, with the units it holds up.
THEOREM ExpansionCorrect == PlanSpec => []ExpansionSound
<1>1. PlanIsTopological /\ BestFirst /\ RefusedIffCyclic => ExpansionSound
  BY DEF PlanOrdered, ExpansionSound
<1> QED
  BY <1>1, Topological, TieBreak, RefusalIsRight, PTL

(***************************************************************************)
(* The windows of a drift analysis.                                        *)
(***************************************************************************)

\* Multiples of a width are at least a width apart.
LEMMA Multiples ==
    ASSUME NEW w \in Nat, NEW i \in Nat, NEW j \in Nat, i < j
    PROVE  i * w + w <= j * w /\ i * w \in Nat /\ j * w \in Nat
<1>1. PICK d \in Nat : d = j - i - 1
  OBVIOUS
<1>2. j = i + 1 + d
  BY <1>1
<1>3. d * w \in Nat /\ i * w \in Nat
  OBVIOUS
<1>4. j * w = i * w + w + d * w
  BY <1>2
<1> QED
  BY <1>3, <1>4

LEMMA ShiftTyped ==
    ASSUME shift \in ShiftSpecs, order \in SampleKeys
    PROVE  /\ order \subseteq Int /\ MAX_WINDOWS \in Nat
           /\ shift.reference \in Window /\ shift.comparisons \subseteq Window /\ IsFiniteSet(shift.comparisons)
           /\ Rolls => shift.rolling \in RollingPlan
  BY ShiftAssumption DEF Rolls

\* A window that ends before another holds only keys below the other's.
LEMMA EndsBeforePast ==
    ASSUME order \subseteq Int, NEW a \in Window, NEW b \in Window, EndsBefore(a, b)
    PROVE  /\ \A x \in SamplesIn(a), y \in SamplesIn(b) : x < y
           /\ SamplesIn(a) \cap SamplesIn(b) = {}
<1>1. /\ a.start \in Int /\ a.end \in Int /\ b.start \in Int /\ b.end \in Int
      /\ a.end_inclusive \in BOOLEAN /\ b.start_inclusive \in BOOLEAN
  BY DEF Window
<1>2. ASSUME NEW x \in SamplesIn(a), NEW y \in SamplesIn(b) PROVE x < y
  <2>1. x \in Int /\ y \in Int /\ Holds(a, x) /\ Holds(b, y)
    BY DEF SamplesIn
  <2>2. x <= a.end /\ (~a.end_inclusive => x < a.end) /\ b.start <= y /\ (~b.start_inclusive => b.start < y)
    BY <1>1, <2>1 DEF Holds
  <2>3. CASE a.end < b.start
    BY <1>1, <2>1, <2>2, <2>3
  <2>4. CASE a.end = b.start /\ ~a.end_inclusive
    BY <1>1, <2>1, <2>2, <2>4
  <2>5. CASE a.end = b.start /\ ~b.start_inclusive
    BY <1>1, <2>1, <2>2, <2>5
  <2> QED
    BY <2>3, <2>4, <2>5 DEF EndsBefore
<1>3. ASSUME NEW x \in SamplesIn(a), x \in SamplesIn(b) PROVE FALSE
  BY <1>2, <1>3 DEF SamplesIn
<1> QED
  BY <1>2, <1>3

LEMMA CandidateIs ==
    ASSUME shift.rolling \in RollingPlan, NEW i \in Nat
    PROVE  /\ RollingStart(i) \in Int /\ RollingStart(i) = shift.rolling.start + i * shift.rolling.step
           /\ Candidate(i) \in Window /\ Candidate(i) # NoWindow
           /\ Candidate(i).start = RollingStart(i) /\ Candidate(i).end = RollingStart(i) + shift.rolling.width
           /\ Candidate(i).start_inclusive /\ ~Candidate(i).end_inclusive
<1>1. i * shift.rolling.step \in Int
  BY DEF RollingPlan
<1>2. RollingStart(i) \in Int /\ RollingStart(i) = shift.rolling.start + i * shift.rolling.step /\ shift.rolling.width \in Int
  BY <1>1 DEF RollingStart, RollingPlan
<1> QED
  BY <1>2 DEF Candidate, HalfOpen, Window, NoWindow

LEMMA RollingFacts ==
    ASSUME shift \in ShiftSpecs, order \in SampleKeys, Valid, Rolls
    PROVE  /\ shift.rolling \in RollingPlan
           /\ shift.rolling.width \in Nat \ {0} /\ shift.rolling.step \in Nat \ {0}
           /\ shift.rolling.start \in Int /\ shift.rolling.stop \in Int
           /\ shift.rolling.stop - shift.rolling.start <= MAX_WINDOWS * shift.rolling.step
  BY ShiftTyped DEF Valid, ValidRolling, RollingPlan

\* Candidates start at least a step apart.
LEMMA CandidatesApart ==
    ASSUME shift \in ShiftSpecs, order \in SampleKeys, Valid, Rolls, NEW i \in Nat, NEW j \in Nat, i < j
    PROVE  /\ RollingStart(i) + shift.rolling.step <= RollingStart(j) /\ RollingStart(i) < RollingStart(j)
           /\ Candidate(i) # Candidate(j)
           /\ shift.rolling.step >= shift.rolling.width => EndsBefore(Candidate(i), Candidate(j))
<1> DEFINE s == shift.rolling.start
           t == shift.rolling.step
           w == shift.rolling.width
<1>1. shift.rolling \in RollingPlan /\ w \in Nat /\ t \in Nat /\ t # 0 /\ s \in Int
  BY RollingFacts
<1>2. /\ RollingStart(i) = s + i * t /\ RollingStart(j) = s + j * t
      /\ Candidate(i).start = s + i * t /\ Candidate(j).start = s + j * t
      /\ Candidate(i).end = s + i * t + w /\ ~Candidate(i).end_inclusive
  BY <1>1, CandidateIs
<1> HIDE DEF s, t, w
<1>3. i * t + t <= j * t /\ i * t \in Nat /\ j * t \in Nat
  BY <1>1, Multiples
<1>4. s + i * t + t <= s + j * t /\ s + i * t < s + j * t
  BY <1>1, <1>3
<1>5. t >= w => EndsBefore(Candidate(i), Candidate(j))
  BY <1>1, <1>2, <1>3 DEF EndsBefore
<1>6. s + i * t # s + j * t
  BY <1>1, <1>3
<1> QED
  BY <1>2, <1>4, <1>5, <1>6 DEF t, w

LEMMA AskedAre ==
    ASSUME shift \in ShiftSpecs, order \in SampleKeys, Valid
    PROVE  /\ Rolls => \A i \in Nat : RollingStart(i) < shift.rolling.stop => Candidate(i) \in Asked
           /\ Rolls => \A w \in Asked : \E i \in Nat : w = Candidate(i) /\ RollingStart(i) < shift.rolling.stop
           /\ ~Rolls => Asked = shift.comparisons
           /\ Asked \subseteq Window
<1>1. ASSUME Rolls, NEW i \in Nat, RollingStart(i) < shift.rolling.stop PROVE i \in 0..MAX_WINDOWS
  <2> DEFINE s == shift.rolling.start
             t == shift.rolling.step
             e == shift.rolling.stop
  <2>1. /\ MAX_WINDOWS \in Nat /\ t \in Nat /\ s \in Int /\ e \in Int /\ e - s <= MAX_WINDOWS * t
        /\ shift.rolling \in RollingPlan
    BY <1>1, RollingFacts, ShiftTyped
  <2>2. s + i * t < e
    BY <1>1, <2>1, CandidateIs
  <2> HIDE DEF s, t, e
  <2> SUFFICES ASSUME MAX_WINDOWS < i PROVE FALSE
    BY <2>1
  <2>3. MAX_WINDOWS * t + t <= i * t /\ i * t \in Nat /\ MAX_WINDOWS * t \in Nat
    BY <2>1, Multiples
  <2> QED
    BY <2>1, <2>2, <2>3
<1>2. Rolls => shift.rolling \in RollingPlan /\ MAX_WINDOWS \in Nat /\ shift.comparisons \subseteq Window
  BY ShiftTyped
<1>3. ASSUME Rolls, NEW i \in Nat, RollingStart(i) < shift.rolling.stop PROVE Candidate(i) \in Asked
  BY <1>1, <1>3 DEF Asked, Compared, Candidates
<1>4. ASSUME Rolls, NEW w \in Asked PROVE \E i \in Nat : w = Candidate(i) /\ RollingStart(i) < shift.rolling.stop
  BY <1>2, <1>4 DEF Asked, Compared, Candidates
<1>5. ~Rolls => Asked = shift.comparisons
  BY DEF Asked, Compared
<1>6. Asked \subseteq Window
  BY <1>2, <1>4, <1>5, CandidateIs, ShiftTyped
<1> QED
  BY <1>3, <1>4, <1>5, <1>6
-----------------------------------------------------------------------------
\* What becomes of a window that is asked for.
Paired(w) == \E i \in DOMAIN pairs : pairs[i][2] = w
Passed(w) == \E s \in skipped : s[1] = w
Made(w) == \E p \in resolved : p[2] = w
Fated(w) == Paired(w) \/ Passed(w) \/ Made(w)

OneFate ==
    /\ \A i, j \in DOMAIN pairs : pairs[i][2] = pairs[j][2] => i = j
    /\ \A s, t \in skipped : s[1] = t[1] => s = t
    /\ \A p, q \in resolved : p[2] = q[2] => p = q
    /\ \A w : ~(Paired(w) /\ Passed(w)) /\ ~(Paired(w) /\ Made(w)) /\ ~(Passed(w) /\ Made(w))

ShiftTypes ==
    /\ shift \in ShiftSpecs /\ order \in SampleKeys /\ dealt \in Nat
    /\ pairs \in Seq(Window \X Window)
    /\ verdict \in {"plan", "resolve", "done", "empty", "shared"} => Valid
    /\ verdict \in {"new", "refused", "plan", "resolve", "done", "empty", "shared"}
    /\ verdict = "plan" => Rolls
    /\ verdict = "new" => pairs = <<>> /\ skipped = {} /\ resolved = {} /\ dealt = 0 /\ previous = NoWindow
    /\ verdict = "done" => pairs = <<>>
    /\ previous # NoWindow =>
           Rolls /\ \E j \in Nat : j < dealt /\ RollingStart(j) < shift.rolling.stop /\ previous = Candidate(j)

\* The reference is the one the specification means.
GoodPair(p) ==
    /\ p \in Window \X Window /\ p[2] \in Asked
    /\ ~Rolls \/ shift.rolling.reference = "FIXED" => p[1] = shift.reference
    /\ Rolls /\ shift.rolling.reference = "PREVIOUS" => EndsBefore(p[1], p[2])
    /\ Rolls /\ shift.rolling.reference = "EXPANDING" => p[1] = HalfOpen(shift.rolling.start, p[2].start)

GoodPairs ==
    /\ \A i \in DOMAIN pairs : GoodPair(pairs[i])
    /\ \A p \in resolved : GoodPair(p) /\ SamplesIn(p[1]) # {} /\ SamplesIn(p[2]) # {}

Dealt ==
    /\ verdict \in {"plan", "resolve", "done"} /\ Rolls => \A j \in Nat : j < dealt => Fated(Candidate(j))
    /\ verdict = "plan" => \A j \in Nat : j >= dealt => ~Fated(Candidate(j))
    /\ verdict \in {"resolve", "done"} /\ Rolls => RollingStart(dealt) >= shift.rolling.stop
    /\ verdict \in {"resolve", "done"} /\ ~Rolls => \A w \in Asked : Fated(w)

ShiftInv == ShiftTypes /\ OneFate /\ GoodPairs /\ Dealt /\ verdict # "shared"

\* No pair shares a sample.
LEMMA GoodPairApart ==
    ASSUME shift \in ShiftSpecs, order \in SampleKeys, Valid, NEW p, GoodPair(p)
    PROVE  /\ SamplesIn(p[1]) \cap SamplesIn(p[2]) = {}
           /\ Rolls /\ shift.rolling.reference # "FIXED" =>
                 /\ EndsBefore(p[1], p[2])
                 /\ \A x \in SamplesIn(p[1]), y \in SamplesIn(p[2]) : x < y
<1>1. order \subseteq Int /\ p[1] \in Window /\ p[2] \in Window
  BY ShiftTyped DEF GoodPair
<1>2. CASE ~Rolls \/ shift.rolling.reference = "FIXED"
  <2>1. p[1] = shift.reference /\ shift.reference # NoWindow /\ ~Overlaps(p[1], p[2])
    BY <1>2 DEF GoodPair, Valid, Asked
  <2>2. CASE EndsBefore(p[1], p[2])
    BY <1>1, <1>2, <2>2, EndsBeforePast
  <2>3. CASE EndsBefore(p[2], p[1])
    BY <1>1, <1>2, <2>3, EndsBeforePast
  <2> QED
    BY <2>1, <2>2, <2>3 DEF Overlaps
<1>3. CASE Rolls /\ shift.rolling.reference # "FIXED"
  <2>1. shift.rolling.reference \in {"PREVIOUS", "EXPANDING"}
    BY <1>3, RollingFacts DEF RollingPlan
  <2>2. EndsBefore(p[1], p[2])
    BY <1>3, <2>1 DEF GoodPair, EndsBefore, HalfOpen
  <2> QED
    BY <1>1, <2>2, EndsBeforePast
<1> QED
  BY <1>2, <1>3

LEMMA ShiftInitial == ShiftInit => ShiftInv
<1> SUFFICES ASSUME ShiftInit PROVE ShiftInv
  OBVIOUS
<1> USE DEF ShiftInit
<1>1. pairs = <<>> /\ skipped = {} /\ resolved = {} /\ verdict = "new" /\ previous = NoWindow /\ dealt = 0
  OBVIOUS
<1>2. OneFate /\ GoodPairs
  BY <1>1 DEF OneFate, GoodPairs, Paired, Passed, Made
<1> QED
  BY <1>1, <1>2 DEF ShiftInv, ShiftTypes, Dealt

\* A window gets a fate only once.
LEMMA PairedMore ==
    ASSUME ShiftTypes, OneFate, NEW r \in Window, NEW w \in Window, ~Fated(w),
           pairs' = Append(pairs, <<r, w>>), skipped' = skipped, resolved' = resolved
    PROVE  /\ OneFate' /\ \A v : Fated(v)' <=> Fated(v) \/ v = w
           /\ pairs' \in Seq(Window \X Window)
           /\ \A i \in DOMAIN pairs' : (i \in DOMAIN pairs /\ pairs'[i] = pairs[i]) \/ pairs'[i] = <<r, w>>
<1>0. pairs \in Seq(Window \X Window) /\ <<r, w>> \in Window \X Window /\ <<r, w>>[2] = w
  BY DEF ShiftTypes
<1> DEFINE e == <<r, w>>
           n == Len(pairs) + 1
<1>1. /\ pairs' \in Seq(Window \X Window) /\ n \in DOMAIN pairs' /\ pairs'[n] = e
      /\ \A i \in DOMAIN pairs : i \in DOMAIN pairs' /\ pairs'[i] = pairs[i]
      /\ \A i \in DOMAIN pairs' : i \in DOMAIN pairs \/ i = n
  <2> HIDE DEF e
  <2> QED
    BY <1>0 DEF e
<1> HIDE DEF n
<1>2. \A v : Paired(v)' <=> Paired(v) \/ v = w
  BY <1>0, <1>1 DEF Paired
<1>3. \A v : (Passed(v)' <=> Passed(v)) /\ (Made(v)' <=> Made(v))
  BY DEF Passed, Made
<1>4. ASSUME NEW i \in DOMAIN pairs', NEW j \in DOMAIN pairs', pairs'[i][2] = pairs'[j][2] PROVE i = j
  <2>1. CASE i \in DOMAIN pairs /\ j \in DOMAIN pairs
    BY <1>1, <1>4, <2>1 DEF OneFate
  <2>2. CASE i \in DOMAIN pairs /\ j = n
    BY <1>0, <1>1, <1>4, <2>2 DEF Fated, Paired
  <2>3. CASE i = n /\ j \in DOMAIN pairs
    BY <1>0, <1>1, <1>4, <2>3 DEF Fated, Paired
  <2> QED
    BY <1>1, <2>1, <2>2, <2>3
<1>5. OneFate'
  BY <1>2, <1>3, <1>4 DEF OneFate, Fated
<1> QED
  BY <1>1, <1>2, <1>3, <1>5 DEF Fated

LEMMA PassedMore ==
    ASSUME OneFate, NEW w, NEW reason, ~Fated(w),
           skipped' = skipped \cup {<<w, reason>>}, pairs' = pairs, resolved' = resolved
    PROVE  OneFate' /\ \A v : Fated(v)' <=> Fated(v) \/ v = w
<1>1. \A v : Passed(v)' <=> Passed(v) \/ v = w
  <2>1. <<w, reason>>[1] = w
    OBVIOUS
  <2> QED
    BY <2>1 DEF Passed
<1>2. \A v : (Paired(v)' <=> Paired(v)) /\ (Made(v)' <=> Made(v))
  BY DEF Paired, Made
<1>3. \A s, t \in skipped' : s[1] = t[1] => s = t
  BY DEF OneFate, Fated, Passed
<1> QED
  BY <1>1, <1>2, <1>3 DEF OneFate, Fated

LEMMA PairTaken ==
    ASSUME ShiftTypes, OneFate, pairs # <<>>, pairs' = Tail(pairs), NEW reason,
           \/ skipped' = skipped /\ resolved' = resolved
           \/ skipped' = skipped \cup {<<Head(pairs)[2], reason>>} /\ resolved' = resolved
           \/ skipped' = skipped /\ resolved' = resolved \cup {Head(pairs)}
    PROVE  /\ OneFate'
           /\ skipped' # skipped \/ resolved' # resolved => \A v : Fated(v) => Fated(v)'
           /\ pairs' \in Seq(Window \X Window)
           /\ \A i \in DOMAIN pairs' : i + 1 \in DOMAIN pairs /\ pairs'[i] = pairs[i + 1]
           /\ Head(pairs) = pairs[1] /\ 1 \in DOMAIN pairs
<1> DEFINE h == Head(pairs)
           c == h[2]
<1>0. pairs \in Seq(Window \X Window)
  BY DEF ShiftTypes
<1>1. /\ pairs' \in Seq(Window \X Window) /\ h = pairs[1] /\ 1 \in DOMAIN pairs
      /\ \A i \in DOMAIN pairs' : i \in Nat /\ i # 0 /\ i + 1 \in DOMAIN pairs /\ pairs'[i] = pairs[i + 1]
      /\ \A i \in DOMAIN pairs : i # 1 => i - 1 \in DOMAIN pairs' /\ pairs'[i - 1] = pairs[i]
      /\ DOMAIN pairs \subseteq Nat
  BY <1>0
<1>2. Paired(c)
  BY <1>1 DEF Paired
<1>3. \A v : Paired(v)' <=> Paired(v) /\ v # c
  <2>1. ASSUME NEW v, Paired(v)' PROVE Paired(v) /\ v # c
    <3>1. PICK i \in DOMAIN pairs' : pairs'[i][2] = v
      BY <2>1 DEF Paired
    <3>2. i + 1 \in DOMAIN pairs /\ pairs[i + 1][2] = v /\ i + 1 # 1
      BY <1>1, <3>1
    <3> QED
      BY <1>1, <3>2 DEF Paired, OneFate
  <2>2. ASSUME NEW v, Paired(v), v # c PROVE Paired(v)'
    <3>1. PICK i \in DOMAIN pairs : pairs[i][2] = v
      BY <2>2 DEF Paired
    <3>2. i # 1
      BY <1>1, <2>2, <3>1
    <3> QED
      BY <1>1, <3>1, <3>2 DEF Paired
  <2> QED
    BY <2>1, <2>2
<1>4. ASSUME NEW i \in DOMAIN pairs', NEW j \in DOMAIN pairs', pairs'[i][2] = pairs'[j][2] PROVE i = j
  <2>1. i + 1 = j + 1
    BY <1>1, <1>4 DEF OneFate
  <2> QED
    BY <1>1, <2>1
<1> HIDE DEF c, h
<1>5. CASE skipped' = skipped /\ resolved' = resolved
  <2>1. \A v : (Passed(v)' <=> Passed(v)) /\ (Made(v)' <=> Made(v))
    BY <1>5 DEF Passed, Made
  <2>2. OneFate'
    BY <1>3, <1>4, <1>5, <2>1 DEF OneFate
  <2> QED
    BY <1>1, <1>5, <2>2 DEF h
<1>6. CASE skipped' = skipped \cup {<<c, reason>>} /\ resolved' = resolved
  <2>0. <<c, reason>>[1] = c
    OBVIOUS
  <2>1. \A v : (Passed(v)' <=> Passed(v) \/ v = c) /\ (Made(v)' <=> Made(v))
    BY <1>6, <2>0 DEF Passed, Made
  <2>2. ~Passed(c) /\ ~Made(c)
    BY <1>2 DEF OneFate
  <2>3. \A s, t \in skipped' : s[1] = t[1] => s = t
    BY <1>6, <2>2 DEF OneFate, Passed
  <2>4. OneFate'
    BY <1>3, <1>4, <1>6, <2>1, <2>2, <2>3 DEF OneFate
  <2>5. \A v : Fated(v) => Fated(v)'
    BY <1>3, <2>1 DEF Fated
  <2> QED
    BY <1>1, <2>4, <2>5 DEF h
<1>7. CASE skipped' = skipped /\ resolved' = resolved \cup {h}
  <2>1. \A v : (Passed(v)' <=> Passed(v)) /\ (Made(v)' <=> Made(v) \/ v = c)
    BY <1>7 DEF Passed, Made, c
  <2>2. ~Passed(c) /\ ~Made(c)
    BY <1>2 DEF OneFate
  <2>3. \A s, t \in resolved' : s[2] = t[2] => s = t
    BY <1>7, <2>2 DEF OneFate, Made, c
  <2>4. OneFate'
    BY <1>3, <1>4, <1>7, <2>1, <2>2, <2>3 DEF OneFate
  <2>5. \A v : Fated(v) => Fated(v)'
    BY <1>3, <2>1 DEF Fated
  <2> QED
    BY <1>1, <2>4, <2>5 DEF h
<1> QED
  BY <1>5, <1>6, <1>7 DEF h, c

-----------------------------------------------------------------------------
LEMMA ListedOnce ==
    ASSUME NEW S, IsFiniteSet(S)
    PROVE  /\ SetToSeq(S) \in Seq(S)
           /\ \A i, j \in DOMAIN SetToSeq(S) : SetToSeq(S)[i] = SetToSeq(S)[j] => i = j
           /\ \A x \in S : \E i \in DOMAIN SetToSeq(S) : SetToSeq(S)[i] = x
<1> DEFINE n == Cardinality(S)
           f == SetToSeq(S)
<1>1. n \in Nat /\ ExistsBijection(1..n, S)
  BY FS_CardinalityType, FS_NatBijection
<1>2. \E g \in [1..n -> S] : IsInjective(g)
  BY <1>1 DEF ExistsBijection, Bijection, Injection
<1>3. f \in [1..n -> S] /\ IsInjective(f)
  BY <1>2 DEF SetToSeq
<1> HIDE DEF f
<1>4. f \in Injection(1..n, S)
  BY <1>3 DEF Injection
<1>5. IsFiniteSet(1..n) /\ Cardinality(1..n) = n
  BY <1>1, FS_Interval
<1>6. f \in Surjection(1..n, S)
  BY <1>4, <1>5, FS_Injection
<1>7. \A i, j \in DOMAIN f : f[i] = f[j] => i = j
  BY <1>3 DEF IsInjective
<1>8. \A x \in S : \E i \in DOMAIN f : f[i] = x
  BY <1>3, <1>6 DEF Surjection
<1>9. f \in Seq(S)
  BY <1>1, <1>3, FunctionIsSeq
<1> QED
  BY <1>7, <1>8, <1>9 DEF f

LEMMA ShiftKept ==
    ASSUME UNCHANGED <<shift, order>>
    PROVE  /\ (Rolls' <=> Rolls) /\ (Valid' <=> Valid) /\ Asked' = Asked
           /\ \A i : RollingStart(i)' = RollingStart(i) /\ Candidate(i)' = Candidate(i)
           /\ \A w : SamplesIn(w)' = SamplesIn(w)
           /\ \A p : GoodPair(p)' <=> GoodPair(p)
  BY DEF Rolls, Valid, ValidRolling, Asked, Compared, Candidates, Candidate, RollingStart, SamplesIn, GoodPair

LEMMA FatesKept ==
    ASSUME UNCHANGED <<pairs, skipped, resolved>>
    PROVE  (OneFate' <=> OneFate) /\ \A w : Fated(w)' <=> Fated(w)
  BY DEF OneFate, Fated, Paired, Passed, Made

LEMMA ValidateInv ==
    ASSUME ShiftInv, Validate
    PROVE  ShiftInv'
<1> USE DEF Validate
<1>k. /\ (Rolls' <=> Rolls) /\ (Valid' <=> Valid) /\ Asked' = Asked
      /\ \A i : RollingStart(i)' = RollingStart(i) /\ Candidate(i)' = Candidate(i)
      /\ \A w : SamplesIn(w)' = SamplesIn(w)
      /\ \A p : GoodPair(p)' <=> GoodPair(p)
  BY ShiftKept
<1>q. /\ ShiftTypes /\ OneFate /\ verdict = "new"
      /\ pairs = <<>> /\ skipped = {} /\ resolved = {} /\ dealt = 0 /\ previous = NoWindow
      /\ shift \in ShiftSpecs /\ order \in SampleKeys
      /\ skipped' = {} /\ resolved' = {} /\ dealt' = 0 /\ previous' = NoWindow
  BY DEF ShiftInv, ShiftTypes
<1>1. CASE ~Valid \/ Rolls
  <2>1. pairs' = <<>> /\ verdict' \in {"refused", "plan"} /\ (verdict' = "plan" => Valid /\ Rolls)
    BY <1>1, <1>q
  <2>2. \A w : ~Fated(w)'
    BY <1>q, <2>1 DEF Fated, Paired, Passed, Made
  <2>3. OneFate' /\ GoodPairs'
    BY <1>q, <2>1, <2>2 DEF OneFate, GoodPairs, Fated, Paired, Passed, Made
  <2>4. ShiftTypes'
    BY <1>k, <1>q, <2>1 DEF ShiftTypes
  <2>5. Dealt'
    BY <1>k, <1>q, <2>1, <2>2 DEF Dealt
  <2> QED
    BY <2>1, <2>3, <2>4, <2>5 DEF ShiftInv
<1>2. CASE Valid /\ ~Rolls
  <2> DEFINE P == {<<shift.reference, c>> : c \in shift.comparisons}
  <2>1. /\ shift.reference \in Window /\ shift.comparisons \subseteq Window /\ IsFiniteSet(shift.comparisons)
        /\ Asked = shift.comparisons
    BY <1>2, <1>q, ShiftTyped, AskedAre
  <2>2. P \subseteq Window \X Window /\ IsFiniteSet(P)
    <3>1. P \subseteq Window \X Window
      BY <2>1
    <3>2. IsFiniteSet(P)
      <4> DEFINE g == [c \in shift.comparisons |-> <<shift.reference, c>>]
      <4>1. g \in Surjection(shift.comparisons, P)
        BY DEF Surjection
      <4> HIDE DEF g, P
      <4> QED
        BY <2>1, <4>1, FS_Surjection
    <3> QED
      BY <3>1, <3>2
  <2>3. pairs' = SetToSeq(P) /\ verdict' = "resolve"
    BY <1>2, <1>q
  <2>4. \A p \in P : p[1] = shift.reference /\ p[2] \in shift.comparisons /\ p = <<p[1], p[2]>> /\ GoodPair(p)
    BY <1>2, <2>1, <2>2 DEF GoodPair
  <2>5. \A c \in shift.comparisons : <<shift.reference, c>> \in P /\ <<shift.reference, c>>[2] = c
    OBVIOUS
  <2> HIDE DEF P
  <2>6. /\ pairs' \in Seq(P)
        /\ \A i, j \in DOMAIN pairs' : pairs'[i] = pairs'[j] => i = j
        /\ \A x \in P : \E i \in DOMAIN pairs' : pairs'[i] = x
    <3>1. /\ SetToSeq(P) \in Seq(P)
          /\ \A i, j \in DOMAIN SetToSeq(P) : SetToSeq(P)[i] = SetToSeq(P)[j] => i = j
          /\ \A x \in P : \E i \in DOMAIN SetToSeq(P) : SetToSeq(P)[i] = x
      BY <2>2, ListedOnce
    <3>2. pairs' = SetToSeq(P)
      BY <2>3
    <3> QED
      BY <3>1, <3>2
  <2>7. pairs' \in Seq(Window \X Window)
    BY <2>2, <2>6
  <2>8. \A i \in DOMAIN pairs' : pairs'[i] \in P
    BY <2>6
  <2>9. GoodPairs'
    BY <1>k, <1>q, <2>4, <2>8 DEF GoodPairs
  <2>10. \A i, j \in DOMAIN pairs' : pairs'[i][2] = pairs'[j][2] => i = j
    <3> SUFFICES ASSUME NEW i \in DOMAIN pairs', NEW j \in DOMAIN pairs', pairs'[i][2] = pairs'[j][2] PROVE i = j
      OBVIOUS
    <3>1. pairs'[i] = pairs'[j]
      BY <2>4, <2>8
    <3> QED
      BY <2>6, <3>1
  <2>11. OneFate'
    BY <1>q, <2>10 DEF OneFate, Passed, Made
  <2>12. \A w \in Asked : Fated(w)'
    <3> SUFFICES ASSUME NEW w \in Asked PROVE Paired(w)'
      BY DEF Fated
    <3>1. PICK i \in DOMAIN pairs' : pairs'[i] = <<shift.reference, w>>
      BY <2>1, <2>5, <2>6
    <3> QED
      BY <2>1, <2>5, <3>1 DEF Paired
  <2>13. ShiftTypes'
    BY <1>2, <1>k, <1>q, <2>3, <2>7 DEF ShiftTypes
  <2>14. Dealt'
    BY <1>2, <1>k, <2>3, <2>12 DEF Dealt
  <2> QED
    BY <2>3, <2>9, <2>11, <2>13, <2>14 DEF ShiftInv
<1> QED
  BY <1>1, <1>2

LEMMA PlanWindowInv ==
    ASSUME ShiftInv, PlanWindow
    PROVE  ShiftInv'
<1> DEFINE w == Candidate(dealt)
           r == shift.rolling
<1>k. /\ (Rolls' <=> Rolls) /\ (Valid' <=> Valid) /\ Asked' = Asked
      /\ \A i : RollingStart(i)' = RollingStart(i) /\ Candidate(i)' = Candidate(i)
      /\ \A v : SamplesIn(v)' = SamplesIn(v)
      /\ \A p : GoodPair(p)' <=> GoodPair(p)
  BY ShiftKept DEF PlanWindow
<1>q. /\ ShiftTypes /\ OneFate /\ GoodPairs /\ Dealt
      /\ verdict = "plan" /\ Rolls /\ Valid /\ shift \in ShiftSpecs /\ order \in SampleKeys /\ dealt \in Nat
      /\ RollingStart(dealt) < r.stop
      /\ verdict' = "plan" /\ dealt' = dealt + 1 /\ resolved' = resolved /\ shift' = shift /\ order' = order
      /\ previous' = IF w.end <= r.stop THEN w ELSE previous
  BY DEF ShiftInv, ShiftTypes, PlanWindow
<1>1. /\ r \in RollingPlan /\ w \in Window /\ w \in Asked /\ ~Fated(w)
      /\ shift.reference \in Window
  BY <1>q, RollingFacts, CandidateIs, AskedAre, ShiftTyped DEF Dealt
<1>2. (\E reason : Skip(w, reason)) \/ \E q \in Window : Pair(q, w) /\ GoodPair(<<q, w>>)
  <2>1. CASE w.end > r.stop /\ Skip(w, "PARTIAL_WINDOW")
    BY <2>1
  <2>2. CASE w.end <= r.stop /\ r.reference = "FIXED" /\ Pair(shift.reference, w)
    BY <1>1, <2>2 DEF GoodPair
  <2>3. CASE r.reference = "PREVIOUS" /\ previous = NoWindow /\ Skip(w, "NO_REFERENCE")
    BY <2>3
  <2>4. CASE r.reference = "PREVIOUS" /\ previous # NoWindow /\ Pair(previous, w)
    <3>1. PICK j \in Nat : j < dealt /\ previous = Candidate(j)
      BY <1>q, <2>4 DEF ShiftTypes
    <3>2. r.step >= r.width
      BY <1>q, <2>4 DEF Valid, ValidRolling
    <3>3. EndsBefore(previous, w) /\ previous \in Window
      BY <1>1, <1>q, <3>1, <3>2, CandidatesApart, CandidateIs
    <3>4. GoodPair(<<previous, w>>)
      BY <1>1, <1>q, <2>4, <3>3 DEF GoodPair
    <3> QED
      BY <2>4, <3>3, <3>4
  <2>5. CASE r.reference = "EXPANDING" /\ w.start = r.start /\ Skip(w, "NO_REFERENCE")
    BY <2>5
  <2>6. CASE r.reference = "EXPANDING" /\ Pair(HalfOpen(r.start, w.start), w)
    <3>1. HalfOpen(r.start, w.start) \in Window
      BY <1>1 DEF HalfOpen, Window, RollingPlan
    <3>2. GoodPair(<<HalfOpen(r.start, w.start), w>>)
      BY <1>1, <1>q, <2>6, <3>1 DEF GoodPair
    <3> QED
      BY <2>6, <3>1, <3>2
  <2> QED
    BY <2>1, <2>2, <2>3, <2>4, <2>5, <2>6 DEF PlanWindow
<1>3. /\ OneFate' /\ GoodPairs' /\ pairs' \in Seq(Window \X Window)
      /\ \A v : Fated(v)' <=> Fated(v) \/ v = w
  <2>1. ASSUME NEW reason, Skip(w, reason)
        PROVE  /\ OneFate' /\ GoodPairs' /\ pairs' \in Seq(Window \X Window)
               /\ \A v : Fated(v)' <=> Fated(v) \/ v = w
    <3> HIDE DEF w
    <3>1. skipped' = skipped \cup {<<w, reason>>} /\ pairs' = pairs
      BY <2>1 DEF Skip
    <3>2. OneFate' /\ \A v : Fated(v)' <=> Fated(v) \/ v = w
      BY <1>1, <1>q, <3>1, PassedMore
    <3> QED
      BY <1>k, <1>q, <3>1, <3>2 DEF GoodPairs, ShiftTypes
  <2>2. ASSUME NEW q \in Window, Pair(q, w), GoodPair(<<q, w>>)
        PROVE  /\ OneFate' /\ GoodPairs' /\ pairs' \in Seq(Window \X Window)
               /\ \A v : Fated(v)' <=> Fated(v) \/ v = w
    <3> HIDE DEF w
    <3>1. skipped' = skipped /\ pairs' = Append(pairs, <<q, w>>)
      BY <2>2 DEF Pair
    <3>2. /\ OneFate' /\ \A v : Fated(v)' <=> Fated(v) \/ v = w
          /\ pairs' \in Seq(Window \X Window)
          /\ \A i \in DOMAIN pairs' : (i \in DOMAIN pairs /\ pairs'[i] = pairs[i]) \/ pairs'[i] = <<q, w>>
      BY <1>1, <1>q, <3>1, PairedMore
    <3>3. \A i \in DOMAIN pairs' : GoodPair(pairs'[i])
      BY <1>q, <2>2, <3>2 DEF GoodPairs
    <3> QED
      BY <1>k, <1>q, <3>2, <3>3 DEF GoodPairs
  <2> QED
    BY <1>2, <2>1, <2>2
<1>4. ShiftTypes'
  <2>1. ASSUME previous' # NoWindow
        PROVE  \E j \in Nat : j < dealt' /\ RollingStart(j) < shift.rolling.stop /\ previous' = Candidate(j)
    <3>1. CASE previous' = w
      BY <1>q, <3>1
    <3>2. CASE previous' = previous
      <4>1. PICK j \in Nat : j < dealt /\ RollingStart(j) < shift.rolling.stop /\ previous = Candidate(j)
        BY <1>q, <2>1, <3>2 DEF ShiftTypes
      <4>2. j < dealt'
        BY <1>q, <4>1
      <4> QED
        BY <3>2, <4>1, <4>2
    <3> QED
      BY <1>q, <3>1, <3>2
  <2> QED
    BY <1>k, <1>q, <1>3, <2>1 DEF ShiftTypes
<1>5. Dealt'
  <2>1. ASSUME NEW j \in Nat, j < dealt + 1, NEW v, v = Candidate(j) PROVE Fated(v)'
    <3>1. CASE j = dealt
      BY <1>3, <2>1, <3>1
    <3>2. CASE j < dealt
      <4>1. Fated(Candidate(j))
        BY <1>q, <3>2 DEF Dealt
      <4> QED
        BY <1>3, <2>1, <4>1
    <3> QED
      BY <1>q, <2>1, <3>1, <3>2
  <2>2. ASSUME NEW j \in Nat, j >= dealt + 1, NEW v, v = Candidate(j) PROVE ~Fated(v)'
    <3>1. j > dealt /\ j >= dealt
      BY <1>q, <2>2
    <3>2. Candidate(j) # w
      BY <1>q, <3>1, CandidatesApart
    <3>3. ~Fated(Candidate(j))
      BY <1>q, <3>1 DEF Dealt
    <3> QED
      BY <1>3, <2>2, <3>2, <3>3
  <2> QED
    BY <1>k, <1>q, <2>1, <2>2 DEF Dealt
<1> QED
  BY <1>3, <1>4, <1>5, <1>q DEF ShiftInv

LEMMA PlanEndsInv ==
    ASSUME ShiftInv, PlanEnds
    PROVE  ShiftInv'
<1> USE DEF PlanEnds
<1>k. /\ (Rolls' <=> Rolls) /\ (Valid' <=> Valid) /\ Asked' = Asked
      /\ \A i : RollingStart(i)' = RollingStart(i) /\ Candidate(i)' = Candidate(i)
      /\ \A v : SamplesIn(v)' = SamplesIn(v)
      /\ \A p : GoodPair(p)' <=> GoodPair(p)
  BY ShiftKept
<1>1. (OneFate' <=> OneFate) /\ \A v : Fated(v)' <=> Fated(v)
  BY FatesKept
<1>2. ShiftTypes'
  BY <1>k DEF ShiftInv, ShiftTypes
<1>3. GoodPairs'
  BY <1>k DEF ShiftInv, GoodPairs
<1>4. Dealt'
  BY <1>k, <1>1 DEF ShiftInv, ShiftTypes, Dealt
<1> QED
  BY <1>1, <1>2, <1>3, <1>4 DEF ShiftInv

LEMMA NothingToResolveInv ==
    ASSUME ShiftInv, NothingToResolve
    PROVE  ShiftInv'
<1> USE DEF NothingToResolve
<1>k. /\ (Rolls' <=> Rolls) /\ (Valid' <=> Valid) /\ Asked' = Asked
      /\ \A i : RollingStart(i)' = RollingStart(i) /\ Candidate(i)' = Candidate(i)
      /\ \A v : SamplesIn(v)' = SamplesIn(v)
      /\ \A p : GoodPair(p)' <=> GoodPair(p)
  BY ShiftKept
<1>1. (OneFate' <=> OneFate) /\ \A v : Fated(v)' <=> Fated(v)
  BY FatesKept
<1>2. ShiftTypes'
  BY <1>k DEF ShiftInv, ShiftTypes
<1>3. GoodPairs'
  BY <1>k DEF ShiftInv, GoodPairs
<1>4. Dealt'
  BY <1>k, <1>1 DEF ShiftInv, ShiftTypes, Dealt
<1> QED
  BY <1>1, <1>2, <1>3, <1>4 DEF ShiftInv

LEMMA ResolvePairInv ==
    ASSUME ShiftInv, ResolvePair
    PROVE  ShiftInv'
<1> DEFINE h == Head(pairs)
           after == IF Len(pairs) = 1 THEN "done" ELSE "resolve"
<1>k. /\ (Rolls' <=> Rolls) /\ (Valid' <=> Valid) /\ Asked' = Asked
      /\ \A i : RollingStart(i)' = RollingStart(i) /\ Candidate(i)' = Candidate(i)
      /\ \A v : SamplesIn(v)' = SamplesIn(v)
      /\ \A p : GoodPair(p)' <=> GoodPair(p)
  BY ShiftKept DEF ResolvePair
<1>q. /\ ShiftTypes /\ OneFate /\ GoodPairs /\ Dealt
      /\ verdict = "resolve" /\ Valid /\ pairs # <<>> /\ pairs \in Seq(Window \X Window)
      /\ shift \in ShiftSpecs /\ order \in SampleKeys
      /\ pairs' = Tail(pairs) /\ shift' = shift /\ order' = order /\ dealt' = dealt /\ previous' = previous
  BY DEF ShiftInv, ShiftTypes, ResolvePair
<1>1. h = pairs[1] /\ 1 \in DOMAIN pairs /\ h \in Window \X Window /\ h = <<h[1], h[2]>>
  BY <1>q
<1>2. GoodPair(h)
  BY <1>1, <1>q DEF GoodPairs
<1>3. SamplesIn(h[1]) \cap SamplesIn(h[2]) = {}
  BY <1>2, <1>q, GoodPairApart
<1> HIDE DEF h
<1>4. \/ verdict' = "empty" /\ skipped' = skipped /\ resolved' = resolved
      \/ \E reason : skipped' = skipped \cup {<<h[2], reason>>} /\ resolved' = resolved /\ verdict' = after
      \/ /\ skipped' = skipped /\ resolved' = resolved \cup {h} /\ verdict' = after
         /\ SamplesIn(h[1]) # {} /\ SamplesIn(h[2]) # {}
  BY <1>1, <1>3 DEF ResolvePair, h
<1>5. after = "done" => pairs' = <<>>
  BY <1>q
<1>6. after \in {"done", "resolve"}
  OBVIOUS
<1> HIDE DEF after
<1>7. /\ OneFate' /\ pairs' \in Seq(Window \X Window)
      /\ \A i \in DOMAIN pairs' : i + 1 \in DOMAIN pairs /\ pairs'[i] = pairs[i + 1]
      /\ skipped' # skipped \/ resolved' # resolved => \A v : Fated(v) => Fated(v)'
  BY <1>4, <1>q, PairTaken DEF h
<1>8. skipped' = skipped /\ resolved' = resolved => verdict' = "empty"
  <2>1. Paired(h[2])
    BY <1>1 DEF Paired
  <2>2. ~Passed(h[2]) /\ ~Made(h[2])
    BY <1>q, <2>1 DEF OneFate
  <2>3. \A reason : <<h[2], reason>> \notin skipped
    <3> SUFFICES ASSUME NEW reason, <<h[2], reason>> \in skipped PROVE FALSE
      OBVIOUS
    <3>1. <<h[2], reason>>[1] = h[2]
      OBVIOUS
    <3> QED
      BY <2>2, <3>1 DEF Passed
  <2>4. h \notin resolved
    BY <2>2 DEF Made
  <2> QED
    BY <1>4, <2>3, <2>4
<1>9. verdict' # "empty" => verdict' \in {"done", "resolve"} /\ \A v : Fated(v) => Fated(v)'
  BY <1>4, <1>6, <1>7, <1>8
<1>10. GoodPairs'
  <2>1. \A i \in DOMAIN pairs' : GoodPair(pairs'[i])
    BY <1>7, <1>q DEF GoodPairs
  <2>2. \A p \in resolved' : GoodPair(p) /\ SamplesIn(p[1]) # {} /\ SamplesIn(p[2]) # {}
    BY <1>2, <1>4, <1>q DEF GoodPairs
  <2> QED
    BY <1>k, <2>1, <2>2 DEF GoodPairs
<1>11. ShiftTypes'
  <2>1. verdict' \in {"empty", "done", "resolve"} /\ (verdict' = "done" => pairs' = <<>>)
    BY <1>4, <1>5, <1>9
  <2> QED
    BY <1>k, <1>q, <1>7, <2>1 DEF ShiftTypes
<1>12. Dealt'
  BY <1>9, <1>k, <1>q, <1>4 DEF Dealt
<1> QED
  BY <1>7, <1>9, <1>10, <1>11, <1>12 DEF ShiftInv

LEMMA ShiftStep == ShiftInv /\ [ShiftNext]_shiftVars => ShiftInv'
<1> SUFFICES ASSUME ShiftInv, [ShiftNext]_shiftVars PROVE ShiftInv'
  OBVIOUS
<1>1. CASE UNCHANGED shiftVars
  <2> USE <1>1 DEF shiftVars
  <2>k. /\ (Rolls' <=> Rolls) /\ (Valid' <=> Valid) /\ Asked' = Asked
        /\ \A i : RollingStart(i)' = RollingStart(i) /\ Candidate(i)' = Candidate(i)
        /\ \A v : SamplesIn(v)' = SamplesIn(v)
        /\ \A p : GoodPair(p)' <=> GoodPair(p)
    BY ShiftKept
  <2>1. (OneFate' <=> OneFate) /\ \A v : Fated(v)' <=> Fated(v)
    BY FatesKept
  <2>2. ShiftTypes'
    BY <2>k DEF ShiftInv, ShiftTypes
  <2>3. GoodPairs' /\ Dealt'
    BY <2>k, <2>1 DEF ShiftInv, GoodPairs, Dealt
  <2> QED
    BY <2>1, <2>2, <2>3 DEF ShiftInv
<1> QED
  BY <1>1, ValidateInv, PlanWindowInv, PlanEndsInv, ResolvePairInv, NothingToResolveInv DEF ShiftNext
-----------------------------------------------------------------------------
\* Windows that follow each other without a gap leave out no key.
LEMMA NoGap ==
    ASSUME NEW w \in Nat, NEW s \in Int, NEW x \in Int, s <= x, NEW j \in Nat, x < s + j * w + w
    PROVE  \E i \in Nat : i <= j /\ s + i * w <= x /\ x < s + i * w + w
<1> DEFINE I == {m \in Nat : x < s + m * w + w => \E i \in Nat : i <= m /\ s + i * w <= x /\ x < s + i * w + w}
<1>1. 0 \in I
  <2>1. 0 * w = 0
    OBVIOUS
  <2> QED
    BY <2>1
<1>2. ASSUME NEW m \in Nat, m \in I PROVE m + 1 \in I
  <2>1. (m + 1) * w = m * w + w /\ m * w \in Nat
    OBVIOUS
  <2> SUFFICES ASSUME x < s + (m + 1) * w + w
               PROVE  \E i \in Nat : i <= m + 1 /\ s + i * w <= x /\ x < s + i * w + w
    OBVIOUS
  <2>2. CASE x < s + m * w + w
    <3>1. PICK i \in Nat : i <= m /\ s + i * w <= x /\ x < s + i * w + w
      BY <1>2, <2>2
    <3>2. i <= m + 1
      BY <3>1
    <3> QED
      BY <3>1, <3>2
  <2>3. CASE ~(x < s + m * w + w)
    <3>1. s + (m + 1) * w <= x
      BY <2>1, <2>3
    <3>2. m + 1 \in Nat /\ m + 1 <= m + 1
      OBVIOUS
    <3> QED
      BY <3>1, <3>2
  <2> QED
    BY <2>2, <2>3
<1> HIDE DEF I
<1>3. j \in I
  BY <1>1, <1>2, NatSet
<1> QED
  BY <1>3 DEF I

LEMMA OneWindowHolds ==
    ASSUME shift \in ShiftSpecs, order \in SampleKeys, Valid, Rolls,
           shift.rolling.step = shift.rolling.width,
           NEW j \in Nat, RollingStart(j) < shift.rolling.stop,
           NEW x \in Int, shift.rolling.start <= x, x < Candidate(j).end
    PROVE  Cardinality({w \in Asked : Holds(w, x)}) = 1
<1> DEFINE s == shift.rolling.start
           t == shift.rolling.width
<1>1. /\ shift.rolling \in RollingPlan /\ s \in Int /\ t \in Nat /\ t # 0 /\ shift.rolling.step = t
      /\ shift.rolling.stop \in Int
  BY RollingFacts
<1>2. \A i \in Nat : /\ RollingStart(i) = s + i * t /\ RollingStart(i) \in Int
                     /\ Holds(Candidate(i), x) <=> (s + i * t <= x /\ x < s + i * t + t)
  <2> SUFFICES ASSUME NEW i \in Nat
               PROVE /\ RollingStart(i) = s + i * t /\ RollingStart(i) \in Int
                     /\ Holds(Candidate(i), x) <=> (s + i * t <= x /\ x < s + i * t + t)
    OBVIOUS
  <2>1. /\ RollingStart(i) = s + i * t /\ RollingStart(i) \in Int
        /\ Candidate(i).start = s + i * t /\ Candidate(i).end = s + i * t + t
        /\ Candidate(i).start_inclusive /\ ~Candidate(i).end_inclusive
    BY <1>1, CandidateIs
  <2>2. i * t \in Int
    BY <1>1
  <2> HIDE DEF s, t
  <2> QED
    BY <1>1, <2>1, <2>2 DEF Holds
<1>3. x < s + j * t + t
  BY <1>1, CandidateIs
<1>a. s <= x
  OBVIOUS
<1> HIDE DEF s, t
<1>4. PICK i \in Nat : i <= j /\ s + i * t <= x /\ x < s + i * t + t
  BY <1>1, <1>3, <1>a, NoGap
<1>5. Candidate(i) \in Asked
  <2>1. RollingStart(i) <= RollingStart(j)
    <3>1. i = j \/ i < j
      BY <1>4
    <3>2. CASE i < j
      BY <3>2, <1>2, CandidatesApart
    <3>3. CASE i = j
      BY <3>3, <1>2
    <3> QED
      BY <3>1, <3>2, <3>3
  <2> QED
    BY <1>1, <1>2, <2>1, AskedAre
<1>6. ASSUME NEW w \in Asked, Holds(w, x) PROVE w = Candidate(i)
  <2>1. PICK m \in Nat : w = Candidate(m)
    BY AskedAre
  <2>2. s + m * t <= x /\ x < s + m * t + t
    BY <1>2, <1>6, <2>1
  <2>3. m * t \in Nat /\ i * t \in Nat
    BY <1>1
  <2>4. ~(m < i)
    <3> SUFFICES ASSUME m < i PROVE FALSE
      OBVIOUS
    <3>1. m * t + t <= i * t
      BY <1>1, Multiples
    <3> QED
      BY <1>1, <1>4, <2>2, <2>3, <3>1
  <2>5. ~(i < m)
    <3> SUFFICES ASSUME i < m PROVE FALSE
      OBVIOUS
    <3>1. i * t + t <= m * t
      BY <1>1, Multiples
    <3> QED
      BY <1>1, <1>4, <2>2, <2>3, <3>1
  <2>6. m = i
    BY <2>4, <2>5
  <2> QED
    BY <2>1, <2>6
<1>7. Holds(Candidate(i), x)
  BY <1>2, <1>4
<1>8. {w \in Asked : Holds(w, x)} = {Candidate(i)}
  BY <1>5, <1>6, <1>7
<1> QED
  BY <1>8, FS_Singleton

LEMMA OneFateEach ==
    ASSUME OneFate, pairs = <<>>, NEW w, Fated(w)
    PROVE  Cardinality(Fates(w)) = 1
<1>1. ~Paired(w)
  BY DEF Paired
<1>2. CASE Passed(w)
  <2>1. PICK s \in skipped : s[1] = w
    BY <1>2 DEF Passed
  <2>2. ~Made(w)
    BY <1>2 DEF OneFate
  <2>3. Fates(w) = {s}
    BY <2>1, <2>2 DEF Fates, Made, OneFate
  <2> QED
    BY <2>3, FS_Singleton
<1>3. CASE Made(w)
  <2>1. PICK p \in resolved : p[2] = w
    BY <1>3 DEF Made
  <2>2. ~Passed(w)
    BY <1>3 DEF OneFate
  <2>3. Fates(w) = {p}
    BY <2>1, <2>2 DEF Fates, Passed, OneFate
  <2> QED
    BY <2>3, FS_Singleton
<1> QED
  BY <1>1, <1>2, <1>3 DEF Fated

LEMMA ShiftSound == ShiftInv => WindowsSound
<1> SUFFICES ASSUME ShiftInv PROVE WindowsSound
  OBVIOUS
<1>q. /\ ShiftTypes /\ OneFate /\ GoodPairs /\ Dealt /\ verdict # "shared"
      /\ shift \in ShiftSpecs /\ order \in SampleKeys /\ dealt \in Nat
  BY DEF ShiftInv, ShiftTypes
<1> SUFFICES ASSUME verdict = "done"
             PROVE  /\ \A w \in Asked : Cardinality(Fates(w)) = 1
                    /\ \A p \in resolved :
                          /\ SamplesIn(p[1]) # {} /\ SamplesIn(p[2]) # {}
                          /\ Rolls /\ shift.rolling.reference # "FIXED" =>
                                \A x \in SamplesIn(p[1]), y \in SamplesIn(p[2]) : x < y
                          /\ Rolls /\ shift.rolling.reference = "EXPANDING" =>
                                SamplesIn(p[1]) = {x \in order : shift.rolling.start <= x /\ x < p[2].start}
                    /\ Rolls /\ shift.rolling.step = shift.rolling.width /\ previous # NoWindow =>
                          \A x \in order : x >= shift.rolling.start /\ x < previous.end =>
                              Cardinality({w \in Asked : Holds(w, x)}) = 1
  BY <1>q DEF WindowsSound
<1>v. Valid /\ pairs = <<>>
  BY <1>q DEF ShiftTypes
<1>1. ASSUME NEW w \in Asked PROVE Cardinality(Fates(w)) = 1
  <2>1. Fated(w)
    <3>1. CASE Rolls
      <4>1. PICK i \in Nat : w = Candidate(i) /\ RollingStart(i) < shift.rolling.stop
        BY <1>q, <1>v, <3>1, AskedAre
      <4>2. RollingStart(dealt) >= shift.rolling.stop
        BY <1>q, <3>1 DEF Dealt
      <4>3. RollingStart(i) \in Int /\ RollingStart(dealt) \in Int /\ shift.rolling.stop \in Int
        BY <1>q, <1>v, <3>1, CandidateIs, RollingFacts
      <4>4. i # dealt /\ ~(dealt < i)
        BY <1>q, <1>v, <3>1, <4>1, <4>2, <4>3, CandidatesApart
      <4>5. i < dealt
        BY <1>q, <4>4
      <4> QED
        BY <1>q, <3>1, <4>1, <4>5 DEF Dealt
    <3>2. CASE ~Rolls
      BY <1>q, <3>2 DEF Dealt
    <3> QED
      BY <3>1, <3>2
  <2> QED
    BY <1>q, <1>v, <2>1, OneFateEach
<1>2. ASSUME NEW p \in resolved
      PROVE  /\ SamplesIn(p[1]) # {} /\ SamplesIn(p[2]) # {}
             /\ Rolls /\ shift.rolling.reference # "FIXED" =>
                   \A x \in SamplesIn(p[1]), y \in SamplesIn(p[2]) : x < y
             /\ Rolls /\ shift.rolling.reference = "EXPANDING" =>
                   SamplesIn(p[1]) = {x \in order : shift.rolling.start <= x /\ x < p[2].start}
  <2>1. GoodPair(p) /\ SamplesIn(p[1]) # {} /\ SamplesIn(p[2]) # {}
    BY <1>q DEF GoodPairs
  <2>2. ASSUME Rolls, shift.rolling.reference = "EXPANDING"
        PROVE  SamplesIn(p[1]) = {x \in order : shift.rolling.start <= x /\ x < p[2].start}
    <3>1. p[1] = HalfOpen(shift.rolling.start, p[2].start)
      BY <2>1, <2>2 DEF GoodPair
    <3>2. order \subseteq Int /\ shift.rolling.start \in Int
      BY <1>q, <1>v, <2>2, RollingFacts, ShiftTyped
    <3> QED
      BY <3>1, <3>2 DEF SamplesIn, Holds, HalfOpen
  <2> QED
    BY <1>q, <1>v, <2>1, <2>2, GoodPairApart
<1>3. ASSUME Rolls, shift.rolling.step = shift.rolling.width, previous # NoWindow,
             NEW x \in order, x >= shift.rolling.start, x < previous.end
      PROVE  Cardinality({w \in Asked : Holds(w, x)}) = 1
  <2>1. PICK j \in Nat : RollingStart(j) < shift.rolling.stop /\ previous = Candidate(j)
    BY <1>q, <1>3 DEF ShiftTypes
  <2>2. x \in Int /\ shift.rolling.start \in Int
    BY <1>q, <1>v, <1>3, RollingFacts, ShiftTyped
  <2>3. shift.rolling.start <= x /\ x < Candidate(j).end
    BY <1>3, <2>1, <2>2
  <2> QED
    BY <1>q, <1>v, <1>3, <2>1, <2>2, <2>3, OneWindowHolds
<1> QED
  BY <1>1, <1>2, <1>3

\* ShiftSpec.plan and resolve deal with every window asked for once, as compared or as skipped; what is
\* compared has samples on both sides, a rolling reference lies before what it is compared with (an
\* expanding one is all of it), and adjoining windows hold each sample once: for every specification and
\* every set of samples.
THEOREM WindowsCompared == ShiftSpec => []WindowsSound
<1>1. ShiftSpec => []ShiftInv
  BY ShiftInitial, ShiftStep, PTL DEF ShiftSpec
<1> QED
  BY <1>1, ShiftSound, PTL
=============================================================================
