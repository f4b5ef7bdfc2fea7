-------------------------- MODULE FailureClustering --------------------------
(***************************************************************************)
(* How failure signals become clusters (failures/analysis.py):             *)
(* compare_all links pairs of signals, block by block within a budget of   *)
(* comparisons, and components joins linked signals with a union-find      *)
(* whose find halves the paths it walks.                                   *)
(*                                                                         *)
(* A block holds the signals of one class, prediction and slice.  Scores   *)
(* are in units of the threshold's sensitivity, and a step is one block or *)
(* one iteration of a loop.                                                *)
(***************************************************************************)
EXTENDS Naturals, Sequences, FiniteSets

CONSTANTS
    N,              \* signals are 0..N-1
    Inputs,         \* inputs considered: see Input
    LinkThreshold,  \* the score that joins two signals
    LowestThreshold,    \* the lowest a pair is kept for: the threshold less sensitivity_delta
    MaxComparisons  \* max_pairwise_comparisons

Signals == 0..(N - 1)

Pairs == {p \in Signals \X Signals : p[1] < p[2]}

\* The block and the signature of each signal, and how similar two of one block are.
Input == [block : [Signals -> Nat], signature : [Signals -> Nat], score : [Pairs -> Nat]]

ASSUME ClusteringAssumption ==
    /\ N \in Nat /\ Inputs \subseteq Input
    /\ LinkThreshold \in Nat /\ LowestThreshold \in 0..LinkThreshold /\ MaxComparisons \in Nat

VARIABLES
    input,
    blocks,         \* blocks still to be compared
    comparisons,    \* comparisons made
    fallback,       \* blocks that exceeded the budget
    links,          \* pairs kept, with their score
    joining,        \* links components still has to look at
    parent,         \* the union-find
    finds,          \* of the link being joined: the signals still to find a root for
    roots,          \* and the roots found
    cursor          \* where the find in progress is

clusteringVars == <<input, blocks, comparisons, fallback, links, joining, parent, finds, roots, cursor>>

Link == [pair : Pairs, score : Nat]

\* Type invariant.
ClusteringTypeOK ==
    /\ input \in Inputs
    /\ blocks \subseteq {input.block[s] : s \in Signals} /\ fallback \subseteq {input.block[s] : s \in Signals}
    /\ comparisons \in 0..MaxComparisons
    /\ links \subseteq Link /\ joining \subseteq links
    /\ parent \in [Signals -> Signals]
    /\ finds \in Seq(Signals) /\ roots \in Seq(Signals) /\ cursor \in Signals

ClusteringInit ==
    /\ input \in Inputs
    /\ blocks = {input.block[s] : s \in Signals}
    /\ comparisons = 0 /\ fallback = {} /\ links = {} /\ joining = {}
    /\ parent = [s \in Signals |-> s]
    /\ finds = <<>> /\ roots = <<>> /\ cursor = 0
-----------------------------------------------------------------------------
(* compare_all *)

Members(b) == {s \in Signals : input.block[s] = b}

PairsOf(b) == {p \in Pairs : p[1] \in Members(b) /\ p[2] \in Members(b)}

WithinBudget(b) == comparisons + Cardinality(PairsOf(b)) <= MaxComparisons

LinkOf(p, score) == [pair |-> p, score |-> score]

\* Blocks are taken in order.  One that does not fit the budget is not compared: its signals
\* are linked, with score 1.0, when their signatures are equal; a later, smaller one may fit.
CompareBlock(b) ==
    /\ b \in blocks /\ \A c \in blocks : b <= c
    /\ blocks' = blocks \ {b}
    /\ IF WithinBudget(b)
       THEN /\ comparisons' = comparisons + Cardinality(PairsOf(b))
            /\ links' = links \cup {LinkOf(p, input.score[p]) : p \in {q \in PairsOf(b) : input.score[q] >= LowestThreshold}}
            /\ UNCHANGED fallback
       ELSE /\ fallback' = fallback \cup {b}
            /\ links' = links \cup {LinkOf(p, LinkThreshold) :
                            p \in {q \in PairsOf(b) : input.signature[q[1]] = input.signature[q[2]]}}
            /\ UNCHANGED comparisons
    /\ joining' = IF blocks' = {} THEN links' ELSE {}
    /\ UNCHANGED <<input, parent, finds, roots, cursor>>
-----------------------------------------------------------------------------
(* components *)

Comes(l, k) == l.pair[1] < k.pair[1] \/ (l.pair[1] = k.pair[1] /\ l.pair[2] <= k.pair[2])

TakeLinkAbove(l) ==
    /\ finds = <<>> /\ l \in joining /\ \A k \in joining : Comes(l, k)
    /\ joining' = joining \ {l}
    /\ IF l.score > LinkThreshold
       THEN finds' = <<l.pair[1], l.pair[2], l.pair[1], l.pair[2]>> /\ roots' = <<>> /\ cursor' = l.pair[1]
       ELSE UNCHANGED <<finds, roots, cursor>>
    /\ UNCHANGED <<input, blocks, comparisons, fallback, links, parent>>

\* The next link in the order of its signals; one below the threshold is passed over.
TakeLink(l) ==
    /\ finds = <<>> /\ l \in joining /\ \A k \in joining : Comes(l, k)
    /\ joining' = joining \ {l}
    /\ LET i == l.pair[1]
           j == l.pair[2]
       IN  IF l.score >= LinkThreshold
           THEN finds' = <<i, j, i, j>> /\ roots' = <<>> /\ cursor' = i
           ELSE UNCHANGED <<finds, roots, cursor>>
    /\ UNCHANGED <<input, blocks, comparisons, fallback, links, parent>>

\* One iteration of find: the path is halved on the way.
Halve ==
    /\ finds # <<>> /\ parent[cursor] # cursor
    /\ parent' = [parent EXCEPT ![cursor] = parent[@]]
    /\ cursor' = parent'[cursor]
    /\ UNCHANGED <<input, blocks, comparisons, fallback, links, joining, finds, roots>>

Smaller(x, y) == IF x < y THEN x ELSE y

Larger(x, y) == IF x < y THEN y ELSE x

\* Both roots are found twice, for the smaller one and for the place it is put.
FoundRoot ==
    /\ finds # <<>> /\ parent[cursor] = cursor
    /\ finds' = Tail(finds) /\ roots' = Append(roots, cursor)
    /\ cursor' = IF Tail(finds) = <<>> THEN cursor ELSE Head(Tail(finds))
    /\ parent' = IF Tail(finds) # <<>> THEN parent
                 ELSE [parent EXCEPT ![Larger(roots[3], cursor)] = Smaller(roots[1], roots[2])]
    /\ UNCHANGED <<input, blocks, comparisons, fallback, links, joining>>

ClusteringNext ==
    \/ \E b \in blocks : CompareBlock(b)
    \/ \E l \in joining : TakeLink(l)
    \/ Halve \/ FoundRoot

ClusteringSpec == ClusteringInit /\ [][ClusteringNext]_clusteringVars
-----------------------------------------------------------------------------
Clustered == blocks = {} /\ joining = {} /\ finds = <<>>

\* The groups components returns: signals with one root.
Root(s) == LET root[x \in Signals] == IF parent[x] = x THEN x ELSE root[parent[x]] IN root[s]

Joined(s, t) == \E l \in links : l.score >= LinkThreshold /\ {l.pair[1], l.pair[2]} = {s, t}

\* The least set that holds s and is closed under joined pairs.
Connected(s) ==
    {t \in Signals : \A S \in SUBSET Signals :
        s \in S /\ (\A x \in S, y \in Signals : Joined(x, y) => y \in S) => t \in S}

\* At no point are signals of different classes, predictions or slices in one group, however
\* long the chain; and no pair that was never compared is joined unless the signatures are equal.
BlocksNeverMix ==
    /\ \A s \in Signals : parent[s] <= s /\ input.block[parent[s]] = input.block[s]
    /\ \A l \in links :
        /\ input.block[l.pair[1]] = input.block[l.pair[2]]
        /\ input.block[l.pair[1]] \in fallback => input.signature[l.pair[1]] = input.signature[l.pair[2]]

\* Blocks never mix, and the clusters are exactly the signals connected by links at the
\* threshold: each pair is in one cluster if and only if a chain of links joins it, whatever
\* the order of the links did to the paths of the union-find on the way.
ClustersAreComponents ==
    /\ BlocksNeverMix
    /\ Clustered => \A s, t \in Signals : (Root(s) = Root(t)) <=> t \in Connected(s)
=============================================================================
