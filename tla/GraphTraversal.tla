--------------------------- MODULE GraphTraversal ---------------------------
(***************************************************************************)
(* Bounded breadth-first search over a graph snapshot (graph/query.py):    *)
(* SnapshotIndex._bfs, which ancestors, descendants and related call with  *)
(* a direction, and SnapshotIndex.path, which also stops at a goal.  The   *)
(* two loops differ in one more thing: only path reports the depth bound.  *)
(*                                                                         *)
(* Nodes of a kind the query leaves out, and edges of a relation it leaves *)
(* out, are never followed.  A step is one iteration of a loop.            *)
(***************************************************************************)
EXTENDS Naturals, Sequences, FiniteSets, Listing

CONSTANTS
    Nodes,          \* nodes of the snapshot
    Edges,          \* its edges: numbers, ordered as edge ids are
    Graphs,         \* graphs considered: [Edges -> [from, to : Nodes]]
    Queries         \* queries considered

NoGoal == "none"    \* what _bfs looks for

Direction == {"OUT", "IN", "BOTH"}

Query ==
    [start : Nodes, goal : Nodes \cup {NoGoal}, direction : Direction, max_depth : Nat, max_visited : Nat \ {0},
     nodes : SUBSET Nodes, edges : SUBSET Edges]

ASSUME TraversalAssumption ==
    /\ IsFiniteSet(Nodes) /\ NoGoal \notin Nodes
    /\ Edges \subseteq Nat /\ IsFiniteSet(Edges)
    /\ Graphs \subseteq [Edges -> [from : Nodes, to : Nodes]]
    /\ Queries \subseteq Query

VARIABLES
    graph, query,   \* what was asked
    depth,          \* visited: node -> the depth it was reached at
    via,            \* used edges: visited node -> the edge that reached it
    queue,          \* nodes to expand
    cur, hops,      \* the node being expanded, and its adjacency still to scan
    truncated,
    search          \* "dequeue", "scan", "done" or "found"

traversalVars == <<graph, query, depth, via, queue, cur, hops, truncated, search>>

visited == DOMAIN depth

Hop == [edge : Edges, next : Nodes]

\* Type invariant.
TraversalTypeOK ==
    /\ graph \in Graphs /\ query \in Queries
    /\ visited \subseteq Nodes /\ \A n \in visited : depth[n] \in Nat
    /\ DOMAIN via = visited \ {query.start} /\ \A n \in DOMAIN via : via[n] \in Edges
    /\ queue \in Seq(visited) /\ cur \in visited /\ hops \in Seq(Hop)
    /\ truncated \in BOOLEAN
    /\ search \in {"dequeue", "scan", "done", "found"}

TraversalInit ==
    /\ graph \in Graphs /\ query \in Queries
    /\ depth = [n \in {query.start} |-> 0]
    /\ via = [n \in {} |-> 0]
    /\ queue = <<query.start>> /\ cur = query.start /\ hops = <<>>
    /\ truncated = FALSE
    /\ search = IF query.goal = query.start THEN "found" ELSE "dequeue"
-----------------------------------------------------------------------------
\* _adjacent: outgoing edges first, then incoming, each in the order of ids; an edge from a node to itself comes twice.
Adjacent(n) ==
    LET out == InOrder({e \in Edges : graph[e].from = n})
        into == InOrder({e \in Edges : graph[e].to = n})
        Outgoing == [k \in DOMAIN out |-> [edge |-> out[k], next |-> graph[out[k]].to]]
        Incoming == [k \in DOMAIN into |-> [edge |-> into[k], next |-> graph[into[k]].from]]
    IN  CASE query.direction = "OUT" -> Outgoing
          [] query.direction = "IN" -> Incoming
          [] query.direction = "BOTH" -> Outgoing \o Incoming

Allowed(hop) == hop.next \in query.nodes /\ hop.edge \in query.edges

QueueEmpty ==
    /\ search = "dequeue" /\ queue = <<>>
    /\ search' = "done"
    /\ UNCHANGED <<graph, query, depth, via, queue, cur, hops, truncated>>

AtDepth(n) == depth[n] >= query.max_depth

SkipSilently ==
    /\ search = "dequeue" /\ queue # <<>> /\ AtDepth(Head(queue))
    /\ queue' = Tail(queue)
    /\ UNCHANGED <<graph, query, depth, via, cur, hops, truncated, search>>

\* The node is not expanded; _bfs does not report it.
SkipAtDepth ==
    /\ search = "dequeue" /\ queue # <<>> /\ AtDepth(Head(queue))
    /\ queue' = Tail(queue)
    /\ truncated' = (truncated \/ query.goal # NoGoal)
    /\ UNCHANGED <<graph, query, depth, via, cur, hops, search>>

ExpandNode ==
    /\ search = "dequeue" /\ queue # <<>> /\ ~AtDepth(Head(queue))
    /\ cur' = Head(queue) /\ queue' = Tail(queue) /\ hops' = Adjacent(Head(queue))
    /\ search' = "scan"
    /\ UNCHANGED <<graph, query, depth, via, truncated>>

Expanded ==
    /\ search = "scan" /\ hops = <<>>
    /\ search' = "dequeue"
    /\ UNCHANGED <<graph, query, depth, via, queue, cur, hops, truncated>>

Follow(hop) == Allowed(hop) /\ hop.next \notin visited

PassOver ==
    /\ search = "scan" /\ hops # <<>> /\ ~Follow(Head(hops))
    /\ hops' = Tail(hops)
    /\ UNCHANGED <<graph, query, depth, via, queue, cur, truncated, search>>

Full == Cardinality(visited) >= query.max_visited

StopSilently ==
    /\ search = "scan" /\ hops # <<>> /\ Follow(Head(hops)) /\ Full
    /\ search' = "done"
    /\ UNCHANGED <<graph, query, depth, via, queue, cur, hops, truncated>>

StopFull ==
    /\ search = "scan" /\ hops # <<>> /\ Follow(Head(hops)) /\ Full
    /\ truncated' = TRUE
    /\ search' = "done"
    /\ UNCHANGED <<graph, query, depth, via, queue, cur, hops>>

Visit ==
    /\ search = "scan" /\ hops # <<>> /\ Follow(Head(hops)) /\ ~Full
    /\ LET hop == Head(hops)
       IN  /\ depth' = [n \in visited \cup {hop.next} |-> IF n = hop.next THEN depth[cur] + 1 ELSE depth[n]]
           /\ via' = [n \in DOMAIN via \cup {hop.next} |-> IF n = hop.next THEN hop.edge ELSE via[n]]
           /\ queue' = Append(queue, hop.next)
           /\ search' = IF hop.next = query.goal THEN "found" ELSE "scan"
    /\ hops' = Tail(hops)
    /\ UNCHANGED <<graph, query, cur, truncated>>

TraversalNext == QueueEmpty \/ SkipAtDepth \/ ExpandNode \/ Expanded \/ PassOver \/ StopFull \/ Visit

TraversalSpec == TraversalInit /\ [][TraversalNext]_traversalVars
-----------------------------------------------------------------------------
\* A query may go from m to n in one hop.
Reaches(m, n) ==
    n \in query.nodes /\ \E e \in query.edges :
        \/ query.direction \in {"OUT", "BOTH"} /\ graph[e] = [from |-> m, to |-> n]
        \/ query.direction \in {"IN", "BOTH"} /\ graph[e] = [from |-> n, to |-> m]

\* What a search promises: every node within k hops of the start.
Within(k) ==
    LET ball[i \in 0..k] == IF i = 0 THEN {query.start}
                            ELSE ball[i - 1] \cup {n \in Nodes : \E m \in ball[i - 1] : Reaches(m, n)}
    IN  ball[k]

\* A result that is not marked truncated is complete up to the depth asked for: _bfs gives
\* exactly the nodes within max_depth hops, and whatever a search visits, truncated or not, is
\* reached over the edge it names, at its true distance, never more nodes than max_visited.
TraversalHonest ==
    /\ \A n \in visited : n \in Within(depth[n]) /\ (depth[n] > 0 => n \notin Within(depth[n] - 1))
    /\ \A n \in DOMAIN via :
        \E m \in visited : depth[m] + 1 = depth[n] /\ {graph[via[n]].from, graph[via[n]].to} = {m, n}
    /\ Cardinality(visited) <= query.max_visited
    /\ search = "done" /\ query.goal = NoGoal /\ ~truncated => visited = Within(query.max_depth)

\* A path that is neither found nor cut short by a bound does not exist at any length: the
\* nodes visited are closed under the hops of the query, and the goal is not among them.
PathRuledOut ==
    search = "done" /\ query.goal # NoGoal /\ ~truncated =>
        /\ query.start \in visited /\ query.goal \notin visited
        /\ \A m \in visited, n \in Nodes : Reaches(m, n) => n \in visited
=============================================================================
