------------------------------- MODULE HttpApi -------------------------------
(***************************************************************************)
(* The read-only HTTP API (api/): twelve routers, each an ordered list of  *)
(* routes.  A request is handled by the first route of its router whose    *)
(* path matches; the handler checks the ids it was given, reads the        *)
(* registry and perhaps a document, and an exception becomes a status      *)
(* (api/errors.py).  A route is its path, where "*" stands for an id, and  *)
(* the steps of its handler.  A request is one for a documented route.     *)
(***************************************************************************)
EXTENDS Naturals, Sequences

VARIABLE exchange   \* one request and what became of it

-----------------------------------------------------------------------------
\* Steps of a handler; an id is named by its place among those of the request.

Step1(does, id) == [does |-> does, id |-> id]
Ref(id) == Step1("ref", id)             \* v.ref: the shape of an id of this kind
Get(id) == Step1("get", id)             \* registry.get, or a registry class's own get
Resolving(id) == Step1("resolve", id)     \* by full id, or what one snapshot or graph matches
NodeOf(id) == Step1("node", id)         \* _require_node: shape, then membership in the snapshot
Querying == Step1("query", 0)              \* registry.find, search, a traversal
Choosing == Step1("choice", 0)            \* an enumerated parameter, converted by the handler
Documented == Step1("document", 0)        \* a stored artifact, verified and read
NoStore == Step1("no store", 0)         \* a document asked of a registry class built without a store

Route(path, steps) == [path |-> path, steps |-> steps]
List(name) == Route(name, <<Querying>>)
Listing == List(<<>>)
Show(path) == Route(path, <<Ref(1), Get(1)>>)
ShowAll(path) == Route(path, <<Ref(1), Get(1), Querying>>)

InvestigationRoutes ==
    <<Listing, ShowAll(<<"*">>), ShowAll(<<"*", "experiments">>), ShowAll(<<"experiments", "*">>),
      ShowAll(<<"experiments", "*", "runs">>), ShowAll(<<"runs", "*">>)>>

ReliabilityRoutes ==
    <<List(<<"profiles">>), ShowAll(<<"profiles", "*">>), Show(<<"profiles", "*", "provenance">>),
      Route(<<"compare">>, <<Ref(1), Ref(2), NoStore>>)>>

FailureRoutes == <<List(<<"clusters">>), ShowAll(<<"clusters", "*">>), List(<<"modes">>), ShowAll(<<"modes", "*">>)>>

FaultRoutes == <<List(<<"experiments">>), ShowAll(<<"experiments", "*">>), Show(<<"analyses", "*">>)>>

DriftRoutes ==
    <<List(<<"windows">>), List(<<"analyses">>), Show(<<"analyses", "*">>),
      Route(<<"analyses", "*", "document">>, <<Ref(1), Get(1), Choosing, Documented>>)>>

StatsRoutes == <<List(<<"analyses">>), Show(<<"analyses", "*">>)>>

BenchmarkRoutes ==
    <<List(<<"benchmarks">>), ShowAll(<<"benchmarks", "*">>), ShowAll(<<"results", "*">>),
      Route(<<"results", "compare">>, <<Ref(1), Ref(2), Get(1), Get(2), NoStore>>),
      List(<<"protocols">>), ShowAll(<<"protocols", "*", "leaderboard">>), Show(<<"submissions", "*">>),
      Route(<<"submissions", "compare">>, <<Ref(1), Ref(2), Get(1), Get(2), Documented, Choosing>>)>>

ReproducibilityRoutes ==
    <<List(<<"attempts">>), Show(<<"attempts", "*">>), Route(<<"resolve", "kind", "*">>, <<Choosing, Get(1)>>),
      ShowAll(<<"runs", "*", "artifact-verification">>)>>

OfNode(what, further) == Route(<<"snapshots", "*", "nodes", "*">> \o what, <<Resolving(1), Querying, NodeOf(2)>> \o further)
GraphRoutes ==
    <<List(<<"snapshots">>), Route(<<"snapshots", "*">>, <<Resolving(1)>>), OfNode(<<>>, <<>>),
      OfNode(<<"neighbors">>, <<Choosing>>), OfNode(<<"ancestors">>, <<>>), OfNode(<<"descendants">>, <<>>),
      OfNode(<<"related">>, <<>>),
      Route(<<"snapshots", "*", "path">>, <<Resolving(1), Querying, NodeOf(2), NodeOf(3), Choosing>>),
      Route(<<"graphs", "*">>, <<Resolving(1)>>)>>

ReportingRoutes == <<Listing, ShowAll(<<"*">>), ShowAll(<<"*", "findings">>), ShowAll(<<"*", "export.md">>)>>

DossierRoutes ==
    <<Listing, ShowAll(<<"*">>), ShowAll(<<"*", "items">>), ShowAll(<<"*", "findings">>), ShowAll(<<"*", "export.md">>)>>

\* A chart of a fault experiment without a readable analysis says "unavailable".
VizRoutes ==
    <<Show(<<"reliability", "*", "dimensions">>), Route(<<"failures", "frequency">>, <<Ref(1), Querying>>),
      Show(<<"drift", "*", "trajectory">>), ShowAll(<<"calibration", "*", "curve">>),
      ShowAll(<<"resources", "*", "measurements">>), Show(<<"faults", "*", "degradation">>),
      Show(<<"stats", "*", "effect">>)>>

\* The routers have prefixes of their own, so the order among them is no matter.
Routers == <<InvestigationRoutes, ReliabilityRoutes, FailureRoutes, FaultRoutes, DriftRoutes, StatsRoutes, BenchmarkRoutes, ReproducibilityRoutes, GraphRoutes,
             ReportingRoutes, DossierRoutes, VizRoutes>>

-----------------------------------------------------------------------------
\* Routing.

MatchesRoute(pattern, path) ==
    Len(pattern) = Len(path) /\ \A k \in DOMAIN path : pattern[k] \in {path[k], "*"}

\* The first route that matches; a "*" of the request is an id, which no literal of a route is.
HandlerOf(router, path) ==
    CHOOSE r \in DOMAIN router :
        /\ MatchesRoute(router[r].path, path)
        /\ \A q \in 1 .. r - 1 : ~MatchesRoute(router[q].path, path)

\* What an id is.  With the prefix of its kind: not 32 hex digits, of no record, of a record.
\* Without it: what exactly one record matches, or none or several do.  A snapshot matches the
\* start of its id ("gsn"), a graph its spec id (gsp_...) and the start of that.
Shapes == {"misshapen", "unknown", "known", "partial", "foreign"}

(***************************************************************************)
(* ids: the ids of the request by place; corrupt: whether a record or an   *)
(* artifact it comes across fails its hash; status: 0 until answered.      *)
(***************************************************************************)
Sent(n, r, ids, corrupt) ==
    [router |-> n, route |-> r, handler |-> 0, step |-> 1, ids |-> ids, corrupt |-> corrupt, chosen |-> TRUE, status |-> 0]

ApiInit ==
    \E n \in DOMAIN Routers, corrupt \in BOOLEAN : \E r \in DOMAIN Routers[n], ids \in [1..3 -> Shapes] :
        /\ \A k \in 1..3 : (\A s \in DOMAIN Routers[n][r].steps : Routers[n][r].steps[s].id # k) => ids[k] = "known"
        /\ exchange = Sent(n, r, ids, corrupt)

Requested == Routers[exchange.router][exchange.route]
Handling == Routers[exchange.router][exchange.handler]
Shape(id) == exchange.ids[id]

\* The handler of another route takes the literal of the path for an id.
Dispatch ==
    /\ exchange.handler = 0
    /\ LET h == HandlerOf(Routers[exchange.router], Requested.path)
       IN exchange' = [exchange EXCEPT !.handler = h, !.ids[1] = IF h = exchange.route THEN @ ELSE "foreign"]

AtApiStep(does) ==
    /\ exchange.handler # 0 /\ exchange.status = 0
    /\ exchange.step <= Len(Handling.steps) /\ Handling.steps[exchange.step].does = does

Id == Handling.steps[exchange.step].id
Proceed == exchange' = [exchange EXCEPT !.step = @ + 1]
Respond(status) == exchange' = [exchange EXCEPT !.status = status]

CheckShape ==
    AtApiStep("ref") /\ IF Shape(Id) \in {"unknown", "known"} THEN Proceed ELSE Respond(422)

Fetch ==
    AtApiStep("get") /\ IF Shape(Id) = "known" THEN Proceed ELSE Respond(404)

\* What has the right prefix is taken for an id, whatever follows it; of anything else the one
\* record it matches is served.
ResolveRef ==
    /\ AtApiStep("resolve")
    /\ CASE Shape(Id) \in {"known", "partial"} -> Proceed
         [] Shape(Id) = "foreign" -> Respond(422)
         [] Shape(Id) \in {"misshapen", "unknown"} -> Respond(404)

\* A variant for the mutation tests: whether the snapshot has the node is not asked.
RequireNodeShape ==
    /\ AtApiStep("node")
    /\ IF Shape(Id) \in {"unknown", "known"} THEN Proceed ELSE Respond(422)

RequireNode ==
    /\ AtApiStep("node")
    /\ CASE Shape(Id) = "known" -> Proceed
         [] Shape(Id) = "unknown" -> Respond(404)
         [] OTHER -> Respond(422)

Search == AtApiStep("query") /\ Proceed

\* A value of the enumeration, or a refusal; a comparison refuses in the same way.
Choose ==
    /\ AtApiStep("choice")
    /\ \/ Proceed
       \/ exchange' = [exchange EXCEPT !.chosen = FALSE, !.status = 422]

\* An artifact may be missing although nothing is corrupt.
ServeDocument == AtApiStep("document") /\ (Proceed \/ Respond(500))

\* A ValueError of the registry class, which nothing maps.
StoreMissing == AtApiStep("no store") /\ Respond(500)

\* CorruptRecordError and the like, out of whatever reads the registry.
Spoiled ==
    /\ exchange.corrupt
    /\ \E does \in {"get", "resolve", "query", "node"} : AtApiStep(does)
    /\ Respond(500)

AnswerOk ==
    /\ exchange.handler # 0 /\ exchange.status = 0 /\ exchange.step > Len(Handling.steps)
    /\ Respond(200)

ApiNext ==
    \/ Dispatch \/ CheckShape \/ Fetch \/ ResolveRef \/ RequireNode \/ Search \/ Choose \/ ServeDocument
    \/ StoreMissing \/ Spoiled \/ AnswerOk

ApiSpec == ApiInit /\ [][ApiNext]_exchange

-----------------------------------------------------------------------------
Uses(route, does) == \E s \in DOMAIN route.steps : route.steps[s].does = does
UsesFor(route, does, id) == \E s \in DOMAIN route.steps : route.steps[s] = Step1(does, id)
Named(route) == {route.steps[s].id : s \in DOMAIN route.steps} \ {0}
Fetched(route) == {route.steps[s].id : s \in {s \in DOMAIN route.steps : route.steps[s].does # "ref"}} \ {0}

\* docs/api.md lists these two, but the route declared before them takes "compare" for an id.
ShadowedPaths == {<<"results", "compare">>, <<"submissions", "compare">>}

\* Ids, among those of the request, that stand for one record: full ids, and on the routes of
\* the graph router what one snapshot or graph matches.
Matching == {k \in Named(Requested) :
                Shape(k) = "known" \/ (Shape(k) = "partial" /\ UsesFor(Requested, "resolve", k))}
Unknown == {k \in Named(Requested) : Shape(k) = "unknown"}
NoIds == Named(Requested) \ (Matching \cup Unknown)

\* Those looked up by get though they are no ids: nothing asks for their shape, or only for
\* the prefix.
LookedUp == {k \in NoIds : \/ UsesFor(Requested, "get", k) /\ ~UsesFor(Requested, "ref", k)
                           \/ UsesFor(Requested, "resolve", k) /\ Shape(k) = "misshapen"}

(***************************************************************************)
(* What docs/api.md:24-28 says of ids and statuses, where it holds, and    *)
(* what else a status tells.  A request that is answered with 200 was      *)
(* handled by its own route, and everything it names stands for one        *)
(* record.  What stands for none is never found: 404 for an unknown id and *)
(* for what is looked up whatever its shape, 422 for the rest.  The        *)
(* document wants 422 of every malformed id; the graph router              *)
(* answers 200 to the start of a snapshot's id or to the spec id of a      *)
(* graph, and 404 to a misshapen id, and reproducibility/resolve 404 to    *)
(* all.  A request that names nothing but records is turned away only for  *)
(* its choices, for what is corrupt or missing, or because its route       *)
(* cannot be reached or its handler has no store: those are the three      *)
(* comparisons, and no more.                                               *)
(***************************************************************************)
StatusTells ==
    LET status == exchange.status
        unreachable == Requested.path \in ShadowedPaths
        served == ~exchange.corrupt /\ ~unreachable /\ exchange.chosen /\ ~Uses(Requested, "no store")
    IN  status # 0 =>
            /\ exchange.handler # exchange.route <=> unreachable
            /\ status = 200 => ~unreachable /\ ~Uses(Requested, "no store") /\ NoIds = {}
            /\ status = 200 => Fetched(Requested) \subseteq Matching
            /\ status = 404 => Unknown \cup LookedUp # {}
            /\ status = 422 => NoIds \ LookedUp # {} \/ ~exchange.chosen
            /\ status = 500 => exchange.corrupt \/ Uses(Requested, "document") \/ Uses(Requested, "no store")
            /\ served /\ Named(Requested) = Matching => status = 200 \/ (Uses(Requested, "document") /\ status = 500)
            /\ served /\ NoIds \subseteq LookedUp /\ (Unknown \cap Fetched(Requested)) \cup LookedUp # {} => status = 404
=============================================================================
