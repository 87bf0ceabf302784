------------------------------- MODULE Synthesis -------------------------------
(***************************************************************************)
(* The passes that add to a resolved graph: routes of web frameworks,      *)
(* callbacks, and the flow of data (framework_routes.rs,                   *)
(* dynamic_dispatch.rs and dataflow_synthesis.rs of                        *)
(* src/engine/src/analysis).                                               *)
(*                                                                         *)
(* A pass visits a file under the path in the locations of its nodes, and  *)
(* under the path relative to the root that its own walk of the disk       *)
(* yields: these differ, so it visits most files twice.  Where the code    *)
(* takes the first node of a hash map that bears a name, an operator       *)
(* yields the set of the graphs it may leave.                              *)
(***************************************************************************)
EXTENDS Build, TLC

CONSTANTS
  AppLike,    \* parts of paths that contain "app"
  RouteLike,  \* parts of paths that contain "route"
  UrlsLike,   \* parts of paths that contain "urls"
  WordEnds,   \* pairs of words, of which the first ends with the second
  MaxLocated  \* above this many nodes the flow of data is left out (500)

Located == "located"
Relative == "relative"

\* The parts of the path under which a file is visited.
Parts(f, how) == IF how = Located THEN Root \o Path[f] ELSE Path[f]
Mentions(f, how, like) == \E k \in 1..Len(Parts(f, how)) : Parts(f, how)[k] \in like

(***************************************************************************)
(* Routes                                                                  *)
(***************************************************************************)
\* The facts of these kinds, by their places in the walk.
Those(text, kinds) == {k \in DOMAIN text : text[k].what \in kinds}
Has(text, kinds) == Those(text, kinds) # {}

\* path(), re_path(), url() and router.register().
DjangoRoutes(text) == Those(text, {"path", "register"})
\* app.get("/x", handler), router.use("/x", handler).
ExpressRoutes(text) == Those(text, {"verb", "use"})
\* @app.get("/x") on a definition.
FastapiRoutes(text) == Those(text, {"decorator"})
\* @app.route("/x") on a definition.
FlaskRoutes(text) == Those(text, {"route decorator"})
\* get "x", to: "controller#action"; resources :x; namespace :x, which has no handler.
RailsRoutes(text) == Those(text, {"rails verb", "resources", "namespace"})
\* @GetMapping on a method, if the file has one of the three commonest annotations.
SpringRoutes(text) == IF Has(text, {"mapping"}) THEN Those(text, {"mapping", "other mapping"}) ELSE {}
\* r.GET("/x", handler), if the file has one of four methods.
GinRoutes(text) == IF Has(text, {"verb", "use"}) THEN Those(text, {"verb", "use", "other verb"}) ELSE {}
\* @Get() before a method of a class, if the file has it, @Post or @Controller.
NestRoutes(text) ==
  IF Has(text, {"nest decorator", "controller"}) THEN Those(text, {"nest decorator", "other nest decorator"}) ELSE {}

FastapiCandidate(f) == Lang[f] = "python"
FlaskCandidate(f) == Lang[f] = "python"

\* The first kind of file that fits decides.  A Python file that is no Django
\* urls file is taken for FastAPI, so that Flask's turn never comes.
RoutesOf(f, how, text) ==
  CASE Lang[f] = "python" /\ Mentions(f, how, UrlsLike)  -> DjangoRoutes(text)
    [] FastapiCandidate(f) /\ ~Mentions(f, how, UrlsLike) ->
         IF Has(text, {"decorator", "route decorator"}) THEN FastapiRoutes(text) ELSE {}
    [] FlaskCandidate(f) /\ ~FastapiCandidate(f) ->
         IF Has(text, {"route decorator"}) THEN FlaskRoutes(text) ELSE {}
    [] Lang[f] = "typescript" /\ Mentions(f, how, AppLike \cup RouteLike) -> ExpressRoutes(text)
    [] Lang[f] = "typescript" /\ ~Mentions(f, how, AppLike \cup RouteLike) -> NestRoutes(text)
    [] Lang[f] = "rb" /\ Mentions(f, how, RouteLike) -> RailsRoutes(text)
    [] Lang[f] = "java" -> SpringRoutes(text)
    [] Lang[f] = "go"   -> GinRoutes(text)
    [] OTHER -> {}

Handler(fact) == IF fact.what = "namespace" THEN <<>> ELSE fact.ref

\* ends_with compares characters: the first word may be the end of a longer one.
EndsWith(name, ref) ==
  \/ IsSuffix(ref, name)
  \/ /\ Len(ref) \in 1..Len(name) /\ IsSuffix(Tail(ref), name)
     /\ <<name[Len(name) - Len(ref) + 1], Head(ref)>> \in WordEnds

\* The nodes that find_handler_node may return: one whose name ends with the
\* handler's, then one named like its last part, else the handler as it is.
Handlers(g, ref) ==
  LET ending == {i \in DOMAIN g.nodes : EndsWith(g.nodes[i].name, ref)}
      last   == {i \in DOMAIN g.nodes : ref # <<>> /\ g.nodes[i].name = <<Last(ref)>>}
  IN CASE ending # {} -> ending
       [] ending = {} /\ last # {} -> last
       [] OTHER -> {ref}

AddNode(g, i, node) == [g EXCEPT !.nodes = Over([j \in {i} |-> node], @)]
AddEdge(g, k, edge) == [g EXCEPT !.edges = Over([j \in {k} |-> edge], @)]
Link(source, target, kind, depth) == [source |-> source, target |-> target, kind |-> kind, depth |-> depth]

\* inject_routes, for one route.
RouteId(f, how, k) == <<"route", f, how, ToString(k)>>
\* Its method and its URL, which may end like the name of a handler.
RouteName(fact) == <<"route">> \o fact.url
InjectRoute(g, f, how, fact, i) ==
  {AddEdge(AddNode(g, i, [name |-> RouteName(fact), kind |-> "symbol", file |-> f, at |-> how]), i, Link(i, h, "calls", 1)) :
     h \in Handlers(g, Handler(fact))}

\* Visits of detect_framework_routes.
RouteVisits == Discovered \X {Located, Relative}
Routed(g, f, how, text, k) ==
  IF k \in RoutesOf(f, how, text) THEN InjectRoute(g, f, how, text[k], RouteId(f, how, k)) ELSE {g}

(***************************************************************************)
(* Names looked up in the whole graph                                      *)
(***************************************************************************)
Named(g, name) == {i \in DOMAIN g.nodes : g.nodes[i].name = name}
Media(g, name) == {i \in Named(g, name) : g.nodes[i].kind = "medium"}

\* Pairs of a graph and an id: a node that is there, or a new one.
FoundOr(g, there, prefix, name, kind, f, how) ==
  LET i == <<prefix, f, how>> \o name
  IN IF there # {} THEN {<<g, j>> : j \in there}
     ELSE {<<AddNode(g, i, [name |-> name, kind |-> kind, file |-> f, at |-> how]), i>>}

FindOrCreate(g, name, f, how) == FoundOr(g, Named(g, name), "dyn", name, "symbol", f, how)
NodeFor(g, name, f, how)   == FoundOr(g, Named(g, name), "df", name, "symbol", f, how)
MediumFor(g, name, f, how) == FoundOr(g, Media(g, name), "med", name, "medium", f, how)

(***************************************************************************)
(* Callbacks                                                               *)
(***************************************************************************)
\* Python and JavaScript on the disk, whatever has nodes by its location; the
\* tree of another language has no such calls.
DispatchVisits == {v \in Discovered \X {Located, Relative} : v[2] = Relative => Lang[v[1]] \in {"python", "typescript"}}

\* obj.on("event", callback) within a function.
JsCallback(f, fact) == Lang[f] # "python" /\ fact.what \in {"callback", "then"} /\ fact.within # <<>>
PyCallback(f, fact) == Lang[f] = "python" /\ fact.what = "callback" /\ fact.within # <<>>

Dispatched(g, f, how, text, k) ==
  LET fact == text[k] IN
  IF JsCallback(f, fact) \/ PyCallback(f, fact)
    THEN UNION {{AddEdge(t[1], <<"syn", f, how, k>>, Link(s[2], t[2], "calls", 3)) :
                   t \in FindOrCreate(s[1], fact.ref, f, how)} :
                 s \in FindOrCreate(g, fact.within, f, how)}
    ELSE {g}

(***************************************************************************)
(* The flow of data                                                        *)
(***************************************************************************)
\* Python and JavaScript on the disk, and what has a location with a line.
FlowVisits(g) ==
  {v \in Discovered \X {Located, Relative} :
     \/ v[2] = Relative /\ Lang[v[1]] \in {"python", "typescript"}
     \/ \E i \in DOMAIN g.nodes : g.nodes[i].file = v[1] /\ g.nodes[i].at = v[2]}
TooLarge(g) == Cardinality(DOMAIN g.nodes) > MaxLocated

\* insert_edge: not twice, and not from a node to itself.
InsertEdge(g, k, edge) == IF k \in DOMAIN g.edges \/ edge.source = edge.target THEN g ELSE AddEdge(g, k, edge)

\* An edge from the node of the function around the fact to that of name.
FlowTo(g, f, how, within, name, kind) ==
  UNION {{InsertEdge(t[1], <<kind, f, how, s[2], name>>, Link(s[2], t[2], kind, 3)) :
            t \in NodeFor(s[1], name, f, how)} :
          s \in NodeFor(g, within, f, how)}

\* Consecutive calls of a function.
Sequences(g, f, how, text, k) ==
  LET before == {j \in 1..(k - 1) : text[j].what = "call" /\ text[j].within = text[k].within}
      prev   == text[CHOOSE j \in before : \A i \in before : i <= j]
  IN IF before = {} \/ text[k].within = <<>> THEN {g}
     ELSE UNION {{InsertEdge(t[1], <<"sequences", f, how, k>>, Link(s[2], t[2], "sequences", 3)) :
                    t \in NodeFor(s[1], text[k].ref, f, how)} :
                  s \in NodeFor(g, prev.ref, f, how)}

\* When a function ends, each variable of the module that it used.
Used(text, within, v) ==
  /\ \E k \in 1..Len(text) : text[k].what = "variable" /\ text[k].ref = v
  /\ \E k \in 1..Len(text) : text[k].what \in {"read", "write"} /\ text[k].ref = v /\ text[k].within = within
SharedWith(g, source, key, f, how, v) ==
  {InsertEdge(m[1], key, Link(source, m[2], "shares", 3)) : m \in MediumFor(g, v, f, how)}
Shares(g, f, how, text, fact) ==
  IF Used(text, fact.within, fact.ref)
    THEN UNION {SharedWith(s[1], s[2], <<"shares", f, how, fact.within, fact.ref>>, f, how, fact.ref) :
                  s \in NodeFor(g, fact.within, f, how)}
    ELSE {g}

\* A field of a class: the source is the mangled path and the class, which is
\* the id of the class only for a TypeScript file in the root.
FieldOwner(f, how, class) ==
  (IF Lang[f] = "typescript" /\ how = Relative /\ Len(Path[f]) = 1 THEN TypeScriptId(f) ELSE <<"file", f, how>>) \o class
ClassField(g, f, how, fact) ==
  SharedWith(g, FieldOwner(f, how, fact.within), <<"class shares", f, how, fact.within, fact.ref>>, f, how, fact.ref)

Flowed(g, f, how, text, k) ==
  LET fact == text[k]
      In(kinds) == fact.what \in kinds /\ fact.within # <<>>
  IN CASE In({"read"})  -> FlowTo(g, f, how, fact.within, fact.ref, "reads")
       [] In({"write"}) -> FlowTo(g, f, how, fact.within, fact.ref, "writes")
       [] In({"await"}) -> FlowTo(g, f, how, fact.within, fact.ref, "triggers")
       [] In({"then"}) /\ Lang[f] # "python" -> FlowTo(g, f, how, fact.within, fact.ref, "awaits")
       [] In({"call"})  -> Sequences(g, f, how, text, k)
       [] In({"end"})   -> Shares(g, f, how, text, fact)
       [] In({"field"}) -> ClassField(g, f, how, fact)
       [] OTHER -> {g}
================================================================================
