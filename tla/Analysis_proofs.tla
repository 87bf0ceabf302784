---------------------------- MODULE Analysis_proofs ----------------------------
(***************************************************************************)
(* What holds of the stages of an analysis and of its index for every      *)
(* project, every order and every bound.                                   *)
(*                                                                         *)
(* Each pass over the facts is shown to add at most one edge, between      *)
(* nodes that are there but for the ends that may stay open: that gives    *)
(* the invariant GInv of the graph, and EndsExist.  While files are merged *)
(* every node knows its file, so that nothing of another file looks like   *)
(* it (MInv).  The index has IndexOk: both lists alike, the counter their  *)
(* size, and no file that claims a node of another; each mutator keeps it, *)
(* which takes the size of a list that is split or added to.               *)
(* The modularity changes by twice the gain of a move or more, and no node *)
(* is better alone (MoveRaises, NeverAlone).                               *)
(***************************************************************************)
EXTENDS Analysis, FiniteSetTheorems, NaturalsInduction, WellFoundedInduction, TLAPS

(* What graphs, edges and texts look like. *)

IsGraph(g) == g = [nodes |-> g.nodes, edges |-> g.edges]
IsEdge(e) == e = [source |-> e.source, target |-> e.target, kind |-> e.kind, depth |-> e.depth]
IsText(t) == t \in Seq(Values(t))

EdgesOk(g) == IsGraph(g) /\ IsFiniteSet(DOMAIN g.edges) /\ \A k \in DOMAIN g.edges : IsEdge(g.edges[k])

\* What a function takes from a finite set is finite.
LEMMA FiniteValues ==
  ASSUME NEW S, IsFiniteSet(S), NEW f, DOMAIN f = S
  PROVE  IsFiniteSet(Values(f))
<1> DEFINE g == [x \in S |-> f[x]]
<1>1. g \in Surjection(S, Values(f))
  BY DEF Surjection, Values
<1>2. QED
  BY <1>1, FS_Surjection

-----------------------------------------------------------------------------
(* One pass, one fact *)

Found(g, s) ==
  /\ IsGraph(s[1]) /\ s[1].edges = g.edges
  /\ DOMAIN g.nodes \subseteq DOMAIN s[1].nodes /\ s[2] \in DOMAIN s[1].nodes

\* At most one edge is new, between nodes of h, or members of M.
Grown(g, h, M) ==
  /\ IsGraph(h)
  /\ DOMAIN g.nodes \subseteq DOMAIN h.nodes
  /\ \E key : DOMAIN h.edges \subseteq DOMAIN g.edges \cup {key}
  /\ \A k \in DOMAIN h.edges :
       \/ k \in DOMAIN g.edges /\ h.edges[k] = g.edges[k]
       \/ IsEdge(h.edges[k]) /\ {h.edges[k].source, h.edges[k].target} \subseteq DOMAIN h.nodes \cup M

LEMMA GrownOk ==
  ASSUME NEW g, EdgesOk(g), NEW M, NEW h, Grown(g, h, M)
  PROVE  EdgesOk(h) /\ (Dangling(g) \subseteq M => Dangling(h) \subseteq M)
<1>1. EdgesOk(h)
  <2>1. PICK key : DOMAIN h.edges \subseteq DOMAIN g.edges \cup {key}
    BY DEF Grown
  <2>2. IsFiniteSet(DOMAIN h.edges)
    BY <2>1, FS_AddElement, FS_Subset DEF EdgesOk
  <2>3. QED
    BY <2>2 DEF Grown, EdgesOk
<1>2. ASSUME Dangling(g) \subseteq M, NEW n \in Dangling(h)
      PROVE  n \in M
  <2>1. PICK k \in DOMAIN h.edges : n \in {h.edges[k].source, h.edges[k].target}
    BY DEF Dangling, Ends, Values
  <2>2. n \notin DOMAIN h.nodes
    BY DEF Dangling
  <2>3. CASE k \in DOMAIN g.edges /\ h.edges[k] = g.edges[k]
    BY <1>2, <2>1, <2>2, <2>3 DEF Dangling, Ends, Values, Grown
  <2>4. QED
    BY <2>1, <2>2, <2>3 DEF Grown
<1>3. QED
  BY <1>1, <1>2

LEMMA AddNodeIs ==
  ASSUME NEW g, IsGraph(g), NEW i, NEW node
  PROVE  /\ IsGraph(AddNode(g, i, node)) /\ AddNode(g, i, node).edges = g.edges
         /\ DOMAIN AddNode(g, i, node).nodes = DOMAIN g.nodes \cup {i}
BY DEF IsGraph, AddNode, Over

LEMMA FoundIs ==
  ASSUME NEW g, IsGraph(g), NEW there, there \subseteq DOMAIN g.nodes,
         NEW prefix, NEW name, NEW kind, NEW f, NEW how,
         NEW s \in FoundOr(g, there, prefix, name, kind, f, how)
  PROVE  Found(g, s)
<1> DEFINE i == <<prefix, f, how>> \o name
           node == [name |-> name, kind |-> kind, file |-> f, at |-> how]
<1>1. CASE there # {}
  BY <1>1 DEF FoundOr, Found
<1>2. CASE there = {}
  <2>1. s = <<AddNode(g, i, node), i>>
    BY <1>2 DEF FoundOr
  <2>2. QED
    BY <2>1, AddNodeIs DEF Found
<1>3. QED
  BY <1>1, <1>2

LEMMA LookedUp ==
  ASSUME NEW g, IsGraph(g), NEW name, NEW f, NEW how
  PROVE  /\ \A s \in FindOrCreate(g, name, f, how) : Found(g, s)
         /\ \A s \in NodeFor(g, name, f, how) : Found(g, s)
         /\ \A s \in MediumFor(g, name, f, how) : Found(g, s)
<1>1. Named(g, name) \subseteq DOMAIN g.nodes /\ Media(g, name) \subseteq DOMAIN g.nodes
  BY DEF Named, Media
<1>2. QED
  BY <1>1, FoundIs DEF FindOrCreate, NodeFor, MediumFor

\* Both ends are looked up, one after the other, and an edge may be laid between.
LEMMA AddEdgeGrows ==
  ASSUME NEW g, NEW h, IsGraph(g), IsGraph(h), h.edges = g.edges, DOMAIN g.nodes \subseteq DOMAIN h.nodes,
         NEW M, NEW k, NEW source, NEW target, NEW kind, NEW depth,
         {source, target} \subseteq DOMAIN h.nodes \cup M
  PROVE  /\ Grown(g, AddEdge(h, k, Link(source, target, kind, depth)), M)
         /\ Grown(g, InsertEdge(h, k, Link(source, target, kind, depth)), M)
<1> DEFINE e == Link(source, target, kind, depth)
           a == AddEdge(h, k, e)
<1>1. IsEdge(e) /\ e.source = source /\ e.target = target
  BY DEF Link, IsEdge
<1>2. /\ IsGraph(a) /\ a.nodes = h.nodes
      /\ DOMAIN a.edges = DOMAIN h.edges \cup {k}
      /\ \A j \in DOMAIN a.edges : a.edges[j] = IF j = k THEN e ELSE h.edges[j]
  <2> HIDE DEF e
  <2> QED
    BY DEF AddEdge, Over, IsGraph
<1>3. Grown(g, a, M)
  <2> HIDE DEF e, a
  <2> QED
    BY <1>1, <1>2 DEF Grown
<1>4. Grown(g, h, M)
  BY DEF Grown
<1>5. QED
  BY <1>3, <1>4 DEF InsertEdge

-----------------------------------------------------------------------------
(* The passes *)

\* What a walk over a file may leave an edge to without a node.
DangleAt(f, how, text) ==
  {Handler(text[k]) : k \in RoutesOf(f, how, text)}
    \cup {FieldOwner(f, how, text[k].within) : k \in Those(text, {"field"})}

LEMMA RoutedGrows ==
  ASSUME NEW g, EdgesOk(g), NEW f, NEW how, NEW text, NEW k,
         NEW h \in Routed(g, f, how, text, k)
  PROVE  Grown(g, h, DangleAt(f, how, text))
<1>1. CASE k \in RoutesOf(f, how, text)
  <2> DEFINE i == RouteId(f, how, k)
             ref == Handler(text[k])
             a(node) == AddNode(g, i, node)
  <2>1. PICK target, node : target \in Handlers(g, ref) /\ h = AddEdge(a(node), i, Link(i, target, "calls", 1))
    BY <1>1 DEF Routed, InjectRoute
  <2>2. target \in DOMAIN g.nodes \cup {ref}
    BY <2>1 DEF Handlers
  <2>3. ref \in DangleAt(f, how, text)
    BY <1>1 DEF DangleAt
  <2>4. /\ IsGraph(a(node)) /\ a(node).edges = g.edges
        /\ DOMAIN a(node).nodes = DOMAIN g.nodes \cup {i}
    BY AddNodeIs DEF EdgesOk
  <2>5. {i, target} \subseteq DOMAIN a(node).nodes \cup DangleAt(f, how, text)
    BY <2>2, <2>3, <2>4
  <2> HIDE DEF i, ref, a
  <2>6. QED
    BY <2>1, <2>4, <2>5, AddEdgeGrows DEF EdgesOk
<1>2. CASE k \notin RoutesOf(f, how, text)
  BY <1>2 DEF Routed, Grown, EdgesOk
<1>3. QED
  BY <1>1, <1>2

LEMMA SameGrows ==
  ASSUME NEW g, EdgesOk(g), NEW M
  PROVE  Grown(g, g, M)
BY DEF Grown, EdgesOk

LEMMA DispatchedGrows ==
  ASSUME NEW g, EdgesOk(g), NEW f, NEW how, NEW text, NEW k, NEW M,
         NEW h \in Dispatched(g, f, how, text, k)
  PROVE  Grown(g, h, M)
<1> DEFINE fact == text[k]
<1>1. CASE JsCallback(f, fact) \/ PyCallback(f, fact)
  <2>1. PICK s, t : /\ s \in FindOrCreate(g, fact.within, f, how) /\ t \in FindOrCreate(s[1], fact.ref, f, how)
                    /\ h = AddEdge(t[1], <<"syn", f, how, k>>, Link(s[2], t[2], "calls", 3))
    BY <1>1 DEF Dispatched
  <2>2. Found(g, s) /\ Found(s[1], t)
    BY <2>1, LookedUp DEF EdgesOk, Found
  <2>3. QED
    BY <2>1, <2>2, AddEdgeGrows DEF Found, EdgesOk
<1>2. CASE ~(JsCallback(f, fact) \/ PyCallback(f, fact))
  BY <1>2, SameGrows DEF Dispatched
<1>3. QED
  BY <1>1, <1>2

LEMMA FlowToGrows ==
  ASSUME NEW g, EdgesOk(g), NEW f, NEW how, NEW within, NEW name, NEW kind, NEW M,
         NEW h \in FlowTo(g, f, how, within, name, kind)
  PROVE  Grown(g, h, M)
<1>1. PICK s, t : /\ s \in NodeFor(g, within, f, how) /\ t \in NodeFor(s[1], name, f, how)
                  /\ h = InsertEdge(t[1], <<kind, f, how, s[2], name>>, Link(s[2], t[2], kind, 3))
  BY DEF FlowTo
<1>2. Found(g, s) /\ Found(s[1], t)
  BY <1>1, LookedUp DEF EdgesOk, Found
<1>3. QED
  BY <1>1, <1>2, AddEdgeGrows DEF Found, EdgesOk

LEMMA SequencesGrow ==
  ASSUME NEW g, EdgesOk(g), NEW f, NEW how, NEW text, NEW k, NEW M,
         NEW h \in Sequences(g, f, how, text, k)
  PROVE  Grown(g, h, M)
<1>1. CASE h = g
  BY <1>1, SameGrows
<1>2. CASE h # g
  <2>1. PICK name, s, t : /\ s \in NodeFor(g, name, f, how) /\ t \in NodeFor(s[1], text[k].ref, f, how)
                          /\ h = InsertEdge(t[1], <<"sequences", f, how, k>>, Link(s[2], t[2], "sequences", 3))
    BY <1>2 DEF Sequences
  <2>2. Found(g, s) /\ Found(s[1], t)
    BY <2>1, LookedUp DEF EdgesOk, Found
  <2>3. QED
    BY <2>1, <2>2, AddEdgeGrows DEF Found, EdgesOk
<1>3. QED
  BY <1>1, <1>2

LEMMA SharedWithGrows ==
  ASSUME NEW g, NEW s, EdgesOk(g), IsGraph(s), s.edges = g.edges, DOMAIN g.nodes \subseteq DOMAIN s.nodes,
         NEW M, NEW source, source \in DOMAIN s.nodes \cup M,
         NEW key, NEW f, NEW how, NEW v, NEW h \in SharedWith(s, source, key, f, how, v)
  PROVE  Grown(g, h, M)
<1>1. PICK m \in MediumFor(s, v, f, how) : h = InsertEdge(m[1], key, Link(source, m[2], "shares", 3))
  BY DEF SharedWith
<1>2. Found(s, m)
  BY LookedUp
<1>3. QED
  BY <1>1, <1>2, AddEdgeGrows DEF Found, EdgesOk

LEMMA FlowedGrows ==
  ASSUME NEW g, EdgesOk(g), NEW f, NEW how, NEW text, NEW k \in DOMAIN text,
         NEW h \in Flowed(g, f, how, text, k)
  PROVE  Grown(g, h, DangleAt(f, how, text))
<1> DEFINE fact == text[k]
           M == DangleAt(f, how, text)
<1>1. CASE h = g
  BY <1>1, SameGrows
<1>2. CASE \E kind : h \in FlowTo(g, f, how, fact.within, fact.ref, kind)
  BY <1>2, FlowToGrows
<1>3. CASE h \in Sequences(g, f, how, text, k)
  BY <1>3, SequencesGrow
<1>4. CASE h \in Shares(g, f, how, text, fact) /\ h # g
  <2>1. PICK s, key : s \in NodeFor(g, fact.within, f, how) /\ h \in SharedWith(s[1], s[2], key, f, how, fact.ref)
    BY <1>4 DEF Shares
  <2>2. Found(g, s)
    BY <2>1, LookedUp DEF EdgesOk
  <2>3. QED
    BY <2>1, <2>2, SharedWithGrows DEF Found
<1>5. CASE fact.what = "field" /\ h \in ClassField(g, f, how, fact)
  <2>1. PICK key : h \in SharedWith(g, FieldOwner(f, how, fact.within), key, f, how, fact.ref)
    BY <1>5 DEF ClassField
  <2>2. FieldOwner(f, how, fact.within) \in M
    BY <1>5 DEF DangleAt, Those
  <2>3. QED
    BY <2>1, <2>2, SharedWithGrows DEF EdgesOk
<1>6. QED
  <2>1. \/ h = g
        \/ \E kind : h \in FlowTo(g, f, how, fact.within, fact.ref, kind)
        \/ h \in Sequences(g, f, how, text, k)
        \/ h \in Shares(g, f, how, text, fact)
        \/ fact.what = "field" /\ h \in ClassField(g, f, how, fact)
    BY Zenon DEF Flowed
  <2>2. QED
    BY <1>1, <1>2, <1>3, <1>4, <1>5, <2>1

-----------------------------------------------------------------------------
(* Merge, names and coupling *)

\* What a file is parsed to: nodes that know the file, edges that know the unit.
LEMMA ParsedIs ==
  ASSUME NEW f, NEW text, IsText(text)
  PROVE  LET g == Parsed(f, text) IN
         /\ EdgesOk(g)
         /\ \A i \in DOMAIN g.nodes : g.nodes[i].file = f
         /\ UnitId(f) \in DOMAIN g.nodes /\ IsFiniteSet(DOMAIN g.nodes)
         /\ \A k \in DOMAIN g.edges : k[2] = UnitId(f)
<1> DEFINE g == Parsed(f, text)
           makers == {k \in 1..Len(text) : MakesEdge(f, text[k])}
<1>1. Len(text) \in Nat
  BY DEF IsText
<1>2. IsGraph(g)
  BY DEF IsGraph, Parsed
<1>3. DOMAIN g.edges = {EdgeId(f, text, k) : k \in makers}
  BY DEF Parsed
<1>4. IsFiniteSet(DOMAIN g.edges)
  <2>1. makers \subseteq 1..Len(text) /\ IsFiniteSet(1..Len(text))
    BY <1>1, FS_Interval
  <2>2. IsFiniteSet(makers)
    BY <2>1, FS_Subset
  <2> DEFINE ids == [k \in makers |-> EdgeId(f, text, k)]
  <2>3. Values(ids) = DOMAIN g.edges
    <3> HIDE DEF g, makers
    <3> QED
      BY <1>3 DEF Values
  <2> HIDE DEF g, makers
  <2>4. QED
    BY <2>2, <2>3, FiniteValues
<1>5. \A k \in DOMAIN g.edges : k[2] = UnitId(f)
  <2>1. \A k : EdgeId(f, text, k)[2] = UnitId(f)
    BY DEF EdgeId
  <2> HIDE DEF g, makers
  <2>2. QED
    BY <1>3, <2>1
<1>6. \A k \in DOMAIN g.edges : IsEdge(g.edges[k])
  <2>1. \A k \in DOMAIN g.edges : \E fact : g.edges[k] = EdgeFrom(f, fact)
    BY DEF Parsed
  <2>2. \A fact : IsEdge(PythonEdge(f, fact)) /\ IsEdge(TypeScriptEdge(f, fact)) /\ IsEdge(GenericEdge(f, fact))
    BY DEF IsEdge, PythonEdge, TypeScriptEdge, GenericEdge
  <2>3. \A fact : EdgeFrom(f, fact) \in {PythonEdge(f, fact), TypeScriptEdge(f, fact), GenericEdge(f, fact)}
    BY DEF EdgeFrom
  <2>4. QED
    BY <2>1, <2>2, <2>3
<1>7. /\ \A i \in DOMAIN g.nodes : g.nodes[i].file = f
      /\ UnitId(f) \in DOMAIN g.nodes
  BY DEF Parsed, Over
<1>8. IsFiniteSet(DOMAIN g.nodes)
  <2> DEFINE defs == {k \in 1..Len(text) : text[k].what \in Defining}
             ids == [k \in defs |-> UnitId(f) \o text[k].ref]
  <2>1. DOMAIN g.nodes = Values(ids) \cup {UnitId(f)}
    BY DEF Parsed, Over, Values
  <2>2. defs \subseteq 1..Len(text) /\ IsFiniteSet(1..Len(text))
    BY <1>1, FS_Interval
  <2>3. IsFiniteSet(defs)
    BY <2>2, FS_Subset
  <2> HIDE DEF g, defs
  <2>4. IsFiniteSet(Values(ids))
    BY <2>3, FiniteValues
  <2> HIDE DEF ids
  <2>5. QED
    BY <2>1, <2>4, FS_AddElement
<1>9. QED
  BY <1>2, <1>4, <1>5, <1>6, <1>7, <1>8 DEF EdgesOk

LEMMA MergedIs ==
  ASSUME NEW g, NEW h, EdgesOk(g), EdgesOk(h)
  PROVE  EdgesOk(Merged(g, h))
<1> DEFINE m == Merged(g, h)
<1>1. IsGraph(m) /\ m.edges = Over(h.edges, g.edges)
  BY DEF Merged, IsGraph
<1>2. /\ DOMAIN m.edges = DOMAIN h.edges \cup DOMAIN g.edges
      /\ \A k \in DOMAIN m.edges : m.edges[k] = IF k \in DOMAIN h.edges THEN h.edges[k] ELSE g.edges[k]
  BY <1>1 DEF Over
<1>3. IsFiniteSet(DOMAIN m.edges)
  BY <1>2, FS_Union DEF EdgesOk
<1>4. QED
  BY <1>1, <1>2, <1>3 DEF EdgesOk

\* Every edge that the resolution leaves has both its nodes.
LEMMA ResolvedIs ==
  ASSUME NEW g, EdgesOk(g), NEW pick \in Picks(g)
  PROVE  EdgesOk(Resolved(g, pick)) /\ Dangling(Resolved(g, pick)) = {}
<1> DEFINE r == Resolved(g, pick)
           To(n) == IF n \in DOMAIN pick THEN pick[n] ELSE n
           loose == {k \in DOMAIN g.edges : {g.edges[k].source, g.edges[k].target} \cap Dangling(g) # {}}
           settled == {k \in loose : {g.edges[k].source, g.edges[k].target} \subseteq DOMAIN g.nodes \cup DOMAIN pick}
           new == {<<"resolved", x>> : x \in settled}
           kept == DOMAIN g.edges \ loose
<1>1. IsGraph(r) /\ r.nodes = g.nodes
  <2>1. \E edges : r = [g EXCEPT !.edges = edges]
    BY Zenon DEF Resolved
  <2> HIDE DEF r
  <2>2. QED
    BY <2>1 DEF IsGraph, EdgesOk
<1>2. /\ DOMAIN r.edges = new \cup kept
      /\ \A k \in new : r.edges[k] = [g.edges[k[2]] EXCEPT !.source = To(@), !.target = To(@)]
      /\ \A k \in kept \ new : r.edges[k] = g.edges[k]
  BY DEF Resolved, Over, EdgesOk, IsGraph
<1>3. IsFiniteSet(DOMAIN r.edges)
  <2>1. IsFiniteSet(settled) /\ IsFiniteSet(kept)
    BY FS_Subset DEF EdgesOk
  <2> HIDE DEF r, settled, kept
  <2> DEFINE ids == [x \in settled |-> <<"resolved", x>>]
  <2>2. IsFiniteSet(new)
    <3>1. Values(ids) = new
      BY DEF Values
    <3>2. QED
      BY <2>1, <3>1, FiniteValues
  <2> HIDE DEF new
  <2>3. IsFiniteSet(new \cup kept)
    BY <2>1, <2>2, FS_Union
  <2>4. QED
    BY <1>2, <2>3
<1>4. \A n \in DOMAIN pick : pick[n] \in DOMAIN g.nodes
  <2>1. \A n : Candidates(g, n) \subseteq DOMAIN g.nodes
    BY DEF Candidates
  <2>2. QED
    BY <2>1 DEF Picks
<1>5. ASSUME NEW k \in DOMAIN r.edges
      PROVE  IsEdge(r.edges[k]) /\ {r.edges[k].source, r.edges[k].target} \subseteq DOMAIN g.nodes
  <2>1. CASE k \in new
    <3>1. PICK x \in settled : k = <<"resolved", x>>
      BY <2>1
    <3>2. IsEdge(g.edges[x])
      BY DEF EdgesOk
    <3>3. r.edges[k] = [g.edges[x] EXCEPT !.source = To(@), !.target = To(@)]
      BY <1>2, <2>1, <3>1
    <3> HIDE DEF r
    <3>4. /\ r.edges[k].source = To(g.edges[x].source) /\ r.edges[k].target = To(g.edges[x].target)
          /\ IsEdge(r.edges[k])
      BY <3>2, <3>3 DEF IsEdge
    <3>5. QED
      BY <1>4, <3>4
  <2>2. CASE k \in kept \ new
    <3>1. {g.edges[k].source, g.edges[k].target} \cap Dangling(g) = {}
      BY <2>2
    <3>2. {g.edges[k].source, g.edges[k].target} \subseteq Ends(g.edges)
      BY <2>2 DEF Ends, Values
    <3>3. QED
      BY <1>2, <2>2, <3>1, <3>2 DEF Dangling, EdgesOk
  <2>3. QED
    BY <1>2, <2>1, <2>2
<1>6. Dangling(r) = {}
  <2> HIDE DEF r
  <2> QED
    BY <1>1, <1>5 DEF Dangling, Ends, Values
<1>7. QED
  BY <1>1, <1>3, <1>5, <1>6 DEF EdgesOk

LEMMA CoupledIs ==
  ASSUME NEW g, EdgesOk(g)
  PROVE  EdgesOk(Coupled(g)) /\ Dangling(Coupled(g)) = Dangling(g)
<1> DEFINE c == Coupled(g)
<1>1. IsGraph(c) /\ c.nodes = g.nodes /\ DOMAIN c.edges = DOMAIN g.edges
  BY DEF Coupled, IsGraph, EdgesOk
<1>2. \A k \in DOMAIN c.edges : c.edges[k] = [g.edges[k] EXCEPT !.depth = Coupling(g, g.edges[k])]
  BY DEF Coupled, IsGraph, EdgesOk
<1>3. \A k \in DOMAIN c.edges : /\ IsEdge(c.edges[k])
                                /\ c.edges[k].source = g.edges[k].source /\ c.edges[k].target = g.edges[k].target
  BY <1>1, <1>2 DEF EdgesOk, IsEdge
<1>4. Ends(c.edges) = Ends(g.edges)
  <2> HIDE DEF c
  <2> QED
    BY <1>1, <1>3 DEF Ends, Values
<1>5. QED
  BY <1>1, <1>3, <1>4 DEF EdgesOk, Dangling

-----------------------------------------------------------------------------
(* The stages *)

InWalk == stage \in {"routes", "dispatch", "flow"}
At(v) == <<v[1], v[2]>> \in Here(RouteVisits) /\ v[3] \in DOMAIN project[v[1]]

GInv ==
  /\ stage \in {"merge", "couple", "communities", "ready"} \/ InWalk
  /\ \A f \in DOMAIN project : IsText(project[f])
  /\ EdgesOk(graph)
  /\ stage = "merge" => todo \subseteq Discovered \cap DOMAIN project
  /\ InWalk => \A v \in todo : At(v)
  /\ changes \in Nat
  /\ EndsExist

LEMMA TextOk ==
  /\ \A text \in Text : IsText(text)
  /\ \A p \in Project : \A f \in DOMAIN p : IsText(p[f])
BY TextAssumption DEF IsText, Values

LEMMA WalksStart ==
  ASSUME NEW visits, visits \subseteq RouteVisits, GInv
  PROVE  \A v \in Walks(visits) : At(v)
<1> SUFFICES ASSUME NEW v \in Walks(visits)
             PROVE  At(v)
  OBVIOUS
<1>1. PICK u \in Here(visits) : v = <<u[1], u[2], 1>> /\ project[u[1]] # <<>>
  BY DEF Walks
<1>2. u \in RouteVisits /\ u[1] \in DOMAIN project
  BY <1>1 DEF Here
<1>3. u = <<u[1], u[2]>>
  BY <1>2 DEF RouteVisits
<1>4. 1 \in DOMAIN project[u[1]]
  BY <1>1, <1>2 DEF GInv, IsText
<1>5. QED
  BY <1>1, <1>2, <1>3, <1>4 DEF At, Here

LEMMA WalksGoOn ==
  ASSUME GInv, InWalk, NEW v \in todo
  PROVE  \A w \in Onward(v) : At(w)
<1>1. At(v) /\ v[1] \in DOMAIN project
  BY DEF GInv, At, Here
<1>2. v[3] < Len(project[v[1]]) => v[3] + 1 \in DOMAIN project[v[1]]
  BY <1>1 DEF GInv, IsText, At
<1>3. ASSUME v[3] < Len(project[v[1]])
      PROVE  At(<<v[1], v[2], v[3] + 1>>)
  BY <1>1, <1>2, <1>3 DEF At
<1>4. QED
  BY <1>3 DEF Onward, GInv

LEMMA DangleIs ==
  ASSUME NEW v, At(v)
  PROVE  DangleAt(v[1], v[2], project[v[1]]) \subseteq MayDangle
BY DEF At, DangleAt, MayDangle

\* A pass that adds the edges of a fact leaves no end open that may not be.
LEMMA PassKeeps ==
  ASSUME GInv, InWalk, NEW v \in todo, stage' = stage, project' = project, changes' = changes,
         Grown(graph, graph', DangleAt(v[1], v[2], project[v[1]])), todo' = Onward(v)
  PROVE  GInv'
<1>1. At(v)
  BY DEF GInv
<1>2. MayDangle' = MayDangle /\ \A w : At(w)' <=> At(w)
  BY DEF MayDangle, At, Here
<1>3. \A w \in todo' : At(w)'
  BY <1>2, WalksGoOn
<1>4. EdgesOk(graph') /\ EndsExist'
  <2>1. changes = 0 => Dangling(graph) \subseteq MayDangle
    BY DEF GInv, EndsExist, InWalk
  <2>2. Grown(graph, graph', MayDangle)
    BY <1>1, DangleIs DEF Grown
  <2>3. EdgesOk(graph')
    BY GrownOk DEF GInv
  <2>4. changes = 0 => Dangling(graph') \subseteq MayDangle
    BY <2>1, <2>2, GrownOk DEF GInv
  <2>5. QED
    BY <1>2, <2>3, <2>4 DEF EndsExist, Dangling
<1>5. QED
  BY <1>3, <1>4 DEF GInv, InWalk

LEMMA GInit == Init => GInv
<1> SUFFICES ASSUME Init
             PROVE  GInv
  OBVIOUS
<1>1. EdgesOk(NoGraph)
  BY FS_EmptySet DEF EdgesOk, IsGraph, NoGraph, NoMap
<1>2. QED
  BY <1>1, TextOk DEF Init, GInv, InWalk, EndsExist

LEMMA GNext == GInv /\ [Next]_vars => GInv'
<1> SUFFICES ASSUME GInv, [Next]_vars
             PROVE  GInv'
  OBVIOUS
<1>1. CASE Merge
  <2>1. PICK f \in todo : graph' = Merged(graph, Parsed(f, project[f]))
    BY <1>1 DEF Merge
  <2>2. EdgesOk(graph')
    BY <1>1, <2>1, ParsedIs, MergedIs DEF Merge, GInv
  <2>3. QED
    BY <1>1, <2>2 DEF Merge, Alone, GInv, InWalk, EndsExist
<1>2. CASE Resolve
  <2>1. PICK pick \in Picks(graph) : graph' = Resolved(graph, pick)
    BY <1>2 DEF Resolve
  <2>2. EdgesOk(graph') /\ Dangling(graph') = {}
    BY <2>1, ResolvedIs DEF GInv
  <2>3. QED
    BY <1>2, <2>2 DEF Resolve, Alone, GInv, InWalk, EndsExist, Dangling
<1>3. CASE Couple
  <2>1. MayDangle' = MayDangle /\ \A w : At(w)' <=> At(w)
    BY <1>3 DEF Couple, MayDangle, At, Here
  <2>2. EdgesOk(graph') /\ Dangling(graph') = Dangling(graph)
    BY <1>3, CoupledIs DEF Couple, GInv
  <2>3. \A v \in todo' : At(v)'
    BY <1>3, <2>1, WalksStart DEF Couple
  <2>4. EndsExist'
    BY <1>3, <2>1, <2>2 DEF Couple, Alone, GInv, EndsExist, Dangling
  <2>5. QED
    BY <1>3, <2>2, <2>3, <2>4 DEF Couple, Alone, GInv, InWalk
<1>4. CASE DetectRoutes
  <2>1. PICK v \in todo : graph' \in Routed(graph, v[1], v[2], project[v[1]], v[3]) /\ todo' = Onward(v)
    BY <1>4 DEF DetectRoutes
  <2>2. Grown(graph, graph', DangleAt(v[1], v[2], project[v[1]]))
    BY <2>1, RoutedGrows DEF GInv
  <2>3. QED
    BY <1>4, <2>1, <2>2, PassKeeps DEF DetectRoutes, Alone, InWalk
<1>5. CASE SynthesizeCallbacks
  <2>1. PICK v \in todo : graph' \in Dispatched(graph, v[1], v[2], project[v[1]], v[3]) /\ todo' = Onward(v)
    BY <1>5 DEF SynthesizeCallbacks
  <2>2. Grown(graph, graph', DangleAt(v[1], v[2], project[v[1]]))
    BY <2>1, DispatchedGrows DEF GInv
  <2>3. QED
    BY <1>5, <2>1, <2>2, PassKeeps DEF SynthesizeCallbacks, Alone, InWalk
<1>6. CASE SynthesizeFlow
  <2>1. PICK v \in todo : graph' \in Flowed(graph, v[1], v[2], project[v[1]], v[3]) /\ todo' = Onward(v)
    BY <1>6 DEF SynthesizeFlow
  <2>2. v[3] \in DOMAIN project[v[1]]
    BY <1>6 DEF SynthesizeFlow, InWalk, GInv, At
  <2>3. Grown(graph, graph', DangleAt(v[1], v[2], project[v[1]]))
    BY <2>1, <2>2, FlowedGrows DEF GInv
  <2>4. QED
    BY <1>6, <2>1, <2>3, PassKeeps DEF SynthesizeFlow, Alone, InWalk
<1>7. CASE RoutesDone \/ CallbacksDone
  <2>1. /\ stage \in {"routes", "dispatch"} /\ stage' \in {"dispatch", "flow"}
        /\ UNCHANGED <<project, graph, changes>>
    BY <1>7 DEF RoutesDone, CallbacksDone, Alone
  <2>2. MayDangle' = MayDangle /\ \A w : At(w)' <=> At(w)
    BY <2>1 DEF MayDangle, At, Here
  <2>3. \A v \in todo' : At(v)'
    <3>1. DispatchVisits \subseteq RouteVisits /\ FlowVisits(graph) \subseteq RouteVisits
      BY DEF DispatchVisits, FlowVisits, RouteVisits
    <3>2. todo' \in {{}, Walks(DispatchVisits), Walks(FlowVisits(graph))}
      BY <1>7 DEF RoutesDone, CallbacksDone
    <3>3. QED
      BY <2>2, <3>1, <3>2, WalksStart
  <2>4. EndsExist'
    BY <2>1, <2>2 DEF GInv, EndsExist, Dangling
  <2>5. QED
    BY <2>1, <2>3, <2>4 DEF GInv, InWalk
<1>8. CASE StartCommunities \/ VisitNode \/ NextPass \/ BuildIndex
  <2>1. /\ stage \in {"flow", "communities"} /\ stage' \in {"communities", "ready"}
        /\ UNCHANGED <<project, graph, changes>>
    BY <1>8 DEF StartCommunities, VisitNode, NextPass, BuildIndex, Unindexed
  <2>2. MayDangle' = MayDangle
    BY <2>1 DEF MayDangle, Here
  <2>3. QED
    BY <2>1, <2>2 DEF GInv, InWalk, EndsExist, Dangling
<1>9. CASE Rename \/ WriteFile \/ RemoveFile
  <2>1. stage = "ready" /\ changes' = changes + 1 /\ UNCHANGED <<stage, graph>>
    BY <1>9 DEF Rename, WriteFile, RemoveFile, MayChange, Changed
  <2>2. \A f \in DOMAIN project' : IsText(project'[f])
    <3>1. CASE Rename
      BY <3>1 DEF Rename, GInv
    <3>2. CASE WriteFile
      BY <3>2, TextOk DEF WriteFile, GInv
    <3>3. CASE RemoveFile
      BY <3>3 DEF RemoveFile, GInv
    <3>4. QED
      BY <1>9, <3>1, <3>2, <3>3
  <2>3. QED
    BY <2>1, <2>2 DEF GInv, InWalk, EndsExist
<1>10. CASE UNCHANGED vars
  BY <1>10 DEF vars, GInv, InWalk, At, Here, EndsExist, MayDangle, Dangling
<1>11. QED
  BY <1>1, <1>2, <1>3, <1>4, <1>5, <1>6, <1>7, <1>8, <1>9, <1>10 DEF Next

\* Whatever the project and the order of the files, of the visits and of the hash
\* tables: once names are resolved, an edge has a node at each end, unless a route
\* has no handler or a class a field (CrossFileResolver::resolve and the passes
\* after it).
THEOREM EdgesHaveEnds == Spec => []EndsExist
<1>1. GInv => EndsExist
  BY DEF GInv
<1>2. QED
  BY <1>1, GInit, GNext, PTL DEF Spec

-----------------------------------------------------------------------------
(* Merging *)

Files == Discovered \cap DOMAIN project
Whole(f) ==
  /\ \A i \in DOMAIN Parsed(f, project[f]).nodes : i \in DOMAIN graph.nodes /\ graph.nodes[i] = Parsed(f, project[f]).nodes[i]
  /\ \A k \in DOMAIN Parsed(f, project[f]).edges : k \in DOMAIN graph.edges /\ graph.edges[k] = Parsed(f, project[f]).edges[k]

\* While files are merged, the nodes are those of files that have come, and these
\* are in the graph if they are apart.
MInv ==
  stage = "merge" =>
    /\ \A i \in DOMAIN graph.nodes : graph.nodes[i].file \in Files \ todo
    /\ Apart => \A f \in Files \ todo : Whole(f)

LEMMA MergeKeeps == GInv /\ MInv /\ Merge => MInv'
<1> SUFFICES ASSUME GInv, MInv, Merge
             PROVE  MInv'
  OBVIOUS
<1>1. PICK f \in todo : graph' = Merged(graph, Parsed(f, project[f])) /\ todo' = todo \ {f}
  BY DEF Merge
<1>2. /\ stage = "merge" /\ UNCHANGED <<stage, project>>
      /\ todo \subseteq Files
  BY DEF Merge, GInv, Files
<1>3. Files' = Files /\ (Apart' <=> Apart)
  BY <1>2 DEF Files, Apart
<1> DEFINE P(g) == Parsed(g, project[g])
<1>4. \A g \in Files : /\ \A i \in DOMAIN P(g).nodes : P(g).nodes[i].file = g
                       /\ UnitId(g) \in DOMAIN P(g).nodes
                       /\ \A k \in DOMAIN P(g).edges : k[2] = UnitId(g)
  BY ParsedIs DEF Files, GInv
<1>5. f \in Files /\ f \notin Files \ todo
  BY <1>2
<1>6. \A i \in DOMAIN P(f).nodes : P(f).nodes[i] \notin Values(graph.nodes)
  BY <1>2, <1>4, <1>5 DEF MInv, Values
<1>7. /\ DOMAIN graph'.nodes = DOMAIN P(f).nodes \cup DOMAIN graph.nodes
      /\ \A i \in DOMAIN graph'.nodes : graph'.nodes[i] = IF i \in DOMAIN P(f).nodes THEN P(f).nodes[i] ELSE graph.nodes[i]
      /\ DOMAIN graph'.edges = DOMAIN P(f).edges \cup DOMAIN graph.edges
      /\ \A k \in DOMAIN graph'.edges : graph'.edges[k] = IF k \in DOMAIN P(f).edges THEN P(f).edges[k] ELSE graph.edges[k]
  BY <1>1, <1>6 DEF Merged, Over
<1>8. \A i \in DOMAIN graph'.nodes : graph'.nodes[i].file \in Files \ todo'
  <2> HIDE DEF P
  <2> QED
    BY <1>1, <1>2, <1>4, <1>5, <1>7 DEF MInv
<1>9. ASSUME Apart, NEW g \in Files \ todo'
      PROVE  Whole(g)'
  <2>1. Whole(g)' <=>
          /\ \A i \in DOMAIN P(g).nodes : i \in DOMAIN graph'.nodes /\ graph'.nodes[i] = P(g).nodes[i]
          /\ \A k \in DOMAIN P(g).edges : k \in DOMAIN graph'.edges /\ graph'.edges[k] = P(g).edges[k]
    BY <1>2 DEF Whole
  <2>2. CASE g = f
    BY <1>7, <2>1, <2>2
  <2>3. CASE g # f
    <3>1. g \in Files \ todo
      BY <1>1, <1>9, <2>3
    <3>2. /\ \A i \in DOMAIN P(g).nodes : i \in DOMAIN graph.nodes /\ graph.nodes[i] = P(g).nodes[i]
          /\ \A k \in DOMAIN P(g).edges : k \in DOMAIN graph.edges /\ graph.edges[k] = P(g).edges[k]
      BY <1>2, <1>9, <3>1 DEF MInv, Whole
    <3>3. DOMAIN P(g).nodes \cap DOMAIN P(f).nodes = {}
      BY <1>5, <1>9, <2>3, <3>1 DEF Apart, Files
    <3> HIDE DEF P
    <3>4. DOMAIN P(g).edges \cap DOMAIN P(f).edges = {}
      BY <1>4, <1>5, <3>1, <3>3
    <3>5. QED
      BY <1>7, <2>1, <3>2, <3>3, <3>4
  <2>4. QED
    BY <2>2, <2>3
<1>10. QED
  BY <1>3, <1>8, <1>9 DEF MInv

LEMMA MNext == GInv /\ MInv /\ [Next]_vars => MInv'
<1> SUFFICES ASSUME GInv, MInv, [Next]_vars, ~Merge
             PROVE  MInv'
  BY MergeKeeps
<1>1. CASE UNCHANGED vars
  BY <1>1 DEF vars, MInv, Files, Apart, Whole
<1>2. CASE Next
  <2>1. stage' # "merge"
    BY <1>2 DEF Next, Resolve, Couple, DetectRoutes, RoutesDone, SynthesizeCallbacks, CallbacksDone, SynthesizeFlow,
                StartCommunities, VisitNode, NextPass, BuildIndex, Rename, WriteFile, RemoveFile, MayChange, Changed
  <2>2. QED
    BY <2>1 DEF MInv
<1>3. QED
  BY <1>1, <1>2

\* Whatever the files and the order they come in: if no two give one id, the merged
\* graph has all their nodes and edges as they were parsed (GraphMerger::merge).
THEOREM MergeIsLossless == Spec => []MergeLosesNothing
<1>1. Init => MInv
  BY DEF Init, MInv, Files, NoGraph, NoMap
<1>2. MInv => MergeLosesNothing
  BY DEF MInv, MergeLosesNothing, Whole, Files
<1>3. QED
  BY <1>1, <1>2, GInit, GNext, MNext, PTL DEF Spec

-----------------------------------------------------------------------------
(* The entries of a list *)

FiniteList(bag) == IsFiniteSet(DOMAIN bag) /\ \A l \in DOMAIN bag : bag[l] \in Nat

LEMMA SlotsFinite ==
  ASSUME NEW bag, FiniteList(bag)
  PROVE  IsFiniteSet(Slots(bag)) /\ Size(bag) \in Nat
<1> DEFINE each == [l \in DOMAIN bag |-> {l} \X (1..bag[l])]
<1>1. \A T \in Values(each) : IsFiniteSet(T)
  <2>1. ASSUME NEW l \in DOMAIN bag
        PROVE  IsFiniteSet({l} \X (1..bag[l]))
    <3>1. IsFiniteSet({l})
      BY FS_Singleton
    <3>2. bag[l] \in Int
      BY DEF FiniteList
    <3>3. IsFiniteSet(1..bag[l])
      BY <3>2, FS_Interval
    <3>4. QED
      BY <3>1, <3>3, FS_Product
  <2>2. QED
    BY <2>1 DEF Values
<1>2. IsFiniteSet(Values(each))
  BY FiniteValues DEF FiniteList
<1>3. Slots(bag) = UNION Values(each)
  BY DEF Slots, Values
<1> HIDE DEF each
<1>4. IsFiniteSet(Slots(bag))
  BY <1>1, <1>2, <1>3, FS_UNION
<1>5. QED
  BY <1>4, FS_CardinalityType DEF Size

LEMMA InSlots ==
  ASSUME NEW bag, NEW l, NEW n
  PROVE  <<l, n>> \in Slots(bag) <=> l \in DOMAIN bag /\ n \in 1..bag[l]
BY DEF Slots

LEMMA SlotIs ==
  ASSUME NEW bag, NEW s \in Slots(bag)
  PROVE  s = <<s[1], s[2]>> /\ s[1] \in DOMAIN bag /\ s[2] \in 1..bag[s[1]]
BY DEF Slots

LEMMA SizeSplit ==
  ASSUME NEW bag, FiniteList(bag), NEW S
  PROVE  /\ FiniteList(Only(bag, S)) /\ FiniteList(Without(bag, S))
         /\ Size(bag) = Size(Only(bag, S)) + Size(Without(bag, S))
<1>1. FiniteList(Only(bag, S)) /\ FiniteList(Without(bag, S))
  <2>1. IsFiniteSet(DOMAIN bag \cap S) /\ IsFiniteSet(DOMAIN bag \ S)
    BY FS_Subset DEF FiniteList
  <2>2. QED
    BY <2>1 DEF Only, Without, FiniteList
<1>2. Slots(bag) = Slots(Only(bag, S)) \cup Slots(Without(bag, S))
  BY DEF Slots, Only, Without
<1>3. Slots(Only(bag, S)) \cap Slots(Without(bag, S)) = {}
  BY SlotIs DEF Only, Without
<1>4. /\ IsFiniteSet(Slots(Only(bag, S))) /\ Size(Only(bag, S)) \in Nat
      /\ IsFiniteSet(Slots(Without(bag, S))) /\ Size(Without(bag, S)) \in Nat
  BY <1>1, SlotsFinite
<1>5. QED
  BY <1>1, <1>2, <1>3, <1>4, FS_Union, FS_EmptySet DEF Size

LEMMA SizeOfOnes ==
  ASSUME NEW S, IsFiniteSet(S), NEW bag, DOMAIN bag = S, \A l \in S : bag[l] = 1
  PROVE  Size(bag) = Cardinality(S)
<1> DEFINE slot == [l \in S |-> <<l, 1>>]
<1>1. Slots(bag) = {<<l, 1>> : l \in S}
  BY InSlots, SlotIs
<1>2. slot \in [S -> Slots(bag)]
  BY <1>1
<1>3. slot \in Bijection(S, Slots(bag))
  BY <1>1, <1>2 DEF Bijection, Injection, IsInjective, Surjection
<1>4. QED
  BY <1>3, FS_Bijection DEF ExistsBijection, Size

LEMMA SizeAdded ==
  ASSUME NEW bag, FiniteList(bag), NEW links, IsFiniteSet(links)
  PROVE  /\ FiniteList(Added(bag, links))
         /\ Size(Added(bag, links)) = Size(bag) + Cardinality(links \ DOMAIN bag)
<1> DEFINE a == Added(bag, links)
           new == links \ DOMAIN bag
<1>1. /\ DOMAIN a = DOMAIN bag \cup links
      /\ \A l \in DOMAIN bag : a[l] = bag[l]
      /\ \A l \in new : a[l] = 1
  BY DEF Added
<1> HIDE DEF a
<1>2. FiniteList(a)
  <2>1. IsFiniteSet(DOMAIN a)
    BY <1>1, FS_Union DEF FiniteList
  <2>2. \A l \in DOMAIN a : a[l] \in Nat
    BY <1>1 DEF FiniteList
  <2>3. QED
    BY <2>1, <2>2 DEF FiniteList
<1>3. Slots(Only(a, DOMAIN bag)) = Slots(bag)
  BY <1>1 DEF Slots, Only
<1>4. DOMAIN Without(a, DOMAIN bag) = new /\ \A l \in new : Without(a, DOMAIN bag)[l] = 1
  BY <1>1 DEF Without
<1>5. IsFiniteSet(new)
  BY FS_Difference
<1>6. Size(Without(a, DOMAIN bag)) = Cardinality(new)
  BY <1>4, <1>5, SizeOfOnes
<1>7. QED
  BY <1>2, <1>3, <1>6, SizeSplit DEF Size, a

-----------------------------------------------------------------------------
(* The mutators of the index *)

IsIndex(x) ==
  x = [nodes |-> x.nodes, out |-> x.out, in |-> x.in, names |-> x.names, files |-> x.files, count |-> x.count]
IsNode(n) == n = [name |-> n.name, kind |-> n.kind, unit |-> n.unit]

\* An entry of a file that is out of date is of a node without a location.
FilesFit(x) == \A e \in DOMAIN x.files : e[2] \in DOMAIN x.nodes => x.nodes[e[2]].unit \in {e[1], NoUnit}

IndexOk(x) ==
  /\ IsIndex(x)
  /\ FiniteList(x.out)
  /\ Mirrored(x)
  /\ \A i \in DOMAIN x.nodes : IsNode(x.nodes[i]) /\ <<x.nodes[i].name, i>> \in DOMAIN x.names
  /\ FilesFit(x)

NodesOk(nodes) == \A i \in DOMAIN nodes : IsNode(nodes[i])

LEMMA FromGraphOk ==
  ASSUME NEW nodes, NodesOk(nodes), NEW edges, FiniteList(edges)
  PROVE  IndexOk(FromGraph(nodes, edges))
<1> DEFINE x == FromGraph(nodes, edges)
<1>1. /\ IsIndex(x) /\ x.nodes = nodes /\ x.out = edges /\ x.in = edges /\ x.count = Size(edges)
      /\ DOMAIN x.names = NameEntries(nodes) /\ DOMAIN x.files = FileEntries(nodes)
  BY DEF FromGraph, IsIndex, SetToBag
<1> HIDE DEF x
<1>2. \A i \in DOMAIN x.nodes : IsNode(x.nodes[i]) /\ <<x.nodes[i].name, i>> \in DOMAIN x.names
  BY <1>1 DEF NodesOk, NameEntries
<1>3. FilesFit(x)
  BY <1>1 DEF FilesFit, FileEntries
<1>4. QED
  BY <1>1, <1>2, <1>3 DEF x, IndexOk, Mirrored, Twofold, RecomputeEdgeCount

\* What goes with the nodes of S: their entries in both lists, and no others.
LEMMA RemoveNodesIs ==
  ASSUME NEW x, IndexOk(x), NEW S
  PROVE  LET r == RemoveNodes(x, S)
             gone == {l \in DOMAIN x.out : l.source \in S \/ l.target \in S}
         IN /\ IndexOk(r)
            /\ DOMAIN r.nodes = DOMAIN x.nodes \ S
            /\ \A i \in DOMAIN r.nodes : r.nodes[i] = x.nodes[i]
            /\ DOMAIN r.out = DOMAIN x.out \ gone
            /\ DOMAIN r.files \subseteq DOMAIN x.files
<1> DEFINE r == RemoveNodes(x, S)
           gone == {l \in DOMAIN x.out : l.source \in S \/ l.target \in S}
           Paired(links, l) == \E k \in links : k.source = l.source /\ k.target = l.target
           from == {l \in DOMAIN x.out : l.source \in S}
           in1  == Without(x.in, {l \in DOMAIN x.in : l.source \in S /\ Paired(from, l)})
           to   == {l \in DOMAIN in1 : l.target \in S}
           entries == UNION {{<<x.nodes[i].name, i>>, <<x.nodes[i].unit, i>>} : i \in S \cap DOMAIN x.nodes}
           back == {l \in DOMAIN x.out : l.target \in S /\ Paired(to, l)}
<1>1. /\ IsIndex(r)
      /\ r.nodes = [j \in DOMAIN x.nodes \ S |-> x.nodes[j]]
      /\ r.out = Without(x.out, from \cup back)
      /\ r.in = Without(in1, to)
      /\ r.names = Without(x.names, entries) /\ r.files = Without(x.files, entries)
      /\ r.count = Minus(Minus(x.count, Size(Only(x.out, from))), Size(Only(in1, to)))
  <2> DEFINE nodes == [j \in DOMAIN x.nodes \ S |-> x.nodes[j]]
             out == Without(x.out, from \cup back)
             in == Without(in1, to)
             names == Without(x.names, entries)
             files == Without(x.files, entries)
             count == Minus(Minus(x.count, Size(Only(x.out, from))), Size(Only(in1, to)))
  <2>1. r = [x EXCEPT !.nodes = nodes, !.out = out, !.in = in, !.names = names, !.files = files, !.count = count]
    BY Zenon DEF RemoveNodes
  <2>2. IsIndex(x)
    BY DEF IndexOk
  <2> HIDE DEF r, nodes, out, in, names, files, count
  <2>3. /\ IsIndex(r) /\ r.nodes = nodes /\ r.out = out /\ r.in = in
        /\ r.names = names /\ r.files = files /\ r.count = count
    BY <2>1, <2>2 DEF IsIndex
  <2>4. QED
    BY <2>3 DEF nodes, out, in, names, files, count
<1>2. x.in = x.out /\ x.count = Size(x.out) /\ FiniteList(x.out)
  BY DEF IndexOk, Mirrored, Twofold, RecomputeEdgeCount
<1>3. {l \in DOMAIN x.in : l.source \in S /\ Paired(from, l)} = from
  BY <1>2
<1>4. in1 = Without(x.out, from) /\ to = {l \in DOMAIN x.out \ from : l.target \in S}
  BY <1>2, <1>3 DEF Without
<1>5. back = to
  BY <1>4
<1>6. from \cup to = gone
  BY <1>4
<1> HIDE DEF r, Paired, in1, to, from, back
<1>7. r.in = r.out /\ DOMAIN r.out = DOMAIN x.out \ gone
  BY <1>1, <1>4, <1>5, <1>6 DEF Without
<1>8. FiniteList(r.out) /\ r.count = Size(r.out)
  <2>1. /\ FiniteList(in1) /\ FiniteList(Only(x.out, from))
        /\ Size(x.out) = Size(Only(x.out, from)) + Size(in1)
    BY <1>2, <1>4, SizeSplit
  <2>2. /\ FiniteList(Without(in1, to)) /\ FiniteList(Only(in1, to))
        /\ Size(in1) = Size(Only(in1, to)) + Size(Without(in1, to))
    BY <2>1, SizeSplit
  <2>3. /\ Size(Only(x.out, from)) \in Nat /\ Size(in1) \in Nat
        /\ Size(Only(in1, to)) \in Nat /\ Size(Without(in1, to)) \in Nat
    BY <2>1, <2>2, SlotsFinite
  <2>4. Minus(Minus(Size(x.out), Size(Only(x.out, from))), Size(Only(in1, to))) = Size(Without(in1, to))
    <3> DEFINE a == Size(Only(x.out, from))
               b == Size(Only(in1, to))
               c == Size(Without(in1, to))
    <3>1. a \in Nat /\ b \in Nat /\ c \in Nat /\ Size(x.out) = a + (b + c)
      BY <2>1, <2>2, <2>3
    <3> HIDE DEF a, b, c
    <3>2. QED
      BY <3>1 DEF Minus, a, b, c
  <2>5. QED
    BY <1>1, <1>2, <1>7, <2>2, <2>4
<1>9. \A i \in DOMAIN r.nodes : IsNode(r.nodes[i]) /\ <<r.nodes[i].name, i>> \in DOMAIN r.names
  <2>1. ASSUME NEW i \in DOMAIN x.nodes \ S
        PROVE  <<x.nodes[i].name, i>> \in DOMAIN x.names \ entries
    BY DEF IndexOk
  <2>2. QED
    BY <1>1, <2>1 DEF IndexOk, Without
<1>10. DOMAIN r.files \subseteq DOMAIN x.files
  BY <1>1 DEF Without
<1>11. FilesFit(r)
  BY <1>1, <1>10 DEF IndexOk, FilesFit
<1>12. IndexOk(r)
  BY <1>1, <1>7, <1>8, <1>9, <1>11 DEF IndexOk, Mirrored, Twofold, RecomputeEdgeCount
<1>13. QED
  BY <1>1, <1>7, <1>10, <1>12 DEF r

\* Without locations, as the adapters make them, the nodes leave the files alone.
LEMMA InsertNodesIs ==
  ASSUME NEW x, IndexOk(x), NEW new, NodesOk(new), \A i \in DOMAIN new : new[i].unit = NoUnit
  PROVE  LET r == InsertNodes(x, new)
         IN /\ IndexOk(r)
            /\ DOMAIN r.nodes = DOMAIN x.nodes \cup DOMAIN new
            /\ \A i \in DOMAIN r.nodes : r.nodes[i] = IF i \in DOMAIN new THEN new[i] ELSE x.nodes[i]
            /\ r.out = x.out
<1> DEFINE r == InsertNodes(x, new)
<1>1. /\ IsIndex(r) /\ r.out = x.out /\ r.in = x.in /\ r.count = x.count
      /\ r.nodes = [j \in DOMAIN x.nodes \cup DOMAIN new |-> IF j \in DOMAIN new THEN new[j] ELSE x.nodes[j]]
      /\ r.names = x.names (+) SetToBag(NameEntries(new))
      /\ r.files = x.files (+) SetToBag(FileEntries(new))
  <2> DEFINE nodes == [j \in DOMAIN x.nodes \cup DOMAIN new |-> IF j \in DOMAIN new THEN new[j] ELSE x.nodes[j]]
             names == x.names (+) SetToBag(NameEntries(new))
             files == x.files (+) SetToBag(FileEntries(new))
  <2>1. r = [x EXCEPT !.nodes = nodes, !.names = names, !.files = files]
    BY Zenon DEF InsertNodes
  <2>2. IsIndex(x)
    BY DEF IndexOk
  <2> HIDE DEF r, nodes, names, files
  <2>3. /\ IsIndex(r) /\ r.out = x.out /\ r.in = x.in /\ r.count = x.count
        /\ r.nodes = nodes /\ r.names = names /\ r.files = files
    BY <2>1, <2>2 DEF IsIndex
  <2>4. QED
    BY <2>3 DEF nodes, names, files
<1>2. /\ DOMAIN r.names = DOMAIN x.names \cup NameEntries(new)
      /\ DOMAIN r.files = DOMAIN x.files \cup FileEntries(new)
  <2> HIDE DEF r
  <2> QED
    BY <1>1 DEF (+), SetToBag
<1> HIDE DEF r
<1>3. FileEntries(new) = {}
  BY DEF FileEntries
<1>4. \A i \in DOMAIN r.nodes : IsNode(r.nodes[i]) /\ <<r.nodes[i].name, i>> \in DOMAIN r.names
  BY <1>1, <1>2 DEF IndexOk, NodesOk, NameEntries
<1>5. FilesFit(r)
  BY <1>1, <1>2, <1>3 DEF IndexOk, FilesFit
<1>6. IndexOk(r)
  BY <1>1, <1>4, <1>5 DEF IndexOk, Mirrored, Twofold, RecomputeEdgeCount
<1>7. QED
  BY <1>1, <1>6 DEF r

LEMMA UpsertEdgesIs ==
  ASSUME NEW x, IndexOk(x), NEW links, IsFiniteSet(links)
  PROVE  LET r == UpsertEdges(x, links)
         IN IndexOk(r) /\ r.nodes = x.nodes /\ DOMAIN r.out = DOMAIN x.out \cup links
<1> DEFINE r == UpsertEdges(x, links)
<1>1. /\ IsIndex(r) /\ r.nodes = x.nodes /\ r.names = x.names /\ r.files = x.files
      /\ r.out = Added(x.out, links) /\ r.in = Added(x.in, links)
      /\ r.count = x.count + Cardinality(links \ DOMAIN x.out)
  <2>1. r = [x EXCEPT !.out = Added(x.out, links), !.in = Added(x.in, links),
                      !.count = x.count + Cardinality(links \ DOMAIN x.out)]
    BY Zenon DEF UpsertEdges
  <2>2. IsIndex(x)
    BY DEF IndexOk
  <2> HIDE DEF r
  <2>3. QED
    BY <2>1, <2>2 DEF IsIndex
<1> HIDE DEF r
<1>2. x.in = x.out /\ x.count = Size(x.out) /\ FiniteList(x.out)
  BY DEF IndexOk, Mirrored, Twofold, RecomputeEdgeCount
<1>3. FiniteList(r.out) /\ r.count = Size(r.out) /\ r.in = r.out
  BY <1>1, <1>2, SizeAdded
<1>4. IndexOk(r)
  BY <1>1, <1>3 DEF IndexOk, FilesFit, Mirrored, Twofold, RecomputeEdgeCount
<1>5. QED
  BY <1>1, <1>4 DEF r, Added

LEMMA RenameNodeOk ==
  ASSUME NEW x, IndexOk(x), NEW i, NEW name
  PROVE  IndexOk(RenameNode(x, i, name))
<1> DEFINE r == RenameNode(x, i, name)
<1>1. CASE i \notin DOMAIN x.nodes \/ x.nodes[i].name = name
  BY <1>1 DEF RenameNode
<1>2. CASE i \in DOMAIN x.nodes /\ x.nodes[i].name # name
  <2>1. /\ IsIndex(r) /\ r.out = x.out /\ r.in = x.in /\ r.count = x.count /\ r.files = x.files
        /\ r.nodes = [x.nodes EXCEPT ![i].name = name]
        /\ r.names = Without(x.names, {<<x.nodes[i].name, i>>}) (+) SetToBag({<<name, i>>})
    BY <1>2 DEF RenameNode, IndexOk, IsIndex
  <2>2. DOMAIN r.names = (DOMAIN x.names \ {<<x.nodes[i].name, i>>}) \cup {<<name, i>>}
    <3> HIDE DEF r
    <3> QED
      BY <2>1 DEF (+), SetToBag, Without
  <2> HIDE DEF r
  <2>3. /\ DOMAIN r.nodes = DOMAIN x.nodes
        /\ r.nodes[i] = [x.nodes[i] EXCEPT !.name = name]
        /\ \A j \in DOMAIN x.nodes \ {i} : r.nodes[j] = x.nodes[j]
    BY <1>2, <2>1
  <2>4. IsNode(r.nodes[i]) /\ r.nodes[i].name = name /\ r.nodes[i].unit = x.nodes[i].unit
    <3>1. IsNode(x.nodes[i])
      BY <1>2 DEF IndexOk
    <3>2. QED
      BY <2>3, <3>1 DEF IsNode
  <2>5. \A j \in DOMAIN r.nodes : IsNode(r.nodes[j]) /\ <<r.nodes[j].name, j>> \in DOMAIN r.names
    BY <2>2, <2>3, <2>4 DEF IndexOk
  <2>6. FilesFit(r)
    BY <2>1, <2>3, <2>4 DEF IndexOk, FilesFit
  <2>7. QED
    BY <2>1, <2>5, <2>6 DEF r, IndexOk, Mirrored, Twofold, RecomputeEdgeCount
<1>3. QED
  BY <1>1, <1>2

-----------------------------------------------------------------------------
(* Updates *)

LEMMA ParseFileIs ==
  ASSUME NEW f, NEW text, IsText(text)
  PROVE  LET p == ParseFile(f, text)
         IN /\ NodesOk(p.nodes) /\ \A i \in DOMAIN p.nodes : p.nodes[i].unit = NoUnit
            /\ IsFiniteSet(DOMAIN p.nodes) /\ IsFiniteSet(p.edges)
<1>1. IsFiniteSet(DOMAIN Parsed(f, text).nodes) /\ IsFiniteSet(DOMAIN Parsed(f, text).edges)
  BY ParsedIs DEF EdgesOk
<1>2. IsFiniteSet(Values(Parsed(f, text).edges))
  BY <1>1, FiniteValues
<1>3. QED
  BY <1>1, <1>2 DEF ParseFile, NodesOk, IsNode

LEMMA ClonedIs ==
  ASSUME NEW x, IndexOk(x)
  PROVE  IndexOk(Cloned(x)) /\ Cloned(x).nodes = x.nodes /\ DOMAIN Cloned(x).out = DOMAIN x.out
<1> DEFINE rows == SetToBag(DOMAIN x.out)
<1>1. DOMAIN rows = DOMAIN x.out /\ FiniteList(rows)
  BY DEF SetToBag, IndexOk, FiniteList
<1>2. NodesOk(x.nodes)
  BY DEF IndexOk, NodesOk
<1>3. QED
  BY <1>1, <1>2, FromGraphOk DEF Cloned, FromRows, FromGraph

LEMMA RepairedIs ==
  ASSUME NEW y, IndexOk(y), NEW x, IndexOk(x), NEW f, NEW text, IsText(text), NEW unit
  PROVE  LET p == ParseFile(f, text)
             z == RepairIncoming(RepairCrossFile(y, p), x, unit, p.nodes)
         IN IndexOk(z) /\ z.nodes = y.nodes /\ DOMAIN y.out \subseteq DOMAIN z.out
<1> DEFINE p == ParseFile(f, text)
           new == p.nodes
           Led(i) == {e \in DOMAIN x.out : /\ e.source \in NodesByName(x, new[i].name) \ {i}
                                           /\ Unchanged(x, unit, e.source)
                                           /\ Namesake(x, unit, e.target, new[i].name)}
           Turned(i) == Values([l \in Led(i) |-> [l EXCEPT !.target = i]])
           across == {e \in p.edges : CrossFile(e) /\ e.source \in DOMAIN new}
           incoming == UNION Values([i \in DOMAIN new |-> Turned(i)])
<1>1. IsFiniteSet(across)
  BY ParseFileIs, FS_Subset
<1>2. IsFiniteSet(incoming)
  <2>1. ASSUME NEW i
        PROVE  IsFiniteSet(Turned(i))
    <3>1. IsFiniteSet(Led(i))
      BY FS_Subset DEF IndexOk, FiniteList
    <3> HIDE DEF Led
    <3>2. QED
      BY <3>1, FiniteValues
  <2>2. IsFiniteSet(DOMAIN new)
    BY ParseFileIs
  <2> HIDE DEF new, Turned
  <2> DEFINE each == [i \in DOMAIN new |-> Turned(i)]
  <2>3. IsFiniteSet(Values(each)) /\ \A T \in Values(each) : IsFiniteSet(T)
    BY <2>1, <2>2, FiniteValues DEF Values
  <2> HIDE DEF each
  <2>4. IsFiniteSet(UNION Values(each))
    BY <2>3, FS_UNION
  <2>5. QED
    BY <2>4 DEF each
<1>3. RepairCrossFile(y, p) = UpsertEdges(y, across)
  BY DEF RepairCrossFile
<1>4. \A z : RepairIncoming(z, x, unit, new) = UpsertEdges(z, incoming)
  <2>1. \A i : Turned(i) = {[l EXCEPT !.target = i] : l \in Led(i)}
    BY DEF Values
  <2> HIDE DEF p, Turned
  <2>2. incoming = UNION {Turned(i) : i \in DOMAIN new}
    <3> HIDE DEF new
    <3> QED
      BY DEF Values
  <2> HIDE DEF incoming
  <2>3. incoming = UNION {{[l EXCEPT !.target = i] : l \in Led(i)} : i \in DOMAIN new}
    BY <2>1, <2>2
  <2>4. QED
    BY <2>3, Zenon DEF RepairIncoming
<1> HIDE DEF p, across, incoming
<1>5. QED
  BY <1>1, <1>2, <1>3, <1>4, UpsertEdgesIs DEF p

\* What an update of one file leaves of the index.
Local(x, y, f, text) ==
  LET old == NodesByFile(x, UnitOf(f, "located")) \cap DOMAIN x.nodes
  IN /\ DOMAIN x.nodes \ old \subseteq DOMAIN y.nodes
     /\ \A i \in DOMAIN x.nodes \cap DOMAIN y.nodes : i \notin DOMAIN ParseFile(f, text).nodes => y.nodes[i] = x.nodes[i]
     /\ \A l \in DOMAIN x.out : {l.source, l.target} \cap old = {} => l \in DOMAIN y.out

LEMMA UpdateGoneIs ==
  ASSUME NEW x, IndexOk(x), NEW gone
  PROVE  LET y == UpdateGone(x, gone)
         IN /\ IndexOk(y)
            /\ gone = {} => /\ DOMAIN y.nodes = DOMAIN x.nodes
                            /\ \A i \in DOMAIN x.nodes : y.nodes[i] = x.nodes[i]
                            /\ DOMAIN y.out = DOMAIN x.out
<1> DEFINE S == UNION {NodesByFile(x, UnitOf(g, "located")) : g \in gone}
<1>1. gone = {} => S = {}
  OBVIOUS
<1> HIDE DEF S
<1>2. UpdateGone(x, gone) = RemoveNodes(Cloned(x), S)
  BY DEF UpdateGone, S
<1> DEFINE c == Cloned(x)
           y == RemoveNodes(c, S)
<1>3. IndexOk(c) /\ c.nodes = x.nodes /\ DOMAIN c.out = DOMAIN x.out
  BY ClonedIs
<1> HIDE DEF c
<1>4. /\ IndexOk(y)
      /\ DOMAIN y.nodes = DOMAIN c.nodes \ S /\ \A i \in DOMAIN y.nodes : y.nodes[i] = c.nodes[i]
      /\ DOMAIN y.out = DOMAIN c.out \ {l \in DOMAIN c.out : l.source \in S \/ l.target \in S}
  BY <1>3, RemoveNodesIs
<1> HIDE DEF y
<1>5. QED
  BY <1>1, <1>2, <1>3, <1>4 DEF c, y

LEMMA UpdateIs ==
  ASSUME NEW x, IndexOk(x), NEW gone, NEW f, NEW text, IsText(text), NEW y \in Update(x, gone, f, text)
  PROVE  IndexOk(y) /\ (gone = {} => Local(x, y, f, text))
<1> DEFINE p == ParseFile(f, text)
           unit == UnitOf(f, "located")
           old == NodesByFile(x, unit) \cap DOMAIN x.nodes
           kept == UpdateGone(x, gone)
<1>1. PICK m \in Matchings(x, old, p.nodes) :
        y = Validated(RepairIncoming(RepairCrossFile(InsertNodes(RemoveNodes(kept, old \ m), p.nodes), p), x, unit, p.nodes),
                      x, p.errors)
  BY Zenon DEF Update, UpdateParsed
<1> DEFINE r == RemoveNodes(kept, old \ m)
           d == InsertNodes(r, p.nodes)
           z == RepairIncoming(RepairCrossFile(d, p), x, unit, p.nodes)
<1>2. CASE y = x
  BY <1>2 DEF Local
<1>3. CASE y = z
  <2>1. /\ IndexOk(kept)
        /\ gone = {} => /\ DOMAIN kept.nodes = DOMAIN x.nodes
                        /\ \A i \in DOMAIN x.nodes : kept.nodes[i] = x.nodes[i]
                        /\ DOMAIN kept.out = DOMAIN x.out
    BY UpdateGoneIs
  <2>2. /\ IndexOk(r)
        /\ DOMAIN r.nodes = DOMAIN kept.nodes \ (old \ m)
        /\ \A i \in DOMAIN r.nodes : r.nodes[i] = kept.nodes[i]
        /\ DOMAIN r.out = DOMAIN kept.out \ {l \in DOMAIN kept.out : l.source \in old \ m \/ l.target \in old \ m}
    <3> HIDE DEF kept, old
    <3> QED
      BY <2>1, RemoveNodesIs
  <2>3. NodesOk(p.nodes) /\ \A i \in DOMAIN p.nodes : p.nodes[i].unit = NoUnit
    BY ParseFileIs
  <2> HIDE DEF r, p
  <2>4. /\ IndexOk(d)
        /\ DOMAIN d.nodes = DOMAIN r.nodes \cup DOMAIN p.nodes
        /\ \A i \in DOMAIN d.nodes : d.nodes[i] = IF i \in DOMAIN p.nodes THEN p.nodes[i] ELSE r.nodes[i]
        /\ d.out = r.out
    BY <2>2, <2>3, InsertNodesIs
  <2> HIDE DEF d
  <2>5. IndexOk(z) /\ z.nodes = d.nodes /\ DOMAIN d.out \subseteq DOMAIN z.out
    BY <2>4, RepairedIs DEF p
  <2> HIDE DEF z
  <2>6. ASSUME gone = {}
        PROVE  Local(x, z, f, text)
    <3> HIDE DEF kept, old
    <3>1. /\ DOMAIN kept.nodes = DOMAIN x.nodes
          /\ \A i \in DOMAIN x.nodes : kept.nodes[i] = x.nodes[i]
          /\ DOMAIN kept.out = DOMAIN x.out
      BY <2>1, <2>6
    <3>2. DOMAIN x.nodes \ old \subseteq DOMAIN z.nodes
      BY <2>2, <2>4, <2>5, <3>1
    <3>3. \A i \in DOMAIN x.nodes \cap DOMAIN z.nodes : i \notin DOMAIN p.nodes => z.nodes[i] = x.nodes[i]
      BY <2>2, <2>4, <2>5, <3>1
    <3>4. \A l \in DOMAIN x.out : {l.source, l.target} \cap old = {} => l \in DOMAIN z.out
      BY <2>2, <2>4, <2>5, <3>1
    <3>5. QED
      BY <3>2, <3>3, <3>4 DEF Local, p, old
  <2>7. QED
    BY <1>3, <2>5, <2>6
<1>4. QED
  BY <1>1, <1>2, <1>3 DEF Validated

-----------------------------------------------------------------------------
(* The index *)

LEMMA NewOk == IndexOk(New)
<1>1. FiniteList(EmptyBag) /\ Size(EmptyBag) = 0
  <2>1. DOMAIN EmptyBag = {}
    BY DEF EmptyBag, SetToBag
  <2>2. Slots(EmptyBag) = {}
    BY <2>1 DEF Slots
  <2>3. QED
    BY <2>1, <2>2, FS_EmptySet DEF FiniteList, Size
<1>2. DOMAIN EmptyBag = {}
  BY DEF EmptyBag, SetToBag
<1> HIDE DEF EmptyBag
<1>3. QED
  BY <1>1, <1>2 DEF New, IndexOk, IsIndex, Mirrored, Twofold, RecomputeEdgeCount, FilesFit

LEMMA BuiltOk ==
  ASSUME NEW g, EdgesOk(g)
  PROVE  IndexOk(FromGraph([i \in DOMAIN g.nodes |-> IndexNode(g.nodes[i])], EdgeBag(g)))
<1>1. IsFiniteSet(Values(g.edges))
  BY FiniteValues DEF EdgesOk
<1>2. ASSUME NEW l
      PROVE  Cardinality({k \in DOMAIN g.edges : g.edges[k] = l}) \in Nat
  BY FS_Subset, FS_CardinalityType DEF EdgesOk
<1>3. FiniteList(EdgeBag(g))
  BY <1>1, <1>2 DEF FiniteList, EdgeBag
<1>4. NodesOk([i \in DOMAIN g.nodes |-> IndexNode(g.nodes[i])])
  BY DEF NodesOk, IsNode, IndexNode
<1>5. QED
  BY <1>3, <1>4, FromGraphOk

LEMMA IndexNext == GInv /\ IndexOk(index) /\ [Next]_vars => IndexOk(index)'
<1> SUFFICES ASSUME GInv, IndexOk(index), [Next]_vars
             PROVE  IndexOk(index')
  OBVIOUS
<1>1. CASE BuildIndex
  BY <1>1, BuiltOk DEF BuildIndex, GInv
<1>2. CASE Rename
  BY <1>2, RenameNodeOk DEF Rename
<1>3. CASE WriteFile
  BY <1>3, TextOk, UpdateIs DEF WriteFile
<1>4. CASE RemoveFile
  BY <1>4, UpdateGoneIs DEF RemoveFile
<1>5. CASE UNCHANGED index
  BY <1>5
<1>6. QED
  BY <1>1, <1>2, <1>3, <1>4, <1>5
     DEF Next, vars, Merge, Resolve, Couple, DetectRoutes, RoutesDone, SynthesizeCallbacks, CallbacksDone, SynthesizeFlow,
         StartCommunities, VisitNode, NextPass, Alone, Unindexed

LEMMA IndexInvariance == Spec => [](GInv /\ IndexOk(index))
<1>1. Init => IndexOk(index)
  BY NewOk DEF Init
<1>2. QED
  BY <1>1, GInit, GNext, IndexNext, PTL DEF Spec

\* Through any sequence of renames and updates of any index that an analysis built:
\* the lists of both directions hold the same edges, the counter is their number,
\* and a node is found by its name (MemoryIndex and its mutators).
THEOREM IndexStaysCoherent == Spec => []IndexCoherent
<1>1. IndexOk(index) => IndexCoherent
  <2>1. ASSUME IndexOk(index), NEW i \in DOMAIN index.nodes
        PROVE  i \in NodesByName(index, index.nodes[i].name)
    <3>1. <<index.nodes[i].name, i>> \in DOMAIN index.names
      BY <2>1 DEF IndexOk
    <3>2. QED
      BY <3>1 DEF NodesByName
  <2>2. QED
    BY <2>1 DEF IndexCoherent, IndexOk
<1>2. QED
  BY <1>1, IndexInvariance, PTL

\* Writing a file, however the old nodes are matched, takes no node and no edge from
\* other files, and changes none of theirs but those whose ids the file gives itself
\* (IncrementalUpdater::update, and its validation).
THEOREM UpdatesStayLocal == Spec => UpdateIsLocal
<1>1. ASSUME GInv, IndexOk(index), [Next]_vars, NEW f \in DOMAIN project', Wrote(f)
      PROVE  LocalTo(f)
  <2>1. CASE WriteFile
    <3>1. PICK g, text, gone :
            /\ text \in Text /\ gone \in {{}} \cup {{h} : h \in DOMAIN project} /\ g \notin gone
            /\ index' \in Update(index, gone, g, text)
            /\ project' = [h \in (DOMAIN project \ gone) \cup {g} |-> IF h = g THEN text ELSE project[h]]
      BY <2>1 DEF WriteFile
    <3>2. gone = {} /\ f = g /\ project'[f] = text
      BY <1>1, <3>1 DEF Wrote
    <3>3. Local(index, index', f, text)
      BY <1>1, <3>1, <3>2, TextOk, UpdateIs
    <3> DEFINE old == NodesByFile(index, UnitOf(f, "located")) \cap DOMAIN index.nodes
    <3>4. Outside(index, f) \cap old = {} /\ Outside(index, f) \subseteq DOMAIN index.nodes
      BY <1>1 DEF Outside, IndexOk, FilesFit, NodesByFile, Located
    <3> HIDE DEF old
    <3>5. Outside(index, f) \subseteq DOMAIN index'.nodes
      BY <3>3, <3>4 DEF Local, old
    <3> DEFINE before == GraphFromIndex(index)
               after == GraphFromIndex(index')
    <3>6. /\ before.nodes = index.nodes /\ DOMAIN before.edges = {EdgeKey(l) : l \in DOMAIN index.out}
          /\ after.nodes = index'.nodes /\ DOMAIN after.edges = {EdgeKey(l) : l \in DOMAIN index'.out}
      BY DEF GraphFromIndex
    <3> HIDE DEF before, after
    <3>7. Outside(index, f) \cap Diff(before, after).removed = {}
      BY <3>5, <3>6 DEF Diff
    <3>8. Outside(index, f) \cap Diff(before, after).modified \subseteq DOMAIN ParseFile(f, text).nodes
      BY <3>3, <3>6 DEF Diff, Local
    <3>9. ASSUME NEW k \in Diff(before, after).removedEdges, {k[1], k[2]} \subseteq Outside(index, f)
          PROVE  FALSE
      <4>1. PICK l \in DOMAIN index.out : k = EdgeKey(l)
        BY <3>6 DEF Diff
      <4>2. {l.source, l.target} \cap old = {}
        BY <3>4, <3>9, <4>1 DEF EdgeKey
      <4>3. l \in DOMAIN index'.out
        BY <3>3, <4>2 DEF Local, old
      <4>4. QED
        BY <3>6, <4>1, <4>3 DEF Diff
    <3>10. QED
      BY <3>2, <3>7, <3>8, <3>9 DEF LocalTo, before, after
  <2>2. CASE RemoveFile
    BY <1>1, <2>2 DEF RemoveFile, Wrote
  <2>3. CASE stage # "ready" \/ project' = project
    BY <1>1, <2>3 DEF Wrote
  <2>4. QED
    BY <1>1, <2>1, <2>2, <2>3
       DEF Next, vars, Merge, Resolve, Couple, DetectRoutes, RoutesDone, SynthesizeCallbacks, CallbacksDone, SynthesizeFlow,
           StartCommunities, VisitNode, NextPass, BuildIndex, Rename
<1>2. GInv /\ IndexOk(index) /\ [Next]_vars => [\A f \in DOMAIN project' : Wrote(f) => LocalTo(f)]_vars
  BY <1>1
<1>3. QED
  BY <1>2, IndexInvariance, PTL DEF Spec, UpdateIsLocal

-----------------------------------------------------------------------------
(* Communities *)

\* What the loops run on: finitely many edges, m of them or fewer, between nodes.
WorkOk(w) ==
  /\ IsFiniteSet(DOMAIN w.edges)
  /\ w.m \in Nat /\ Cardinality(DOMAIN w.edges) <= w.m
  /\ \A k \in DOMAIN w.edges : {w.edges[k].source, w.edges[k].target} \subseteq NodesOf(w)

LEMMA HalvesAre ==
  ASSUME NEW w, WorkOk(w)
  PROVE  /\ IsFiniteSet(Halves(w)) /\ Cardinality(Halves(w)) \in Nat /\ Cardinality(Halves(w)) <= 2 * w.m
         /\ \A h \in Halves(w) : h[1] \in DOMAIN w.edges /\ {NodeAt(w, h), Neighbor(w, h)} \subseteq NodesOf(w)
<1>1. IsFiniteSet({"source", "target"}) /\ Cardinality({"source", "target"}) = 2
  <2>1. {"source", "target"} = {"source"} \cup {"target"} /\ "target" \notin {"source"}
    OBVIOUS
  <2>2. IsFiniteSet({"source"}) /\ Cardinality({"source"}) = 1
    BY FS_Singleton
  <2>3. QED
    BY <2>1, <2>2, FS_AddElement
<1>2. Cardinality(DOMAIN w.edges) \in Nat
  BY FS_CardinalityType DEF WorkOk
<1>3. IsFiniteSet(Halves(w)) /\ Cardinality(Halves(w)) = Cardinality(DOMAIN w.edges) * 2
  BY <1>1, FS_Product DEF WorkOk, Halves
<1>4. \A h \in Halves(w) : h[1] \in DOMAIN w.edges /\ h[2] \in {"source", "target"}
  BY DEF Halves
<1>5. QED
  BY <1>2, <1>3, <1>4 DEF WorkOk, NodeAt, Neighbor

\* Of two sets that are apart the sizes add up.
LEMMA TwoParts ==
  ASSUME NEW P, NEW Q, IsFiniteSet(P \cup Q), P \cap Q = {}
  PROVE  /\ IsFiniteSet(P) /\ IsFiniteSet(Q) /\ Cardinality(P) \in Nat /\ Cardinality(Q) \in Nat
         /\ Cardinality(P \cup Q) = Cardinality(P) + Cardinality(Q)
<1>1. IsFiniteSet(P) /\ IsFiniteSet(Q)
  BY FS_Subset
<1>2. Cardinality(P) \in Nat /\ Cardinality(Q) \in Nat
  BY <1>1, FS_CardinalityType
<1>3. Cardinality(P \cup Q) = Cardinality(P) + Cardinality(Q) - Cardinality({})
  BY <1>1, FS_Union
<1>4. QED
  BY <1>1, <1>2, <1>3, FS_EmptySet

\* Pairs across two sets that are apart, either way round.
LEMMA PairsAcross ==
  ASSUME NEW K, NEW B, IsFiniteSet(K), IsFiniteSet(B), K \cap B = {}
  PROVE  /\ IsFiniteSet((K \X B) \cup (B \X K)) /\ Cardinality(K) * Cardinality(B) \in Nat
         /\ Cardinality((K \X B) \cup (B \X K)) = 2 * (Cardinality(K) * Cardinality(B))
<1>1. Cardinality(K) \in Nat /\ Cardinality(B) \in Nat
  BY FS_CardinalityType
<1>2. /\ IsFiniteSet(K \X B) /\ Cardinality(K \X B) = Cardinality(K) * Cardinality(B)
      /\ IsFiniteSet(B \X K) /\ Cardinality(B \X K) = Cardinality(B) * Cardinality(K)
  BY FS_Product
<1>3. Cardinality(K) * Cardinality(B) \in Nat /\ Cardinality(B) * Cardinality(K) = Cardinality(K) * Cardinality(B)
  BY <1>1
<1> DEFINE P == K \X B
           Q == B \X K
<1>4. P \cap Q = {}
  OBVIOUS
<1>5. IsFiniteSet(P \cup Q) /\ Cardinality(P \cup Q) = Cardinality(P) + Cardinality(Q)
  <2> HIDE DEF P, Q
  <2>1. IsFiniteSet(P \cup Q)
    BY <1>2, FS_Union DEF P, Q
  <2>2. QED
    BY <1>4, <2>1, TwoParts
<1>6. QED
  BY <1>2, <1>3, <1>5

LEMMA Exchange ==
  ASSUME NEW T, IsFiniteSet(T), NEW lost, lost \subseteq T, NEW won, IsFiniteSet(won), won \cap T = {}
  PROVE  /\ IsFiniteSet((T \ lost) \cup won)
         /\ Cardinality((T \ lost) \cup won) = Cardinality(T) - Cardinality(lost) + Cardinality(won)
<1> DEFINE rest == T \ lost
           all == rest \cup won
<1>1. rest \cup lost = T /\ rest \cap lost = {} /\ rest \cap won = {}
  OBVIOUS
<1> HIDE DEF rest
<1>2. /\ IsFiniteSet(rest) /\ Cardinality(rest) \in Nat /\ Cardinality(lost) \in Nat
      /\ Cardinality(T) = Cardinality(rest) + Cardinality(lost)
  BY <1>1, TwoParts
<1>3. IsFiniteSet(rest \cup won)
  BY <1>2, FS_Union
<1>4. Cardinality(all) = Cardinality(rest) + Cardinality(won) /\ Cardinality(won) \in Nat
  <2>1. rest \cup won = all
    OBVIOUS
  <2> HIDE DEF all
  <2>2. QED
    BY <1>1, <1>3, <2>1, TwoParts
<1>5. Cardinality(rest \cup won) = Cardinality(T) - Cardinality(lost) + Cardinality(won)
  <2> HIDE DEF all
  <2>1. QED
    BY <1>2, <1>4 DEF all
<1>6. QED
  BY <1>3, <1>5 DEF rest

\* The edges within a community that a node leaves or comes to.
LEMMA InsideMoves ==
  ASSUME NEW w, WorkOk(w), NEW old, DOMAIN old = NodesOf(w), NEW i \in NodesOf(w), NEW c, c # old[i],
         NEW moved, moved = [old EXCEPT ![i] = c]
  PROVE  /\ Cardinality(Inside(w, old)) \in Nat /\ Cardinality(Inside(w, moved)) \in Nat
         /\ Weight(w, old, i, c) \in Nat /\ Weight(w, old, i, old[i]) \in Nat
         /\ Cardinality(Inside(w, moved)) >=
              Cardinality(Inside(w, old)) + Weight(w, old, i, c) - Weight(w, old, i, old[i])
<1> DEFINE H == Halves(w)
           To(d) == {h \in Adj(w, i) : old[Neighbor(w, h)] = d}
           EdgesTo(d) == {h[1] : h \in To(d)}
           lost == Inside(w, old) \ Inside(w, moved)
<1>1. /\ \A n \in NodesOf(w) : moved[n] = IF n = i THEN c ELSE old[n]
      /\ \A k \in DOMAIN w.edges : {w.edges[k].source, w.edges[k].target} \subseteq NodesOf(w)
  BY DEF WorkOk
<1>2. IsFiniteSet(Inside(w, old)) /\ IsFiniteSet(Inside(w, moved))
  BY FS_Subset DEF WorkOk, Inside
<1>3. \A d : To(d) \subseteq H /\ IsFiniteSet(To(d)) /\ Cardinality(To(d)) \in Nat
  BY HalvesAre, FS_Subset, FS_CardinalityType DEF Adj
<1>4. \A d : Weight(w, old, i, d) = Cardinality(To(d))
  BY DEF Weight
<1>5. ASSUME NEW d
      PROVE  /\ [h \in To(d) |-> h[1]] \in Surjection(To(d), EdgesTo(d))
             /\ IsFiniteSet(EdgesTo(d)) /\ Cardinality(EdgesTo(d)) <= Cardinality(To(d))
  <2>1. [h \in To(d) |-> h[1]] \in Surjection(To(d), EdgesTo(d))
    BY DEF Surjection
  <2> HIDE DEF To, EdgesTo
  <2>2. QED
    BY <1>3, <2>1, FS_Surjection
<1>6. Cardinality(EdgesTo(c)) = Cardinality(To(c))
  <2>1. ASSUME NEW g \in To(c), NEW h \in To(c), g[1] = h[1]
        PROVE  g = h
    BY <2>1 DEF Adj, Halves, NodeAt, Neighbor
  <2>2. [h \in To(c) |-> h[1]] \in Injection(To(c), EdgesTo(c))
    BY <2>1 DEF Injection, IsInjective
  <2> HIDE DEF To, EdgesTo
  <2>3. QED
    BY <1>3, <1>5, <2>2, FS_Surjection
<1>7. EdgesTo(c) \subseteq Inside(w, moved) /\ EdgesTo(c) \cap Inside(w, old) = {}
  BY <1>1 DEF Adj, Halves, NodeAt, Neighbor, Inside
<1>8. lost \subseteq EdgesTo(old[i])
  <2>1. ASSUME NEW k \in lost
        PROVE  k \in EdgesTo(old[i])
    <3>1. /\ k \in DOMAIN w.edges /\ old[w.edges[k].source] = old[w.edges[k].target]
          /\ i \in {w.edges[k].source, w.edges[k].target}
      BY <1>1 DEF Inside
    <3>2. CASE w.edges[k].source = i
      <4>1. <<k, "source">> \in To(old[i])
        BY <3>1, <3>2 DEF Adj, Halves, NodeAt, Neighbor
      <4>2. QED
        BY <4>1
    <3>3. CASE w.edges[k].target = i
      <4>1. <<k, "target">> \in To(old[i])
        BY <3>1, <3>3 DEF Adj, Halves, NodeAt, Neighbor
      <4>2. QED
        BY <4>1
    <3>4. QED
      BY <3>1, <3>2, <3>3
  <2>2. QED
    BY <2>1
<1> HIDE DEF To, EdgesTo
<1> DEFINE kept == Inside(w, old) \cap Inside(w, moved)
<1>9. /\ Cardinality(lost) <= Cardinality(To(old[i])) /\ Cardinality(lost) \in Nat /\ Cardinality(kept) \in Nat
      /\ Cardinality(Inside(w, old)) = Cardinality(kept) + Cardinality(lost)
  <2>1. Cardinality(lost) <= Cardinality(EdgesTo(old[i]))
    BY <1>5, <1>8, FS_Subset
  <2>2. kept \cup lost = Inside(w, old) /\ kept \cap lost = {}
    OBVIOUS
  <2>3. /\ Cardinality(lost) \in Nat /\ Cardinality(kept) \in Nat
        /\ Cardinality(Inside(w, old)) = Cardinality(kept) + Cardinality(lost)
    <3> DEFINE all == Inside(w, old)
    <3>1. IsFiniteSet(all) /\ kept \cup lost = all /\ kept \cap lost = {}
      BY <1>2, <2>2
    <3> HIDE DEF kept, lost, all
    <3>2. Cardinality(lost) \in Nat /\ Cardinality(kept) \in Nat /\ Cardinality(all) = Cardinality(kept) + Cardinality(lost)
      BY <3>1, TwoParts
    <3>3. QED
      BY <3>2 DEF all
  <2> HIDE DEF kept, lost
  <2>4. Cardinality(EdgesTo(old[i])) \in Nat
    BY <1>5, FS_CardinalityType
  <2>5. Cardinality(EdgesTo(old[i])) <= Cardinality(To(old[i])) /\ Cardinality(To(old[i])) \in Nat
    BY <1>3, <1>5
  <2>6. QED
    BY <2>1, <2>3, <2>4, <2>5
<1>10. Cardinality(Inside(w, moved)) >= Cardinality(kept) + Cardinality(To(c)) /\ Cardinality(Inside(w, moved)) \in Nat
  <2> DEFINE both == kept \cup EdgesTo(c)
  <2>1. kept \cap EdgesTo(c) = {} /\ both \subseteq Inside(w, moved)
    BY <1>7
  <2>2. IsFiniteSet(both) /\ Cardinality(both) <= Cardinality(Inside(w, moved)) /\ Cardinality(both) \in Nat
        /\ Cardinality(Inside(w, moved)) \in Nat
    BY <1>2, <2>1, FS_Subset, FS_CardinalityType
  <2>3. Cardinality(both) = Cardinality(kept) + Cardinality(EdgesTo(c)) /\ Cardinality(kept) \in Nat
    <3>1. kept \cup EdgesTo(c) = both
      OBVIOUS
    <3> HIDE DEF both, kept
    <3>2. QED
      BY <2>1, <2>2, <3>1, TwoParts
  <2>4. QED
    BY <1>6, <2>2, <2>3
<1>11. QED
  BY <1>3, <1>4, <1>9, <1>10

\* Products of sums, which the provers multiply out one at a time.
LEMMA Balance ==
  ASSUME NEW m \in Nat, NEW in1 \in Nat, NEW in2 \in Nat, NEW wc \in Nat, NEW wa \in Nat, in2 >= in1 + wc - wa,
         NEW k \in Nat, NEW a \in Nat, NEW c \in Nat, NEW t1 \in Nat, NEW t2 \in Nat,
         t2 = t1 - 2 * (k * a) + 2 * (k * c)
  PROVE  4 * m * in2 - t2 >= (4 * m * in1 - t1) + 2 * (2 * m * (wc - wa) - k * (c - a))
<1>1. k * (c - a) = k * c - k * a
  OBVIOUS
<1> DEFINE more == in2 - (in1 + wc - wa)
<1>2. more \in Nat /\ in2 = in1 + (wc - wa) + more
  OBVIOUS
<1> HIDE DEF more
<1>3. m * in2 = m * in1 + m * (wc - wa) + m * more /\ m * more \in Nat
  BY <1>2
<1>4. 4 * m * in2 = 4 * (m * in2) /\ 4 * m * in1 = 4 * (m * in1) /\ 2 * m * (wc - wa) = 2 * (m * (wc - wa))
  OBVIOUS
<1> DEFINE x == m * in1
           y == m * (wc - wa)
           z == m * more
           u == k * c
           v == k * a
<1>5. x \in Int /\ y \in Int /\ z \in Nat /\ u \in Int /\ v \in Int
  BY <1>3
<1>6. m * in2 = x + y + z /\ k * (c - a) = u - v /\ t2 = t1 - 2 * v + 2 * u
  BY <1>1, <1>3
<1>7. 4 * m * in2 = 4 * (x + y + z) /\ 4 * m * in1 = 4 * x /\ 2 * m * (wc - wa) = 2 * y
  BY <1>4, <1>6
<1> HIDE DEF x, y, z, u, v
<1>8. QED
  BY <1>5, <1>6, <1>7

LEMMA MoveRaises ==
  ASSUME NEW w, WorkOk(w), NEW old, DOMAIN old = NodesOf(w), NEW i \in NodesOf(w), NEW c, c # old[i],
         NEW moved, moved = [old EXCEPT ![i] = c]
  PROVE  Modularity(w, moved) >= Modularity(w, old) + 2 * Gain(w, old, i, c)
<1> DEFINE H == Halves(w)
           K == Adj(w, i)
           In(d) == {h \in H : old[NodeAt(w, h)] = d}
           A == In(old[i]) \ K
           C == In(c)
<1>1. /\ \A n \in NodesOf(w) : moved[n] = IF n = i THEN c ELSE old[n]
      /\ \A h \in H : NodeAt(w, h) \in NodesOf(w)
  BY HalvesAre
<1>2. K \subseteq H /\ A \subseteq H /\ C \subseteq H /\ K \cap A = {} /\ K \cap C = {} /\ A \cap C = {}
  BY DEF Adj
<1>3. \A h \in H : moved[NodeAt(w, h)] = IF h \in K THEN c ELSE old[NodeAt(w, h)]
  BY <1>1 DEF Adj
<1>4. \A h \in K : old[NodeAt(w, h)] = old[i]
  BY DEF Adj
<1> DEFINE T == Together(w, old)
           U == Together(w, moved)
           lost == (K \X A) \cup (A \X K)
           won == (K \X C) \cup (C \X K)
<1>5. T \subseteq H \X H /\ lost \subseteq T /\ won \cap T = {} /\ U = (T \ lost) \cup won
  BY <1>2, <1>3, <1>4 DEF Together
<1>6. /\ Cardinality(T) \in Nat /\ Cardinality(U) \in Nat
      /\ Cardinality(U) = Cardinality(T) - 2 * (Cardinality(K) * Cardinality(A)) + 2 * (Cardinality(K) * Cardinality(C))
  <2>1. IsFiniteSet(H) /\ IsFiniteSet(H \X H)
    BY HalvesAre, FS_Product
  <2>2. IsFiniteSet(K) /\ IsFiniteSet(A) /\ IsFiniteSet(C)
    <3> HIDE DEF H, K, A, C
    <3>1. QED
      BY <1>2, <2>1, FS_Subset
  <2>3. IsFiniteSet(T) /\ Cardinality(T) \in Nat
    <3> HIDE DEF H, T
    <3>1. QED
      BY <1>5, <2>1, FS_Subset, FS_CardinalityType
  <2> HIDE DEF H, K, A, C
  <2>4. /\ IsFiniteSet(lost) /\ Cardinality(lost) = 2 * (Cardinality(K) * Cardinality(A))
        /\ IsFiniteSet(won) /\ Cardinality(won) = 2 * (Cardinality(K) * Cardinality(C))
        /\ Cardinality(K) * Cardinality(A) \in Nat /\ Cardinality(K) * Cardinality(C) \in Nat
    BY <1>2, <2>2, PairsAcross
  <2> HIDE DEF lost, won, T, U
  <2>5. /\ IsFiniteSet((T \ lost) \cup won)
        /\ Cardinality((T \ lost) \cup won) = Cardinality(T) - Cardinality(lost) + Cardinality(won)
    BY <1>5, <2>3, <2>4, Exchange
  <2>6. IsFiniteSet(U) /\ Cardinality(U) = Cardinality(T) - Cardinality(lost) + Cardinality(won)
    BY <1>5, <2>5
  <2>7. Cardinality(U) \in Nat
    BY <2>6, FS_CardinalityType
  <2>8. QED
    BY <2>3, <2>4, <2>6, <2>7
<1>7. /\ CommunityTotal(w, old, old[i]) - Degree(w, i) = Cardinality(A) /\ CommunityTotal(w, old, c) = Cardinality(C)
      /\ Degree(w, i) = Cardinality(K) /\ Cardinality(K) \in Nat /\ Cardinality(A) \in Nat /\ Cardinality(C) \in Nat
  <2>1. K \cup A = In(old[i]) /\ K \cap A = {} /\ In(old[i]) \subseteq H /\ C \subseteq H
    BY <1>2, <1>4
  <2>2. IsFiniteSet(In(old[i])) /\ Cardinality(C) \in Nat
    BY <2>1, HalvesAre, FS_Subset, FS_CardinalityType
  <2>3. CommunityTotal(w, old, old[i]) = Cardinality(In(old[i])) /\ CommunityTotal(w, old, c) = Cardinality(C)
    BY DEF CommunityTotal
  <2>4. Degree(w, i) = Cardinality(K)
    BY DEF Degree
  <2> HIDE DEF In, K, A, C
  <2>5. Cardinality(In(old[i])) = Cardinality(K) + Cardinality(A) /\ Cardinality(K) \in Nat /\ Cardinality(A) \in Nat
    BY <2>1, <2>2, TwoParts
  <2>6. QED
    BY <2>2, <2>3, <2>4, <2>5
<1>8. w.m \in Nat
  BY DEF WorkOk
<1> HIDE DEF H, K, A, C
<1>9. Gain(w, old, i, c) =
        2 * w.m * (Weight(w, old, i, c) - Weight(w, old, i, old[i])) - Cardinality(K) * (Cardinality(C) - Cardinality(A))
  BY <1>7 DEF Gain
<1> DEFINE in1 == Cardinality(Inside(w, old))
           in2 == Cardinality(Inside(w, moved))
           wc == Weight(w, old, i, c)
           wa == Weight(w, old, i, old[i])
<1>10. in1 \in Nat /\ in2 \in Nat /\ wc \in Nat /\ wa \in Nat /\ in2 >= in1 + wc - wa
  BY InsideMoves
<1>11. /\ Modularity(w, moved) = 4 * w.m * in2 - Cardinality(U) /\ Modularity(w, old) = 4 * w.m * in1 - Cardinality(T)
       /\ Gain(w, old, i, c) = 2 * w.m * (wc - wa) - Cardinality(K) * (Cardinality(C) - Cardinality(A))
  BY <1>9 DEF Modularity
<1> HIDE DEF in1, in2, wc, wa, T, U
<1>12. QED
  BY <1>6, <1>7, <1>8, <1>10, <1>11, Balance

\* A set of numbers has a least one.
LEMMA Least ==
  ASSUME NEW T, T \subseteq Nat, T # {}
  PROVE  \E m \in T : \A n \in T : m <= n
<1> DEFINE R == OpToRel(<, Nat)
<1>1. \A x, y \in Nat : <<y, x>> \in R <=> y < x
  BY DEF OpToRel
<1>2. IsWellFoundedOn(R, Nat)
  BY NatLessThanWellFounded
<1> HIDE DEF R
<1>3. PICK m \in T : \A n \in T : <<n, m>> \notin R
  BY <1>2, WFMin
<1>4. \A n \in T : n \in Nat /\ m \in Nat /\ ~(n < m)
  BY <1>1, <1>3
<1>5. QED
  BY <1>3, <1>4

\* What f takes to c, and what it takes into D.
PartOf(X, f, c) == {x \in X : f[x] = c}
Reaching(X, f, D) == {x \in X : f[x] \in D}

LEMMA OnePart ==
  ASSUME NEW X, IsFiniteSet(X), NEW f, NEW D, NEW c, c \in D
  PROVE  /\ Cardinality(Reaching(X, f, D)) \in Nat /\ Cardinality(Reaching(X, f, D \ {c})) \in Nat
         /\ Cardinality(PartOf(X, f, c)) \in Nat
         /\ Cardinality(Reaching(X, f, D)) = Cardinality(Reaching(X, f, D \ {c})) + Cardinality(PartOf(X, f, c))
<1> DEFINE S == Reaching(X, f, D)
           P == Reaching(X, f, D \ {c})
           Q == PartOf(X, f, c)
<1>1. S \subseteq X /\ P \cup Q = S /\ P \cap Q = {}
  BY DEF Reaching, PartOf
<1> HIDE DEF S, P, Q
<1>2. IsFiniteSet(S)
  BY <1>1, FS_Subset
<1>3. Cardinality(S) = Cardinality(P) + Cardinality(Q) /\ Cardinality(P) \in Nat /\ Cardinality(Q) \in Nat
  BY <1>1, <1>2, TwoParts
<1>4. QED
  BY <1>3 DEF S, P, Q

\* What holds of each part of two sets holds of them: otherwise take the least
\* union of parts for which it fails, and one part out of it.
LEMMA PartByPart ==
  ASSUME NEW X, IsFiniteSet(X), NEW Y, IsFiniteSet(Y), NEW f, NEW g, NEW p \in Nat, NEW q \in Nat,
         \A c : p * Cardinality(PartOf(X, f, c)) <= q * Cardinality(PartOf(Y, g, c))
  PROVE  p * Cardinality(X) <= q * Cardinality(Y)
<1> DEFINE Xs(D) == Reaching(X, f, D)
           Ys(D) == Reaching(Y, g, D)
           Fits(D) == p * Cardinality(Xs(D)) <= q * Cardinality(Ys(D))
           Bad == {n \in Nat : \E D : Cardinality(Xs(D)) = n /\ ~Fits(D)}
<1>1. ASSUME NEW D
      PROVE  IsFiniteSet(Xs(D)) /\ IsFiniteSet(Ys(D)) /\ Cardinality(Xs(D)) \in Nat /\ Cardinality(Ys(D)) \in Nat
  <2>1. Xs(D) \subseteq X /\ Ys(D) \subseteq Y
    BY DEF Reaching
  <2> HIDE DEF Xs, Ys
  <2>2. IsFiniteSet(Xs(D)) /\ IsFiniteSet(Ys(D))
    BY <2>1, FS_Subset
  <2>3. QED
    BY <2>2, FS_CardinalityType
<1>2. \A k \in Nat : q * k >= 0 /\ p * 0 = 0
  OBVIOUS
<1>3. \A a, b, s, t \in Nat : p * a <= q * s /\ p * b <= q * t => p * (a + b) <= q * (s + t)
  <2>1. ASSUME NEW a \in Nat, NEW b \in Nat, NEW s \in Nat, NEW t \in Nat, p * a <= q * s, p * b <= q * t
        PROVE  p * (a + b) <= q * (s + t)
    <3>1. p * (a + b) = p * a + p * b /\ q * (s + t) = q * s + q * t
      OBVIOUS
    <3>2. p * a \in Nat /\ p * b \in Nat /\ q * s \in Nat /\ q * t \in Nat
      OBVIOUS
    <3>3. QED
      BY <2>1, <3>1, <3>2
  <2>2. QED
    BY <2>1
<1>4. Bad = {}
  <2> SUFFICES ASSUME Bad # {}
               PROVE  FALSE
    OBVIOUS
  <2>1. PICK n \in Bad : \A k \in Bad : n <= k
    <3> HIDE DEF Fits, Xs
    <3>1. Bad \subseteq Nat
      OBVIOUS
    <3> HIDE DEF Bad
    <3>2. QED
      BY <3>1, Least
  <2>2. PICK D : n \in Nat /\ Cardinality(Xs(D)) = n /\ ~Fits(D)
    BY <2>1
  <2>3. PICK x : x \in Xs(D)
    <3>1. CASE Xs(D) = {}
      <4>1. n = 0 /\ Cardinality(Ys(D)) \in Nat
        BY <1>1, <2>2, <3>1, FS_EmptySet
      <4> HIDE DEF Xs, Ys
      <4>2. QED
        BY <1>2, <2>2, <4>1
    <3>2. QED
      BY <3>1
  <2> DEFINE c == f[x]
             E == D \ {c}
             a == Cardinality(Xs(E))
             b == Cardinality(PartOf(X, f, c))
             s == Cardinality(Ys(E))
             t == Cardinality(PartOf(Y, g, c))
  <2>4. c \in D /\ x \in PartOf(X, f, c)
    BY <2>3 DEF Reaching, PartOf
  <2>5. /\ a \in Nat /\ b \in Nat /\ Cardinality(Xs(D)) = a + b
        /\ s \in Nat /\ t \in Nat /\ Cardinality(Ys(D)) = s + t
    <3>1. c \in D
      BY <2>4
    <3> HIDE DEF c
    <3>2. a \in Nat /\ b \in Nat /\ Cardinality(Xs(D)) = a + b
      BY <3>1, OnePart
    <3>3. s \in Nat /\ t \in Nat /\ Cardinality(Ys(D)) = s + t
      BY <3>1, OnePart
    <3>4. QED
      BY <3>2, <3>3
  <2>6. b # 0
    <3>1. IsFiniteSet(PartOf(X, f, c))
      BY FS_Subset DEF PartOf
    <3>2. QED
      BY <2>4, <3>1, FS_EmptySet
  <2>7. p * b <= q * t
    OBVIOUS
  <2> HIDE DEF a, b, s, t
  <2>8. a \notin Bad
    <3> HIDE DEF Bad
    <3>1. n \in Nat /\ a < n
      BY <2>2, <2>5, <2>6
    <3>2. QED
      BY <2>1, <2>5, <3>1
  <2>9. Fits(E)
    BY <2>5, <2>8 DEF a
  <2>10. p * a <= q * s
    BY <2>9 DEF a, s
  <2> HIDE DEF Xs, Ys, E, c
  <2>11. Fits(D)
    BY <1>3, <2>5, <2>7, <2>10
  <2>12. QED
    BY <2>2, <2>11
<1>5. \A D : Fits(D)
  BY <1>1, <1>4
<1> DEFINE all == {f[x] : x \in X} \cup {g[y] : y \in Y}
<1>6. Xs(all) = X /\ Ys(all) = Y
  BY DEF Reaching
<1>7. QED
  BY <1>5, <1>6

LEMMA NotBoth ==
  ASSUME NEW p \in Nat, NEW x \in Nat, NEW y \in Nat, NEW wa \in Nat, NEW ta \in Nat, NEW k \in Nat,
         k = x + wa, y + ta <= p, p * x <= k * y, k * (ta - k) - p * wa > 0
  PROVE  FALSE
<1>1. p * k = p * x + p * wa /\ k * (ta - k) = k * ta - k * k /\ k * (y + ta) = k * y + k * ta
  OBVIOUS
<1>2. k * p = k * (y + ta) + k * (p - (y + ta)) /\ k * (p - (y + ta)) >= 0 /\ k * p = p * k /\ k * k >= 0
  OBVIOUS
<1>3. /\ p * k \in Int /\ p * x \in Int /\ p * wa \in Int /\ k * ta \in Int /\ k * k \in Int /\ k * y \in Int
      /\ k * (p - (y + ta)) \in Int
  OBVIOUS
<1>4. QED
  BY <1>1, <1>2, <1>3

\* A node is never better alone: over all other communities it would have fewer
\* edges to them than its share, and so fewer edges than it has.
LEMMA NeverAlone ==
  ASSUME NEW w, WorkOk(w), NEW old, DOMAIN old = NodesOf(w), NEW i \in NodesOf(w),
         GainIsolated(w, old, i) > 0,
         \A c \in {old[j] : j \in NodesOf(w)} \ {old[i]} :
           Weight(w, old, i, c) > 0 => Gain(w, old, i, c) < GainIsolated(w, old, i)
  PROVE  FALSE
<1> DEFINE H == Halves(w)
           K == Adj(w, i)
           a == old[i]
           To(d) == {h \in K : old[Neighbor(w, h)] = d}
           In(d) == {h \in H : old[NodeAt(w, h)] = d}
           k == Cardinality(K)
           wa == Cardinality(To(a))
           ta == Cardinality(In(a))
<1>1. IsFiniteSet(H) /\ K \subseteq H /\ \A d : To(d) \subseteq H /\ In(d) \subseteq H
  BY HalvesAre DEF Adj
<1>2. /\ IsFiniteSet(K) /\ k \in Nat /\ wa \in Nat /\ ta \in Nat
      /\ \A d : Cardinality(To(d)) \in Nat /\ Cardinality(In(d)) \in Nat
  <2> HIDE DEF H, K, To, In
  <2>1. \A S \in SUBSET H : IsFiniteSet(S) /\ Cardinality(S) \in Nat
    BY <1>1, FS_Subset, FS_CardinalityType
  <2>2. QED
    BY <1>1, <2>1
<1>3. /\ \A d : Weight(w, old, i, d) = Cardinality(To(d)) /\ CommunityTotal(w, old, d) = Cardinality(In(d))
      /\ Degree(w, i) = k
  BY DEF Weight, CommunityTotal, Degree
<1>4. w.m \in Nat /\ 2 * w.m \in Nat
  BY DEF WorkOk
<1>5. k * (ta - k) - 2 * w.m * wa > 0
  BY <1>3 DEF GainIsolated
<1>6. ASSUME NEW c, c # a
      PROVE  2 * w.m * Cardinality(To(c)) <= k * Cardinality(In(c))
  <2>1. CASE To(c) = {}
    <3>1. Cardinality(To(c)) = 0
      BY <2>1, FS_EmptySet
    <3> HIDE DEF k, To, In
    <3>2. \A x \in Nat : k * x >= 0 /\ 2 * w.m * 0 = 0
      BY <1>2, <1>4
    <3>3. QED
      BY <1>2, <3>1, <3>2
  <2>2. CASE To(c) # {}
    <3>1. c \in {old[j] : j \in NodesOf(w)} \ {old[i]}
      BY <1>1, <1>6, <2>2, HalvesAre
    <3>2. Cardinality(To(c)) > 0
      <4>1. IsFiniteSet(To(c)) /\ Cardinality(To(c)) \in Nat
        BY <1>1, <1>2, FS_Subset
      <4> HIDE DEF To
      <4>2. Cardinality(To(c)) # 0
        BY <2>2, <4>1, FS_EmptySet
      <4>3. QED
        BY <4>1, <4>2
    <3>3. Gain(w, old, i, c) < GainIsolated(w, old, i)
      BY <1>3, <3>1, <3>2
    <3> DEFINE x == Cardinality(To(c))
               y == Cardinality(In(c))
    <3>4. 2 * w.m * (x - wa) - k * (y - (ta - k)) < k * (ta - k) - 2 * w.m * wa
      BY <1>3, <3>3 DEF Gain, GainIsolated
    <3> HIDE DEF x, y, k, wa, ta, To, In
    <3>5. x \in Nat /\ y \in Nat
      BY <1>2 DEF x, y
    <3>6. 2 * w.m * (x - wa) = 2 * w.m * x - 2 * w.m * wa /\ k * (y - (ta - k)) = k * y - k * (ta - k)
      BY <1>2, <1>4, <3>5
    <3>7. 2 * w.m * x \in Int /\ 2 * w.m * wa \in Int /\ k * y \in Int /\ k * (ta - k) \in Int
      BY <1>2, <1>4, <3>5
    <3>8. 2 * w.m * x <= k * y
      BY <3>4, <3>6, <3>7
    <3>9. QED
      BY <3>8 DEF x, y
  <2>3. QED
    BY <2>1, <2>2
<1> DEFINE X == K \ To(a)
           Y == H \ In(a)
           f == [h \in H |-> old[Neighbor(w, h)]]
           g == [h \in H |-> old[NodeAt(w, h)]]
<1>7. ASSUME NEW c
      PROVE  2 * w.m * Cardinality(PartOf(X, f, c)) <= k * Cardinality(PartOf(Y, g, c))
  <2> DEFINE Xc == {h \in X : f[h] = c}
             Yc == {h \in Y : g[h] = c}
  <2> USE DEF PartOf
  <2>1. CASE c = a
    <3>1. Xc = {} /\ Yc = {}
      BY <1>1, <2>1
    <3>2. Cardinality(Xc) = 0 /\ Cardinality(Yc) = 0
      BY <3>1, FS_EmptySet
    <3> HIDE DEF Xc, Yc, k
    <3>3. 2 * w.m * 0 = 0 /\ k * 0 = 0
      BY <1>2, <1>4
    <3>4. 2 * w.m * Cardinality(Xc) <= k * Cardinality(Yc)
      BY <3>2, <3>3
    <3>5. QED
      BY <3>4 DEF Xc, Yc
  <2>2. CASE c # a
    <3>1. Xc = To(c) /\ Yc = In(c)
      BY <1>1, <2>2
    <3>2. QED
      BY <1>6, <2>2, <3>1
  <2>3. QED
    BY <2>1, <2>2
<1>8. X \cup To(a) = K /\ X \cap To(a) = {} /\ Y \cup In(a) = H /\ Y \cap In(a) = {}
  OBVIOUS
<1>9. Cardinality(H) <= 2 * w.m
  BY HalvesAre
<1> HIDE DEF X, Y, f, g, H, K, To, In
<1>10. /\ IsFiniteSet(X) /\ IsFiniteSet(Y) /\ Cardinality(X) \in Nat /\ Cardinality(Y) \in Nat
       /\ k = Cardinality(X) + wa /\ Cardinality(H) = Cardinality(Y) + ta
  BY <1>1, <1>2, <1>8, TwoParts
<1>11. 2 * w.m * Cardinality(X) <= k * Cardinality(Y)
  <2> DEFINE p == 2 * w.m
  <2>1. p \in Nat /\ k \in Nat /\ IsFiniteSet(X) /\ IsFiniteSet(Y)
    BY <1>2, <1>4, <1>10
  <2>2. \A c : p * Cardinality(PartOf(X, f, c)) <= k * Cardinality(PartOf(Y, g, c))
    BY <1>7
  <2> HIDE DEF k, p
  <2>3. p * Cardinality(X) <= k * Cardinality(Y)
    BY <2>1, <2>2, PartByPart
  <2>4. QED
    BY <2>3 DEF p
<1>12. Cardinality(Y) + ta <= 2 * w.m
  BY <1>9, <1>10
<1> HIDE DEF k, wa, ta
<1>13. QED
  BY <1>2, <1>4, <1>5, <1>10, <1>11, <1>12, NotBoth

LEMMA ModularityIsInt ==
  ASSUME NEW w, WorkOk(w), NEW c
  PROVE  Modularity(w, c) \in Int
<1>1. Inside(w, c) \subseteq DOMAIN w.edges /\ Together(w, c) \subseteq Halves(w) \X Halves(w) /\ w.m \in Nat
  BY DEF Inside, Together, WorkOk
<1>2. IsFiniteSet(DOMAIN w.edges) /\ IsFiniteSet(Halves(w) \X Halves(w))
  BY HalvesAre, FS_Product DEF WorkOk
<1>3. Cardinality(Inside(w, c)) \in Nat /\ Cardinality(Together(w, c)) \in Nat
  BY <1>1, <1>2, FS_Subset, FS_CardinalityType
<1>4. QED
  BY <1>1, <1>3 DEF Modularity

\* A visit moves the node to where it gains, or leaves it.
LEMMA VisitRaises ==
  ASSUME NEW w, WorkOk(w), NEW old, old = [n \in NodesOf(w) |-> old[n]], NEW i, NEW c \in Moves(w, old, i)
  PROVE  Modularity(w, [old EXCEPT ![i] = c]) >= Modularity(w, old)
<1> DEFINE moved == [old EXCEPT ![i] = c]
<1>1. Modularity(w, old) \in Int /\ Modularity(w, moved) \in Int
  BY ModularityIsInt
<1>2. CASE i \notin NodesOf(w) \/ c = old[i]
  <2>1. moved = old
    BY <1>2
  <2>2. QED
    BY <1>1, <2>1
<1>3. CASE i \in NodesOf(w) /\ c # old[i]
  <2> DEFINE near == {d \in {old[j] : j \in NodesOf(w)} \ {old[i]} : Weight(w, old, i, d) > 0}
             best == {d \in near : Gain(w, old, i, d) > 0 /\ \A e \in near : Gain(w, old, i, e) <= Gain(w, old, i, d)}
             Isolates == GainIsolated(w, old, i) > 0 /\ \A d \in near : Gain(w, old, i, d) < GainIsolated(w, old, i)
  <2>1. DOMAIN old = NodesOf(w)
    OBVIOUS
  <2>2. ~Isolates
    BY <1>3, <2>1, NeverAlone
  <2>3. c \in best
    BY <1>3, <2>2 DEF Moves
  <2>4. Modularity(w, moved) >= Modularity(w, old) + 2 * Gain(w, old, i, c)
    BY <1>3, <2>1, MoveRaises
  <2>5. Gain(w, old, i, c) > 0
    BY <2>3
  <2>6. Gain(w, old, i, c) \in Int
    <3>1. /\ Weight(w, old, i, c) \in Nat /\ Weight(w, old, i, old[i]) \in Nat /\ w.m \in Nat
      BY <1>3, <2>1, InsideMoves DEF WorkOk
    <3>2. \A S \in SUBSET Halves(w) : Cardinality(S) \in Nat
      BY HalvesAre, FS_Subset, FS_CardinalityType
    <3>3. Degree(w, i) \in Nat /\ \A d : CommunityTotal(w, old, d) \in Nat
      BY <3>2 DEF Degree, Adj, CommunityTotal
    <3>4. QED
      BY <3>1, <3>3 DEF Gain
  <2>7. QED
    BY <1>1, <2>4, <2>5, <2>6
<1>4. QED
  BY <1>2, <1>3

\* Under other numbers the same nodes are together.
LEMMA NumbersDoNotMatter ==
  ASSUME NEW w, WorkOk(w), NEW old, NEW new \in Renumberings(w, old)
  PROVE  Modularity(w, new) = Modularity(w, old)
<1>1. PICK p : /\ \A a, b \in {old[i] : i \in NodesOf(w)} : p[a] = p[b] => a = b
               /\ new = [i \in NodesOf(w) |-> p[old[i]]]
  BY DEF Renumberings, Bijection, Injection, IsInjective
<1>2. \A i, j \in NodesOf(w) : new[i] = new[j] <=> old[i] = old[j]
  BY <1>1
<1>3. Inside(w, new) = Inside(w, old)
  BY <1>2 DEF Inside, WorkOk
<1>4. Together(w, new) = Together(w, old)
  BY <1>2, HalvesAre DEF Together
<1>5. QED
  BY <1>3, <1>4 DEF Modularity

LInv == stage = "communities" => comm = [i \in NodesOf(Work) |-> comm[i]]

LEMMA WorkIs == GInv => WorkOk(Work)
<1> SUFFICES ASSUME GInv
             PROVE  WorkOk(Work)
  OBVIOUS
<1> DEFINE nodes == InSomeOrder(DOMAIN graph.nodes)
           linked == Linked({nodes[k] : k \in DOMAIN nodes}, graph.edges)
<1>1. /\ Work.edges = [k \in linked |-> graph.edges[k]] /\ Work.m = Cardinality(DOMAIN graph.edges)
      /\ NodesOf(Work) = {nodes[k] : k \in DOMAIN nodes}
  BY DEF Work, FromEdges, Restrict, NodesOf
<1>2. linked \subseteq DOMAIN graph.edges /\ \A k \in linked : {graph.edges[k].source, graph.edges[k].target} \subseteq NodesOf(Work)
  BY <1>1 DEF Linked
<1>3. IsFiniteSet(DOMAIN graph.edges)
  BY DEF GInv, EdgesOk
<1> HIDE DEF linked
<1>4. IsFiniteSet(linked) /\ Cardinality(linked) <= Cardinality(DOMAIN graph.edges) /\ Cardinality(DOMAIN graph.edges) \in Nat
  BY <1>2, <1>3, FS_Subset, FS_CardinalityType
<1>5. QED
  BY <1>1, <1>2, <1>4 DEF WorkOk

LEMMA LNext == LInv /\ [Next]_vars => LInv'
<1> SUFFICES ASSUME LInv, [Next]_vars, stage' = "communities"
             PROVE  (comm = [i \in NodesOf(Work) |-> comm[i]])'
  BY DEF LInv
<1>1. CASE StartCommunities
  <2>1. Work' = Work /\ comm' = Singletons(Work)
    BY <1>1 DEF StartCommunities, Work
  <2>2. QED
    BY <2>1 DEF Singletons
<1>2. CASE VisitNode
  <2>1. Work' = Work /\ stage = "communities"
    BY <1>2 DEF VisitNode, Work
  <2>2. QED
    BY <1>2, <2>1 DEF VisitNode, LInv
<1>3. CASE NextPass
  <2>1. Work' = Work /\ comm' \in Renumberings(Work, comm)
    BY <1>3 DEF NextPass, Work
  <2>2. QED
    BY <2>1 DEF Renumberings
<1>4. CASE UNCHANGED vars
  <2>1. Work' = Work /\ stage = "communities" /\ comm' = comm
    BY <1>4 DEF vars, Work
  <2>2. QED
    BY <2>1 DEF LInv
<1>5. QED
  BY <1>1, <1>2, <1>3, <1>4
     DEF Next, vars, Merge, Resolve, Couple, DetectRoutes, RoutesDone, SynthesizeCallbacks, CallbacksDone, SynthesizeFlow,
         BuildIndex, Rename, WriteFile, RemoveFile, MayChange, Changed

\* For every graph, in whichever order its nodes are visited and numbered, no step
\* of the search for communities makes the modularity fall (run_louvain).
THEOREM CommunitiesNeverWorsen == Spec => ModularityNeverFalls
<1> DEFINE Step == stage = "communities" /\ stage' = "communities" => Modularity(Work, comm') >= Modularity(Work, comm)
<1>1. ASSUME GInv, LInv, [Next]_vars, stage = "communities", stage' = "communities"
      PROVE  Modularity(Work, comm') >= Modularity(Work, comm)
  <2>1. WorkOk(Work) /\ comm = [i \in NodesOf(Work) |-> comm[i]]
    BY <1>1, WorkIs DEF LInv
  <2>2. Modularity(Work, comm) \in Int
    BY <2>1, ModularityIsInt
  <2>3. CASE VisitNode
    <3>1. PICK i, c : c \in Moves(Work, comm, i) /\ comm' = [comm EXCEPT ![i] = c]
      BY <2>3 DEF VisitNode
    <3>2. QED
      BY <2>1, <3>1, VisitRaises
  <2>4. CASE NextPass
    <3>1. Modularity(Work, comm') = Modularity(Work, comm)
      BY <2>1, <2>4, NumbersDoNotMatter DEF NextPass
    <3>2. QED
      BY <2>2, <3>1
  <2>5. CASE comm' = comm
    BY <2>2, <2>5
  <2>6. QED
    BY <1>1, <2>3, <2>4, <2>5
       DEF Next, vars, Merge, Resolve, Couple, DetectRoutes, RoutesDone, SynthesizeCallbacks, CallbacksDone, SynthesizeFlow,
           StartCommunities, BuildIndex, Rename, WriteFile, RemoveFile, MayChange, Changed
<1>2. GInv /\ LInv /\ [Next]_vars => [Step]_vars
  BY <1>1
<1>3. Init => LInv
  BY DEF Init, LInv
<1>4. QED
  BY <1>2, <1>3, LNext, GInit, GNext, PTL DEF Spec, ModularityNeverFalls
================================================================================
