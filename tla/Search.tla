--------------------------------- MODULE Search ---------------------------------
(***************************************************************************)
(* The searches and reports on a graph, as src/engine/src computes them on *)
(* the index (storage/memory.rs, analysis/*.rs) and once more on the       *)
(* graph, in the older functions that stay beside them (graph/query.rs,    *)
(* analysis/*.rs), and what they are meant to find.                        *)
(*                                                                         *)
(* x is an index (module Index), g a graph: its nodes, and its edges by    *)
(* their ids.                                                              *)
(***************************************************************************)
EXTENDS Integers, SequencesExt, Index

Both(x) == DOMAIN x.nodes \cup UNION {{l.source, l.target} : l \in DOMAIN x.out}
EdgesOf(g) == {g.edges[k] : k \in DOMAIN g.edges}
Lesser(a, b) == IF a < b THEN a ELSE b

\* Fault: the outgoing lists alone.
Adjacent_OutOnly(x) == [i \in Both(x) |-> {l.target : l \in {e \in DOMAIN x.out : e.source = i}}]
\* Neighbours in both directions, and successors among the nodes.
Adjacent(x) == [i \in Both(x) |-> {l.target : l \in {e \in DOMAIN x.out : e.source = i}}
                                    \cup {l.source : l \in {e \in DOMAIN x.in : e.target = i}}]
LegacyAdjacent(g) ==
  [i \in DOMAIN g.nodes \cup UNION {{e.source, e.target} : e \in EdgesOf(g)} |->
     {e.target : e \in {d \in EdgesOf(g) : d.source = i}} \cup {e.source : e \in {d \in EdgesOf(g) : d.target = i}}]
Successors(x) == [i \in DOMAIN x.nodes |-> {j \in DOMAIN x.nodes : \E l \in DOMAIN x.out : l.source = i /\ l.target = j}]
LegacySuccessors(g) == [i \in DOMAIN g.nodes |-> {j \in DOMAIN g.nodes : \E e \in EdgesOf(g) : e.source = i /\ e.target = j}]

(***************************************************************************)
(* Breadth-first searches                                                  *)
(***************************************************************************)
\* Those that are queued behind cur, in the order of its list.
Queued(news, depth) == InSomeOrder({<<n, depth + 1>> : n \in news})

RECURSIVE Spread(_, _, _, _, _)
Spread(next, queue, visited, layers, max) ==
  IF queue = <<>> THEN layers
  ELSE LET cur   == queue[1][1]
           depth == queue[1][2]
           news  == next[cur] \ visited
       IN IF depth > max THEN Spread(next, Tail(queue), visited, layers, max)
          ELSE Spread(next, Tail(queue) \o Queued(news, depth), visited \cup news,
                      IF Len(layers) <= depth THEN Append(layers, {cur})
                      ELSE [layers EXCEPT ![depth + 1] = @ \cup {cur}], max)
\* impact: the nodes by their distance, the first layer being the node itself.
Impact(x, i, max) == Spread(Adjacent(x), <<<<i, 0>>>>, {i}, <<>>, max)
LegacyImpact(g, i, max) == Spread(LegacyAdjacent(g), <<<<i, 0>>>>, {i}, <<>>, max)

RECURSIVE Collect(_, _, _, _, _)
Collect(next, queue, visited, found, max) ==
  IF queue = <<>> THEN found
  ELSE LET cur   == queue[1][1]
           depth == queue[1][2]
           news  == next[cur] \ visited
       IN IF depth >= max THEN Collect(next, Tail(queue), visited, found, max)
          ELSE Collect(next, Tail(queue) \o Queued(news, depth), visited \cup news,
                       found \cup {<<cur, n>> : n \in news}, max)
\* neighbors: each node within the depth, with the one it was reached from.
Neighbors(x, i, max) == Collect(Adjacent(x), <<<<i, 0>>>>, {i}, {}, max)
LegacyNeighbors(g, i, max) == Collect(LegacyAdjacent(g), <<<<i, 0>>>>, {i}, {}, max)

\* The loop of shortest_path, which stops when it takes the goal from the queue,
\* and the walk back.
RECURSIVE Previous(_, _, _, _)
Previous(next, queue, prev, to) ==
  IF queue = <<>> \/ Head(queue) = to THEN prev
  ELSE LET news == next[Head(queue)] \ DOMAIN prev
       IN Previous(next, Tail(queue) \o InSomeOrder(news),
                   [n \in DOMAIN prev \cup news |-> IF n \in news THEN Head(queue) ELSE prev[n]], to)
RECURSIVE Back(_, _, _)
Back(prev, from, path) == IF Head(path) = from THEN path ELSE Back(prev, from, <<prev[Head(path)]>> \o path)

\* The path, or <<>> for None.
PathIn(next, from, to) ==
  LET prev == Previous(next, <<from>>, [n \in {from} |-> from], to)
  IN IF to \in DOMAIN prev THEN Back(prev, from, <<to>>) ELSE <<>>
ShortestPath(x, from, to) == PathIn(Adjacent(x), from, to)
LegacyShortestPath(g, from, to) == PathIn(LegacyAdjacent(g), from, to)

(***************************************************************************)
(* Cycles: Tarjan's algorithm                                              *)
(***************************************************************************)
RECURSIVE StrongConnect(_, _, _), Descend(_, _, _, _)
Descend(v, ws, adj, st) ==
  IF ws = <<>> THEN st
  ELSE LET w    == Head(ws)
           deep == StrongConnect(w, adj, st)
           next == CASE w \notin DOMAIN st.idx -> [deep EXCEPT !.low[v] = Lesser(@, deep.low[w])]
                     [] w \in DOMAIN st.idx /\ Contains(st.stack, w) -> [st EXCEPT !.low[v] = Lesser(@, st.idx[w])]
                     [] OTHER -> st
       IN Descend(v, Tail(ws), adj, next)
StrongConnect(v, adj, st) ==
  LET in   == [n |-> st.n + 1,
               idx |-> [u \in DOMAIN st.idx \cup {v} |-> IF u = v THEN st.n ELSE st.idx[u]],
               low |-> [u \in DOMAIN st.low \cup {v} |-> IF u = v THEN st.n ELSE st.low[u]],
               stack |-> Append(st.stack, v), sccs |-> st.sccs]
      out  == Descend(v, InSomeOrder(adj[v]), adj, in)
      from == CHOOSE k \in 1..Len(out.stack) : out.stack[k] = v
  IN IF out.low[v] # out.idx[v] THEN out
     ELSE [out EXCEPT !.sccs = @ \cup {ToSet(SubSeq(out.stack, from, Len(out.stack)))},
                      !.stack = SubSeq(@, 1, from - 1)]
RECURSIVE Components(_, _, _)
Components(vs, adj, st) ==
  IF vs = <<>> THEN st.sccs
  ELSE Components(Tail(vs), adj, IF Head(vs) \in DOMAIN st.idx THEN st ELSE StrongConnect(Head(vs), adj, st))

\* run_tarjan keeps the components of more than one node.
RunTarjan(adj) ==
  {c \in Components(InSomeOrder(DOMAIN adj), adj,
                    [n |-> 0, idx |-> EmptyBag, low |-> EmptyBag, stack |-> <<>>, sccs |-> {}]) :
     \E u, v \in c : u # v}
DetectCycles(x) == RunTarjan(Successors(x))
LegacyDetectCycles(g) == RunTarjan(LegacySuccessors(g))

(***************************************************************************)
(* Reports                                                                 *)
(***************************************************************************)
Times(x, S) == BagCardinality([l \in S |-> x.out[l]])
Count(g, S) == Cardinality({k \in DOMAIN g.edges : g.edges[k] \in S})

\* Edges of the depths L1 to L4 at a module; here a loop counts twice.
CouplingReport(x, m) ==
  [d \in 1..4 |-> Times(x, {l \in DOMAIN x.out : l.source = m /\ l.depth = d})
                    + Times(x, {l \in DOMAIN x.out : l.target = m /\ l.depth = d})]
LegacyCouplingReport(g, m) == [d \in 1..4 |-> Count(g, {e \in EdgesOf(g) : m \in {e.source, e.target} /\ e.depth = d})]

\* fan * (1 + sum of squares / fan): the degree and the squares of the depths.
FragilityScore(x, i) ==
  LET at(S, bag) == MapThenSumSet(LAMBDA l : bag[l] * (1 + l.depth * l.depth), S)
  IN at({l \in DOMAIN x.out : l.source = i}, x.out) + at({l \in DOMAIN x.in : l.target = i}, x.in)
FragileNodes(x, limit) ==
  {i \in DOMAIN x.nodes : Cardinality({j \in DOMAIN x.nodes : FragilityScore(x, j) > FragilityScore(x, i)}) < limit}

\* Shared resources by name, and how often they are accessed, which is more
\* than once already if one function both reads and writes them.
Accesses(g, name) ==
  Cardinality({k \in DOMAIN g.edges : g.edges[k].target \in {i \in DOMAIN g.nodes : g.nodes[i].kind = "medium" /\ g.nodes[i].name = name}})
ThreadConflicts(g) == {n \in {g.nodes[i].name : i \in DOMAIN g.nodes} : Accesses(g, n) > 1}

ClassifyCycles(x) ==
  [c \in DetectCycles(x) |-> IF \E i \in c : x.nodes[i].kind = "medium" THEN "data_persistent" ELSE "pure_code"]

Blindspots(l4, cycles, conflicts) ==
  {b \in {"encapsulation_penetration", "circular_dependency", "concurrent_access"} :
     CASE b = "encapsulation_penetration" -> l4 > 0
       [] b = "circular_dependency" -> cycles > 0
       [] b = "concurrent_access"   -> conflicts > 0}

OfKinds(nodes, kinds) == Cardinality({i \in DOMAIN nodes : nodes[i].kind \in kinds})
Summary(x) ==
  [nodes |-> Cardinality(DOMAIN x.nodes), edges |-> x.count,
   media |-> OfKinds(x.nodes, {"medium"}), temporals |-> OfKinds(x.nodes, {"temporal"}),
   kinds |-> [k \in {l.kind : l \in DOMAIN x.out} |-> Times(x, {l \in DOMAIN x.out : l.kind = k})]]
LegacySummary(g) ==
  [nodes |-> Cardinality(DOMAIN g.nodes), edges |-> Cardinality(DOMAIN g.edges),
   media |-> OfKinds(g.nodes, {"medium"}), temporals |-> OfKinds(g.nodes, {"temporal"}),
   kinds |-> [k \in {e.kind : e \in EdgesOf(g)} |-> Count(g, {e \in EdgesOf(g) : e.kind = k})]]

(***************************************************************************)
(* What they are meant to find                                             *)
(***************************************************************************)
\* Reach(next)[d + 1] holds the pairs of nodes at most d steps apart.
Steps(next) == UNION {{<<i, j>> : j \in next[i]} : i \in DOMAIN next}
Reach(next) ==
  LET steps == Steps(next)
      Farther(rel) == rel \cup UNION {{<<r[1], s[2]>> : s \in {t \in steps : t[1] = r[2]}} : r \in rel}
  IN FoldLeft(LAMBDA acc, d : Append(acc, Farther(Last(acc))), <<{<<i, i>> : i \in DOMAIN next}>>, [d \in 1..Cardinality(DOMAIN next) |-> d])
Within(reach, i, j, d) == <<i, j>> \in reach[Lesser(d + 1, Len(reach))]

\* The layers of an impact are the distances, up to max.
LayersRight(reach, i, max, layers) ==
  \A j \in {p[2] : p \in Last(reach)}, d \in 0..Len(reach) :
    (d < Len(layers) /\ j \in layers[d + 1]) <=> (d <= max /\ Within(reach, i, j, d) /\ (d > 0 => ~Within(reach, i, j, d - 1)))
\* A path goes from neighbour to neighbour, is shortest, and is missing only if there is none.
PathRight(reach, next, i, j, path) ==
  IF path = <<>> THEN <<i, j>> \notin Last(reach)
  ELSE /\ path[1] = i /\ Last(path) = j
       /\ \A k \in 1..(Len(path) - 1) : path[k + 1] \in next[path[k]]
       /\ Len(path) = 1 \/ ~Within(reach, i, j, Len(path) - 2)
\* Each neighbour once, and from a node that is one step nearer.
NeighborsRight(reach, next, i, max, found) ==
  /\ {f[2] : f \in found} = {j \in DOMAIN next : Within(reach, i, j, max)} \ {i}
  /\ \A f, h \in found : f[2] = h[2] => f = h
  /\ \A f \in found : f[2] \in next[f[1]] /\ \E d \in 0..max : Within(reach, i, f[1], d) /\ ~Within(reach, i, f[2], d)
\* Cycles: the largest sets of nodes that reach each other.
CyclesRight(reach, nodes, cycles) ==
  LET Mutual(u) == {v \in nodes : {<<u, v>>, <<v, u>>} \subseteq Last(reach)}
  IN cycles = {c \in {Mutual(u) : u \in nodes} : \E u, v \in c : u # v}
================================================================================
