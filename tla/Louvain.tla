-------------------------------- MODULE Louvain --------------------------------
(***************************************************************************)
(* Community detection (src/engine/src/community/louvain.rs).  A node is   *)
(* visited at a time and moves to the community where it gains most, until *)
(* a pass over all nodes moves none.  A community is a number; at first it *)
(* is the number of its only node, and after each pass they are numbered   *)
(* anew.                                                                   *)
(*                                                                         *)
(* w is what the two loops run on: the numbered nodes, the edges, and m.   *)
(* The code's gains are fractions of 2 * m * m; here they are integers,    *)
(* and there is no limit to the passes (100 in the code).                  *)
(***************************************************************************)
EXTENDS Integers, FiniteSets, Functions

\* nodes is a sequence: the keys of a hash map in the order they come.
Number(w, i) == CHOOSE k \in DOMAIN w.nodes : w.nodes[k] = i
NodesOf(w) == {w.nodes[k] : k \in DOMAIN w.nodes}

\* detect_communities counts every edge in m, and takes those with two nodes.
Linked(nodes, edges) == {k \in DOMAIN edges : {edges[k].source, edges[k].target} \subseteq nodes}
FromEdges(nodes, edges)  == [nodes |-> nodes, edges |-> Restrict(edges, Linked({nodes[k] : k \in DOMAIN nodes}, edges)),
                             m |-> Cardinality(DOMAIN edges)]

\* An edge is in the lists of both its nodes (adj), a loop twice in that of one.
Halves(w) == (DOMAIN w.edges) \X {"source", "target"}
NodeAt(w, h)   == IF h[2] = "source" THEN w.edges[h[1]].source ELSE w.edges[h[1]].target
Neighbor(w, h) == IF h[2] = "source" THEN w.edges[h[1]].target ELSE w.edges[h[1]].source
Adj(w, i) == {h \in Halves(w) : NodeAt(w, h) = i}

Degree(w, i) == Cardinality(Adj(w, i))
\* comm_weights.
Weight(w, comm, i, c) == Cardinality({h \in Adj(w, i) : comm[Neighbor(w, h)] = c})
\* The degrees of its nodes together.
CommunityTotal(w, comm, c) == Cardinality({h \in Halves(w) : comm[NodeAt(w, h)] = c})

\* Fault: the node still counts in its own community.
Gain_KeepsOwn(w, comm, i, c) ==
  2 * w.m * (Weight(w, comm, i, c) - Weight(w, comm, i, comm[i]))
    - Degree(w, i) * (CommunityTotal(w, comm, c) - CommunityTotal(w, comm, comm[i]))
Gain(w, comm, i, c) ==
  2 * w.m * (Weight(w, comm, i, c) - Weight(w, comm, i, comm[i]))
    - Degree(w, i) * (CommunityTotal(w, comm, c) - (CommunityTotal(w, comm, comm[i]) - Degree(w, i)))
GainIsolated(w, comm, i) ==
  Degree(w, i) * (CommunityTotal(w, comm, comm[i]) - Degree(w, i)) - 2 * w.m * Weight(w, comm, i, comm[i])

Singletons(w) == [i \in NodesOf(w) |-> Number(w, i)]

\* The communities a visit may leave the node in: of equal gains the first in a
\* hash map wins.  A node that is better alone takes its number for a community,
\* which after a pass may be that of others.
Moves(w, comm, i) ==
  LET near == {c \in {comm[j] : j \in NodesOf(w)} \ {comm[i]} : Weight(w, comm, i, c) > 0}
      best == {c \in near : Gain(w, comm, i, c) > 0 /\ \A d \in near : Gain(w, comm, i, d) <= Gain(w, comm, i, c)}
      Isolates == GainIsolated(w, comm, i) > 0 /\ \A c \in near : Gain(w, comm, i, c) < GainIsolated(w, comm, i)
  IN CASE Isolates              -> {Number(w, i)}
       [] ~Isolates /\ best # {} -> best
       [] OTHER                 -> {comm[i]}

\* New numbers, in the order of a hash map.
Renumberings(w, comm) ==
  LET old == {comm[i] : i \in NodesOf(w)}
  IN {[i \in NodesOf(w) |-> p[comm[i]]] : p \in Bijection(old, 1..Cardinality(old))}

\* Modularity, times 4 * m * m: the edges within communities, less the pairs of ends
\* within one, which are the squares of the totals.
Inside(w, comm) == {k \in DOMAIN w.edges : comm[w.edges[k].source] = comm[w.edges[k].target]}
Together(w, comm) == {p \in Halves(w) \X Halves(w) : comm[NodeAt(w, p[1])] = comm[NodeAt(w, p[2])]}
Modularity(w, comm) == 4 * w.m * Cardinality(Inside(w, comm)) - Cardinality(Together(w, comm))
================================================================================
