--------------------------------- MODULE Index ---------------------------------
(***************************************************************************)
(* MemoryIndex (src/engine/src/storage/memory.rs): nodes, adjacency lists  *)
(* in both directions, the names and the files of the nodes, and a counter *)
(* of the edges, which every mutator has to keep in step.                  *)
(*                                                                         *)
(* A list is a bag: out[l] says how many entries <<l.target, l.kind,       *)
(* l.depth>> the list of l.source has, in[l] how many entries with         *)
(* l.source the list of l.target has.  The delay of an edge is left out.   *)
(***************************************************************************)
EXTENDS Naturals, FiniteSets, Sequences, Bags, FiniteSetsExt

\* A location may be missing.
NoUnit == <<>>

\* The order of a hash table.
InSomeOrder(S) == FoldSet(LAMBDA e, s : Append(s, e), <<>>, S)

\* The entries of a list of links, one by one, and a bag of those of S only.
Slots(bag) == UNION {{l} \X (1..bag[l]) : l \in DOMAIN bag}
Size(bag) == Cardinality(Slots(bag))
Only(bag, S) == [l \in DOMAIN bag \cap S |-> bag[l]]
Without(bag, S) == [l \in DOMAIN bag \ S |-> bag[l]]

Minus(x, y) == IF x < y THEN 0 ELSE x - y

New == [nodes |-> EmptyBag, out |-> EmptyBag, in |-> EmptyBag, names |-> EmptyBag, files |-> EmptyBag, count |-> 0]

NameEntries(nodes) == {<<nodes[i].name, i>> : i \in DOMAIN nodes}
FileEntries(nodes) == {<<nodes[i].unit, i>> : i \in {j \in DOMAIN nodes : nodes[j].unit # NoUnit}}

\* from_existing_graph: nodes is a function, edges a bag of edges, of which a
\* graph may have several that are alike but for their ids.
FromGraph(nodes, edges) ==
  [nodes |-> nodes,
   out   |-> edges,
   in    |-> edges,
   names |-> SetToBag(NameEntries(nodes)),
   files |-> SetToBag(FileEntries(nodes)),
   count |-> Size(edges)]

\* from_sqlite: the table has one row per source, target and kind.
FromRows(nodes, rows) == FromGraph(nodes, SetToBag(rows))

\* from_sqlite_degraded leaves names and files out, and takes them for built.
FromRowsDegraded(nodes, rows) == [FromRows(nodes, rows) EXCEPT !.names = EmptyBag, !.files = EmptyBag]

\* insert_node, for the nodes of new: it adds the entries of a node again if the
\* node is there already.
InsertNodes(x, new) ==
  [x EXCEPT !.nodes = [j \in DOMAIN @ \cup DOMAIN new |-> IF j \in DOMAIN new THEN new[j] ELSE @[j]],
            !.names = @ (+) SetToBag(NameEntries(new)),
            !.files = @ (+) SetToBag(FileEntries(new))]

\* Fault: the lists of the sources keep the nodes.
RemoveNodes_KeepsOut(x, S) ==
  LET from == {l \in DOMAIN x.out : l.source \in S}
      in1  == Without(x.in, {l \in DOMAIN x.in : l.source \in S})
      to   == {l \in DOMAIN in1 : l.target \in S}
      entries == UNION {{<<x.nodes[i].name, i>>, <<x.nodes[i].unit, i>>} : i \in S \cap DOMAIN x.nodes}
  IN [x EXCEPT !.nodes = [j \in DOMAIN @ \ S |-> @[j]],
               !.out   = Without(@, from),
               !.in    = Without(in1, to),
               !.names = Without(@, entries),
               !.files = Without(@, entries),
               !.count = Minus(Minus(@, Size(Only(x.out, from))), Size(Only(in1, to)))]

\* remove_node, for the nodes of S: their lists, and their entries in the lists of
\* the targets; then their incoming lists, and their entries in the lists of the
\* sources that these name.
RemoveNodes(x, S) ==
  LET Paired(links, l) == \E k \in links : k.source = l.source /\ k.target = l.target
      from == {l \in DOMAIN x.out : l.source \in S}
      in1  == Without(x.in, {l \in DOMAIN x.in : l.source \in S /\ Paired(from, l)})
      to   == {l \in DOMAIN in1 : l.target \in S}
      entries == UNION {{<<x.nodes[i].name, i>>, <<x.nodes[i].unit, i>>} : i \in S \cap DOMAIN x.nodes}
  IN [x EXCEPT !.nodes = [j \in DOMAIN @ \ S |-> @[j]],
               !.out   = Without(@, from \cup {l \in DOMAIN @ : l.target \in S /\ Paired(to, l)}),
               !.in    = Without(in1, to),
               !.names = Without(@, entries),
               !.files = Without(@, entries),
               !.count = Minus(Minus(@, Size(Only(x.out, from))), Size(Only(in1, to)))]

\* upsert_edge, for the links given: each list looks for the entry by itself; one
\* with another depth is another entry.
Added(bag, links) == [l \in DOMAIN bag \cup links |-> IF l \in DOMAIN bag THEN bag[l] ELSE 1]
UpsertEdges(x, links) ==
  [x EXCEPT !.out = Added(@, links), !.in = Added(@, links), !.count = @ + Cardinality(links \ DOMAIN x.out)]

\* remove_edge takes all depths.
Alike(bag, source, target, kind) == {l \in DOMAIN bag : l.source = source /\ l.target = target /\ l.kind = kind}
RemoveEdge(x, source, target, kind) ==
  [x EXCEPT !.out = Without(@, Alike(@, source, target, kind)),
            !.in  = Without(@, Alike(@, source, target, kind)),
            !.count = @ - Size(Only(x.out, Alike(x.out, source, target, kind)))]

\* rename_node_name: the id stays, and so do the edges.
RenameNode(x, i, name) ==
  IF i \notin DOMAIN x.nodes \/ x.nodes[i].name = name THEN x
  ELSE [x EXCEPT !.nodes[i].name = name,
                 !.names = Without(@, {<<x.nodes[i].name, i>>}) (+) SetToBag({<<name, i>>})]

\* get_nodes_by_name and get_nodes_by_file.
NodesByName(x, name) == {e[2] : e \in {d \in DOMAIN x.names : d[1] = name}}
NodesByFile(x, unit) == {e[2] : e \in {d \in DOMAIN x.files : d[1] = unit}}

\* recompute_edge_count.
RecomputeEdgeCount(x) == Size(x.out)

(***************************************************************************)
(* The graph of an index                                                   *)
(***************************************************************************)
\* Edges that differ in their depth alone have one id: one of them is left.
EdgeKey(l) == <<l.source, l.target, l.kind>>
GraphFromIndex(x) ==
  [nodes |-> x.nodes, edges |-> [k \in {EdgeKey(l) : l \in DOMAIN x.out} |-> CHOOSE l \in DOMAIN x.out : EdgeKey(l) = k]]

\* Graph::diff: a node is another one if its name or its kind is.
Diff(before, after) ==
  [added    |-> DOMAIN after.nodes \ DOMAIN before.nodes,
   removed  |-> DOMAIN before.nodes \ DOMAIN after.nodes,
   modified |-> {i \in DOMAIN before.nodes \cap DOMAIN after.nodes :
                   before.nodes[i].name # after.nodes[i].name \/ before.nodes[i].kind # after.nodes[i].kind},
   addedEdges   |-> DOMAIN after.edges \ DOMAIN before.edges,
   removedEdges |-> DOMAIN before.edges \ DOMAIN after.edges]

(***************************************************************************)
(* What an index has to keep                                               *)
(***************************************************************************)
\* Both directions hold the same entries.
Twofold(x) == x.out = x.in
\* ... and the counter is their number.
Mirrored(x) == Twofold(x) /\ x.count = RecomputeEdgeCount(x)
================================================================================
