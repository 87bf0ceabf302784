------------------------------ MODULE Incremental ------------------------------
(***************************************************************************)
(* IncrementalUpdater (src/engine/src/storage/incremental.rs): a new index *)
(* from the old one and from the files that changed, which is handed out   *)
(* only if it holds against a validation.                                  *)
(*                                                                         *)
(* Nodes come from the adapters without a location (the parser gives it    *)
(* them in a full analysis, and nothing does here), so that the second     *)
(* strategy of diff_file, by location, has no nodes to work on.  An        *)
(* identifier that tree-sitter missed has an empty name.                   *)
(***************************************************************************)
EXTENDS Build, Index

\* The path of a location.
UnitOf(f, how) == IF how = "relative" THEN <<f, how>> ELSE <<f, "located">>

\* Fault: edges are left to the files that are parsed anew.
Cloned_NodesOnly(x) == FromRows(x.nodes, {})
\* clone_index_for_update: edges that are alike become one.
Cloned(x) == FromRows(x.nodes, DOMAIN x.out)

\* The nodes and the edges of a file for the index.
ParseFile(f, text) ==
  LET g == Parsed(f, text)
  IN [nodes |-> [i \in DOMAIN g.nodes |-> [name |-> g.nodes[i].name, kind |-> g.nodes[i].kind, unit |-> NoUnit]],
      edges |-> Values(g.edges),
      errors |-> Cardinality({i \in DOMAIN g.nodes : g.nodes[i].name = <<"">>})]

\* diff_file: the old nodes that a new one matches by name and kind, of those that
\* share them any one.  The other old nodes go; all new nodes are inserted.
Key(n) == <<n.name, n.kind>>
Matchings(x, old, new) ==
  LET keys == {Key(new[i]) : i \in DOMAIN new}
      like == {i \in old : Key(x.nodes[i]) \in keys}
  IN {m \in SUBSET like : \A i \in like : \E j \in m : Key(x.nodes[j]) = Key(x.nodes[i])
                       /\ \A k \in m : Key(x.nodes[k]) = Key(x.nodes[j]) => k = j}

\* repair_cross_file_edges: targets stay as they are written.
CrossFile(edge) == edge.kind \in {"imports", "calls"}
RepairCrossFile(x, parsed) == UpsertEdges(x, {e \in parsed.edges : CrossFile(e) /\ e.source \in DOMAIN parsed.nodes})

\* repair_incoming_from_unchanged, for the new nodes: other nodes of its name in
\* other files, of which an edge led to one of its name in this file.
Unchanged(old, unit, i) == i \in DOMAIN old.nodes /\ old.nodes[i].unit \notin {NoUnit, unit}
Namesake(old, unit, i, name) == i \in DOMAIN old.nodes /\ old.nodes[i].unit = unit /\ old.nodes[i].name = name
RepairIncoming(x, old, unit, new) ==
  UpsertEdges(x, UNION {{[l EXCEPT !.target = i] :
    l \in {e \in DOMAIN old.out :
             /\ e.source \in NodesByName(old, new[i].name) \ {i}
             /\ Unchanged(old, unit, e.source)
             /\ Namesake(old, unit, e.target, new[i].name)}} : i \in DOMAIN new})

\* Validation, in hundredths.
Holds(x, old, errors) == errors > 0 => 100 * RecomputeEdgeCount(x) >= 85 * old.count

\* update, for files that are gone and one that was written: the indexes it may
\* return, or the old one if it is an error.
UpdateGone(x, gone) == RemoveNodes(Cloned(x), UNION {NodesByFile(x, UnitOf(g, "located")) : g \in gone})
Validated(y, x, errors) == IF Holds(y, x, errors) THEN y ELSE x
UpdateParsed(x, kept, unit, old, parsed) ==
  LET Diffed(m)   == InsertNodes(RemoveNodes(kept, old \ m), parsed.nodes)
      Repaired(m) == RepairIncoming(RepairCrossFile(Diffed(m), parsed), x, unit, parsed.nodes)
  IN {Validated(Repaired(m), x, parsed.errors) : m \in Matchings(x, old, parsed.nodes)}
Update(x, gone, f, text) ==
  UpdateParsed(x, UpdateGone(x, gone), UnitOf(f, "located"), NodesByFile(x, UnitOf(f, "located")) \cap DOMAIN x.nodes,
               ParseFile(f, text))
================================================================================
