--------------------------------- MODULE Store ---------------------------------
(***************************************************************************)
(* The graph store: the index in memory and the database behind it         *)
(* (GraphStore, MemoryIndex and SqliteDb of src/engine/src/storage, and    *)
(* their callers analyze and tool_rename).                                 *)
(*                                                                         *)
(* Several processes may have the database of one project open: an MCP     *)
(* server, the TCP server, a check.  Each has one index, which its threads *)
(* use under the engine's store mutex.  A save writes the nodes in one     *)
(* transaction and the edges in another.  A transaction happens as a whole *)
(* or not at all; between any two a process may die.                       *)
(***************************************************************************)
EXTENDS Naturals, FiniteSets

CONSTANTS
  Process, \* processes that open the database
  Thread,  \* their threads
  Home,    \* the process of a thread
  Id,      \* ids of symbols
  Name,    \* names of symbols
  Depth,   \* coupling depths
  Results, \* the graphs an analysis may come to
  Legacy,  \* hologram_graph.json of an older version, or no graph
  NoOne    \* nobody holds the mutex

\* The source and the target of an edge.  The kind of an edge is left out: the
\* rows of edges of two kinds do not touch each other.
Link == Id \X Id

\* A graph has a name for each symbol, and edges with depths.
Graph == [names : UNION {[S -> Name] : S \in SUBSET Id}, edges : SUBSET (Link \X Depth)]
NoGraph == [names |-> [i \in {} |-> i], edges |-> {}]

\* CrossFileResolver removes the edges that do not have both ends.  A pass after
\* it adds the edge of a route to a handler that is no node, when it does not
\* find the handler: such an end is invented.
Ends(edges) == UNION {{e[1][1], e[1][2]} : e \in edges}
Closed(g) == Ends(g.edges) \subseteq DOMAIN g.names
Invented == UNION {Ends(g.edges) \ DOMAIN g.names : g \in Results}

ASSUME ThreadAssumption == Home \in [Thread -> Process] /\ NoOne \notin Thread
\* Depths are bytes in the code: every set of them has a greatest.
ASSUME DepthAssumption ==
  /\ Depth \subseteq Nat
  /\ \A S \in SUBSET Depth : S # {} => \E d \in S : \A x \in S : x <= d
ASSUME ResultsAssumption == Results \subseteq Graph
ASSUME LegacyAssumption == Legacy \in Graph /\ Closed(Legacy)

VARIABLES
  rows,    \* table nodes: the names of the ids
  links,   \* table edges: the depths of the links
  index,   \* the index of each process
  open,    \* the processes that have opened the store
  mutex,   \* the thread that holds the store mutex of a process
  op,      \* what each thread is doing
  saved,   \* history: all that successful saves have stored
  behind   \* history: may the database differ from the index when all is quiet?
vars == <<rows, links, index, open, mutex, op, saved, behind>>

Idle == [at |-> "idle"]
At(t, where) == op[t].at = where

\* f, and g where f is not defined: INSERT ... ON CONFLICT DO UPDATE.
Over(f, g) == [x \in DOMAIN f \cup DOMAIN g |-> IF x \in DOMAIN f THEN f[x] ELSE g[x]]

\* The edge table has one row per source, target and kind, and keeps the
\* greatest depth: coupling_depth = MAX(excluded.coupling_depth, coupling_depth).
DepthsOf(l, edges) == {e[2] : e \in {x \in edges : x[1] = l}}
Greatest(S) == CHOOSE d \in S : \A x \in S : x <= d
Deepest(edges, old) ==
  [l \in {e[1] : e \in edges} \cup DOMAIN old |->
     Greatest(DepthsOf(l, edges) \cup (IF l \in DOMAIN old THEN {old[l]} ELSE {}))]

\* What from_sqlite makes of the rows of the edge table.
Loaded(table) == {<<l, table[l]>> : l \in DOMAIN table}

Init ==
  /\ rows = NoGraph.names
  /\ links = NoGraph.names
  /\ index = [p \in Process |-> NoGraph]
  /\ open = {}
  /\ mutex = [p \in Process |-> NoOne]
  /\ op = [t \in Thread |-> Idle]
  /\ saved = [ids |-> {}, links |-> NoGraph.names]
  /\ behind = [p \in Process |-> FALSE]

tables == <<rows, links, saved>>

(***************************************************************************)
(* Opening                                                                 *)
(***************************************************************************)
\* GraphStore::open under the write lock of the engine: load_all_nodes ...
LoadNodes(t) ==
  /\ At(t, "idle") /\ Home[t] \notin open /\ mutex[Home[t]] = NoOne
  /\ mutex' = [mutex EXCEPT ![Home[t]] = t]
  /\ op' = [op EXCEPT ![t] = [at |-> "loading", names |-> rows]]
  /\ behind' = [behind EXCEPT ![Home[t]] = FALSE]
  /\ UNCHANGED <<tables, index, open>>

\* ... and load_all_edges, a statement and so a transaction of its own.
LoadEdges(t) ==
  /\ At(t, "loading")
  /\ index' = [index EXCEPT ![Home[t]] = [names |-> op[t].names, edges |-> Loaded(links)]]
  /\ open' = open \cup {Home[t]}
  /\ mutex' = [mutex EXCEPT ![Home[t]] = NoOne]
  /\ op' = [op EXCEPT ![t] = Idle]
  /\ UNCHANGED <<tables, behind>>

\* A table cannot be read: the graph of an older version is taken and written
\* to the database, or the index stays empty.
LoadFails(t) ==
  /\ At(t, "loading")
  /\ index' = [index EXCEPT ![Home[t]] = Legacy]
  /\ open' = open \cup {Home[t]}
  /\ IF Legacy = NoGraph
       THEN /\ mutex' = [mutex EXCEPT ![Home[t]] = NoOne]
            /\ op' = [op EXCEPT ![t] = Idle]
       ELSE /\ op' = [op EXCEPT ![t] = [at |-> "nodes", graph |-> Legacy]]
            /\ UNCHANGED mutex
  /\ UNCHANGED <<tables, behind>>

\* The database cannot be opened, not at the third attempt either.
OpenFails(t) ==
  /\ At(t, "loading")
  /\ mutex' = [mutex EXCEPT ![Home[t]] = NoOne]
  /\ op' = [op EXCEPT ![t] = Idle]
  /\ UNCHANGED <<tables, index, open, behind>>

(***************************************************************************)
(* Saving                                                                  *)
(***************************************************************************)
\* Fault: save does not take the mutex.
Save_Unlocked(t) ==
  /\ At(t, "unsaved")
  /\ op' = [op EXCEPT ![t] = [at |-> "nodes", graph |-> index[Home[t]]]]
  /\ behind' = [behind EXCEPT ![Home[t]] = FALSE]
  /\ UNCHANGED <<tables, index, open, mutex>>

\* save collects the index under its read lock, and holds the mutex till the end.
Save(t) ==
  /\ At(t, "unsaved") /\ mutex[Home[t]] = NoOne
  /\ mutex' = [mutex EXCEPT ![Home[t]] = t]
  /\ op' = [op EXCEPT ![t] = [at |-> "nodes", graph |-> index[Home[t]]]]
  /\ behind' = [behind EXCEPT ![Home[t]] = FALSE]
  /\ UNCHANGED <<tables, index, open>>

\* Fault: INSERT OR REPLACE, which deletes the row first, and by ON DELETE CASCADE
\* its edges.
SaveNodes_Replace(t) ==
  /\ At(t, "nodes")
  /\ rows' = Over(op[t].graph.names, rows)
  /\ links' = [l \in {x \in DOMAIN links : {x[1], x[2]} \cap DOMAIN op[t].graph.names = {}} |-> links[l]]
  /\ op' = [op EXCEPT ![t] = [at |-> "edges", graph |-> op[t].graph]]
  /\ behind' = [p \in Process |-> behind[p] \/ p # Home[t]]
  /\ UNCHANGED <<saved, index, open, mutex>>

\* batch_upsert_nodes.
SaveNodes(t) ==
  /\ At(t, "nodes")
  /\ rows' = Over(op[t].graph.names, rows)
  /\ op' = [op EXCEPT ![t] = [at |-> "edges", graph |-> op[t].graph]]
  /\ behind' = [p \in Process |-> behind[p] \/ p # Home[t]]
  /\ UNCHANGED <<links, saved, index, open, mutex>>

\* The foreign keys of the edge table.
KeysHold(edges) == Ends(edges) \subseteq DOMAIN rows

\* batch_upsert_edges, and save returns Ok.
SaveEdges(t) ==
  /\ At(t, "edges") /\ KeysHold(op[t].graph.edges)
  /\ links' = Deepest(op[t].graph.edges, links)
  /\ saved' = [ids |-> saved.ids \cup DOMAIN op[t].graph.names,
               links |-> Deepest(op[t].graph.edges, saved.links)]
  /\ behind' = [p \in Process |-> behind[p] \/ p # Home[t]]
  /\ mutex' = [mutex EXCEPT ![Home[t]] = NoOne]
  /\ op' = [op EXCEPT ![t] = Idle]
  /\ UNCHANGED <<rows, index, open>>

\* Fault: to_sqlite goes on to the edges when the nodes were refused.
SaveFails_GoesOn(t) ==
  \/ /\ At(t, "nodes")
     /\ op' = [op EXCEPT ![t] = [at |-> "edges", graph |-> op[t].graph]]
     /\ UNCHANGED <<tables, index, open, mutex, behind>>
  \/ /\ At(t, "edges")
     /\ behind' = [behind EXCEPT ![Home[t]] = TRUE]
     /\ mutex' = [mutex EXCEPT ![Home[t]] = NoOne]
     /\ op' = [op EXCEPT ![t] = Idle]
     /\ UNCHANGED <<tables, index, open>>

\* A transaction is refused: the database is busy for five seconds, the disk is
\* full, an edge lacks an end.  The caller logs it or ignores it.
SaveFails(t) ==
  /\ At(t, "nodes") \/ At(t, "edges")
  /\ behind' = [behind EXCEPT ![Home[t]] = TRUE]
  /\ mutex' = [mutex EXCEPT ![Home[t]] = NoOne]
  /\ op' = [op EXCEPT ![t] = Idle]
  /\ UNCHANGED <<tables, index, open>>

(***************************************************************************)
(* Changing the index                                                      *)
(***************************************************************************)
\* swap_index at the end of an analysis, which saves next.
Swap(t) ==
  /\ At(t, "idle") /\ Home[t] \in open /\ mutex[Home[t]] = NoOne
  /\ \E g \in Results : index' = [index EXCEPT ![Home[t]] = g]
  /\ op' = [op EXCEPT ![t] = [at |-> "unsaved"]]
  /\ UNCHANGED <<tables, open, mutex, behind>>

\* tool_rename looks up the ids that bear the old name ...
Find(t) ==
  /\ At(t, "idle") /\ Home[t] \in open /\ mutex[Home[t]] = NoOne
  /\ \E old, new \in Name :
       LET names == index[Home[t]].names
           ids   == {i \in DOMAIN names : names[i] = old}
       IN  /\ ids # {}
           /\ op' = [op EXCEPT ![t] = [at |-> "found", ids |-> ids, new |-> new]]
  /\ UNCHANGED <<tables, index, open, mutex, behind>>

\* ... and lets go of the mutex before it renames those that are still there,
\* and again before it saves.
Renamed(names, ids, new) == [i \in DOMAIN names |-> IF i \in ids THEN new ELSE names[i]]
Rename(t) ==
  /\ At(t, "found") /\ mutex[Home[t]] = NoOne
  /\ index' = [index EXCEPT ![Home[t]].names = Renamed(@, op[t].ids, op[t].new)]
  /\ op' = [op EXCEPT ![t] = [at |-> "unsaved"]]
  /\ UNCHANGED <<tables, open, mutex, behind>>

(***************************************************************************)
(* Failure                                                                 *)
(***************************************************************************)
\* A process dies, or ends; a transaction in progress is rolled back.
Die(p) ==
  /\ p \in open \/ mutex[p] # NoOne
  /\ index' = [index EXCEPT ![p] = NoGraph]
  /\ open' = open \ {p}
  /\ mutex' = [mutex EXCEPT ![p] = NoOne]
  /\ op' = [t \in Thread |-> IF Home[t] = p THEN Idle ELSE op[t]]
  /\ behind' = [behind EXCEPT ![p] = FALSE]
  /\ UNCHANGED tables

Next ==
  \/ \E t \in Thread :
       \/ LoadNodes(t) \/ LoadEdges(t) \/ LoadFails(t) \/ OpenFails(t)
       \/ Save(t) \/ SaveNodes(t) \/ SaveEdges(t) \/ SaveFails(t)
       \/ Swap(t) \/ Find(t) \/ Rename(t)
  \/ \E p \in Process : Die(p)

Spec == Init /\ [][Next]_vars

(***************************************************************************)
(* Properties                                                              *)
(***************************************************************************)
Activity ==
  [at : {"idle", "unsaved"}]
    \cup [at : {"loading"}, names : UNION {[S -> Name] : S \in SUBSET Id}]
    \cup [at : {"nodes", "edges"}, graph : Graph]
    \cup [at : {"found"}, ids : SUBSET Id, new : Name]

\* Type invariant.
TypeOK ==
  /\ rows \in UNION {[S -> Name] : S \in SUBSET Id}
  /\ links \in UNION {[S -> Depth] : S \in SUBSET Link}
  /\ index \in [Process -> Graph]
  /\ open \subseteq Process
  /\ mutex \in [Process -> Thread \cup {NoOne}]
  /\ op \in [Thread -> Activity]
  /\ saved.ids \subseteq Id /\ saved.links \in UNION {[S -> Depth] : S \in SUBSET Link}
  /\ behind \in [Process -> BOOLEAN]

\* batch_upsert_edges stores all edges or none, so that one edge without both
\* its ends in the database keeps the save from storing any.  However the two
\* reads of an open and the two transactions of a save of other processes fall
\* between each other, the foreign keys refuse an edge only for an end that an
\* analysis invented: the edges in memory may lack a node there that the
\* database has.
OnlyInventedAreRefused ==
  \A t \in Thread : At(t, "edges") => Ends(op[t].graph.edges) \ DOMAIN rows \subseteq Invented

\* What a successful save has stored stays stored: no later save of this or
\* another process, of a smaller, older or empty graph, takes an id or an edge
\* away or makes the depth of an edge less, and no crash does.
SavedSurvives ==
  /\ saved.ids \subseteq DOMAIN rows
  /\ \A l \in DOMAIN saved.links : l \in DOMAIN links /\ links[l] >= saved.links[l]

\* The saves of analyses and renames of several threads overlap, yet none
\* writes an older index over a newer one: when the threads of a process are
\* done, no save of it failed and no other process has saved meanwhile, the
\* database has the name and the edges of every symbol in the index, so that
\* the next start shows what this one shows.
QuietMeansSaved ==
  \A p \in open :
    (~behind[p] /\ \A t \in Thread : Home[t] = p => op[t].at \in {"idle", "found"}) =>
      /\ \A i \in DOMAIN index[p].names : i \in DOMAIN rows /\ rows[i] = index[p].names[i]
      /\ \A e \in index[p].edges : e[1] \in DOMAIN links /\ links[e[1]] >= e[2]
================================================================================
