-------------------------------- MODULE Analysis --------------------------------
(***************************************************************************)
(* The stages of Engine::analyze (src/engine/src/engine.rs), over the      *)
(* files of a project: merge, names across files, coupling, routes,        *)
(* callbacks, flow of data, communities and the index, which renames and   *)
(* incremental updates then change.                                        *)
(*                                                                         *)
(* Files come in the order of a directory, visits and nodes in that of     *)
(* hash tables: an order is a choice of the next one.  The lock, the       *)
(* progress and the store are in Engine and in Store.                      *)
(***************************************************************************)
EXTENDS Synthesis, Incremental, Louvain

CONSTANTS
  Project,    \* the projects: functions from files to their texts
  Text,       \* what a file may hold after an edit
  NewName,    \* names that a rename gives
  MaxGrouped, \* bound on the nodes of a graph whose communities are looked for
  MaxChanges  \* bound on renames and updates of an index

ASSUME TextAssumption == \A text \in Text \cup UNION {Values(p) : p \in Project} : text \in Seq(Values(text))
ASSUME ChangesAssumption == MaxChanges \in Nat

VARIABLES
  stage,    \* what comes next
  project,  \* the files and their texts
  graph,
  todo,     \* files, places in walks over files, or nodes that the stage has not come to
  comm,     \* the community of each node
  improved, \* whether the pass over the nodes moved one
  index,
  changes   \* renames and updates so far

vars == <<stage, project, graph, todo, comm, improved, index, changes>>

Init ==
  /\ stage = "merge"
  /\ project \in Project
  /\ graph = NoGraph
  /\ todo = Discovered \cap DOMAIN project
  /\ comm = NoMap
  /\ improved = FALSE
  /\ index = New
  /\ changes = 0

Unindexed == UNCHANGED <<index, changes>>
Alone == UNCHANGED <<comm, improved, index, changes>>
Here(visits) == {v \in visits : v[1] \in DOMAIN project}

\* Walks over files, one after the other: a walk is at the fact with its number.
Walks(visits) == {<<v[1], v[2], 1>> : v \in {u \in Here(visits) : project[u[1]] # <<>>}}
Turn(v) == v \in todo /\ \A w \in todo : w[3] > 1 => w = v
Onward(v) == (todo \ {v}) \cup (IF v[3] < Len(project[v[1]]) THEN {<<v[1], v[2], v[3] + 1>>} ELSE {})

(***************************************************************************)
(* The stages                                                              *)
(***************************************************************************)
Merge ==
  /\ stage = "merge"
  /\ \E f \in todo : graph' = Merged(graph, Parsed(f, project[f])) /\ todo' = todo \ {f}
  /\ UNCHANGED <<stage, project>> /\ Alone

Resolve ==
  /\ stage = "merge" /\ todo = {}
  /\ stage' = "couple"
  /\ \E pick \in Picks(graph) : graph' = Resolved(graph, pick)
  /\ UNCHANGED <<project, todo>> /\ Alone

Couple ==
  /\ stage = "couple"
  /\ stage' = "routes"
  /\ graph' = Coupled(graph)
  /\ todo' = Walks(RouteVisits)
  /\ UNCHANGED project /\ Alone

DetectRoutes ==
  /\ stage = "routes"
  /\ \E v \in todo : Turn(v) /\ graph' \in Routed(graph, v[1], v[2], project[v[1]], v[3]) /\ todo' = Onward(v)
  /\ UNCHANGED <<stage, project>> /\ Alone

RoutesDone ==
  /\ stage = "routes" /\ todo = {}
  /\ stage' = "dispatch"
  /\ todo' = Walks(DispatchVisits)
  /\ UNCHANGED <<project, graph>> /\ Alone

SynthesizeCallbacks ==
  /\ stage = "dispatch"
  /\ \E v \in todo : Turn(v) /\ graph' \in Dispatched(graph, v[1], v[2], project[v[1]], v[3]) /\ todo' = Onward(v)
  /\ UNCHANGED <<stage, project>> /\ Alone

CallbacksDone ==
  /\ stage = "dispatch" /\ todo = {}
  /\ stage' = "flow"
  /\ todo' = IF TooLarge(graph) THEN {} ELSE Walks(FlowVisits(graph))
  /\ UNCHANGED <<project, graph>> /\ Alone

SynthesizeFlow ==
  /\ stage = "flow"
  /\ \E v \in todo : Turn(v) /\ graph' \in Flowed(graph, v[1], v[2], project[v[1]], v[3]) /\ todo' = Onward(v)
  /\ UNCHANGED <<stage, project>> /\ Alone

(***************************************************************************)
(* Communities                                                             *)
(***************************************************************************)
Work == FromEdges(InSomeOrder(DOMAIN graph.nodes), graph.edges)

\* Without edges each node stays by itself.  The bound leaves larger graphs so.
StartCommunities ==
  /\ stage = "flow" /\ todo = {}
  /\ stage' = "communities"
  /\ comm' = Singletons(Work)
  /\ todo' = IF graph.edges = NoMap \/ Cardinality(DOMAIN graph.nodes) > MaxGrouped THEN {} ELSE DOMAIN graph.nodes
  /\ UNCHANGED <<project, graph, improved>> /\ Unindexed

VisitNode ==
  /\ stage = "communities"
  /\ \E i \in todo : \E c \in Moves(Work, comm, i) :
       /\ comm' = [comm EXCEPT ![i] = c]
       /\ improved' = (improved \/ c # comm[i])
       /\ todo' = todo \ {i}
  /\ UNCHANGED <<stage, project, graph>> /\ Unindexed

NextPass ==
  /\ stage = "communities" /\ todo = {} /\ improved
  /\ comm' \in Renumberings(Work, comm)
  /\ improved' = FALSE
  /\ todo' = DOMAIN graph.nodes
  /\ UNCHANGED <<stage, project, graph>> /\ Unindexed

(***************************************************************************)
(* The index                                                               *)
(***************************************************************************)
IndexNode(n) == [name |-> n.name, kind |-> n.kind, unit |-> UnitOf(n.file, n.at)]
EdgeBag(g) == [l \in Values(g.edges) |-> Cardinality({k \in DOMAIN g.edges : g.edges[k] = l})]

BuildIndex ==
  /\ stage = "communities" /\ todo = {} /\ ~improved
  /\ stage' = "ready"
  /\ index' = FromGraph([i \in DOMAIN graph.nodes |-> IndexNode(graph.nodes[i])], EdgeBag(graph))
  /\ UNCHANGED <<project, graph, todo, comm, improved, changes>>

MayChange == stage = "ready" /\ changes < MaxChanges
Changed == changes' = changes + 1 /\ UNCHANGED <<stage, graph, todo, comm, improved>>

\* hologram_rename, for one node.
Rename ==
  /\ MayChange
  /\ \E i \in DOMAIN index.nodes, name \in NewName : index' = RenameNode(index, i, name)
  /\ Changed /\ UNCHANGED project

\* A file is written, with or without another one that goes.
WriteFile ==
  /\ MayChange
  /\ \E f \in Discovered, text \in Text, gone \in {{}} \cup {{g} : g \in DOMAIN project} :
       /\ f \notin gone
       /\ index' \in Update(index, gone, f, text)
       /\ project' = [g \in (DOMAIN project \ gone) \cup {f} |-> IF g = f THEN text ELSE project[g]]
  /\ Changed

RemoveFile ==
  /\ MayChange
  /\ \E f \in DOMAIN project :
       /\ index' = UpdateGone(index, {f})
       /\ project' = [g \in DOMAIN project \ {f} |-> project[g]]
  /\ Changed

Next ==
  \/ Merge \/ Resolve \/ Couple \/ DetectRoutes \/ RoutesDone
  \/ SynthesizeCallbacks \/ CallbacksDone \/ SynthesizeFlow
  \/ StartCommunities \/ VisitNode \/ NextPass
  \/ BuildIndex \/ Rename \/ WriteFile \/ RemoveFile

Spec == Init /\ [][Next]_vars

(***************************************************************************)
(* Properties                                                              *)
(***************************************************************************)
\* Files whose definitions have ids of their own merge without loss, in
\* whichever order they come: the graph has every node and every edge of each
\* (GraphMerger::merge, which skips nodes that look alike).
Apart == \A f, g \in Discovered \cap DOMAIN project :
           f # g => DOMAIN Parsed(f, project[f]).nodes \cap DOMAIN Parsed(g, project[g]).nodes = {}
MergeLosesNothing ==
  stage = "merge" /\ todo = {} /\ Apart =>
    \A f \in Discovered \cap DOMAIN project :
      /\ \A i \in DOMAIN Parsed(f, project[f]).nodes : i \in DOMAIN graph.nodes /\ graph.nodes[i] = Parsed(f, project[f]).nodes[i]
      /\ \A k \in DOMAIN Parsed(f, project[f]).edges : k \in DOMAIN graph.edges /\ graph.edges[k] = Parsed(f, project[f]).edges[k]

\* Once names are resolved, an edge without a node at an end comes from a route
\* whose handler is nowhere, or from a field of a class: the passes that add
\* edges make no others (CrossFileResolver::resolve and what follows it).
MayDangle ==
  UNION {LET f == v[1]
             text == project[f]
         IN {Handler(text[k]) : k \in RoutesOf(f, v[2], text)}
              \cup {FieldOwner(f, v[2], text[k].within) : k \in Those(text, {"field"})} : v \in Here(RouteVisits)}
EndsExist == stage # "merge" /\ changes = 0 => Dangling(graph) \subseteq MayDangle

\* No visit of a node makes the communities worse (run_louvain).
ModularityNeverFalls ==
  [][stage = "communities" /\ stage' = "communities" => Modularity(Work, comm') >= Modularity(Work, comm)]_vars

\* Both directions of the index hold the same edges, its counter is their number,
\* and every node is found by its name, through renames and updates
\* (MemoryIndex and its mutators).
IndexCoherent == Mirrored(index) /\ \A i \in DOMAIN index.nodes : i \in NodesByName(index, index.nodes[i].name)

\* Writing a file takes nothing from the others and changes nothing in them: the
\* difference to the index before has no node and no edge among those of other
\* files, unless two files give one id (IncrementalUpdater::update, Graph::diff).
Outside(x, f) == {i \in DOMAIN x.nodes : x.nodes[i].unit \notin {UnitOf(f, Located), NoUnit}}
Wrote(f) ==
  /\ stage = "ready" /\ project' # project /\ DOMAIN project \subseteq DOMAIN project'
  /\ f \in DOMAIN project => project'[f] # project[f]
LocalTo(f) ==
  LET diff == Diff(GraphFromIndex(index), GraphFromIndex(index'))
  IN /\ Outside(index, f) \cap diff.removed = {}
     /\ Outside(index, f) \cap diff.modified \subseteq DOMAIN ParseFile(f, project'[f]).nodes
     /\ \A k \in diff.removedEdges : ~({k[1], k[2]} \subseteq Outside(index, f))
UpdateIsLocal == [][\A f \in DOMAIN project' : Wrote(f) => LocalTo(f)]_vars
================================================================================
