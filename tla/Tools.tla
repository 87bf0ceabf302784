--------------------------------- MODULE Tools ---------------------------------
(***************************************************************************)
(* What the two servers answer: the tools of the MCP server (src/engine/   *)
(* src/mcp.rs) on the index, the requests of the TCP server (src/engine/   *)
(* src/main.rs) on a graph that graph_from_index makes of it.  Searches    *)
(* and reports are Search's and Explore's; here is what a server adds.     *)
(*                                                                         *)
(* Left out: the text search of SQLite, the rows of the timeline, delays   *)
(* and wording.  <<>> stands for an answer that a node is not found.       *)
(***************************************************************************)
EXTENDS Explore

NotFound == <<>>

(***************************************************************************)
(* Tools about a node                                                      *)
(***************************************************************************)
Entries(bag, S) == [l \in S |-> bag[l]]
ToolNeighbors(x, i) ==
  IF i \notin DOMAIN x.nodes THEN NotFound
  ELSE [neighbors |-> {f[2] : f \in Neighbors(x, i, 1)},
        incoming  |-> Entries(x.in, {l \in DOMAIN x.in : l.target = i}),
        outgoing  |-> Entries(x.out, {l \in DOMAIN x.out : l.source = i})]

\* The edges at a node; the names of the counts are exchanged in the answer.
ToolHistory(x, i) ==
  IF i \notin DOMAIN x.nodes THEN NotFound
  ELSE [dependencies |-> BagCardinality(ToolNeighbors(x, i).incoming), dependents |-> BagCardinality(ToolNeighbors(x, i).outgoing)]

Affected(layers) == FoldLeft(LAMBDA sum, layer : sum + Cardinality(layer), 0, layers)
ToolImpact(x, i, depth) == IF i \notin DOMAIN x.nodes THEN NotFound ELSE <<Affected(Impact(x, i, depth)) - 1>>

ToolPath(x, i, j) ==
  IF {i, j} \subseteq DOMAIN x.nodes THEN SelectSeq(<<ShortestPath(x, i, j)>>, LAMBDA p : p # <<>>) ELSE NotFound

\* What a change of a file reaches: each node of it counts what is within three steps.
NodesIn(x, f) == {i \in DOMAIN x.nodes : x.nodes[i].unit # <<>> /\ x.nodes[i].unit[1] = f}
ToolPreflight(x, f) ==
  [direct |-> Cardinality(NodesIn(x, f)),
   blast  |-> MapThenSumSet(LAMBDA i : Affected(Impact(x, i, 3)), NodesIn(x, f)) - Cardinality(NodesIn(x, f))]

(***************************************************************************)
(* Reports                                                                 *)
(***************************************************************************)
\* detect_communities has the largest first, so that one that is large enough has
\* the same number in the report as for each of its nodes.
SortedCommunities(comm) ==
  LET members == {{i \in DOMAIN comm : comm[i] = c} : c \in {comm[i] : i \in DOMAIN comm}}
  IN SortSeq(InSomeOrder(members), LAMBDA a, b : Cardinality(a) > Cardinality(b))
ToolCommunity(communities, i) == {k \in DOMAIN communities : i \in communities[k]}
ToolCommunityReport(communities, min) == SelectSeq(communities, LAMBDA c : Cardinality(c) >= min)

\* Of media with one name the last is told.  No kind of edge has "lock" in its name.
ToolThreadConflicts(x, order) ==
  LET Access(m) == {l \in DOMAIN x.in : l.target = m /\ l.source \in DOMAIN x.nodes}
      Tell(told, m) ==
        IF Access(m) = {} THEN told
        ELSE [n \in DOMAIN told \cup {x.nodes[m].name} |->
                IF n # x.nodes[m].name THEN told[n]
                ELSE [count |-> BagCardinality(Entries(x.in, Access(m))), write |-> \E l \in Access(m) : l.kind = "writes"]]
  IN FoldLeft(Tell, EmptyBag, SelectSeq(order, LAMBDA i : x.nodes[i].kind = "medium"))
Unlocked(told) == {n \in DOMAIN told : told[n].write}

\* Nothing is found to involve a language model.
ToolCycle(x, mode) ==
  LET cycles == ClassifyCycles(x)
  IN CASE mode = "data" -> {c \in DOMAIN cycles : cycles[c] = "data_persistent"}
       [] mode = "llm"  -> {c \in DOMAIN cycles : cycles[c] = "llm_involved"}
       [] OTHER -> DOMAIN cycles

\* The coupling asked for is that of a node without an id, and conflicts are not
\* counted: a cycle is the one thing that can be told.  The TCP server counts them.
ToolBlindspots(x) == Blindspots(CouplingReport(x, <<>>)[4], Cardinality(DOMAIN ClassifyCycles(x)), 0)
BlindspotsRequest(g) == Blindspots(LegacyCouplingReport(g, <<>>)[4], Cardinality(LegacyDetectCycles(g)), Cardinality(ThreadConflicts(g)))

\* A dry run of a rename looks at the graph, the rename at the index.
DryRun(g, old) == {i \in DOMAIN g.nodes : g.nodes[i].name = old \/ Contained(i, old)}
================================================================================
