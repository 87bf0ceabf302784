-------------------------------- MODULE Answers --------------------------------
(***************************************************************************)
(* What is asked of the result of an analysis: the searches, the reports,  *)
(* explore and the tools of the two servers, on the index and on the       *)
(* graph, against what they are meant to find.                             *)
(***************************************************************************)
EXTENDS Analysis, Tools

CONSTANTS
  Width   \* characters of the lines of a file, a fact being on each

\* The reports on the index and on the graph agree, up to the loops that the index
\* counts twice.
ReportsAgree ==
  LET Looped(m) == \E e \in EdgesOf(graph) : e.source = m /\ e.target = m
  IN /\ Summary(index) = LegacySummary(graph)
     /\ \A m \in DOMAIN graph.nodes : Looped(m) \/ CouplingReport(index, m) = LegacyCouplingReport(graph, m)
     /\ \A i, j \in DOMAIN index.nodes :
          i \in FragileNodes(index, 2) /\ FragilityScore(index, j) > FragilityScore(index, i) => j \in FragileNodes(index, 2)

\* An answer to two names: a node of each name, a path along the edges between
\* two of the nodes, missing only if no two are within reach, sections of their
\* files that fit the files and the budget, what depends on them, and no alert
\* that the reports do not raise; and a question about a name that exists has an answer.
Lines == [f \in DOMAIN project |-> [k \in DOMAIN project[f] |-> Width[k]]]
LineOf(n) == Max({0} \cup {k \in DOMAIN project[n.file] : project[n.file][k].ref = n.name})
Lined == [graph EXCEPT !.nodes = [i \in DOMAIN graph.nodes |-> graph.nodes[i] @@ [line |-> LineOf(graph.nodes[i])]]]
Asked(g, i, kind) == [word |-> g.nodes[i].name, kind |-> kind]
Ask(g, symbols, query) == Answer(g, InSomeOrder(DOMAIN g.nodes), symbols, query, Lines)
AnswerRight(g, i, j, a, reach, next) ==
  LET flow == a.flow
      source == a.source
  IN /\ \A k \in {i, j} : \E n \in a.nodes : g.nodes[n].name = g.nodes[k].name
     /\ \A k \in 1..Len(flow) - 1 : flow[k + 1] \in next[flow[k]]
     /\ IF flow = <<>> THEN \A u, v \in a.nodes : u # v => ~Within(reach, u, v, MaxHops)
        ELSE {flow[1], Last(flow)} \subseteq a.nodes /\ Len(flow) <= MaxHops + 1
     /\ \A k \in DOMAIN source :
          /\ source[k][2].start_line \in 1..source[k][2].end_line
          /\ source[k][2].end_line \in DOMAIN Lines[source[k][1]]
          /\ \A l \in DOMAIN source : source[l][1] = source[k][1] => l = k
     /\ FoldLeft(LAMBDA sum, s : sum + s[2].chars, 0, source) < MaxChars + MaxPerFile
     /\ a.radius.tests \cup a.radius.dependents = {c \in DOMAIN g.nodes : next[c] \cap a.nodes # {}}
     /\ a.cycles = {c \in DetectCycles(index) : c \cap a.nodes # {}}
     /\ {c.resource : c \in a.conflicts} \subseteq ThreadConflicts(g)
AnswersRight(g, i, j, reach, next) ==
  /\ AnswerRight(g, i, j, Ask(g, <<g.nodes[i].name, g.nodes[j].name>>, <<>>), reach, next)
  /\ {g.nodes[n].name : n \in Ask(g, <<>>, <<Asked(g, i, "qualified"), Asked(g, j, "other")>>).nodes} = {g.nodes[i].name}
  /\ \A query \in {<<Asked(g, i, "simple")>>, <<Asked(g, i, "simple"), Asked(g, j, "pascal")>>} : Ask(g, <<>>, query).nodes # {}

\* What the servers tell of a node, of two or of a file: all that is at its edges, as
\* many as are within reach, a path if there is one, nothing of a file only if no
\* edge touches it, and a community under the number that it has in the report.
ToolsRight(reach, next) ==
  LET communities == SortedCommunities(comm)
      Reached(i, d) == {j \in DOMAIN next : Within(reach, i, j, d)}
  IN /\ \A i \in DOMAIN index.nodes :
          LET n == ToolNeighbors(index, i)
          IN /\ n.neighbors \cup {i} = {l.source : l \in DOMAIN n.incoming} \cup {l.target : l \in DOMAIN n.outgoing} \cup {i}
             /\ ToolHistory(index, i).dependencies + ToolHistory(index, i).dependents >= Cardinality(n.neighbors)
             /\ \A d \in {1, 3} : ToolImpact(index, i, d) = <<Cardinality(Reached(i, d)) - 1>>
             /\ \A j \in DOMAIN index.nodes : ToolPath(index, i, j) # NotFound <=> <<i, j>> \in Last(reach)
             /\ \A k \in ToolCommunity(communities, i) :
                  Cardinality(communities[k]) > 1 => i \in ToolCommunityReport(communities, 2)[k]
     /\ LET cycles == LegacyDetectCycles(GraphFromIndex(index))
            media  == {i \in DOMAIN index.nodes : index.nodes[i].kind = "medium"}
        IN /\ ToolCycle(index, "all") = cycles /\ ToolCycle(index, "llm") = {}
           /\ ToolCycle(index, "data") = {c \in cycles : c \cap media # {}}
           /\ ToolBlindspots(index) = BlindspotsRequest(GraphFromIndex(index)) \ {"concurrent_access"}
     /\ \A f \in DOMAIN project :
          LET within == UNION {Reached(i, 3) : i \in NodesIn(index, f)} \ NodesIn(index, f)
          IN /\ ToolPreflight(index, f).blast >= Cardinality(within)
             /\ ToolPreflight(index, f).blast = 0 => within = {}

\* Both servers see the same edges, in both directions, and the same conflicts, whatever
\* has changed, so that their searches find the same; and a rename takes the nodes of
\* its dry run (graph_from_index).
ServersAgree ==
  LET g == GraphFromIndex(index)
      media == {i \in DOMAIN index.nodes : index.nodes[i].kind = "medium"}
      told == ToolThreadConflicts(index, InSomeOrder(DOMAIN index.nodes))
  IN /\ Adjacent(index) = LegacyAdjacent(g)
     /\ Successors(index) = LegacySuccessors(g)
     /\ (\A i, j \in media : index.nodes[i].name = index.nodes[j].name => i = j) =>
          /\ {n \in DOMAIN told : told[n].count > 1} = ThreadConflicts(g)
          /\ Unlocked(told) = {index.nodes[i].name : i \in {m \in media : \E l \in DOMAIN index.out : l.target = m /\ l.kind = "writes"}}
     /\ \A name \in NewName : DryRun(g, name) = DryRun(index, name)

\* The searches on the index find what they are meant to, and the same as the older
\* ones on the graph (MemoryIndex::impact, shortest_path, neighbors and detect_cycles
\* against graph/query.rs and analysis/cycles.rs), and so does explore.
SearchesAgree ==
  /\ stage = "ready" => ServersAgree
  /\ stage = "ready" /\ changes = 0 =>
    LET next  == Adjacent(index)
        reach == Reach(next)
        along == Along(graph, {e.kind : e \in EdgesOf(graph)})
        behind == Reach(along)
    IN
    /\ next = LegacyAdjacent(graph)
    /\ CyclesRight(Reach(Successors(index)), DOMAIN index.nodes, DetectCycles(index))
    /\ DetectCycles(index) = LegacyDetectCycles(graph)
    /\ ReportsAgree
    /\ ToolsRight(reach, next)
    /\ \A i \in DOMAIN graph.nodes, max \in 0..2 :
         /\ LayersRight(reach, i, max, Impact(index, i, max))
         /\ Impact(index, i, max) = LegacyImpact(graph, i, max)
         /\ NeighborsRight(reach, next, i, max, Neighbors(index, i, max))
         /\ NeighborsRight(reach, next, i, max, LegacyNeighbors(graph, i, max))
    /\ \A i, j \in DOMAIN graph.nodes :
         /\ PathRight(reach, next, i, j, ShortestPath(index, i, j))
         /\ PathRight(reach, next, i, j, LegacyShortestPath(graph, i, j))
         /\ AnswersRight(Lined, i, j, behind, along)
================================================================================
