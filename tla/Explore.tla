-------------------------------- MODULE Explore --------------------------------
(***************************************************************************)
(* hologram_explore (src/engine/src/analysis/explore.rs): symbols, or the  *)
(* words of a question, to nodes; a path between them, what depends on     *)
(* them, the edges among them, the lines of their files and alerts.        *)
(*                                                                         *)
(* g is a graph with the names, kinds and files of its nodes; order is the *)
(* sequence in which its hash map yields the ids.  A word is a sequence of *)
(* parts, and is found within a name or an id if its parts are.            *)
(***************************************************************************)
EXTENDS Search

CONSTANTS
  TestLike,   \* names and files that look like those of tests
  MaxSymbols, \* words and symbols at most (16)
  MaxMatches, \* matches that need no context (3)
  MaxExplore, \* nodes that a search for a path may queue (1500)
  MaxHops,    \* its longest path (7)
  Before,     \* lines before the middle of a section (20)
  After,      \* and behind it (40)
  MaxPerFile, \* characters of a section (6500)
  MaxChars    \* characters of all sections (28000)

(***************************************************************************)
(* Symbols                                                                 *)
(***************************************************************************)
Contained(text, word) == \E k \in 0..(Len(text) - Len(word)) : SubSeq(text, k + 1, k + Len(word)) = word
SearchNodes(g, order, word) == SelectSeq(order, LAMBDA i : Contained(g.nodes[i].name, word) \/ Contained(i, word))
Exact(g, found, word) == SelectSeq(found, LAMBDA i : g.nodes[i].name = word)
FirstOf(s) == IF s = <<>> THEN <<>> ELSE <<Head(s)>>

\* A node of the very name, else the first found, if any.
Best(g, order, word) ==
  LET found == SearchNodes(g, order, word)
  IN FirstOf(Exact(g, found, word) \o found)
NamedNodes(g, order, symbols) == FlattenSeq([k \in DOMAIN symbols |-> Best(g, order, symbols[k])])

\* Each once, and not too many.
Distinct(s) == FoldLeft(LAMBDA acc, e : IF Contains(acc, e) THEN acc ELSE Append(acc, e), <<>>, s)
Capped(s) == SubSeq(s, 1, Lesser(Len(s), MaxSymbols))

\* Many matches: up to four in a container that the context names, else the one
\* with most edges, the last of them in order.
Disambiguate(g, found, context) ==
  LET within == SelectSeq(found, LAMBDA i : \E k \in DOMAIN context : Len(i) > 1 /\ Contained(Front(i), context[k]))
      Edges(i) == Cardinality({k \in DOMAIN g.edges : g.edges[k].source = i})
                    + Cardinality({k \in DOMAIN g.edges : g.edges[k].target = i})
      top == SelectSeq(found, LAMBDA i : \A j \in ToSet(found) : Edges(j) <= Edges(i))
  IN CASE Len(found) <= MaxMatches -> found
       [] Len(found) > MaxMatches /\ within # <<>> -> SubSeq(within, 1, Lesser(4, Len(within)))
       [] OTHER -> <<Last(top)>>

\* A token is a word and its kind: "qualified", "pascal", "simple", or "other" for
\* what is no identifier.
ParseQuery(g, order, query) ==
  LET tokens  == Capped(Distinct(SelectSeq(query, LAMBDA t : t.kind # "other")))
      Words(kind) == LET ts == SelectSeq(tokens, LAMBDA t : t.kind = kind) IN [k \in DOMAIN ts |-> ts[k].word]
      pascal  == Words("pascal")
      Context(word) ==
        LET found == SearchNodes(g, order, word)
        IN IF Len(found) = 1 THEN found ELSE FirstOf(Exact(g, found, word))
      Map(words, Of(_)) == FlattenSeq([k \in DOMAIN words |-> Of(words[k])])
      ids == Map(Words("qualified"), LAMBDA w : Best(g, order, w))
               \o Map(Words("simple"), LAMBDA w : Disambiguate(g, SearchNodes(g, order, w), pascal))
               \o Map(pascal, Context)
  IN Capped(Distinct([k \in DOMAIN ids |-> g.nodes[ids[k]].name]))

(***************************************************************************)
(* Flow                                                                    *)
(***************************************************************************)
RECURSIVE PathDepth(_, _, _)
PathDepth(prev, from, cur) == IF cur = from THEN 0 ELSE 1 + PathDepth(prev, from, prev[cur])

\* The search goes along the edges and stops at the goal; what exceeds the budget is
\* not queued.
RECURSIVE Bfs(_, _, _, _, _, _)
Bfs(next, queue, prev, explored, from, to) ==
  IF queue = <<>> \/ Head(queue) = to THEN prev
  ELSE LET cur  == Head(queue)
           news == InSomeOrder(next[cur] \ DOMAIN prev)
           some == IF PathDepth(prev, from, cur) >= MaxHops THEN <<>>
                   ELSE SubSeq(news, 1, Lesser(Len(news), MaxExplore - explored))
       IN Bfs(next, Tail(queue) \o some,
              [n \in DOMAIN prev \cup ToSet(some) |-> IF n \in DOMAIN prev THEN prev[n] ELSE cur],
              explored + Len(some), from, to)
BfsPath(next, from, to) ==
  LET prev == Bfs(next, <<from>>, [n \in {from} |-> from], 0, from, to)
  IN IF to \in DOMAIN prev THEN Back(prev, from, <<to>>) ELSE <<>>

\* Successors by edges of some kinds, of nodes and of ids that are none.
Along(g, kinds) ==
  LET es == {e \in EdgesOf(g) : e.kind \in kinds}
  IN [i \in DOMAIN g.nodes \cup UNION {{e.source, e.target} : e \in EdgesOf(g)} |-> {e.target : e \in {d \in es : d.source = i}}]

\* The longest of the paths between two of the nodes, by calls if there are any.
Longest(paths) == CHOOSE p \in paths : \A q \in paths : Len(q) <= Len(p)
LongestPath(next, named) ==
  LET pairs == {<<a, b>> \in (DOMAIN named) \X (DOMAIN named) : a # b}
  IN Longest({BfsPath(next, named[p[1]], named[p[2]]) : p \in pairs})
OrElse(path, other) == IF path # <<>> THEN path ELSE other
ComputeFlow(g, named) ==
  IF Len(named) < 2 THEN <<>>
  ELSE OrElse(LongestPath(Along(g, {"calls"}), named), LongestPath(Along(g, {e.kind : e \in EdgesOf(g)}), named))

(***************************************************************************)
(* What is around the nodes                                                *)
(***************************************************************************)
IsTestNode(n) == \E like \in TestLike : Contained(n.name, <<like>>) \/ n.file = like
Callers(g, named) == {e.source : e \in {d \in EdgesOf(g) : d.target \in ToSet(named)}} \cap DOMAIN g.nodes
BlastRadius(g, named) ==
  [tests |-> {i \in Callers(g, named) : IsTestNode(g.nodes[i])},
   dependents |-> {i \in Callers(g, named) : ~IsTestNode(g.nodes[i])}]

Relationships(g, named) ==
  {<<e.kind, g.nodes[e.source].name, g.nodes[e.target].name>> :
     e \in {d \in EdgesOf(g) : {d.source, d.target} \subseteq ToSet(named)}}

(***************************************************************************)
(* Source code: lens are the lengths of a file's lines with their ends.    *)
(***************************************************************************)
Chars(lens, start, end) == FoldLeft(LAMBDA acc, e : acc + e, 0, SubSeq(lens, start + 1, end))

\* The loops of read_file_section, over the lines start + 1 .. end.
RECURSIVE Shrink(_, _, _), Expand(_, _)
Shrink(lens, center, w) ==
  IF Chars(lens, w.start, w.end) <= MaxPerFile \/ w.end <= w.start + 1 THEN w
  ELSE Shrink(lens, center, IF w.end - center > center - w.start THEN [w EXCEPT !.end = @ - 1] ELSE [w EXCEPT !.start = @ + 1])
Expand(lens, w) ==
  LET back == [w EXCEPT !.start = IF @ > 0 THEN @ - 1 ELSE @]
      both == IF Chars(lens, back.start, back.end) < MaxPerFile /\ back.end < Len(lens) THEN [back EXCEPT !.end = @ + 1] ELSE back
  IN IF Chars(lens, w.start, w.end) >= MaxPerFile \/ (w.start = 0 /\ w.end = Len(lens)) THEN w
     ELSE Expand(lens, both)

\* No section of an empty file; without a line, the first is in the middle.
ReadFileSection(lens, hint) ==
  LET center == IF hint \in 1..Len(lens) THEN hint ELSE 1
      window == [start |-> IF center > Before THEN center - Before ELSE 0, end |-> Lesser(center + After, Len(lens))]
      w == Expand(lens, Shrink(lens, center, window))
  IN [start_line |-> w.start + 1, end_line |-> w.end, chars |-> Lesser(Chars(lens, w.start, w.end), MaxPerFile)]

\* The files of the nodes, then those of their successors, each once; a file that
\* is not on the disk is left out, and the budget stops either loop.
ReadSections(g, named, lines) ==
  LET around == InSomeOrder({e.target : e \in {d \in EdgesOf(g) : d.source \in ToSet(named)}} \cap DOMAIN g.nodes)
      ids    == named \o around
      Step(acc, i) ==
        LET f == g.nodes[i].file
            s == ReadFileSection(lines[f], g.nodes[i].line)
        IN CASE acc.total >= MaxChars \/ Contains(acc.seen, f) -> acc
             [] acc.total < MaxChars /\ ~Contains(acc.seen, f) /\ f \in DOMAIN lines /\ lines[f] # <<>> ->
                  [seen |-> Append(acc.seen, f), total |-> acc.total + s.chars, sections |-> Append(acc.sections, <<f, s>>)]
             [] OTHER -> [acc EXCEPT !.seen = Append(@, f)]
  IN FoldLeft(Step, [seen |-> <<>>, total |-> 0, sections |-> <<>>], ids).sections

(***************************************************************************)
(* Alerts                                                                  *)
(***************************************************************************)
\* The fragile modules are asked for by a key that their report does not have, and
\* the high coupling by files where the report wants ids, so neither appears.
CycleAlerts(g, named) == {c \in LegacyDetectCycles(g) : c \cap ToSet(named) # {}}
ConflictAlerts(g, named) ==
  LET media == {e.target : e \in {d \in EdgesOf(g) : d.source \in ToSet(named)}}
                 \cap {i \in DOMAIN g.nodes : g.nodes[i].kind = "medium"}
      Accessors(m) == {k \in DOMAIN g.edges : g.edges[k].target = m /\ g.edges[k].source \in DOMAIN g.nodes}
  IN {[resource |-> g.nodes[m].name,
       hasConcurrentWrite |-> \E e \in EdgesOf(g) : e.target = m /\ e.kind = "writes"] :
        m \in {n \in media : Cardinality(Accessors(n)) >= 2}}

About(g, named, lines) ==
  IF named = <<>> THEN [flow |-> <<>>, nodes |-> {}]
  ELSE [flow |-> ComputeFlow(g, named), nodes |-> ToSet(named), radius |-> BlastRadius(g, named),
        relationships |-> Relationships(g, named), source |-> ReadSections(g, named, lines),
        cycles |-> CycleAlerts(g, named), conflicts |-> ConflictAlerts(g, named)]

\* The answer to symbols, or to a question if there are none.
Answer(g, order, symbols, query, lines) ==
  About(g, NamedNodes(g, order, IF symbols # <<>> THEN symbols ELSE ParseQuery(g, order, query)), lines)
================================================================================
