--------------------------------- MODULE Build ---------------------------------
(***************************************************************************)
(* From the files of a project to a graph: the language adapters, the      *)
(* merge, the resolution of names across files and the coupling depths     *)
(* (src/engine/src/adapter, pipeline, graph and analysis/coupling.rs).     *)
(*                                                                         *)
(* What a syntax tree holds for an adapter is a sequence of facts, in the  *)
(* order of the walk: what is written, the name it mentions as its dotted  *)
(* parts, and the symbol around it.  Ids are dotted too, and are sequences *)
(* of their parts.                                                         *)
(***************************************************************************)
EXTENDS Naturals, FiniteSets, Sequences, SequencesExt

CONSTANTS
  File,       \* files of the project
  Path,       \* their paths below the root, without extension
  Lang,       \* "python", "typescript", or the extension of another language
  Root,       \* the parts of the path of the root: <<"">> for /
  Capitalized \* names that begin with a capital

Excluded == {"node_modules", "target", "venv"}
Known == {"python", "typescript", "go", "rb", "java"}

ASSUME PathAssumption == Path \in [File -> Seq(STRING)] /\ \A f \in File : Path[f] # <<>>
ASSUME RootAssumption == Root \in Seq(STRING) /\ Root # <<>>

\* discover_files: no excluded directory on the way, and an extension that an
\* adapter has registered.
Discovered == {f \in File : Lang[f] \in Known /\ ~\E k \in 1..(Len(Path[f]) - 1) : Path[f][k] \in Excluded}

NoMap == [x \in {} |-> x]
NoGraph == [nodes |-> NoMap, edges |-> NoMap]
Values(f) == {f[x] : x \in DOMAIN f}
\* f, and g elsewhere.
Over(f, g) == [x \in DOMAIN f \cup DOMAIN g |-> IF x \in DOMAIN f THEN f[x] ELSE g[x]]

(***************************************************************************)
(* Adapters                                                                *)
(***************************************************************************)
\* Only its base name, with its extension, identifies a TypeScript file.
PythonId(f) == Root \o Path[f]
TypeScriptId(f) == <<Last(Path[f]) \o "_ts">>
GenericId(f) == Root \o Path[f] \o <<Lang[f]>>
UnitId(f) ==
  CASE Lang[f] = "python" -> PythonId(f)
    [] Lang[f] = "typescript" -> TypeScriptId(f)
    [] OTHER -> GenericId(f)

Defining == {"function", "class", "interface"}

\* The enclosing function or class of a call, for Python only.
EnclosingSymbol(f, fact) == UnitId(f) \o fact.within

\* TypeScript calls are edges if they look like those of another module.
MakesEdge(f, fact) ==
  CASE fact.what \in Defining \cup {"base", "import"} -> TRUE
    [] fact.what = "from" -> Lang[f] = "python"
    [] fact.what = "call" -> Lang[f] # "typescript" \/ Len(fact.ref) > 1 \/ fact.ref[1] \in Capitalized
    [] OTHER -> FALSE

KindOf(what) ==
  CASE what \in Defining -> "defines"
    [] what = "base" -> "inherits"
    [] what = "call" -> "calls"
    [] OTHER -> "imports"

PythonEdge(f, fact) ==
  LET u == UnitId(f) IN
  [source |-> CASE fact.what \in {"base", "call"} -> EnclosingSymbol(f, fact) [] OTHER -> u,
   target |-> IF fact.what \in Defining \cup {"base"} THEN u \o fact.ref ELSE fact.ref,
   kind   |-> KindOf(fact.what),
   depth  |-> CASE fact.what \in {"base", "from"} -> 2 [] fact.what \in {"import", "call"} -> 1 [] OTHER -> 0]

TypeScriptEdge(f, fact) ==
  LET u == UnitId(f) IN
  [source |-> IF fact.what = "base" THEN u \o fact.within ELSE u,
   target |-> IF fact.what \in Defining THEN u \o fact.ref ELSE fact.ref,
   kind   |-> KindOf(fact.what),
   depth  |-> CASE fact.what = "import" -> 2 [] fact.what = "call" -> 1 [] OTHER -> 0]

GenericEdge(f, fact) ==
  LET u == UnitId(f) IN
  [source |-> IF fact.what = "base" THEN u \o fact.within ELSE u,
   target |-> IF fact.what \in Defining THEN u \o fact.ref ELSE fact.ref,
   kind   |-> KindOf(fact.what),
   depth  |-> 0]

EdgeFrom(f, fact) ==
  CASE Lang[f] = "python" -> PythonEdge(f, fact)
    [] Lang[f] = "typescript" -> TypeScriptEdge(f, fact)
    [] OTHER -> GenericEdge(f, fact)

\* Edges are numbered within a unit, and the kind is part of the id.
EdgeId(f, text, k) ==
  <<KindOf(text[k].what), UnitId(f), Cardinality({j \in 1..k : MakesEdge(f, text[j])})>>

\* The nodes and edges of one file.  Of two definitions of one name the later
\* in the walk stays.
Parsed(f, text) ==
  LET u      == UnitId(f)
      defs   == {k \in 1..Len(text) : text[k].what \in Defining}
      LastOf(ref) == CHOOSE k \in defs : text[k].ref = ref /\ \A j \in defs : text[j].ref = ref => j <= k
      makers == {k \in 1..Len(text) : MakesEdge(f, text[k])}
      OfDef(i) == [name |-> <<Last(i)>>, kind |-> text[LastOf(<<Last(i)>>)].what, file |-> f, at |-> "file"]
  IN [nodes |-> Over([i \in {u \o text[k].ref : k \in defs} |-> OfDef(i)],
                     [i \in {u} |-> [name |-> u, kind |-> "file", file |-> f, at |-> "file"]]),
      edges |-> [e \in {EdgeId(f, text, k) : k \in makers} |->
                   EdgeFrom(f, text[CHOOSE k \in makers : EdgeId(f, text, k) = e])]]

(***************************************************************************)
(* Merge                                                                   *)
(***************************************************************************)
\* Fault: files do not count when nodes are compared.
Merged_ByName(g, h) ==
  LET new == {i \in DOMAIN h.nodes : \A n \in Values(g.nodes) : <<n.name, n.kind>> # <<h.nodes[i].name, h.nodes[i].kind>>}
  IN [nodes |-> Over([i \in new |-> h.nodes[i]], g.nodes), edges |-> Over(h.edges, g.edges)]

\* A node is skipped if one of the same location, name and kind is there; one
\* with its id is replaced, and so is an edge.
Merged(g, h) ==
  LET new == {i \in DOMAIN h.nodes : h.nodes[i] \notin Values(g.nodes)}
  IN [nodes |-> Over([i \in new |-> h.nodes[i]], g.nodes), edges |-> Over(h.edges, g.edges)]

(***************************************************************************)
(* CrossFileResolver                                                       *)
(***************************************************************************)
ShortName(name) == Last(name)

\* The nodes that a name may be resolved to: itself; the only one with its
\* short name; or one with the longest id of those that the name is a suffix
\* of, whichever comes first.
Candidates(g, name) ==
  LET homonyms == {i \in DOMAIN g.nodes : ShortName(g.nodes[i].name) = ShortName(name)}
      suffixed == {i \in homonyms : Len(name) > 1 /\ IsSuffix(name, i)}
  IN CASE name \in DOMAIN g.nodes   -> {name}
       [] Cardinality(homonyms) = 1 -> homonyms
       [] OTHER -> {i \in suffixed : \A j \in suffixed : Len(j) <= Len(i)}

Ends(edges) == UNION {{e.source, e.target} : e \in Values(edges)}
Dangling(g) == Ends(g.edges) \ DOMAIN g.nodes

\* pick maps the dangling names that have candidates to one of them.
Picks(g) ==
  LET names == {n \in Dangling(g) : Candidates(g, n) # {}}
  IN {p \in [names -> UNION {Candidates(g, n) : n \in names}] : \A n \in names : p[n] \in Candidates(g, n)}

\* Fault: an edge that has no nodes stays as it is.
Resolved_KeepsLoose(g, pick) ==
  LET To(n) == IF n \in DOMAIN pick THEN pick[n] ELSE n
  IN [g EXCEPT !.edges = [k \in DOMAIN @ |-> [@[k] EXCEPT !.source = To(@), !.target = To(@)]]]

Resolved(g, pick) ==
  LET Found(e)   == {e.source, e.target} \subseteq DOMAIN g.nodes \cup DOMAIN pick
      To(n)      == IF n \in DOMAIN pick THEN pick[n] ELSE n
      loose      == {k \in DOMAIN g.edges : {g.edges[k].source, g.edges[k].target} \cap Dangling(g) # {}}
      settled    == {k \in loose : Found(g.edges[k])}
      kept       == DOMAIN g.edges \ loose
  IN [g EXCEPT !.edges =
        Over([k \in {<<"resolved", x>> : x \in settled} |-> [g.edges[k[2]] EXCEPT !.source = To(@), !.target = To(@)]],
             [k \in kept |-> g.edges[k]])]

(***************************************************************************)
(* compute_coupling                                                        *)
(***************************************************************************)
\* The package of a node is the first part of its location, which is empty if
\* the root is absolute.
Package(f) == Head(Root)

Coupling(g, e) ==
  CASE e.kind \in {"reads", "writes", "shares"} -> 3
    [] e.kind \in {"triggers", "awaits", "sequences"} -> 4
    [] OTHER -> LET p == Package(g.nodes[e.source].file)
                IN IF p = Package(g.nodes[e.target].file) /\ p # "" THEN 1 ELSE 2

Coupled(g) == [g EXCEPT !.edges = [k \in DOMAIN g.edges |-> [g.edges[k] EXCEPT !.depth = Coupling(g, g.edges[k])]]]
================================================================================
