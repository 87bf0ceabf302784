----------------------------- MODULE Store_proofs -----------------------------
(***************************************************************************)
(* Proofs about Store, for any processes, threads, symbols and depths,     *)
(* whatever the analyses come to and whatever an older version left.       *)
(*                                                                         *)
(* The argument: a thread that loads or saves holds the store mutex of its *)
(* process, so what it saves is still the index of the process; and no     *)
(* save takes a row away, so the ends of an edge that some save, load or   *)
(* analysis has seen stay where they were.                                 *)
(***************************************************************************)
EXTENDS Store, TLAPS

Names  == UNION {[S -> Name] : S \in SUBSET Id}
Depths == UNION {[S -> Depth] : S \in SUBSET Link}
Holding == {"loading", "nodes", "edges"}
Saving  == {"nodes", "edges"}

\* The type invariant, in the terms of the lemmas.
Typed ==
  /\ rows \in Names /\ links \in Depths
  /\ index \in [Process -> Graph] /\ open \in SUBSET Process
  /\ mutex \in [Process -> Thread \cup {NoOne}] /\ op \in [Thread -> Activity]
  /\ saved.ids \in SUBSET Id /\ saved.links \in Depths
  /\ behind \in [Process -> BOOLEAN]

\* An edge in memory has its ends in the graph or in the database, or an analysis
\* has invented them.
Covered(g) == Ends(g.edges) \subseteq DOMAIN g.names \cup DOMAIN rows \cup Invented

\* The database has the names, and the edges.
HasNames(names) == \A i \in DOMAIN names : i \in DOMAIN rows /\ rows[i] = names[i]
HasEdges(edges) == \A e \in edges : e[1] \in DOMAIN links /\ links[e[1]] >= e[2]

\* What a thread knows while it holds the mutex.
Held(t) == op[t].at \in Holding => mutex[Home[t]] = t
Loads(t) ==
  At(t, "loading") => Home[t] \notin open /\ (~behind[Home[t]] => op[t].names = rows)
Opened(t) == op[t].at \in Saving \cup {"unsaved", "found"} => Home[t] \in open
Saves(t) == op[t].at \in Saving => op[t].graph = index[Home[t]]
Half(t) ==
  At(t, "edges") => /\ DOMAIN op[t].graph.names \subseteq DOMAIN rows
                    /\ ~behind[Home[t]] => HasNames(op[t].graph.names)

Working(t) == Held(t) /\ Loads(t) /\ Opened(t) /\ Saves(t) /\ Half(t)

Quiet(p) == \A t \in Thread : Home[t] = p => op[t].at \in {"idle", "found"}
Settled(p) ==
  p \in open /\ ~behind[p] /\ Quiet(p) => HasNames(index[p].names) /\ HasEdges(index[p].edges)

\* The foreign keys hold, and the edges in memory are covered.
Keyed ==
  /\ \A l \in DOMAIN links : l[1] \in DOMAIN rows /\ l[2] \in DOMAIN rows
  /\ \A p \in Process : Covered(index[p])

IInv ==
  /\ Typed
  /\ \A t \in Thread : Working(t)
  /\ \A p \in Process : Settled(p)
  /\ Keyed
  /\ SavedSurvives

-----------------------------------------------------------------------------
(* Facts about the helpers *)

LEMMA EndsFact ==
  ASSUME NEW edges, NEW x
  PROVE  x \in Ends(edges) <=> \E e \in edges : x = e[1][1] \/ x = e[1][2]
BY DEF Ends

\* The greatest depth is one of the depths and not less than any.
LEMMA GreatestFact ==
  ASSUME NEW S \in SUBSET Depth, S # {}
  PROVE  Greatest(S) \in S /\ \A x \in S : x <= Greatest(S)
<1>1. \E d \in S : \A x \in S : x <= d
  BY DepthAssumption
<1> QED  BY <1>1 DEF Greatest

LEMMA DepthsFact ==
  ASSUME NEW f \in Depths
  PROVE  DOMAIN f \in SUBSET Link /\ \A l \in DOMAIN f : f[l] \in Depth /\ f[l] \in Nat
<1>1. DOMAIN f \in SUBSET Link /\ \A l \in DOMAIN f : f[l] \in Depth
  BY DEF Depths
<1> QED  BY <1>1, DepthAssumption

\* A row of the edge table after an upsert.
LEMMA DeepestFact ==
  ASSUME NEW edges \in SUBSET (Link \X Depth), NEW old \in Depths
  PROVE  /\ Deepest(edges, old) \in Depths
         /\ DOMAIN Deepest(edges, old) = {e[1] : e \in edges} \cup DOMAIN old
         /\ \A e \in edges : Deepest(edges, old)[e[1]] >= e[2]
         /\ \A l \in DOMAIN old : Deepest(edges, old)[l] >= old[l]
         /\ \A l \in DOMAIN Deepest(edges, old) :
              \/ \E e \in edges : e[1] = l /\ Deepest(edges, old)[l] = e[2]
              \/ l \in DOMAIN old /\ Deepest(edges, old)[l] = old[l]
<1> DEFINE new == Deepest(edges, old)
           Of(l) == DepthsOf(l, edges) \cup (IF l \in DOMAIN old THEN {old[l]} ELSE {})
<1>1. DOMAIN new = {e[1] : e \in edges} \cup DOMAIN old /\ \A l \in DOMAIN new : new[l] = Greatest(Of(l))
  BY DEF Deepest
<1>2. \A e \in edges : e[1] \in Link /\ e[2] \in Depth
  OBVIOUS
<1>3. DOMAIN old \in SUBSET Link /\ \A l \in DOMAIN old : old[l] \in Depth
  BY DEF Depths
<1>4. \A l : \A d \in DepthsOf(l, edges) : \E e \in edges : e[1] = l /\ e[2] = d
  BY DEF DepthsOf
<1>5. \A e \in edges : e[2] \in DepthsOf(e[1], edges)
  BY DEF DepthsOf
<1>6. \A l \in DOMAIN new : Of(l) \in SUBSET Depth /\ Of(l) # {}
  BY <1>1, <1>2, <1>3, <1>4, <1>5
<1>7. \A l \in DOMAIN new : new[l] \in Of(l) /\ \A x \in Of(l) : x <= new[l]
  <2> SUFFICES ASSUME NEW l \in DOMAIN new
               PROVE  new[l] \in Of(l) /\ \A x \in Of(l) : x <= new[l]
    OBVIOUS
  <2>1. new[l] = Greatest(Of(l)) /\ Of(l) \in SUBSET Depth /\ Of(l) # {}
    BY <1>1, <1>6
  <2> HIDE DEF new, Of
  <2>2. Greatest(Of(l)) \in Of(l) /\ \A x \in Of(l) : x <= Greatest(Of(l))
    BY <2>1, GreatestFact
  <2> QED  BY <2>1, <2>2
<1>12. new = [l \in DOMAIN new |-> new[l]]
  BY DEF Deepest
<1> HIDE DEF new
<1>8. new \in Depths
  <2>1. DOMAIN new \in SUBSET Link /\ \A l \in DOMAIN new : new[l] \in Depth
    BY <1>1, <1>2, <1>3, <1>6, <1>7
  <2>2. new \in [DOMAIN new -> Depth]
    BY <2>1, <1>12
  <2> QED  BY <2>1, <2>2 DEF Depths
<1>9. \A e \in edges : new[e[1]] >= e[2]
  <2> TAKE e \in edges
  <2>1. e[1] \in DOMAIN new /\ e[2] \in Of(e[1])
    BY <1>1, <1>5
  <2>2. e[2] <= new[e[1]] /\ e[2] \in Nat /\ new[e[1]] \in Nat
    BY <2>1, <1>6, <1>7, DepthAssumption
  <2> QED  BY <2>2
<1>10. \A l \in DOMAIN old : new[l] >= old[l]
  <2> TAKE l \in DOMAIN old
  <2>1. l \in DOMAIN new /\ old[l] \in Of(l)
    BY <1>1
  <2>2. old[l] <= new[l] /\ old[l] \in Nat /\ new[l] \in Nat
    BY <2>1, <1>6, <1>7, DepthAssumption
  <2> QED  BY <2>2
<1>11. \A l \in DOMAIN new :
         \/ \E e \in edges : e[1] = l /\ new[l] = e[2]
         \/ l \in DOMAIN old /\ new[l] = old[l]
  BY <1>4, <1>7
<1> QED  BY <1>1, <1>8, <1>9, <1>10, <1>11 DEF new

\* A table with greater depths stays one when both take the same edges.
LEMMA DeepestGrows ==
  ASSUME NEW edges \in SUBSET (Link \X Depth), NEW less \in Depths, NEW more \in Depths,
         \A l \in DOMAIN less : l \in DOMAIN more /\ more[l] >= less[l],
         NEW l \in DOMAIN Deepest(edges, less)
  PROVE  l \in DOMAIN Deepest(edges, more) /\ Deepest(edges, more)[l] >= Deepest(edges, less)[l]
<1> DEFINE d == Deepest(edges, less)
           f == Deepest(edges, more)
<1>1. /\ d \in Depths /\ DOMAIN d = {e[1] : e \in edges} \cup DOMAIN less
      /\ \/ \E e \in edges : e[1] = l /\ d[l] = e[2]
         \/ l \in DOMAIN less /\ d[l] = less[l]
  BY DeepestFact
<1>2. /\ f \in Depths /\ DOMAIN f = {e[1] : e \in edges} \cup DOMAIN more
      /\ \A e \in edges : f[e[1]] >= e[2]
      /\ \A k \in DOMAIN more : f[k] >= more[k]
  BY DeepestFact
<1>3. l \in DOMAIN d
  OBVIOUS
<1> HIDE DEF d, f
<1>4. l \in DOMAIN f
  BY <1>1, <1>2, <1>3
<1>5. d[l] \in Nat /\ f[l] \in Nat
  BY <1>1, <1>2, <1>3, <1>4, DepthsFact
<1>6. ASSUME NEW e \in edges, e[1] = l, d[l] = e[2]
      PROVE  f[l] >= d[l]
  BY <1>2, <1>6
<1>7. ASSUME l \in DOMAIN less, d[l] = less[l]
      PROVE  f[l] >= d[l]
  <2>1. l \in DOMAIN more /\ f[l] >= more[l] /\ more[l] >= less[l]
    BY <1>2, <1>7
  <2>2. more[l] \in Nat /\ less[l] \in Nat
    BY <2>1, <1>7, DepthsFact
  <2> QED  BY <2>1, <2>2, <1>5, <1>7
<1>8. f[l] >= d[l]
  BY <1>1, <1>6, <1>7
<1> QED  BY <1>4, <1>8 DEF d, f

LEMMA OverFact ==
  ASSUME NEW f \in Names, NEW g \in Names
  PROVE  /\ Over(f, g) \in Names
         /\ DOMAIN Over(f, g) = DOMAIN f \cup DOMAIN g
         /\ \A i \in DOMAIN f : Over(f, g)[i] = f[i]
<1>1. /\ DOMAIN f \in SUBSET Id /\ \A i \in DOMAIN f : f[i] \in Name
      /\ DOMAIN g \in SUBSET Id /\ \A i \in DOMAIN g : g[i] \in Name
  BY DEF Names
<1>2. /\ DOMAIN Over(f, g) = DOMAIN f \cup DOMAIN g
      /\ \A i \in DOMAIN f \cup DOMAIN g : Over(f, g)[i] = IF i \in DOMAIN f THEN f[i] ELSE g[i]
      /\ Over(f, g) = [i \in DOMAIN f \cup DOMAIN g |-> Over(f, g)[i]]
  BY DEF Over
<1>3. DOMAIN f \cup DOMAIN g \in SUBSET Id /\ \A i \in DOMAIN f \cup DOMAIN g : Over(f, g)[i] \in Name
  BY <1>1, <1>2
<1>4. Over(f, g) \in [DOMAIN f \cup DOMAIN g -> Name]
  BY <1>2, <1>3
<1> QED  BY <1>2, <1>3, <1>4 DEF Names

-----------------------------------------------------------------------------
(* Types *)

LEMMA ActivityType ==
  /\ Idle \in Activity /\ [at |-> "unsaved"] \in Activity
  /\ \A names \in Names : [at |-> "loading", names |-> names] \in Activity
  /\ \A g \in Graph : [at |-> "nodes", graph |-> g] \in Activity /\ [at |-> "edges", graph |-> g] \in Activity
  /\ \A ids \in SUBSET Id, new \in Name : [at |-> "found", ids |-> ids, new |-> new] \in Activity
BY DEF Idle, Activity, Names

LEMMA ActivityParts ==
  ASSUME NEW o \in Activity
  PROVE  /\ o.at = "loading" => o.names \in Names
         /\ o.at \in Saving => o.graph \in Graph
         /\ o.at = "found" => o.ids \in SUBSET Id /\ o.new \in Name
BY DEF Activity, Names, Saving

LEMMA GraphType ==
  /\ Graph = [names : Names, edges : SUBSET (Link \X Depth)]
  /\ NoGraph \in Graph /\ NoGraph.names \in Depths /\ NoGraph.edges = {}
  /\ DOMAIN NoGraph.names = {}
<1>1. NoGraph.names \in [{} -> Name] /\ NoGraph.names \in [{} -> Depth]
  BY DEF NoGraph
<1>2. {} \in SUBSET Id /\ {} \in SUBSET Link
  OBVIOUS
<1>3. NoGraph.names \in Names /\ NoGraph.names \in Depths
  BY <1>1, <1>2 DEF Names, Depths
<1> QED  BY <1>3 DEF Graph, Names, NoGraph

LEMMA LoadedType ==
  ASSUME NEW table \in Depths
  PROVE  Loaded(table) \in SUBSET (Link \X Depth)
BY DepthsFact DEF Loaded

LEMMA RenamedType ==
  ASSUME NEW names \in Names, NEW ids, NEW new \in Name
  PROVE  Renamed(names, ids, new) \in Names /\ DOMAIN Renamed(names, ids, new) = DOMAIN names
<1>1. DOMAIN names \in SUBSET Id /\ \A i \in DOMAIN names : names[i] \in Name
  BY DEF Names
<1>2. Renamed(names, ids, new) \in [DOMAIN names -> Name]
  BY <1>1 DEF Renamed
<1> QED  BY <1>1, <1>2 DEF Names

LEMMA TypedIsTypeOK == Typed => TypeOK
BY DEF Typed, TypeOK, Names, Depths

LEMMA InitTyped == Init => Typed
BY GraphType, ActivityType DEF Init, Typed

LEMMA StepTyped ==
  ASSUME Typed, [Next]_vars
  PROVE  Typed'
<1> USE ThreadAssumption DEF tables, At, Typed, Saving
<1>1. CASE UNCHANGED vars
  BY <1>1 DEF vars
<1>2. ASSUME NEW t \in Thread, LoadNodes(t)
      PROVE  Typed'
  BY <1>2, ActivityType DEF LoadNodes
<1>3. ASSUME NEW t \in Thread, LoadEdges(t)
      PROVE  Typed'
  <2>1. [names |-> op[t].names, edges |-> Loaded(links)] \in Graph
    BY <1>3, ActivityParts, LoadedType, GraphType DEF LoadEdges
  <2> QED  BY <1>3, <2>1, ActivityType DEF LoadEdges
<1>4. ASSUME NEW t \in Thread, LoadFails(t)
      PROVE  Typed'
  BY <1>4, ActivityType, LegacyAssumption DEF LoadFails
<1>5. ASSUME NEW t \in Thread, OpenFails(t)
      PROVE  Typed'
  BY <1>5, ActivityType DEF OpenFails
<1>6. ASSUME NEW t \in Thread, Save(t)
      PROVE  Typed'
  BY <1>6, ActivityType DEF Save
<1>7. ASSUME NEW t \in Thread, SaveNodes(t)
      PROVE  Typed'
  <2>1. op[t].graph \in Graph /\ op[t].graph.names \in Names
    BY <1>7, ActivityParts, GraphType DEF SaveNodes
  <2>2. rows' \in Names
    BY <1>7, <2>1, OverFact DEF SaveNodes
  <2> QED  BY <1>7, <2>1, <2>2, ActivityType DEF SaveNodes
<1>8. ASSUME NEW t \in Thread, SaveEdges(t)
      PROVE  Typed'
  <2>1. /\ op[t].graph.edges \in SUBSET (Link \X Depth)
        /\ op[t].graph.names \in Names
    BY <1>8, ActivityParts, GraphType DEF SaveEdges
  <2>2. links' \in Depths /\ saved'.links \in Depths /\ saved'.ids = saved.ids \cup DOMAIN op[t].graph.names
    BY <1>8, <2>1, DeepestFact DEF SaveEdges
  <2>3. DOMAIN op[t].graph.names \in SUBSET Id
    BY <2>1 DEF Names
  <2> QED  BY <1>8, <2>2, <2>3, ActivityType DEF SaveEdges
<1>9. ASSUME NEW t \in Thread, SaveFails(t)
      PROVE  Typed'
  BY <1>9, ActivityType DEF SaveFails
<1>10. ASSUME NEW t \in Thread, Swap(t)
       PROVE  Typed'
  BY <1>10, ActivityType, ResultsAssumption DEF Swap
<1>11. ASSUME NEW t \in Thread, Find(t)
       PROVE  Typed'
  <2>1. PICK old \in Name, new \in Name :
          op' = [op EXCEPT ![t] = [at |-> "found", ids |-> {i \in DOMAIN index[Home[t]].names : index[Home[t]].names[i] = old}, new |-> new]]
    BY <1>11 DEF Find
  <2>2. index[Home[t]].names \in Names
    BY GraphType
  <2>3. {i \in DOMAIN index[Home[t]].names : index[Home[t]].names[i] = old} \in SUBSET Id
    BY <2>2 DEF Names
  <2>4. op' \in [Thread -> Activity]
    BY <2>1, <2>3, ActivityType
  <2> QED  BY <1>11, <2>4 DEF Find
<1>12. ASSUME NEW t \in Thread, Rename(t)
       PROVE  Typed'
  <2>1. op[t].new \in Name /\ index[Home[t]] \in Graph
    BY <1>12, ActivityParts DEF Rename
  <2>2. Renamed(index[Home[t]].names, op[t].ids, op[t].new) \in Names
    BY <2>1, RenamedType, GraphType
  <2>3. [index[Home[t]] EXCEPT !.names = Renamed(@, op[t].ids, op[t].new)] \in Graph
    BY <2>1, <2>2, GraphType
  <2>4. index' \in [Process -> Graph]
    BY <1>12, <2>3 DEF Rename
  <2> QED  BY <1>12, <2>4, ActivityType DEF Rename
<1>13. ASSUME NEW p \in Process, Die(p)
       PROVE  Typed'
  BY <1>13, ActivityType, GraphType DEF Die
<1> QED
  BY <1>1, <1>2, <1>3, <1>4, <1>5, <1>6, <1>7, <1>8, <1>9, <1>10, <1>11, <1>12, <1>13 DEF Next
-----------------------------------------------------------------------------
(* Steps *)

LEMMA InitIInv == Init => IInv
<1> SUFFICES ASSUME Init PROVE IInv
  OBVIOUS
<1>1. DOMAIN rows = {} /\ DOMAIN links = {} /\ DOMAIN saved.links = {} /\ saved.ids = {}
  BY GraphType DEF Init
<1>2. \A t \in Thread : Working(t)
  BY DEF Init, Working, Held, Loads, Opened, Saves, Half, At, Idle, Holding, Saving
<1>3. \A p \in Process : Settled(p)
  BY DEF Init, Settled
<1>4. \A p \in Process : Covered(index[p])
  BY GraphType, EndsFact DEF Init, Covered
<1> QED  BY <1>1, <1>2, <1>3, <1>4, InitTyped DEF IInv, Keyed, SavedSurvives

\* What a step of a thread leaves the others.
LEMMA Others ==
  ASSUME Typed, NEW t \in Thread, NEW o, op' = [op EXCEPT ![t] = o]
  PROVE  op'[t] = o /\ \A u \in Thread \ {t} : op'[u] = op[u]
BY DEF Typed

\* Only one thread of a process is between taking and releasing the mutex.
LEMMA Alone ==
  ASSUME IInv, NEW t \in Thread, mutex[Home[t]] \in {t, NoOne}
  PROVE  \A u \in Thread \ {t} : Home[u] = Home[t] => op[u].at \notin Holding
BY ThreadAssumption DEF IInv, Working, Held

\* Steps that leave the tables alone keep what is said of them, if the new index
\* is covered.
LEMMA TablesKept ==
  ASSUME IInv, UNCHANGED tables, index' \in [Process -> Graph],
         \A p \in Process : Covered(index'[p])
  PROVE  Keyed' /\ SavedSurvives'
BY DEF IInv, Keyed, Covered, SavedSurvives, tables


\* A thread that does not hold the mutex knows hardly anything that could be
\* disturbed.
LEMMA Free ==
  ASSUME NEW u \in Thread, op'[u].at \notin Holding, Opened(u)'
  PROVE  Working(u)'
BY DEF Working, Held, Loads, Opened, Saves, Half, At, Holding, Saving

\* Another thread, whose process a step leaves alone.
LEMMA ThreadKept ==
  ASSUME IInv, UNCHANGED tables, NEW u \in Thread, op'[u] = op[u],
         mutex'[Home[u]] = mutex[Home[u]], index'[Home[u]] = index[Home[u]],
         behind'[Home[u]] = behind[Home[u]], Home[u] \in open' <=> Home[u] \in open
  PROVE  Working(u)'
BY DEF IInv, Working, Held, Loads, Opened, Saves, Half, HasNames, At, tables

\* A process that a step leaves alone.
LEMMA ProcessKept ==
  ASSUME IInv, UNCHANGED tables, NEW p \in Process, index'[p] = index[p],
         behind'[p] = behind[p], p \in open' <=> p \in open, Quiet(p)' => Quiet(p)
  PROVE  Settled(p)'
BY DEF IInv, Settled, HasNames, HasEdges, tables

\* A step of t that leaves the tables alone, and of the processes and threads
\* only changes what is t's.
Local(t) ==
  /\ UNCHANGED tables
  /\ open \subseteq open'
  /\ \A u \in Thread \ {t} : op'[u] = op[u]
  /\ \A p \in Process \ {Home[t]} :
       /\ mutex'[p] = mutex[p] /\ index'[p] = index[p] /\ behind'[p] = behind[p]
       /\ p \in open' <=> p \in open

\* What such a step has to show when t may take, holds or releases the mutex.
LEMMA LocalStep ==
  ASSUME IInv, NEW t \in Thread, Local(t), Typed', mutex[Home[t]] \in {t, NoOne},
         Working(t)', Settled(Home[t])', Covered(index'[Home[t]])
  PROVE  IInv'
<1> USE ThreadAssumption
<1>1. ASSUME NEW u \in Thread PROVE Working(u)'
  <2>1. CASE u # t /\ Home[u] = Home[t]
    <3>1. op'[u] = op[u] /\ op[u].at \notin Holding
      BY <2>1, Alone DEF Local
    <3>2. Opened(u)'
      BY <3>1 DEF IInv, Working, Opened, Local
    <3> QED  BY <3>1, <3>2, Free
  <2>2. CASE Home[u] # Home[t]
    BY <2>2, ThreadKept DEF Local
  <2> QED  BY <2>1, <2>2
<1>2. ASSUME NEW p \in Process PROVE Settled(p)'
  <2>1. CASE p # Home[t]
    <3>1. Quiet(p)' => Quiet(p)
      BY <2>1 DEF Local, Quiet
    <3> QED  BY <2>1, <3>1, ProcessKept DEF Local
  <2> QED  BY <2>1
<1>3. \A p \in Process : Covered(index'[p])
  BY DEF Local, IInv, Keyed
<1>4. Keyed' /\ SavedSurvives'
  BY <1>3, TablesKept DEF Typed, Local
<1> QED  BY <1>1, <1>2, <1>4 DEF IInv

LEMMA LoadNodesStep ==
  ASSUME IInv, NEW t \in Thread, LoadNodes(t), Typed'
  PROVE  IInv'
<1> USE DEF LoadNodes, tables, At
<1>1. op'[t] = [at |-> "loading", names |-> rows] /\ \A u \in Thread \ {t} : op'[u] = op[u]
  BY Others DEF IInv
<1>2. Home[t] \in Process /\ mutex'[Home[t]] = t
  BY ThreadAssumption DEF IInv, Typed
<1>3. Local(t)
  BY <1>1 DEF Local, IInv, Typed
<1>4. Working(t)'
  BY <1>1, <1>2 DEF Working, Held, Loads, Opened, Saves, Half, Saving
<1>5. Settled(Home[t])'
  BY DEF Settled
<1> QED  BY <1>2, <1>3, <1>4, <1>5, LocalStep DEF IInv, Keyed

LEMMA LoadEdgesStep ==
  ASSUME IInv, NEW t \in Thread, LoadEdges(t), Typed'
  PROVE  IInv'
<1> USE DEF LoadEdges, tables, At
<1>1. op'[t] = Idle /\ \A u \in Thread \ {t} : op'[u] = op[u]
  BY Others DEF IInv
<1>2. mutex[Home[t]] = t
  BY DEF IInv, Working, Held, Holding
<1>3. Home[t] \in Process /\ index'[Home[t]] = [names |-> op[t].names, edges |-> Loaded(links)]
  BY ThreadAssumption DEF IInv, Typed
<1>4. Local(t)
  BY <1>1 DEF Local, IInv, Typed
<1>5. Working(t)'
  BY <1>1, Free DEF Idle, Holding, Opened, Saving
<1>6. \A e \in Loaded(links) : e[1] \in DOMAIN links /\ e[2] = links[e[1]] /\ e[2] \in Nat
  BY DepthsFact DEF Loaded, IInv, Typed
<1>7. Settled(Home[t])'
  <2>1. ~behind[Home[t]] => op[t].names = rows
    BY DEF IInv, Working, Loads
  <2>2. ~behind[Home[t]] => HasNames(index'[Home[t]].names)
    BY <2>1, <1>3 DEF HasNames
  <2>3. HasEdges(index'[Home[t]].edges)
    BY <1>3, <1>6 DEF HasEdges
  <2> QED  BY <2>2, <2>3 DEF Settled, HasNames, HasEdges
<1>8. Covered(index'[Home[t]])
  <2>1. Ends(index'[Home[t]].edges) \subseteq DOMAIN rows
    BY <1>3, <1>6, EndsFact DEF IInv, Keyed
  <2> QED  BY <2>1 DEF Covered
<1> QED  BY <1>2, <1>4, <1>5, <1>7, <1>8, LocalStep

LEMMA LoadFailsStep ==
  ASSUME IInv, NEW t \in Thread, LoadFails(t), Typed'
  PROVE  IInv'
<1> USE DEF LoadFails, tables, At
<1>1. mutex[Home[t]] = t
  BY DEF IInv, Working, Held, Holding
<1>2. Home[t] \in Process /\ index'[Home[t]] = Legacy /\ Home[t] \in open'
  BY ThreadAssumption DEF IInv, Typed
<1>3. Covered(index'[Home[t]])
  BY <1>2, LegacyAssumption DEF Covered, Closed
<1>4. CASE Legacy = NoGraph
  <2>1. op'[t] = Idle /\ \A u \in Thread \ {t} : op'[u] = op[u]
    BY <1>4, Others DEF IInv
  <2>2. Local(t)
    BY <1>4, <2>1 DEF Local, IInv, Typed
  <2>3. Working(t)'
    BY <2>1, Free DEF Idle, Holding, Opened, Saving
  <2>4. Settled(Home[t])'
    BY <1>2, <1>4, GraphType DEF Settled, HasNames, HasEdges
  <2> QED  BY <1>1, <1>3, <2>2, <2>3, <2>4, LocalStep
<1>5. CASE Legacy # NoGraph
  <2>1. op'[t] = [at |-> "nodes", graph |-> Legacy] /\ \A u \in Thread \ {t} : op'[u] = op[u]
    BY <1>5, Others DEF IInv
  <2>2. Local(t)
    BY <1>5, <2>1 DEF Local, IInv, Typed
  <2>3. Working(t)'
    BY <1>1, <1>2, <1>5, <2>1 DEF Working, Held, Loads, Opened, Saves, Half
  <2>4. Settled(Home[t])'
    BY <2>1 DEF Settled, Quiet
  <2> QED  BY <1>1, <1>3, <2>2, <2>3, <2>4, LocalStep
<1> QED  BY <1>4, <1>5

LEMMA OpenFailsStep ==
  ASSUME IInv, NEW t \in Thread, OpenFails(t), Typed'
  PROVE  IInv'
<1> USE DEF OpenFails, tables, At
<1>1. op'[t] = Idle /\ \A u \in Thread \ {t} : op'[u] = op[u]
  BY Others DEF IInv
<1>2. mutex[Home[t]] = t /\ Home[t] \notin open
  BY DEF IInv, Working, Held, Loads, Holding
<1>3. Local(t)
  BY <1>1 DEF Local, IInv, Typed
<1>4. Working(t)'
  BY <1>1, Free DEF Idle, Holding, Opened, Saving
<1>5. Settled(Home[t])'
  BY <1>2 DEF Settled
<1> QED  BY <1>2, <1>3, <1>4, <1>5, LocalStep, ThreadAssumption DEF IInv, Keyed

LEMMA SaveStep ==
  ASSUME IInv, NEW t \in Thread, Save(t), Typed'
  PROVE  IInv'
<1> USE DEF Save, tables, At
<1>1. op'[t] = [at |-> "nodes", graph |-> index[Home[t]]] /\ \A u \in Thread \ {t} : op'[u] = op[u]
  BY Others DEF IInv
<1>2. Home[t] \in Process /\ mutex'[Home[t]] = t
  BY ThreadAssumption DEF IInv, Typed
<1>3. Local(t)
  BY <1>1 DEF Local, IInv, Typed
<1>4. Working(t)'
  <2>1. Home[t] \in open'
    BY DEF IInv, Working, Opened
  <2> QED  BY <1>1, <1>2, <2>1 DEF Working, Held, Loads, Opened, Saves, Half
<1>5. Settled(Home[t])'
  BY <1>1 DEF Settled, Quiet
<1> QED  BY <1>2, <1>3, <1>4, <1>5, LocalStep DEF IInv, Keyed
LEMMA SaveFailsStep ==
  ASSUME IInv, NEW t \in Thread, SaveFails(t), Typed'
  PROVE  IInv'
<1> USE DEF SaveFails, tables, At
<1>1. op'[t] = Idle /\ \A u \in Thread \ {t} : op'[u] = op[u]
  BY Others DEF IInv
<1>2. mutex[Home[t]] = t
  BY DEF IInv, Working, Held, Holding
<1>3. Home[t] \in Process /\ behind'[Home[t]]
  BY ThreadAssumption DEF IInv, Typed
<1>4. Local(t)
  BY <1>1 DEF Local, IInv, Typed
<1>5. Working(t)'
  BY <1>1, Free DEF Idle, Holding, Opened, Saving
<1>6. Settled(Home[t])'
  BY <1>3 DEF Settled
<1> QED  BY <1>2, <1>3, <1>4, <1>5, <1>6, LocalStep DEF IInv, Keyed

LEMMA SwapStep ==
  ASSUME IInv, NEW t \in Thread, Swap(t), Typed'
  PROVE  IInv'
<1> USE DEF Swap, tables, At
<1>1. op'[t] = [at |-> "unsaved"] /\ \A u \in Thread \ {t} : op'[u] = op[u]
  BY Others DEF IInv
<1>2. PICK g \in Results : index' = [index EXCEPT ![Home[t]] = g]
  OBVIOUS
<1>3. Home[t] \in Process /\ index'[Home[t]] = g
  BY <1>2, ThreadAssumption DEF IInv, Typed
<1>4. Local(t)
  BY <1>1, <1>2 DEF Local, IInv, Typed
<1>5. Working(t)'
  BY <1>1, Free DEF Holding, Opened, Saving
<1>6. Settled(Home[t])'
  BY <1>1 DEF Settled, Quiet
<1>7. Covered(index'[Home[t]])
  BY <1>3 DEF Covered, Invented
<1> QED  BY <1>4, <1>5, <1>6, <1>7, LocalStep

LEMMA FindStep ==
  ASSUME IInv, NEW t \in Thread, Find(t), Typed'
  PROVE  IInv'
<1> USE DEF Find, tables, At
<1>1. PICK ids, new : op' = [op EXCEPT ![t] = [at |-> "found", ids |-> ids, new |-> new]]
  OBVIOUS
<1>2. op'[t] = [at |-> "found", ids |-> ids, new |-> new] /\ \A u \in Thread \ {t} : op'[u] = op[u]
  BY <1>1, Others DEF IInv
<1>3. Local(t)
  BY <1>2 DEF Local
<1>4. Working(t)'
  BY <1>2, Free DEF Holding, Opened, Saving
<1>5. Quiet(Home[t])' => Quiet(Home[t])
  BY <1>2 DEF Quiet
<1>6. Settled(Home[t])' /\ Home[t] \in Process
  BY <1>5, ProcessKept, ThreadAssumption
<1> QED  BY <1>3, <1>4, <1>6, LocalStep DEF IInv, Keyed

LEMMA RenameStep ==
  ASSUME IInv, NEW t \in Thread, Rename(t), Typed'
  PROVE  IInv'
<1> USE DEF Rename, tables, At
<1>1. op'[t] = [at |-> "unsaved"] /\ \A u \in Thread \ {t} : op'[u] = op[u]
  BY Others DEF IInv
<1> DEFINE g == index[Home[t]]
<1>2. /\ Home[t] \in Process /\ g \in Graph
      /\ index'[Home[t]] = [g EXCEPT !.names = Renamed(@, op[t].ids, op[t].new)]
  BY ThreadAssumption DEF IInv, Typed
<1>3. Local(t)
  BY <1>1 DEF Local, IInv, Typed
<1>4. Working(t)'
  <2>1. Home[t] \in open'
    BY DEF IInv, Working, Opened
  <2> QED  BY <1>1, <2>1, Free DEF Holding, Opened
<1>5. Settled(Home[t])'
  BY <1>1 DEF Settled, Quiet
<1>6. Covered(index'[Home[t]])
  <2>1. DOMAIN index'[Home[t]].names = DOMAIN g.names /\ index'[Home[t]].edges = g.edges
    BY <1>2, GraphType DEF Renamed
  <2> QED  BY <1>2, <2>1 DEF IInv, Keyed, Covered
<1> QED  BY <1>3, <1>4, <1>5, <1>6, LocalStep

LEMMA DieStep ==
  ASSUME IInv, NEW p \in Process, Die(p), Typed'
  PROVE  IInv'
<1> USE DEF Die, tables
<1>1. \A u \in Thread : op'[u] = IF Home[u] = p THEN Idle ELSE op[u]
  OBVIOUS
<1>2. \A q \in Process \ {p} : /\ mutex'[q] = mutex[q] /\ index'[q] = index[q] /\ behind'[q] = behind[q]
                               /\ q \in open' <=> q \in open
  BY DEF IInv, Typed
<1>3. ASSUME NEW u \in Thread PROVE Working(u)'
  <2>1. CASE Home[u] = p
    BY <1>1, <2>1, Free DEF Idle, Holding, Opened, Saving
  <2>2. CASE Home[u] # p
    BY <1>1, <1>2, <2>2, ThreadKept, ThreadAssumption
  <2> QED  BY <2>1, <2>2
<1>4. ASSUME NEW q \in Process PROVE Settled(q)'
  <2>1. CASE q = p
    BY <2>1 DEF Settled
  <2>2. CASE q # p
    <3>1. Quiet(q)' => Quiet(q)
      BY <1>1, <2>2 DEF Quiet
    <3> QED  BY <1>2, <2>2, <3>1, ProcessKept
  <2> QED  BY <2>1, <2>2
<1>5. \A q \in Process : Covered(index'[q])
  <2>1. Covered(NoGraph)
    BY GraphType, EndsFact DEF Covered
  <2> QED  BY <1>2, <2>1 DEF IInv, Typed, Keyed
<1>6. Keyed' /\ SavedSurvives'
  BY <1>5, TablesKept DEF Typed
<1> QED  BY <1>3, <1>4, <1>6 DEF IInv
\* The rows of this save, and no row less.
LEMMA SaveNodesStep ==
  ASSUME IInv, NEW t \in Thread, SaveNodes(t), Typed'
  PROVE  IInv'
<1> USE DEF SaveNodes, At
<1> DEFINE g == op[t].graph
<1>1. op'[t] = [at |-> "edges", graph |-> g] /\ \A u \in Thread \ {t} : op'[u] = op[u]
  BY Others DEF IInv
<1>2. /\ Home[t] \in Process /\ mutex[Home[t]] = t /\ Home[t] \in open /\ g = index[Home[t]]
      /\ g.names \in Names /\ rows \in Names
  <2>1. op[t] \in Activity
    BY DEF IInv, Typed
  <2>2. g \in Graph
    BY <2>1, ActivityParts DEF Saving
  <2> QED  BY <2>2, GraphType, ThreadAssumption DEF IInv, Typed, Working, Held, Opened, Saves, Holding, Saving
<1>3. /\ DOMAIN rows' = DOMAIN g.names \cup DOMAIN rows
      /\ \A i \in DOMAIN g.names : rows'[i] = g.names[i]
  BY <1>2, OverFact
<1>4. \A p \in Process \ {Home[t]} : behind'[p]
  OBVIOUS
<1>5. ASSUME NEW u \in Thread PROVE Working(u)'
  <2>1. CASE u = t
    <3>1. op'[t].graph.names = g.names
      BY <1>1
    <3>2. Half(t)'
      BY <1>3, <3>1 DEF Half, HasNames
    <3> QED  BY <1>1, <1>2, <2>1, <3>2 DEF Working, Held, Loads, Opened, Saves
  <2>2. CASE u # t /\ Home[u] = Home[t]
    <3>1. op'[u] = op[u] /\ op[u].at \notin Holding
      BY <1>1, <1>2, <2>2, Alone
    <3>2. Opened(u)'
      BY <1>2, <2>2 DEF Opened
    <3> QED  BY <3>1, <3>2, Free
  <2>3. CASE Home[u] # Home[t]
    <3>1. op'[u] = op[u] /\ behind'[Home[u]]
      BY <1>1, <1>4, <2>3, ThreadAssumption
    <3> QED  BY <1>3, <3>1 DEF IInv, Working, Held, Loads, Opened, Saves, Half
  <2> QED  BY <2>1, <2>2, <2>3
<1>6. ASSUME NEW p \in Process PROVE Settled(p)'
  <2>1. CASE p = Home[t]
    BY <1>1, <2>1 DEF Settled, Quiet
  <2>2. CASE p # Home[t]
    BY <1>4, <2>2 DEF Settled
  <2> QED  BY <2>1, <2>2
<1>7. Keyed' /\ SavedSurvives'
  BY <1>3 DEF IInv, Keyed, Covered, SavedSurvives
<1> QED  BY <1>5, <1>6, <1>7 DEF IInv

\* The edges of this save, none of which makes a depth less.
LEMMA SaveEdgesStep ==
  ASSUME IInv, NEW t \in Thread, SaveEdges(t), Typed'
  PROVE  IInv'
<1> USE DEF SaveEdges, At
<1> DEFINE g == op[t].graph
<1>1. op'[t] = Idle /\ \A u \in Thread \ {t} : op'[u] = op[u]
  BY Others DEF IInv
<1>2. /\ Home[t] \in Process /\ mutex[Home[t]] = t /\ Home[t] \in open /\ g = index[Home[t]]
      /\ g.edges \in SUBSET (Link \X Depth) /\ links \in Depths /\ saved.links \in Depths
  <2>1. op[t] \in Activity
    BY DEF IInv, Typed
  <2>2. g \in Graph
    BY <2>1, ActivityParts DEF Saving
  <2> QED  BY <2>2, GraphType, ThreadAssumption DEF IInv, Typed, Working, Held, Opened, Saves, Holding, Saving
<1>3. /\ DOMAIN links' = {e[1] : e \in g.edges} \cup DOMAIN links
      /\ \A e \in g.edges : links'[e[1]] >= e[2]
  BY <1>2, DeepestFact
<1>4. \A p \in Process \ {Home[t]} : behind'[p]
  OBVIOUS
<1>5. ASSUME NEW u \in Thread PROVE Working(u)'
  <2>1. CASE u = t
    BY <1>1, <2>1, Free DEF Idle, Holding, Opened, Saving
  <2>2. CASE u # t /\ Home[u] = Home[t]
    <3>1. op'[u] = op[u] /\ op[u].at \notin Holding
      BY <1>1, <1>2, <2>2, Alone
    <3>2. Opened(u)'
      BY <1>2, <2>2 DEF Opened
    <3> QED  BY <3>1, <3>2, Free
  <2>3. CASE Home[u] # Home[t]
    <3>1. op'[u] = op[u] /\ behind'[Home[u]] /\ mutex'[Home[u]] = mutex[Home[u]]
      BY <1>1, <1>4, <2>3, ThreadAssumption DEF IInv, Typed
    <3> QED  BY <3>1 DEF IInv, Working, Held, Loads, Opened, Saves, Half
  <2> QED  BY <2>1, <2>2, <2>3
<1>6. ASSUME NEW p \in Process PROVE Settled(p)'
  <2>1. CASE p = Home[t]
    <3>1. behind'[p] = behind[p] /\ index'[p] = g
      BY <1>2, <2>1 DEF IInv, Typed
    <3>2. ~behind[p] => HasNames(g.names)
      BY <2>1 DEF IInv, Working, Half
    <3> QED  BY <1>3, <3>1, <3>2 DEF Settled, HasNames, HasEdges
  <2>2. CASE p # Home[t]
    BY <1>4, <2>2 DEF Settled
  <2> QED  BY <2>1, <2>2
<1>7. Keyed'
  <2>1. \A e \in g.edges : e[1][1] \in DOMAIN rows /\ e[1][2] \in DOMAIN rows
    BY EndsFact DEF KeysHold
  <2>2. \A l \in DOMAIN links' : l[1] \in DOMAIN rows /\ l[2] \in DOMAIN rows
    BY <1>3, <2>1 DEF IInv, Keyed
  <2> QED  BY <2>2 DEF IInv, Keyed, Covered
<1>8. SavedSurvives'
  <2>1. saved'.ids = saved.ids \cup DOMAIN g.names /\ saved'.links = Deepest(g.edges, saved.links)
    OBVIOUS
  <2>2. DOMAIN g.names \subseteq DOMAIN rows
    BY DEF IInv, Working, Half
  <2>3. \A l \in DOMAIN saved.links : l \in DOMAIN links /\ links[l] >= saved.links[l]
    BY DEF IInv, SavedSurvives
  <2>4. \A l \in DOMAIN Deepest(g.edges, saved.links) :
          l \in DOMAIN Deepest(g.edges, links) /\ Deepest(g.edges, links)[l] >= Deepest(g.edges, saved.links)[l]
    BY <1>2, <2>3, DeepestGrows
  <2> QED  BY <2>1, <2>2, <2>4 DEF IInv, SavedSurvives
<1> QED  BY <1>5, <1>6, <1>7, <1>8 DEF IInv

LEMMA NextIInv == IInv /\ [Next]_vars => IInv'
<1> SUFFICES ASSUME IInv, [Next]_vars PROVE IInv'
  OBVIOUS
<1>1. Typed'
  BY StepTyped DEF IInv
<1>2. CASE UNCHANGED vars
  BY <1>2 DEF vars, IInv, Typed, Working, Held, Loads, Opened, Saves, Half, HasNames, At, Settled, Quiet,
              HasEdges, Keyed, Covered, SavedSurvives
<1>3. CASE Next
  BY <1>1, <1>3, LoadNodesStep, LoadEdgesStep, LoadFailsStep, OpenFailsStep, SaveStep, SaveNodesStep,
     SaveEdgesStep, SaveFailsStep, SwapStep, FindStep, RenameStep, DieStep DEF Next
<1> QED  BY <1>2, <1>3

-----------------------------------------------------------------------------
(* Theorems *)

LEMMA Invariance == Spec => []IInv
<1>1. Init => IInv
  BY InitIInv
<1>2. IInv /\ [Next]_vars => IInv'
  BY NextIInv
<1> QED  BY <1>1, <1>2, PTL DEF Spec

\* The tables, the index, the mutexes and the activities of the threads have
\* their types.
THEOREM TypeCorrect == Spec => []TypeOK
<1>1. IInv => TypeOK
  BY TypedIsTypeOK DEF IInv
<1> QED  BY <1>1, Invariance, PTL

\* What a successful save of a process has stored stays stored, whatever other
\* saves, opens, failures and crashes come after it.
THEOREM SavesSurvive == Spec => []SavedSurvives
<1>1. IInv => SavedSurvives
  BY DEF IInv
<1> QED  BY <1>1, Invariance, PTL

\* The foreign keys refuse a save only for an end that an analysis invented.
THEOREM RefusalsAreOfInventedEnds == Spec => []OnlyInventedAreRefused
<1>1. IInv => OnlyInventedAreRefused
  <2> SUFFICES ASSUME IInv, NEW t \in Thread, At(t, "edges")
               PROVE  Ends(op[t].graph.edges) \ DOMAIN rows \subseteq Invented
    BY DEF OnlyInventedAreRefused
  <2>1. Covered(op[t].graph)
    BY ThreadAssumption DEF IInv, Working, Saves, Saving, At, Keyed
  <2>2. DOMAIN op[t].graph.names \subseteq DOMAIN rows
    BY DEF IInv, Working, Half
  <2> QED  BY <2>1, <2>2 DEF Covered
<1> QED  BY <1>1, Invariance, PTL

\* When the threads of a process are done, none of its saves failed and no other
\* process has saved meanwhile, the database has what its index shows.
THEOREM QuietIsSaved == Spec => []QuietMeansSaved
<1>1. IInv => QuietMeansSaved
  BY DEF IInv, Typed, QuietMeansSaved, Settled, Quiet, HasNames, HasEdges
<1> QED  BY <1>1, Invariance, PTL
=============================================================================
