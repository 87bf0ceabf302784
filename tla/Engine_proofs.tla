----------------------------- MODULE Engine_proofs -----------------------------
(***************************************************************************)
(* Proofs about Engine, for any projects, files, threads of clients and    *)
(* watchers, any faults and any number of edits.                           *)
(*                                                                         *)
(* Projects stay apart because a thread that analyses holds a read guard   *)
(* of ENGINE, so no init can change the root, the store or the state under *)
(* it, and it holds analyze_lock, so it is the only one. What it scanned   *)
(* is of the root it compared with its project when it began.              *)
(*                                                                         *)
(* Nobody waits in a circle because the locks are taken in one order: a    *)
(* writer waits for readers, a reader for the analysis, the analysis for   *)
(* nobody; a timeline request alone asks for a guard while it has one.     *)
(***************************************************************************)
EXTENDS Engine, TLAPS, FiniteSetTheorems

ThreadState == [at : Places, req : Kinds \cup {"none"},
                of : Project \cup {None}, left : SUBSET File, got : SUBSET File]
WatchState == [stage : {"off", "starting", "watching", "polled"},
               of : Project \cup {None}, pending : BOOLEAN]

\* Where a thread holds a read guard, and where it analyses.
Guarded == {"queue", "scan", "saving", "sleep", "nested"}
Busy == {"scan", "saving"}

Holds(t) == readers[t] = IF th[t].at \in Guarded THEN 1 ELSE 0
Owns(t) == th[t].at \in Busy => analysing = t /\ state = "Analyzing" /\ root = th[t].of
Landed(t) == th[t].at = "saving" => graph = {th[t].of} \X th[t].got
Placed(t) == th[t].at # "idle" => th[t].of \in Project

\* The part of the invariant about threads.
Threads ==
  /\ th \in [Client -> ThreadState]
  /\ readers \in [Client -> 0..2]
  /\ \A t \in Client : Holds(t) /\ Owns(t) /\ Landed(t) /\ Placed(t)

\* The part about the watchers.
Watchers ==
  /\ running \in BOOLEAN
  /\ watch \in [Watcher -> WatchState]
  /\ \A w \in Watcher : watch[w].stage # "off" => watch[w].of \in Project

\* The part about the engine, its databases and what is around it.
Stores ==
  /\ mode \in {"tcp", "mcp"} /\ tree \in [Project -> SUBSET File] /\ edits \in 0..MaxEdits
  /\ disk \in [Project -> Graph] /\ root \in Project \cup {None} /\ graph \in Graph
  /\ state \in {"Uninitialized", "Loading", "Ready", "Analyzing"} /\ count \in Nat
  /\ poisoned \in BOOLEAN /\ analysing \in Client \cup {None} /\ writer \in Client \cup {None}
  /\ GraphIsHome /\ ReadyCounts

IInv == Threads /\ Watchers /\ Stores

-----------------------------------------------------------------------------
(* Small facts *)

LEMMA IdleType ==
  /\ Idle \in ThreadState /\ Idle.at = "idle" /\ Off \in WatchState /\ Off.stage = "off"
BY DEF Idle, Off, ThreadState, WatchState, Places

\* Graphs are finite.
LEMMA GraphSize == \A g \in Graph : IsFiniteSet(g) /\ Cardinality(g) \in Nat
<1>1. IsFiniteSet(Project \X File)
  BY BoundAssumption, FS_Product
<1>2. QED
  BY <1>1, FS_Subset, FS_CardinalityType DEF Graph

\* A project's graph has as many nodes as files were parsed.
LEMMA HomeSize ==
  ASSUME NEW p \in Project, NEW got \in SUBSET File
  PROVE  /\ {p} \X got \in Graph
         /\ Cardinality({p} \X got) = Cardinality(got) /\ Cardinality(got) \in Nat
<1>1. IsFiniteSet(got) /\ IsFiniteSet({p}) /\ Cardinality({p}) = 1
  BY BoundAssumption, FS_Subset, FS_Singleton
<1>2. Cardinality(got) \in Nat
  BY <1>1, FS_CardinalityType
<1>3. Cardinality({p} \X got) = 1 * Cardinality(got)
  BY <1>1, FS_Product
<1>4. {p} \X got \in Graph
  BY DEF Graph
<1>5. QED
  BY <1>2, <1>3, <1>4

\* Going to another place leaves all else of the thread, and all other threads, alone.
LEMMA GoType ==
  ASSUME th \in [Client -> ThreadState], NEW t \in Client, NEW place \in Places, Go(t, place)
  PROVE  /\ th' \in [Client -> ThreadState]
         /\ th'[t].at = place
         /\ place # "idle" => th'[t].of = th[t].of /\ th'[t].got = th[t].got /\ th'[t].req = th[t].req
         /\ place = "idle" => th'[t] = Idle
         /\ \A u \in Client : u # t => th'[u] = th[u]
<1> DEFINE s == IF place = "idle" THEN Idle ELSE [th[t] EXCEPT !.at = place]
<1>1. s \in ThreadState /\ s.at = place
  BY IdleType DEF ThreadState
<1>2. (place # "idle" => s.of = th[t].of /\ s.got = th[t].got /\ s.req = th[t].req)
      /\ (place = "idle" => s = Idle)
  BY DEF ThreadState
<1>3. th' = [th EXCEPT ![t] = s]
  BY DEF Go
<1> HIDE DEF s
<1>4. QED
  BY <1>1, <1>2, <1>3

\* A thread goes to a place where it does not analyse, its read guard taken or given
\* back as the place has it, and does not disturb the one that analyses.
LEMMA Walk ==
  ASSUME Threads, NEW t \in Client, NEW place \in Places \ Busy, Go(t, place),
         th[t].at # "idle",
         readers' \in [Client -> 0..2],
         readers'[t] = IF place \in Guarded THEN 1 ELSE 0,
         \A u \in Client : u # t => readers'[u] = readers[u],
         \A u \in Client : u # t /\ th[u].at \in Busy =>
           UNCHANGED <<analysing, state, root, graph>>
  PROVE  Threads'
<1>1. /\ th' \in [Client -> ThreadState]
      /\ th'[t].at = place
      /\ place # "idle" => th'[t].of = th[t].of
      /\ \A u \in Client : u # t => th'[u] = th[u]
  BY GoType DEF Threads
<1>2. Holds(t)' /\ Owns(t)' /\ Landed(t)' /\ Placed(t)'
  BY <1>1 DEF Holds, Owns, Landed, Placed, Threads, Busy
<1>3. ASSUME NEW u \in Client, u # t PROVE Holds(u)' /\ Owns(u)' /\ Landed(u)' /\ Placed(u)'
  <2>1. Holds(u) /\ Owns(u) /\ Landed(u) /\ Placed(u) /\ th'[u] = th[u] /\ readers'[u] = readers[u]
    BY <1>1, <1>3 DEF Threads
  <2>2. Holds(u)' /\ Placed(u)'
    BY <2>1 DEF Holds, Placed
  <2>3. Owns(u)' /\ Landed(u)'
    BY <1>3, <2>1 DEF Owns, Landed, Busy
  <2>4. QED
    BY <2>2, <2>3
<1>4. QED
  BY <1>1, <1>2, <1>3 DEF Threads

\* Saving keeps the databases apart.
LEMMA UpsertHome ==
  ASSUME Stores, Upsert \/ UNCHANGED disk
  PROVE  disk' \in [Project -> Graph] /\ \A p \in Project : disk'[p] \subseteq Home(p)
<1>1. CASE UNCHANGED disk
  BY <1>1 DEF Stores, GraphIsHome
<1>2. CASE Upsert
  <2>1. \A p \in Project : disk'[p] = IF p = root THEN disk[p] \cup graph ELSE disk[p]
    BY <1>2 DEF Upsert, Stores
  <2>2. disk' \in [Project -> Graph]
    BY <1>2, <2>1 DEF Upsert, Stores, Graph
  <2>3. \A p \in Project : disk'[p] \subseteq Home(p)
    BY <2>1, ThreadAssumption DEF Stores, GraphIsHome
  <2>4. QED
    BY <2>2, <2>3
<1>3. QED
  BY <1>1, <1>2

-----------------------------------------------------------------------------
(* The invariant is inductive *)

LEMMA IInvInit == Init => IInv
<1> SUFFICES ASSUME Init PROVE IInv
  OBVIOUS
<1>1. Threads
  <2>1. \A t \in Client : th[t] = Idle /\ readers[t] = 0
    BY DEF Init
  <2>2. QED
    BY <2>1, IdleType DEF Init, Threads, Holds, Owns, Landed, Placed, Guarded, Busy
<1>2. Watchers
  BY IdleType DEF Init, Watchers
<1>3. Stores
  <2>1. tree \in [Project -> SUBSET File] /\ edits \in 0..MaxEdits
    BY BoundAssumption DEF Init
  <2>2. disk \in [Project -> Graph] /\ graph \in Graph
    BY DEF Init, Graph
  <2>3. GraphIsHome /\ ReadyCounts
    BY DEF Init, GraphIsHome, ReadyCounts
  <2>4. QED
    BY <2>1, <2>2, <2>3 DEF Init, Stores
<1>4. QED
  BY <1>1, <1>2, <1>3 DEF IInv

\* The conjuncts of an unchanged part of the state.
LEMMA StoresKept ==
  ASSUME Stores, UNCHANGED <<outside, disk, engine>>,
         poisoned' \in BOOLEAN, analysing' \in Client \cup {None}, writer' \in Client \cup {None}
  PROVE  Stores'
BY DEF Stores, outside, engine, GraphIsHome, ReadyCounts, Home

LEMMA WatchersKept ==
  ASSUME Watchers, UNCHANGED watch, running' \in BOOLEAN
  PROVE  Watchers'
BY DEF Watchers

\* Steps that take no read guard with them and give none back, and change nothing else.
LEMMA StrollStep ==
  ASSUME IInv, NEW t \in Client,
         Peek(t) \/ Claim(t) \/ TakeGraph(t) \/ Note(t) \/ Rename(t)
  PROVE  IInv'
<1>1. PICK place \in Places \ (Guarded \cup Busy) : Go(t, place)
  BY DEF Peek, Claim, TakeGraph, Note, Rename, Places, Guarded, Busy
<1>2. /\ th[t].at \notin Guarded \cup {"idle"}
      /\ UNCHANGED <<outside, disk, engine, poisoned, analysing, readers, watching>>
      /\ writer' \in {writer, t}
  BY DEF Peek, Claim, TakeGraph, Note, Rename, At, locks, Guarded
<1>3. Threads'
  <2>1. readers[t] = 0 /\ readers \in [Client -> 0..2]
    BY <1>2 DEF IInv, Threads, Holds
  <2>2. QED
    BY <1>1, <1>2, <2>1, Walk DEF IInv, engine
<1>4. Watchers'
  BY <1>2, <1>3, WatchersKept DEF IInv, Watchers, watching
<1>5. Stores'
  BY <1>2, StoresKept DEF IInv, Stores
<1>6. QED
  BY <1>3, <1>4, <1>5 DEF IInv

\* A thread goes to a place, with the read guard it has there.
Passes(t, place) ==
  Go(t, place) /\ readers' = [readers EXCEPT ![t] = IF place \in Guarded THEN 1 ELSE 0]

LEMMA PassesOut ==
  ASSUME NEW t \in Client, readers \in [Client -> 0..2],
         \/ readers[t] = 0 /\ UNCHANGED readers
         \/ readers[t] = 1 /\ Leave(t)
  PROVE  /\ Go(t, "idle") => Passes(t, "idle")
         /\ Go(t, AfterError(t)) => Passes(t, AfterError(t)) /\ AfterError(t) \in {"idle", "report"}
<1>1. readers' = [readers EXCEPT ![t] = 0]
  BY DEF Leave
<1>2. AfterError(t) \in {"idle", "report"}
  BY DEF AfterError
<1>3. \A place \in {"idle", "report"} : Go(t, place) => Passes(t, place)
  BY <1>1 DEF Passes, Guarded
<1>4. QED
  BY <1>2, <1>3

LEMMA PassesIn ==
  ASSUME NEW t \in Client, readers \in [Client -> 0..2], readers[t] = 0, Enter(t)
  PROVE  \A place \in {"queue", "sleep", "nested"} : Go(t, place) => Passes(t, place)
<1>1. readers' = [readers EXCEPT ![t] = 1]
  BY DEF Enter
<1>2. QED
  BY <1>1 DEF Passes, Guarded

\* Steps that take a read guard or give one back, and change nothing else but the flag
\* of the watchers.
LEMMA GuardStep ==
  ASSUME IInv, NEW t \in Client,
         Analyse(t) \/ Refuse(t) \/ StopWatcher(t) \/ Query(t) \/ NestedQuery(t)
  PROVE  IInv'
<1>h. readers[t] = (IF th[t].at \in Guarded THEN 1 ELSE 0) /\ readers \in [Client -> 0..2]
  BY DEF IInv, Threads, Holds
<1>1. /\ th[t].at # "idle"
      /\ UNCHANGED <<outside, disk, engine, poisoned, analysing, writer, watch>>
      /\ running' \in {running, FALSE}
  BY DEF Analyse, Refuse, StopWatcher, Query, NestedQuery, At, watching
<1>2. PICK place \in Places \ Busy : Passes(t, place)
  <2>1. {"idle", "report", "queue", "sleep", "nested"} \subseteq Places \ Busy
    BY DEF Places, Busy
  <2>2. CASE Analyse(t)
    <3>1. readers[t] = 0
      BY <1>h, <2>2 DEF Analyse, At, Guarded
    <3>2. CASE Go(t, AfterError(t)) /\ UNCHANGED readers
      BY <1>h, <2>1, <3>1, <3>2, PassesOut
    <3>3. CASE Go(t, "queue") /\ Enter(t)
      BY <1>h, <2>1, <3>1, <3>3, PassesIn
    <3>4. QED
      BY <2>2, <3>2, <3>3 DEF Analyse
  <2>3. CASE Refuse(t)
    <3>1. readers[t] = 1 /\ Leave(t) /\ Go(t, AfterError(t))
      BY <1>h, <2>3 DEF Refuse, At, Guarded
    <3>2. QED
      BY <1>h, <2>1, <3>1, PassesOut
  <2>4. CASE StopWatcher(t)
    <3>1. readers[t] = 0
      BY <1>h, <2>4 DEF StopWatcher, At, Guarded
    <3>2. QED
      BY <1>h, <2>1, <2>4, <3>1, PassesIn DEF StopWatcher
  <2>5. CASE Query(t)
    <3>1. readers[t] = 0
      BY <1>h, <2>5 DEF Query, At, Guarded
    <3>2. CASE Enter(t) /\ Go(t, "nested")
      BY <1>h, <2>1, <3>1, <3>2, PassesIn
    <3>3. CASE Go(t, "idle") /\ UNCHANGED readers
      BY <1>h, <2>1, <3>1, <3>3, PassesOut
    <3>4. QED
      BY <2>5, <3>2, <3>3 DEF Query
  <2>6. CASE NestedQuery(t)
    <3>1. readers[t] = 1 /\ Leave(t) /\ Go(t, "idle")
      BY <1>h, <2>6 DEF NestedQuery, At, Guarded
    <3>2. QED
      BY <1>h, <2>1, <3>1, PassesOut
  <2>7. QED
    BY <2>2, <2>3, <2>4, <2>5, <2>6
<1>3. Threads'
  <2>1. /\ readers' \in [Client -> 0..2]
        /\ readers'[t] = IF place \in Guarded THEN 1 ELSE 0
        /\ \A u \in Client : u # t => readers'[u] = readers[u]
    BY <1>h, <1>2 DEF Passes
  <2>2. QED
    BY <1>1, <1>2, <2>1, Walk DEF IInv, engine, Passes
<1>4. Watchers'
  BY <1>1, <1>3, WatchersKept DEF IInv, Watchers
<1>5. Stores'
  BY <1>1, StoresKept DEF IInv, Stores
<1>6. QED
  BY <1>3, <1>4, <1>5 DEF IInv

\* An init: nobody analyses, as all read guards have been given back.
LEMMA InitialiseStep ==
  ASSUME IInv, NEW t \in Client, Initialise(t)
  PROVE  IInv'
<1>1. \A u \in Client : th[u].at \notin Guarded
  <2>1. \A u \in Client : readers[u] = 0
    BY DEF Initialise, Alone
  <2>2. QED
    BY <2>1 DEF IInv, Threads, Holds
<1>2. PICK place \in Places \ (Guarded \cup Busy) : Go(t, place)
  <2>1. {"idle", "enter"} \subseteq Places \ (Guarded \cup Busy)
    BY DEF Places, Guarded, Busy
  <2>2. QED
    BY <2>1 DEF Initialise
<1>3. Threads'
  <2>1. readers[t] = 0 /\ readers \in [Client -> 0..2] /\ UNCHANGED readers /\ th[t].at # "idle"
    BY <1>1 DEF IInv, Threads, Holds, Initialise, At
  <2>2. \A u \in Client : th[u].at \notin Busy
    BY <1>1 DEF Guarded, Busy
  <2>3. QED
    BY <1>2, <2>1, <2>2, Walk DEF IInv
<1>4. Watchers'
  BY <1>3, WatchersKept DEF IInv, Watchers, Initialise, watching
<1>5. Stores'
  <2>1. th[t].of \in Project
    BY DEF IInv, Threads, Placed, Initialise, At
  <2>2. /\ root' \in Project \cup {None} /\ graph' \in Graph /\ count' \in Nat
        /\ state' \in {"Uninitialized", "Loading", "Ready", "Analyzing"}
    BY <2>1, GraphSize DEF Initialise, IInv, Stores, engine
  <2>3. GraphIsHome'
    BY <2>1, ThreadAssumption DEF Initialise, IInv, Stores, GraphIsHome, engine, Home
  <2>4. ReadyCounts'
    BY DEF Initialise, IInv, Stores, ReadyCounts, engine
  <2>5. /\ UNCHANGED <<mode, tree, edits, disk, poisoned, analysing>>
        /\ writer' = None
    BY DEF Initialise, outside
  <2>6. QED
    BY <2>2, <2>3, <2>4, <2>5 DEF IInv, Stores
<1>6. QED
  BY <1>3, <1>4, <1>5 DEF IInv

\* A step of a thread to a new state of its own, others left alone.
LEMMA Become ==
  ASSUME Threads, NEW t \in Client, NEW s \in ThreadState, th' = [th EXCEPT ![t] = s],
         UNCHANGED readers, s.at \in Guarded <=> th[t].at \in Guarded,
         s.at # "idle" => s.of \in Project,
         s.at \in Busy => analysing' = t /\ state' = "Analyzing" /\ root' = s.of,
         s.at = "saving" => graph' = {s.of} \X s.got,
         \A u \in Client : u # t /\ th[u].at \in Busy =>
           UNCHANGED <<analysing, state, root, graph>>
  PROVE  Threads'
<1>1. th' \in [Client -> ThreadState] /\ th'[t] = s /\ \A u \in Client : u # t => th'[u] = th[u]
  BY DEF Threads
<1>2. Holds(t)' /\ Owns(t)' /\ Landed(t)' /\ Placed(t)'
  BY <1>1 DEF Holds, Owns, Landed, Placed, Threads
<1>3. ASSUME NEW u \in Client, u # t PROVE Holds(u)' /\ Owns(u)' /\ Landed(u)' /\ Placed(u)'
  <2>1. Holds(u) /\ Owns(u) /\ Landed(u) /\ Placed(u) /\ th'[u] = th[u]
    BY <1>1, <1>3 DEF Threads
  <2>2. Holds(u)' /\ Placed(u)'
    BY <2>1 DEF Holds, Placed
  <2>3. Owns(u)' /\ Landed(u)'
    BY <1>3, <2>1 DEF Owns, Landed, Busy
  <2>4. QED
    BY <2>2, <2>3
<1>4. QED
  BY <1>1, <1>2, <1>3 DEF Threads

LEMMA BeginStep ==
  ASSUME IInv, NEW t \in Client, Begin(t)
  PROVE  IInv'
<1> DEFINE s == [th[t] EXCEPT !.at = "scan", !.left = tree[th[t].of]]
<1>0. th[t] \in ThreadState /\ th[t].at = "queue" /\ th[t].of \in Project /\ root = th[t].of
  BY DEF Begin, At, IInv, Threads, Placed, Current
<1>1. s \in ThreadState /\ s.at = "scan" /\ s.of = th[t].of
  BY <1>0 DEF IInv, Stores, ThreadState, Places
<1>2. th' = [th EXCEPT ![t] = s]
  BY DEF Begin
<1> HIDE DEF s
<1>3. \A u \in Client : u # t => th[u].at \notin Busy
  BY ThreadAssumption DEF Begin, Free, IInv, Threads, Owns
<1>4. Threads'
  <2>1. UNCHANGED readers /\ analysing' = t /\ state' = "Analyzing" /\ root' = root
    BY DEF Begin
  <2>2. QED
    BY <1>0, <1>1, <1>2, <1>3, <2>1, Become DEF IInv, Guarded, Busy
<1>5. Watchers'
  BY WatchersKept DEF IInv, Watchers, Begin, watching
<1>6. Stores'
  BY DEF IInv, Stores, Begin, outside, GraphIsHome, ReadyCounts, Home
<1>7. QED
  BY <1>4, <1>5, <1>6 DEF IInv

LEMMA ParseStep ==
  ASSUME IInv, NEW t \in Client, NEW f \in File, Parse(t, f)
  PROVE  IInv'
<1> DEFINE s == [th[t] EXCEPT !.left = @ \ {f}, !.got = @ \cup ({f} \cap tree[th[t].of])]
<1>0. th[t] \in ThreadState /\ th[t].at = "scan" /\ th[t].of \in Project
  BY DEF Parse, At, IInv, Threads, Placed
<1>1. s \in ThreadState /\ s.at = "scan" /\ s.of = th[t].of
  BY <1>0 DEF ThreadState
<1>2. th' = [th EXCEPT ![t] = s]
  BY DEF Parse
<1> HIDE DEF s
<1>3. UNCHANGED <<mode, tree, edits, disk, root, graph, state, count, poisoned, analysing, writer,
                  readers, running, watch>>
  BY DEF Parse, outside, engine, locks, watching
<1>4. Threads'
  <2>1. analysing = t /\ state = "Analyzing" /\ root = th[t].of
    BY <1>0 DEF IInv, Threads, Owns, Busy
  <2>2. QED
    BY <1>0, <1>1, <1>2, <1>3, <2>1, Become DEF IInv, Guarded, Busy
<1>5. Watchers'
  BY <1>3, WatchersKept DEF IInv, Watchers
<1>6. Stores'
  BY <1>3, StoresKept DEF IInv, Stores, outside, engine
<1>7. QED
  BY <1>4, <1>5, <1>6 DEF IInv

\* Nobody else analyses while one does.
LEMMA OneAnalysis ==
  ASSUME IInv, NEW t \in Client, th[t].at \in Busy
  PROVE  /\ \A u \in Client : u # t => th[u].at \notin Busy
         /\ analysing = t /\ state = "Analyzing" /\ root = th[t].of /\ th[t].of \in Project
         /\ readers[t] = 1 /\ th[t] \in ThreadState
BY DEF IInv, Threads, Owns, Placed, Holds, Busy, Guarded

LEMMA LandStep ==
  ASSUME IInv, NEW t \in Client, Land(t)
  PROVE  IInv'
<1> DEFINE s == [th[t] EXCEPT !.at = "saving"]
<1>0. th[t].at = "scan" /\ th[t].at \in Busy /\ graph' = {th[t].of} \X th[t].got
  BY DEF Land, At, Busy
<1>1. /\ \A u \in Client : u # t => th[u].at \notin Busy
      /\ analysing = t /\ state = "Analyzing" /\ root = th[t].of /\ th[t].of \in Project
      /\ th[t] \in ThreadState
  BY <1>0, OneAnalysis
<1>2. s \in ThreadState /\ s.at = "saving" /\ s.of = th[t].of /\ s.got = th[t].got
  BY <1>1 DEF ThreadState, Places
<1>3. th' = [th EXCEPT ![t] = s]
  BY DEF Land, Go
<1> HIDE DEF s
<1>4. UNCHANGED <<mode, tree, edits, disk, root, state, count, poisoned, analysing, writer, readers,
                  running, watch>>
  BY DEF Land, outside, locks, watching
<1>5. Threads'
  BY <1>0, <1>1, <1>2, <1>3, <1>4, Become DEF IInv, Guarded, Busy
<1>6. Watchers'
  BY <1>4, WatchersKept DEF IInv, Watchers
<1>7. Stores'
  <2>1. graph' \in Graph /\ graph' \subseteq Home(root)
    BY <1>0, <1>1 DEF Graph, Home, ThreadState
  <2>2. GraphIsHome'
    BY <1>1, <1>4, <2>1, ThreadAssumption DEF IInv, Stores, GraphIsHome, Home
  <2>3. ReadyCounts'
    BY <1>1, <1>4 DEF ReadyCounts
  <2>4. QED
    BY <1>4, <2>1, <2>2, <2>3 DEF IInv, Stores
<1>8. QED
  BY <1>5, <1>6, <1>7 DEF IInv

LEMMA FinishStep ==
  ASSUME IInv, NEW t \in Client, Finish(t)
  PROVE  IInv'
<1>0. th[t].at = "saving" /\ th[t].at \in Busy
  BY DEF Finish, At, Busy
<1>1. /\ \A u \in Client : u # t => th[u].at \notin Busy
      /\ root = th[t].of /\ th[t].of \in Project /\ readers[t] = 1 /\ th[t] \in ThreadState
  BY <1>0, OneAnalysis
<1>2. AfterAnalysis(t) \in {"idle", "report", "stop", "note"} /\ Go(t, AfterAnalysis(t))
  BY DEF Finish, AfterAnalysis
<1>3. Threads'
  <2>1. readers' = [readers EXCEPT ![t] = 0] /\ readers \in [Client -> 0..2]
    BY <1>1 DEF Finish, Leave, IInv, Threads
  <2>2. AfterAnalysis(t) \in Places \ Busy /\ AfterAnalysis(t) \notin Guarded
    BY <1>2 DEF Places, Busy, Guarded
  <2>3. QED
    BY <1>0, <1>1, <1>2, <2>1, <2>2, Walk DEF IInv
<1>4. Watchers'
  BY <1>3, WatchersKept DEF IInv, Watchers, Finish, watching
<1>5. Stores'
  <2>1. UNCHANGED <<mode, tree, edits, root, graph, poisoned, writer>> /\ analysing' = None
        /\ state' = "Ready" /\ count' = Cardinality(th[t].got)
    BY DEF Finish, outside
  <2>2. disk' \in [Project -> Graph] /\ \A p \in Project : disk'[p] \subseteq Home(p)
    BY UpsertHome DEF IInv, Finish
  <2>3. graph = {th[t].of} \X th[t].got
    BY <1>0 DEF IInv, Threads, Landed
  <2>4. count' \in Nat /\ count' = Cardinality(graph)
    BY <1>1, <2>1, <2>3, HomeSize DEF ThreadState
  <2>5. GraphIsHome' /\ ReadyCounts'
    BY <2>1, <2>2, <2>4 DEF IInv, Stores, GraphIsHome, ReadyCounts, Home
  <2>6. QED
    BY <2>1, <2>2, <2>4, <2>5 DEF IInv, Stores
<1>6. QED
  BY <1>3, <1>4, <1>5 DEF IInv

LEMMA PanicStep ==
  ASSUME IInv, NEW t \in Client, Panic(t)
  PROVE  IInv'
<1>0. th[t].at = "scan" /\ th[t].at \in Busy
  BY DEF Panic, At, Busy
<1>1. (\A u \in Client : u # t => th[u].at \notin Busy) /\ readers[t] = 1
  BY <1>0, OneAnalysis
<1>2. Threads'
  <2>1. readers' = [readers EXCEPT ![t] = 0] /\ readers \in [Client -> 0..2]
    BY <1>1 DEF Panic, Leave, IInv, Threads
  <2>2. "idle" \in Places \ Busy /\ "idle" \notin Guarded
    BY DEF Places, Busy, Guarded
  <2>3. Go(t, "idle")
    BY DEF Panic
  <2>4. QED
    BY <1>0, <1>1, <2>1, <2>2, <2>3, Walk DEF IInv
<1>3. Watchers'
  BY WatchersKept DEF IInv, Watchers, Panic, watching
<1>4. Stores'
  BY StoresKept DEF IInv, Stores, Panic
<1>5. QED
  BY <1>2, <1>3, <1>4 DEF IInv

LEMMA StartWatcherStep ==
  ASSUME IInv, NEW t \in Client, StartWatcher(t)
  PROVE  IInv'
<1>0. th[t].at = "sleep" /\ th[t].of \in Project /\ readers[t] = 1
  BY DEF StartWatcher, At, IInv, Threads, Placed, Holds, Guarded
<1>1. Threads'
  <2>1. readers' = [readers EXCEPT ![t] = 0] /\ readers \in [Client -> 0..2]
    BY <1>0 DEF StartWatcher, Leave, IInv, Threads
  <2>2. "idle" \in Places \ Busy /\ "idle" \notin Guarded
    BY DEF Places, Busy, Guarded
  <2>3. Go(t, "idle") /\ UNCHANGED <<analysing, state, root, graph>>
    BY DEF StartWatcher, engine
  <2>4. QED
    BY <1>0, <2>1, <2>2, <2>3, Walk DEF IInv
<1>2. Watchers'
  <2> DEFINE s == [stage |-> "starting", of |-> th[t].of, pending |-> FALSE]
  <2>1. PICK w \in Watcher : watch[w] = Off /\ watch' = [watch EXCEPT ![w] = s]
    BY DEF StartWatcher
  <2>2. s \in WatchState /\ s.of \in Project
    BY <1>0 DEF WatchState
  <2> HIDE DEF s
  <2>3. watch' \in [Watcher -> WatchState] /\ \A v \in Watcher : watch'[v] = IF v = w THEN s ELSE watch[v]
    BY <2>1, <2>2 DEF IInv, Watchers
  <2>4. running' \in BOOLEAN
    BY DEF StartWatcher
  <2>5. QED
    BY <2>2, <2>3, <2>4 DEF IInv, Watchers
<1>3. Stores'
  BY StoresKept DEF IInv, Stores, StartWatcher
<1>4. QED
  BY <1>1, <1>2, <1>3 DEF IInv

LEMMA PersistStep ==
  ASSUME IInv, NEW t \in Client, Persist(t)
  PROVE  IInv'
<1>0. th[t].at = "persist" /\ readers[t] = 0
  BY DEF Persist, At, IInv, Threads, Holds, Guarded
<1>1. Threads'
  <2>1. UNCHANGED <<readers, analysing, state, root, graph>> /\ readers \in [Client -> 0..2] /\ Go(t, "idle")
    BY DEF Persist, locks, engine, IInv, Threads
  <2>2. "idle" \in Places \ Busy /\ "idle" \notin Guarded
    BY DEF Places, Busy, Guarded
  <2>3. QED
    BY <1>0, <2>1, <2>2, Walk DEF IInv
<1>2. Watchers'
  BY <1>1, WatchersKept DEF IInv, Watchers, Persist, watching
<1>3. Stores'
  <2>1. disk' \in [Project -> Graph] /\ \A p \in Project : disk'[p] \subseteq Home(p)
    BY UpsertHome DEF IInv, Persist
  <2>2. QED
    BY <2>1 DEF IInv, Stores, Persist, GraphIsHome, ReadyCounts, Home, outside, engine, locks
<1>4. QED
  BY <1>1, <1>2, <1>3 DEF IInv

LEMMA ReceiveStep ==
  ASSUME IInv, NEW t \in Client, NEW req \in Kinds, NEW p \in Project, Receive(t, req, p)
  PROVE  IInv'
<1> DEFINE s == [Idle EXCEPT !.at = FirstPlace(req), !.req = req, !.of = p]
<1>0. th[t].at = "idle"
  BY DEF Receive, At
<1>1. FirstPlace(req) \in {"init", "peek", "rename", "read"}
  BY DEF FirstPlace
<1>2. s \in ThreadState /\ s.at \notin Guarded \cup Busy /\ s.of = p
  BY <1>1 DEF ThreadState, Places, Guarded, Busy, Idle
<1>3. th' = [th EXCEPT ![t] = s]
  BY DEF Receive
<1> HIDE DEF s
<1>4. UNCHANGED <<mode, tree, edits, disk, root, graph, state, count, poisoned, analysing, writer,
                  readers, running, watch>>
  BY DEF Receive, outside, engine, locks, watching
<1>5. Threads'
  BY <1>0, <1>2, <1>3, <1>4, Become DEF IInv, Guarded, Busy
<1>6. Watchers'
  BY <1>4, WatchersKept DEF IInv, Watchers
<1>7. Stores'
  BY <1>4, StoresKept DEF IInv, Stores, outside, engine
<1>8. QED
  BY <1>5, <1>6, <1>7 DEF IInv

\* What concerns only the watcher threads.
LEMMA TurnStep ==
  ASSUME IInv, NEW w \in Watcher, Turn(w)
  PROVE  IInv'
<1>0. watch \in [Watcher -> WatchState] /\ running \in BOOLEAN /\ watch[w].stage # "off"
  BY DEF IInv, Watchers, Turn, Attach, Poll, Wake
<1>1. UNCHANGED <<mode, tree, edits, disk, root, graph, state, count, poisoned, analysing, writer,
                  readers, running, th>>
  BY DEF Turn, Attach, Poll, Wake, outside, engine, locks
<1>2. Stores'
  BY <1>1, StoresKept DEF IInv, Stores, outside, engine
<1>3. Threads'
  BY <1>1 DEF IInv, Threads, Holds, Owns, Landed, Placed
<1>4. Watchers'
  <2>1. PICK s \in WatchState :
          watch' = [watch EXCEPT ![w] = s] /\ (s = Off \/ s.of = watch[w].of)
    <3>1. CASE Attach(w)
      <4>1. [watch[w] EXCEPT !.stage = "watching"] \in WatchState
        BY <1>0 DEF WatchState
      <4>2. [watch[w] EXCEPT !.stage = "watching"].of = watch[w].of
        BY <1>0 DEF WatchState
      <4>3. QED
        BY <3>1, <4>1, <4>2, IdleType DEF Attach
    <3>2. CASE Poll(w)
      <4>1. [watch[w] EXCEPT !.stage = "polled"] \in WatchState
        BY <1>0 DEF WatchState
      <4>2. [watch[w] EXCEPT !.stage = "polled"].of = watch[w].of
        BY <1>0 DEF WatchState
      <4>3. QED
        BY <3>2, <4>1, <4>2, IdleType DEF Poll
    <3>3. CASE Wake(w)
      <4>1. [watch[w] EXCEPT !.stage = "watching", !.pending = FALSE] \in WatchState
        BY <1>0 DEF WatchState
      <4>2. [watch[w] EXCEPT !.stage = "watching", !.pending = FALSE].of = watch[w].of
        BY <1>0 DEF WatchState
      <4>3. watch' = [watch EXCEPT ![w] = [watch[w] EXCEPT !.stage = "watching", !.pending = FALSE]]
        BY <1>0, <3>3 DEF Wake
      <4>4. QED
        BY <4>1, <4>2, <4>3
    <3>4. QED
      BY <3>1, <3>2, <3>3 DEF Turn
  <2>2. watch' \in [Watcher -> WatchState] /\ \A v \in Watcher : watch'[v] = IF v = w THEN s ELSE watch[v]
    BY <1>0, <2>1
  <2>3. watch[w].of \in Project
    BY <1>0 DEF IInv, Watchers
  <2>4. QED
    BY <1>0, <1>1, <2>1, <2>2, <2>3, IdleType DEF IInv, Watchers
<1>5. QED
  BY <1>2, <1>3, <1>4 DEF IInv

LEMMA EditStep ==
  ASSUME IInv, NEW p \in Project, NEW f \in File, Edit(p, f)
  PROVE  IInv'
<1>1. UNCHANGED <<mode, disk, root, graph, state, count, poisoned, analysing, writer, readers,
                  running, th>>
  BY DEF Edit, engine, locks
<1>2. Threads'
  BY <1>1 DEF IInv, Threads, Holds, Owns, Landed, Placed
<1>3. Watchers'
  <2> DEFINE v(w) == IF watch[w].stage \in {"watching", "polled"} /\ watch[w].of = p
                     THEN [watch[w] EXCEPT !.pending = TRUE] ELSE watch[w]
  <2>1. \A w \in Watcher : v(w) \in WatchState /\ v(w).stage = watch[w].stage /\ v(w).of = watch[w].of
    BY DEF IInv, Watchers, WatchState
  <2>2. watch' = [w \in Watcher |-> v(w)]
    BY DEF Edit
  <2> HIDE DEF v
  <2>3. watch' \in [Watcher -> WatchState] /\ \A w \in Watcher : watch'[w] = v(w)
    BY <2>1, <2>2
  <2>4. QED
    BY <1>1, <2>1, <2>3 DEF IInv, Watchers
<1>4. Stores'
  <2>1. tree' \in [Project -> SUBSET File]
    BY DEF Edit, IInv, Stores
  <2>2. edits' \in 0..MaxEdits
    BY BoundAssumption DEF Edit, IInv, Stores
  <2>3. GraphIsHome' /\ ReadyCounts'
    BY <1>1 DEF IInv, Stores, GraphIsHome, ReadyCounts, Home
  <2>4. QED
    BY <1>1, <2>1, <2>2, <2>3 DEF IInv, Stores
<1>5. QED
  BY <1>2, <1>3, <1>4 DEF IInv

LEMMA RestartStep == ASSUME IInv, Restart PROVE IInv'
<1>1. Threads'
  <2>1. \A t \in Client : th'[t] = Idle /\ readers'[t] = 0
    BY DEF Restart
  <2>2. QED
    BY <2>1, IdleType DEF Restart, Threads, Holds, Owns, Landed, Placed, Guarded, Busy
<1>2. Watchers'
  BY IdleType DEF Restart, Watchers
<1>3. Stores'
  <2>1. graph' \in Graph
    BY DEF Restart, Graph
  <2>2. GraphIsHome'
    BY DEF Restart, IInv, Stores, GraphIsHome, Home
  <2>3. ReadyCounts'
    BY DEF Restart, ReadyCounts
  <2>4. QED
    BY <2>1, <2>2, <2>3 DEF Restart, IInv, Stores
<1>4. QED
  BY <1>1, <1>2, <1>3 DEF IInv

LEMMA IInvStep == IInv /\ [Next]_vars => IInv'
<1> SUFFICES ASSUME IInv, [Next]_vars PROVE IInv'
  OBVIOUS
<1>1. ASSUME NEW t \in Client, Work(t) PROVE IInv'
  <2>1. CASE Peek(t) \/ Claim(t) \/ TakeGraph(t) \/ Note(t) \/ Rename(t)
    BY <2>1, StrollStep
  <2>2. CASE Analyse(t) \/ Refuse(t) \/ StopWatcher(t) \/ Query(t) \/ NestedQuery(t)
    BY <2>2, GuardStep
  <2>3. CASE Initialise(t)
    BY <2>3, InitialiseStep
  <2>4. CASE Begin(t)
    BY <2>4, BeginStep
  <2>5. CASE \E f \in File : Parse(t, f)
    BY <2>5, ParseStep
  <2>6. CASE Land(t)
    BY <2>6, LandStep
  <2>7. CASE Finish(t)
    BY <2>7, FinishStep
  <2>8. CASE StartWatcher(t)
    BY <2>8, StartWatcherStep
  <2>9. CASE Persist(t)
    BY <2>9, PersistStep
  <2>10. QED
    BY <1>1, <2>1, <2>2, <2>3, <2>4, <2>5, <2>6, <2>7, <2>8, <2>9 DEF Work
<1>2. ASSUME NEW t \in Client, Panic(t) PROVE IInv'
  BY <1>2, PanicStep
<1>3. ASSUME NEW t \in Client, NEW req \in Kinds, NEW p \in Project, Receive(t, req, p) PROVE IInv'
  BY <1>3, ReceiveStep
<1>4. ASSUME NEW w \in Watcher, Turn(w) PROVE IInv'
  BY <1>4, TurnStep
<1>5. ASSUME NEW p \in Project, NEW f \in File, Edit(p, f) PROVE IInv'
  BY <1>5, EditStep
<1>6. CASE Restart
  BY <1>6, RestartStep
<1>7. CASE UNCHANGED vars
  <2>1. UNCHANGED <<mode, tree, edits, disk, root, graph, state, count, poisoned, analysing, writer,
                    readers, running, watch, th>>
    BY <1>7 DEF vars, outside, engine, locks, watching
  <2>2. Threads'
    BY <2>1 DEF IInv, Threads, Holds, Owns, Landed, Placed
  <2>3. Watchers'
    BY <2>1 DEF IInv, Watchers
  <2>4. Stores'
    BY <2>1, StoresKept DEF IInv, Stores, outside, engine
  <2>5. QED
    BY <2>2, <2>3, <2>4 DEF IInv
<1>8. QED
  BY <1>1, <1>2, <1>3, <1>4, <1>5, <1>6, <1>7 DEF Next

-----------------------------------------------------------------------------
(* Who waits for whom.  The writer waits for readers, who wait for an analysis *)
(* that waits for nobody; all others wait for the writer.  Only a timeline     *)
(* request closes a circle.                                                    *)

\* A tool_analyze on its way to a new watcher.
Starter(t) == th[t].req = "analyze" /\ mode = "mcp"
Spare == \E w \in Watcher : watch[w] = Off

Task(t) ==
  /\ th[t].at = "claimed" <=> writer = t
  /\ analysing = t => th[t].at \in Busy
  /\ th[t].at = "nested" => th[t].req = "timeline"
  /\ th[t].at \in {"stop", "sleep"} => Starter(t)
  /\ Starter(t) => t = Stdio /\ Spare

Tasks == \A t \in Client : Task(t)

\* One thread gets on, the others keep their locks.
OthersKeep(t) ==
  \A u \in Client : u # t => (writer' = u <=> writer = u) /\ (analysing' = u => analysing = u)

LEMMA BecomeTask ==
  ASSUME IInv, Tasks, NEW t \in Client, NEW s \in ThreadState, th' = [th EXCEPT ![t] = s],
         mode' = mode, OthersKeep(t), Spare => Spare',
         s.at = "claimed" <=> writer' = t,
         analysing' = t => s.at \in Busy,
         s.at = "nested" => s.req = "timeline",
         s.at \in {"stop", "sleep"} => s.req = "analyze" /\ mode = "mcp",
         s.req = "analyze" /\ mode = "mcp" => t = Stdio /\ Spare'
  PROVE  Tasks'
<1>1. th'[t] = s /\ \A u \in Client : u # t => th'[u] = th[u]
  BY DEF IInv, Threads
<1>2. Task(t)'
  BY <1>1 DEF Task, Starter
<1>3. ASSUME NEW u \in Client, u # t PROVE Task(u)'
  <2>1. Task(u) /\ th'[u] = th[u] /\ (writer' = u <=> writer = u) /\ (analysing' = u => analysing = u)
    BY <1>1, <1>3 DEF Tasks, OthersKeep
  <2>2. QED
    BY <2>1 DEF Task, Starter
<1>4. QED
  BY <1>2, <1>3 DEF Tasks

LEMMA GoTask ==
  ASSUME IInv, Tasks, NEW t \in Client, NEW place \in Places, Go(t, place),
         UNCHANGED <<mode, watch>>, OthersKeep(t),
         place = "claimed" <=> writer' = t,
         analysing' = t => place \in Busy,
         place = "nested" => th[t].req = "timeline",
         place \in {"stop", "sleep"} => Starter(t)
  PROVE  Tasks'
<1> DEFINE s == IF place = "idle" THEN Idle ELSE [th[t] EXCEPT !.at = place]
<1>1. s \in ThreadState /\ s.at = place /\ th' = [th EXCEPT ![t] = s]
  BY IdleType DEF ThreadState, Go, IInv, Threads
<1>2. s.req = IF place = "idle" THEN "none" ELSE th[t].req
  BY DEF ThreadState, Idle, IInv, Threads
<1> HIDE DEF s
<1>3. Spare' <=> Spare
  BY DEF Spare
<1>4. Task(t)
  BY DEF Tasks
<1>5. /\ s.at = "nested" => s.req = "timeline"
      /\ s.at \in {"stop", "sleep"} => s.req = "analyze" /\ mode = "mcp"
      /\ s.req = "analyze" /\ mode = "mcp" => t = Stdio /\ Spare'
  BY <1>1, <1>2, <1>3, <1>4 DEF Task, Starter
<1>6. QED
  BY <1>1, <1>3, <1>5, BecomeTask

LEMMA TasksInit == Init => Tasks
<1> SUFFICES ASSUME Init, NEW t \in Client PROVE Task(t)
  BY DEF Tasks
<1>1. th[t] = Idle /\ writer = None /\ analysing = None /\ t # None
  BY ThreadAssumption DEF Init
<1>2. QED
  BY <1>1 DEF Task, Starter, Idle

LEMMA WorkTasks ==
  ASSUME IInv, Tasks, NEW t \in Client, Work(t)
  PROVE  Tasks'
<1>0. t # None /\ Task(t) /\ (\A u \in Client : th[u].at = "claimed" <=> writer = u)
      /\ th[t] \in ThreadState
  BY ThreadAssumption DEF Tasks, Task, IInv, Threads
<1>1. CASE Peek(t) \/ TakeGraph(t) \/ Note(t) \/ Rename(t) \/ Persist(t) \/ Analyse(t) \/ Refuse(t)
           \/ NestedQuery(t) \/ Query(t) \/ StopWatcher(t)
  <2>1. /\ UNCHANGED <<mode, watch, writer, analysing>>
        /\ th[t].at \notin Busy \cup {"claimed"}
    BY <1>1 DEF Peek, TakeGraph, Note, Rename, Persist, Analyse, Refuse, NestedQuery, Query, StopWatcher,
                At, Busy, outside, locks, watching
  <2>2. PICK place \in Places : /\ Go(t, place)
                                /\ place # "claimed"
                                /\ place = "nested" => th[t].req = "timeline"
                                /\ place \in {"stop", "sleep"} => th[t].at = "stop"
    BY <1>1 DEF Peek, TakeGraph, Note, Rename, Persist, Analyse, Refuse, NestedQuery, Query, StopWatcher,
                At, AfterError, Places
  <2>3. QED
    BY <1>0, <2>1, <2>2, GoTask DEF Task, OthersKeep
<1>2. CASE Claim(t)
  <2>1. /\ UNCHANGED <<mode, watch, analysing>> /\ writer = None /\ writer' = t
        /\ Go(t, "claimed") /\ th[t].at = "init"
    BY <1>2 DEF Claim, At, outside, watching
  <2>2. OthersKeep(t) /\ "claimed" \in Places /\ analysing # t
    BY <1>0, <2>1, ThreadAssumption DEF OthersKeep, Places, Task, Busy
  <2>3. QED
    BY <2>1, <2>2, GoTask
<1>3. CASE Initialise(t)
  <2>1. /\ UNCHANGED <<mode, watch, analysing>> /\ writer' = None /\ th[t].at = "claimed"
        /\ Go(t, "idle") \/ Go(t, "enter")
    BY <1>3 DEF Initialise, At, outside, watching
  <2>2. OthersKeep(t) /\ {"idle", "enter"} \subseteq Places /\ analysing # t
    BY <1>0, <2>1, ThreadAssumption DEF OthersKeep, Places, Task, Busy
  <2>3. QED
    BY <1>0, <2>1, <2>2, GoTask
<1>4. CASE Begin(t) \/ \E f \in File : Parse(t, f)
  <2>1. /\ UNCHANGED <<mode, watch, writer>> /\ th[t].at \in {"queue", "scan"}
        /\ analysing' \in {analysing, t}
    BY <1>4 DEF Begin, Parse, At, outside, locks, watching
  <2>2. PICK left \in SUBSET File, got \in SUBSET File :
          th' = [th EXCEPT ![t] = [th[t] EXCEPT !.at = "scan", !.left = left, !.got = got]]
    <3>1. CASE Begin(t)
      <4>1. th' = [th EXCEPT ![t] = [th[t] EXCEPT !.at = "scan", !.left = tree[th[t].of], !.got = th[t].got]]
        BY <1>0, <3>1 DEF Begin, ThreadState
      <4>2. tree[th[t].of] \in SUBSET File /\ th[t].got \in SUBSET File
        BY <1>0, <3>1 DEF Begin, At, IInv, Threads, Placed, Stores, ThreadState
      <4>3. QED
        BY <4>1, <4>2
    <3>2. ASSUME NEW f \in File, Parse(t, f)
          PROVE  \E left \in SUBSET File, got \in SUBSET File :
                   th' = [th EXCEPT ![t] = [th[t] EXCEPT !.at = "scan", !.left = left, !.got = got]]
      <4>1. PICK left \in SUBSET File, got \in SUBSET File :
              left = th[t].left \ {f} /\ got = th[t].got \cup ({f} \cap tree[th[t].of])
        BY <1>0 DEF ThreadState
      <4>2. th' = [th EXCEPT ![t] = [th[t] EXCEPT !.at = "scan", !.left = left, !.got = got]]
        BY <1>0, <3>2, <4>1 DEF Parse, At, ThreadState
      <4>3. QED
        BY <4>2
    <3>3. QED
      BY <1>4, <3>1, <3>2
  <2> DEFINE s == [th[t] EXCEPT !.at = "scan", !.left = left, !.got = got]
  <2>3. s \in ThreadState /\ s.at = "scan" /\ s.req = th[t].req
    BY <1>0 DEF ThreadState, Places
  <2>4. th' = [th EXCEPT ![t] = s]
    BY <2>2
  <2> HIDE DEF s
  <2>5. OthersKeep(t) /\ (Spare' <=> Spare)
    BY <2>1 DEF OthersKeep, Spare
  <2>6. QED
    BY <1>0, <2>1, <2>3, <2>4, <2>5, BecomeTask DEF Task, Starter, Busy
<1>5. CASE Land(t)
  <2>1. UNCHANGED <<mode, watch, writer, analysing>> /\ th[t].at = "scan" /\ Go(t, "saving")
    BY <1>5 DEF Land, At, outside, locks, watching
  <2>2. OthersKeep(t) /\ "saving" \in Places
    BY <2>1 DEF OthersKeep, Places
  <2>3. QED
    BY <1>0, <2>1, <2>2, GoTask DEF Busy
<1>6. CASE Finish(t)
  <2>1. UNCHANGED <<mode, watch, writer>> /\ analysing' = None /\ th[t].at = "saving"
        /\ Go(t, AfterAnalysis(t))
    BY <1>6 DEF Finish, At, outside, watching
  <2>2. /\ AfterAnalysis(t) \in {"idle", "report", "stop", "note"} /\ AfterAnalysis(t) \in Places
        /\ AfterAnalysis(t) = "stop" => Starter(t)
    BY DEF AfterAnalysis, Places, Starter
  <2>3. OthersKeep(t)
    BY <2>1, ThreadAssumption DEF OthersKeep
  <2>4. QED
    BY <1>0, <2>1, <2>2, <2>3, GoTask
<1>7. CASE StartWatcher(t)
  <2>1. UNCHANGED <<mode, writer, analysing>> /\ th[t].at = "sleep" /\ Go(t, "idle")
    BY <1>7 DEF StartWatcher, At, outside
  <2>2. th'[t] = Idle /\ \A u \in Client : u # t => th'[u] = th[u]
    BY <2>1, GoType DEF IInv, Threads, Places
  <2>3. t = Stdio /\ \A u \in Client : u # t => ~Starter(u)
    BY <1>0, <2>1 DEF Tasks, Task
  <2>4. Task(t)'
    BY <1>0, <2>1, <2>2 DEF Task, Starter, Idle, Busy
  <2>5. ASSUME NEW u \in Client, u # t PROVE Task(u)'
    BY <2>1, <2>2, <2>3, <2>5 DEF Tasks, Task, Starter
  <2>6. QED
    BY <2>4, <2>5 DEF Tasks
<1>8. QED
  BY <1>1, <1>2, <1>3, <1>4, <1>5, <1>6, <1>7 DEF Work

\* Steps that leave the threads to themselves take no spare watcher away.
LEMMA TasksKept ==
  ASSUME Tasks, UNCHANGED <<mode, writer, analysing, th>>, Spare => Spare'
  PROVE  Tasks'
BY DEF Tasks, Task, Starter

LEMMA NextTasks ==
  ASSUME IInv, Tasks, [Next]_vars
  PROVE  Tasks'
<1>1. ASSUME NEW t \in Client, Work(t) PROVE Tasks'
  BY <1>1, WorkTasks
<1>2. ASSUME NEW t \in Client, Panic(t) PROVE Tasks'
  <2>1. UNCHANGED <<mode, writer, watch>> /\ analysing' = None /\ th[t].at = "scan" /\ Go(t, "idle")
    BY <1>2 DEF Panic, At, outside, watching
  <2>2. OthersKeep(t) /\ "idle" \in Places
    BY <2>1, ThreadAssumption DEF OthersKeep, Places
  <2>3. writer' # t /\ analysing' # t
    BY <2>1, ThreadAssumption DEF Tasks, Task
  <2>4. QED
    BY <2>1, <2>2, <2>3, GoTask
<1>3. ASSUME NEW t \in Client, NEW req \in Kinds, NEW p \in Project, Receive(t, req, p) PROVE Tasks'
  <2> DEFINE s == [Idle EXCEPT !.at = FirstPlace(req), !.req = req, !.of = p]
  <2>1. /\ UNCHANGED <<mode, watch, writer, analysing>> /\ th[t].at = "idle"
        /\ req = "analyze" /\ mode = "mcp" => t = Stdio /\ Spare
    BY <1>3, KindAssumption DEF Receive, At, outside, locks, watching, Spare, TcpKinds, McpKinds
  <2>2. FirstPlace(req) \in {"init", "peek", "rename", "read"}
    BY DEF FirstPlace
  <2>3. s \in ThreadState /\ s.at = FirstPlace(req) /\ s.req = req
    BY <2>2 DEF ThreadState, Places, Idle
  <2>4. th' = [th EXCEPT ![t] = s]
    BY <1>3 DEF Receive
  <2> HIDE DEF s
  <2>5. OthersKeep(t) /\ (Spare' <=> Spare) /\ writer # t /\ analysing # t
    BY <2>1 DEF OthersKeep, Spare, Tasks, Task, Busy
  <2>6. QED
    BY <2>1, <2>2, <2>3, <2>4, <2>5, BecomeTask
<1>4. ASSUME NEW w \in Watcher, Turn(w) PROVE Tasks'
  <2>1. UNCHANGED <<mode, writer, analysing, th>> /\ watch \in [Watcher -> WatchState]
    BY <1>4 DEF Turn, Attach, Poll, Wake, outside, locks, IInv, Watchers
  <2>2. \A v \in Watcher : watch[v] = Off => watch'[v] = Off
    <3>1. watch[w] # Off
      BY <1>4, IdleType DEF Turn, Attach, Poll, Wake
    <3>2. \A v \in Watcher : v # w => watch'[v] = watch[v]
      BY <1>4, <2>1 DEF Turn, Attach, Poll, Wake
    <3>3. QED
      BY <3>1, <3>2
  <2>3. QED
    BY <2>1, <2>2, TasksKept DEF Spare
<1>5. ASSUME NEW p \in Project, NEW f \in File, Edit(p, f) PROVE Tasks'
  <2>1. UNCHANGED <<mode, writer, analysing, th>>
    BY <1>5 DEF Edit, locks
  <2>2. \A v \in Watcher : watch[v] = Off => watch'[v] = Off
    BY <1>5, IdleType DEF Edit
  <2>3. QED
    BY <2>1, <2>2, TasksKept DEF Spare
<1>6. CASE Restart
  <2> SUFFICES ASSUME NEW t \in Client PROVE Task(t)'
    BY DEF Tasks
  <2>1. th'[t] = Idle /\ writer' = None /\ analysing' = None /\ t # None
    BY <1>6, ThreadAssumption DEF Restart
  <2>2. QED
    BY <2>1 DEF Task, Starter, Idle
<1>7. CASE UNCHANGED vars
  BY <1>7, TasksKept DEF vars, outside, locks, watching, Spare
<1>8. QED
  BY <1>1, <1>2, <1>3, <1>4, <1>5, <1>6, <1>7 DEF Next

\* Whoever analyses can go on; whoever waits for analyze_lock waits for one who does.
LEMMA QueueMoves ==
  ASSUME IInv, Tasks, NEW t \in Client, th[t].at \in {"queue", "scan", "saving", "sleep"}
  PROVE  \E u \in Client : CanGo(u)
<1>1. CASE th[t].at \in {"scan", "saving"}
  BY <1>1 DEF CanGo, At
<1>2. CASE th[t].at = "queue" /\ analysing = None
  BY <1>2 DEF CanGo, At, Free
<1>3. CASE th[t].at = "queue" /\ analysing # None
  <2>1. analysing \in Client /\ th[analysing].at \in Busy
    BY <1>3 DEF IInv, Stores, Tasks, Task
  <2>2. QED
    BY <2>1 DEF CanGo, At, Busy
<1>4. CASE th[t].at = "sleep"
  <2>1. Spare
    BY <1>4 DEF Tasks, Task
  <2>2. QED
    BY <1>4, <2>1 DEF CanGo, At, Spare
<1>5. QED
  BY <1>1, <1>2, <1>3, <1>4

LEMMA SomebodyGoes ==
  ASSUME IInv, Tasks, NEW t \in Client, ~At(t, "idle"), ~Stuck
  PROVE  \E u \in Client : CanGo(u)
<1>1. th[t].at \in Places \ {"idle"}
  BY DEF At, IInv, Threads, ThreadState
<1>2. CASE writer = None
  <2>1. th[t].at # "claimed"
    BY <1>2, ThreadAssumption DEF Tasks, Task
  <2>2. CASE th[t].at \in {"queue", "scan", "saving", "sleep"}
    BY <2>2, QueueMoves
  <2>3. CASE th[t].at \notin {"queue", "scan", "saving", "sleep"}
    BY <1>1, <1>2, <2>1, <2>3 DEF CanGo, Places
  <2>4. QED
    BY <2>2, <2>3
<1>3. CASE writer # None
  <2>1. writer \in Client /\ th[writer].at = "claimed"
    BY <1>3 DEF IInv, Stores, Tasks, Task
  <2>2. CASE \A u \in Client : readers[u] = 0
    BY <2>1, <2>2 DEF CanGo, At, Alone
  <2>3. CASE ~ \A u \in Client : readers[u] = 0
    <3>1. PICK u \in Client : readers[u] # 0
      BY <2>3
    <3>2. th[u].at \in Guarded
      BY <3>1 DEF IInv, Threads, Holds
    <3>3. th[u].at # "nested"
      BY <1>3 DEF Stuck, At
    <3>4. QED
      BY <3>2, <3>3, QueueMoves DEF Guarded
  <2>4. QED
    BY <2>2, <2>3
<1>4. QED
  BY <1>2, <1>3

-----------------------------------------------------------------------------
(* The theorems *)

\* engine.rs: whatever threads do, the invariant holds.
THEOREM Invariance == Spec => []IInv
<1>1. Init => IInv
  BY IInvInit
<1>2. IInv /\ [Next]_vars => IInv'
  BY IInvStep
<1>3. QED
  BY <1>1, <1>2, PTL DEF Spec

\* engine.rs: the state of the engine, its locks and its threads keep their types; a
\* thread never holds more read guards than it takes.
THEOREM TypeCorrect == Spec => []TypeOK
<1>1. IInv => TypeOK
  BY DEF IInv, Threads, Watchers, Stores, TypeOK, ThreadState, WatchState
<1>2. QED
  BY <1>1, Invariance, PTL

\* engine.rs, init and analyze: an analysis of one project never ends up in the graph
\* or the database of another.
THEOREM ProjectsStayApart == Spec => []GraphIsHome
<1>1. IInv => GraphIsHome
  BY DEF IInv, Stores
<1>2. QED
  BY <1>1, Invariance, PTL

\* engine.rs, analyze: a Ready state announces the size of the graph in the store.
THEOREM CountsAreRight == Spec => []ReadyCounts
<1>1. IInv => ReadyCounts
  BY DEF IInv, Stores
<1>2. QED
  BY <1>1, Invariance, PTL

\* engine.rs, main.rs and mcp.rs: inits, analyses and queries never all wait for
\* one another, a timeline request's second guard apart.
THEOREM NobodyBlocksAll == Spec => []NoCircularWait
<1>1. IInv /\ Tasks => NoCircularWait
  BY SomebodyGoes DEF NoCircularWait
<1>2. Spec => [](IInv /\ Tasks)
  BY IInvInit, IInvStep, TasksInit, NextTasks, PTL DEF Spec
<1>3. QED
  BY <1>1, <1>2, PTL
=============================================================================
