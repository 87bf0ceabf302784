--------------------------------- MODULE Engine ---------------------------------
(***************************************************************************)
(* The process-wide engine (src/engine/src/engine.rs) and the two servers  *)
(* that share it between threads: the TCP server (main.rs), where every    *)
(* client runs its requests on a thread of its own, and the MCP server     *)
(* (mcp.rs), where one client's requests are served in turn.  Every        *)
(* analysis there starts a watcher thread for its project; when files have *)
(* changed it asks for an incremental update and makes do with the         *)
(* refusal it gets: it never analyses (Wake).                              *)
(*                                                                         *)
(* ENGINE is a parking_lot RwLock: a writer first claims it, which keeps   *)
(* every new reader out, a nested one too, and then waits for the readers  *)
(* inside.  Engine::init runs as the writer; everything else holds a read  *)
(* guard, an analysis for all of its time.  analyze_lock admits one        *)
(* analysis and is poisoned by a panic in it.  The other mutexes of Engine *)
(* are held for one access at a time and are not modelled.                 *)
(*                                                                         *)
(* A graph is the set of the <<project, file>> pairs whose symbols it has. *)
(***************************************************************************)
EXTENDS Naturals, FiniteSets

CONSTANTS
  Project,   \* project roots
  File,      \* the files a project may have
  Client,    \* threads that serve clients
  Stdio,     \* the one of them that serves MCP
  Watcher,   \* watcher threads: a bound on how many are alive at one time
  Kinds,     \* the kinds of requests that are made
  Faults,    \* what can go wrong: "open", "save", "panic", "watch"
  MaxEdits,  \* bound on the edits of source files
  None       \* no project, no thread

TcpKinds == {"analyze", "check", "query", "timeline"}
McpKinds == {"open", "analyze", "check", "query", "rename"}

ASSUME ThreadAssumption ==
  Stdio \in Client /\ None \notin Project \cup Client
ASSUME KindAssumption ==
  Kinds \subseteq TcpKinds \cup McpKinds /\ Faults \subseteq {"open", "save", "panic", "watch"}
ASSUME BoundAssumption == MaxEdits \in Nat /\ IsFiniteSet(File) /\ IsFiniteSet(Project)

VARIABLES
  mode,      \* which server this process is: "tcp" or "mcp"
  tree,      \* the files each project has
  edits,     \* how many edits there were
  disk,      \* .hologram/hologram.db of each project
  root,      \* Engine.project_root; None before the first init
  graph,     \* the index of Engine.store
  state,     \* Engine.state
  count,     \* node_count of a Ready state
  poisoned,  \* a thread panicked holding analyze_lock
  analysing, \* who holds analyze_lock
  writer,    \* who claimed or holds ENGINE.write()
  readers,   \* how many read guards of ENGINE a thread holds
  running,   \* Engine.watcher_running
  watch,     \* the watcher threads: how far they are, their root, unseen changes
  th         \* what each thread is doing

outside == <<mode, tree, edits>>
engine == <<root, graph, state, count>>
locks == <<poisoned, analysing, writer, readers>>
watching == <<running, watch>>
vars == <<outside, disk, engine, locks, watching, th>>

Graph == SUBSET (Project \X File)
Home(p) == {p} \X File
Idle == [at |-> "idle", req |-> "none", of |-> None, left |-> {}, got |-> {}]
Off == [stage |-> "off", of |-> None, pending |-> FALSE]
Places == {"idle", "peek", "init", "claimed", "enter", "queue", "scan", "saving", "stop",
           "sleep", "report", "note", "read", "nested", "rename", "persist"}

TypeOK ==
  /\ mode \in {"tcp", "mcp"}
  /\ tree \in [Project -> SUBSET File]
  /\ edits \in 0..MaxEdits
  /\ disk \in [Project -> Graph]
  /\ root \in Project \cup {None}
  /\ graph \in Graph
  /\ state \in {"Uninitialized", "Loading", "Ready", "Analyzing"}
  /\ count \in Nat
  /\ poisoned \in BOOLEAN
  /\ analysing \in Client \cup {None}
  /\ writer \in Client \cup {None}
  /\ readers \in [Client -> 0..2]
  /\ running \in BOOLEAN
  /\ watch \in [Watcher -> [stage : {"off", "starting", "watching", "polled"},
                            of : Project \cup {None}, pending : BOOLEAN]]
  /\ th \in [Client -> [at : Places, req : Kinds \cup {"none"},
                        of : Project \cup {None}, left : SUBSET File, got : SUBSET File]]

\* A server has started.
Init ==
  /\ mode \in {"tcp", "mcp"}
  /\ tree = [p \in Project |-> File]
  /\ edits = 0
  /\ disk = [p \in Project |-> {}]
  /\ root = None /\ graph = {} /\ state = "Uninitialized" /\ count = 0
  /\ poisoned = FALSE /\ analysing = None /\ writer = None
  /\ readers = [t \in Client |-> 0]
  /\ running = FALSE
  /\ watch = [w \in Watcher |-> Off]
  /\ th = [t \in Client |-> Idle]

-----------------------------------------------------------------------------
(* Control flow and locks *)

At(t, place) == th[t].at = place
Go(t, place) == th' = [th EXCEPT ![t] = IF place = "idle" THEN Idle ELSE [@ EXCEPT !.at = place]]

\* ENGINE.read() goes through; read guards taken and dropped within one step.
Readable == writer = None
Enter(t) == readers' = [readers EXCEPT ![t] = @ + 1]
Leave(t) == readers' = [readers EXCEPT ![t] = @ - 1]

\* Where a thread goes on from a failed init or analysis: handle_check goes on
\* regardless, all others report the error.
AfterError(t) == IF mode = "tcp" /\ th[t].req = "check" THEN "report" ELSE "idle"
AfterAnalysis(t) ==
  CASE th[t].req = "check" /\ mode = "tcp" -> "report"
    [] th[t].req = "analyze" /\ mode = "mcp" -> "stop"
    [] OTHER -> "note"

FirstPlace(req) ==
  CASE req \in {"open", "analyze"} -> "init"
    [] req = "check" -> "peek"
    [] req = "rename" -> "rename"
    [] OTHER -> "read"

\* A client's request arrives; a server with --project-root opens it at its start
\* ("open").  Bound: an MCP client does not ask for an analysis
\* when a watcher started by it could not be modelled any more.
Receive(t, req, p) ==
  /\ At(t, "idle")
  /\ \/ mode = "tcp" /\ req \in TcpKinds
     \/ mode = "mcp" /\ req \in McpKinds /\ t = Stdio
  /\ req = "open" => root = None
  /\ req = "analyze" /\ mode = "mcp" => \E w \in Watcher : watch[w] = Off
  /\ th' = [th EXCEPT ![t] = [Idle EXCEPT !.at = FirstPlace(req), !.req = req, !.of = p]]
  /\ UNCHANGED <<outside, disk, engine, locks, watching>>

\* tool_run_check takes the graph there is for the one before; handle_check analyses
\* only if no graph is loaded.
Peek(t) ==
  /\ At(t, "peek") /\ Readable
  /\ Go(t, IF mode = "tcp" /\ graph # {} THEN "report" ELSE "init")
  /\ UNCHANGED <<outside, disk, engine, locks, watching>>

-----------------------------------------------------------------------------
(* engine_init *)

Claim(t) ==
  /\ At(t, "init") /\ writer = None
  /\ writer' = t
  /\ Go(t, "claimed")
  /\ UNCHANGED <<outside, disk, engine, poisoned, analysing, readers, watching>>

Alone(t) == \A u \in Client : readers[u] = 0

\* Engine::init: nothing to do for the same root when Ready; else the store of the
\* new root is opened.  If that fails the old store stays, in state Loading, or
\* there is still no engine; handle_analyze and handle_check carry on all the same.
Initialise(t) ==
  /\ At(t, "claimed") /\ Alone(t)
  /\ writer' = None
  /\ LET p == th[t].of
         same == root = p /\ state = "Ready"
     IN  \/ /\ same
            /\ UNCHANGED engine
            /\ Go(t, IF th[t].req = "open" THEN "idle" ELSE "enter")
         \/ /\ ~same
            /\ root' = p /\ graph' = disk[p] /\ state' = "Ready" /\ count' = Cardinality(disk[p])
            /\ Go(t, IF th[t].req = "open" THEN "idle" ELSE "enter")
         \/ /\ ~same /\ "open" \in Faults
            /\ state' = IF root = None THEN "Uninitialized" ELSE "Loading"
            /\ UNCHANGED <<root, graph, count>>
            /\ Go(t, IF mode = "tcp" THEN "enter" ELSE "idle")
  /\ UNCHANGED <<outside, disk, poisoned, analysing, readers, watching>>

-----------------------------------------------------------------------------
(* engine_analyze *)

\* The read guard; an error when there is no engine.
Analyse(t) ==
  /\ At(t, "enter") /\ Readable
  /\ IF root = None THEN Go(t, AfterError(t)) /\ UNCHANGED readers
                    ELSE Go(t, "queue") /\ Enter(t)
  /\ UNCHANGED <<outside, disk, engine, poisoned, analysing, writer, watching>>

\* Fault: analyses do not wait for one another.
Free_Always == TRUE
Free == analysing = None

\* Fault: a workspace switch since the init goes unnoticed.
Current_Unchecked(t) == TRUE
Current(t) == root = th[t].of

\* Fault: the read guard outlives the refusal.
Refuse_KeepsGuard(t) ==
  /\ At(t, "queue") /\ Free
  /\ poisoned \/ ~Current(t)
  /\ Go(t, AfterError(t))
  /\ UNCHANGED <<outside, disk, engine, locks, watching>>

\* Fault: a refused request queues again.
Refuse_Retries(t) ==
  /\ At(t, "queue") /\ Free
  /\ poisoned \/ ~Current(t)
  /\ Go(t, "enter")
  /\ Leave(t)
  /\ UNCHANGED <<outside, disk, engine, poisoned, analysing, writer, watching>>

\* analyze_lock is poisoned, or the workspace was switched since the init.
Refuse(t) ==
  /\ At(t, "queue") /\ Free
  /\ poisoned \/ ~Current(t)
  /\ Go(t, AfterError(t))
  /\ Leave(t)
  /\ UNCHANGED <<outside, disk, engine, poisoned, analysing, writer, watching>>

\* discover_files
Begin(t) ==
  /\ At(t, "queue") /\ Free /\ ~poisoned /\ Current(t)
  /\ analysing' = t
  /\ state' = "Analyzing"
  /\ th' = [th EXCEPT ![t].at = "scan", ![t].left = tree[th[t].of]]
  /\ UNCHANGED <<outside, disk, root, graph, count, poisoned, writer, readers, watching>>

\* A file is parsed; if it is gone by now it is left out.
Parse(t, f) ==
  /\ At(t, "scan") /\ f \in th[t].left
  /\ th' = [th EXCEPT ![t].left = @ \ {f}, ![t].got = @ \cup ({f} \cap tree[th[t].of])]
  /\ UNCHANGED <<outside, disk, engine, locks, watching>>

\* swap_index
Land(t) ==
  /\ At(t, "scan") /\ th[t].left = {}
  /\ graph' = {th[t].of} \X th[t].got
  /\ Go(t, "saving")
  /\ UNCHANGED <<outside, disk, root, state, count, locks, watching>>

\* to_sqlite upserts: what the graph no longer has stays in the database.
Upsert == disk' = [disk EXCEPT ![root] = @ \cup graph]

\* store.save(), Ready again, and both locks are given back.
Finish(t) ==
  /\ At(t, "saving")
  /\ Upsert \/ ("save" \in Faults /\ UNCHANGED disk)
  /\ state' = "Ready" /\ count' = Cardinality(th[t].got)
  /\ analysing' = None
  /\ Leave(t)
  /\ Go(t, AfterAnalysis(t))
  /\ UNCHANGED <<outside, root, graph, poisoned, writer, watching>>

\* A panic in the pipeline: the guards are dropped, analyze_lock is poisoned, the
\* state stays Analyzing.  A client of the TCP server gets an error; the MCP server
\* dies (Restart).
Panic(t) ==
  /\ "panic" \in Faults /\ At(t, "scan") /\ mode = "tcp"
  /\ poisoned' = TRUE /\ analysing' = None
  /\ Leave(t)
  /\ Go(t, "idle")
  /\ UNCHANGED <<outside, disk, engine, writer, watching>>

-----------------------------------------------------------------------------
(* What requests do besides *)

\* tool_analyze restarts the watcher, holding a read guard: the flag goes down for
\* 200 ms and up again; watchers look at it every 500 ms.
StopWatcher(t) ==
  /\ At(t, "stop") /\ Readable
  /\ running' = FALSE
  /\ Enter(t)
  /\ Go(t, "sleep")
  /\ UNCHANGED <<outside, disk, engine, poisoned, analysing, writer, watch>>

StartWatcher(t) ==
  /\ At(t, "sleep")
  /\ running' = TRUE
  /\ \E w \in Watcher :
       /\ watch[w] = Off
       /\ watch' = [watch EXCEPT ![w] = [stage |-> "starting", of |-> th[t].of, pending |-> FALSE]]
  /\ Leave(t)
  /\ Go(t, "idle")
  /\ UNCHANGED <<outside, disk, engine, poisoned, analysing, writer>>

\* handle_check takes the graph there is, whatever became of the analysis, for the one
\* after (Preflight has the report); a quiet check is not recorded.
TakeGraph(t) ==
  /\ At(t, "report") /\ Readable
  /\ Go(t, "idle") \/ (root # None /\ Go(t, "note"))
  /\ UNCHANGED <<outside, disk, engine, locks, watching>>

\* engine_record_timeline
Note(t) ==
  /\ At(t, "note") /\ Readable
  /\ Go(t, "idle")
  /\ UNCHANGED <<outside, disk, engine, locks, watching>>

\* A query; the closure of a timeline request runs inside the read guard.
Query(t) ==
  /\ At(t, "read") /\ Readable
  /\ IF th[t].req = "timeline" /\ graph # {}
     THEN Enter(t) /\ Go(t, "nested")
     ELSE Go(t, "idle") /\ UNCHANGED readers
  /\ UNCHANGED <<outside, disk, engine, poisoned, analysing, writer, watching>>

\* engine_query_timeline takes a second guard.
NestedQuery(t) ==
  /\ At(t, "nested") /\ Readable
  /\ Leave(t)
  /\ Go(t, "idle")
  /\ UNCHANGED <<outside, disk, engine, poisoned, analysing, writer, watching>>

\* tool_rename changes names, which graphs here do not have, and saves.
Rename(t) ==
  /\ At(t, "rename") /\ Readable
  /\ Go(t, IF graph = {} THEN "idle" ELSE "persist")
  /\ UNCHANGED <<outside, disk, engine, locks, watching>>

Persist(t) ==
  /\ At(t, "persist") /\ Readable
  /\ Upsert \/ ("save" \in Faults /\ UNCHANGED disk)
  /\ Go(t, "idle")
  /\ UNCHANGED <<outside, engine, locks, watching>>

-----------------------------------------------------------------------------
(* A watcher thread *)

Attach(w) ==
  /\ watch[w].stage = "starting"
  /\ \/ watch' = [watch EXCEPT ![w].stage = "watching"]
     \/ "watch" \in Faults /\ watch' = [watch EXCEPT ![w] = Off]
  /\ UNCHANGED <<outside, disk, engine, locks, running, th>>

\* The top of its loop: end, or wait up to 500 ms for a change.
Poll(w) ==
  /\ watch[w].stage = "watching"
  /\ watch' = [watch EXCEPT ![w] = IF running THEN [@ EXCEPT !.stage = "polled"] ELSE Off]
  /\ UNCHANGED <<outside, disk, engine, locks, running, th>>

\* handle_watcher_changes: engine_write hands the closure's refusal through as
\* Ok(Err(_)), which passes for a finished update; the analysis after it is never
\* reached.  Changes from now on wait in the channel.
Wake(w) ==
  /\ watch[w].stage = "polled"
  /\ watch[w].pending => Readable
  /\ watch' = [watch EXCEPT ![w].stage = "watching", ![w].pending = FALSE]
  /\ UNCHANGED <<outside, disk, engine, locks, running, th>>

-----------------------------------------------------------------------------
(* Around the engine *)

\* Somebody creates or deletes a file; the watchers of the project are told.
Edit(p, f) ==
  /\ edits < MaxEdits
  /\ edits' = edits + 1
  /\ tree' = [tree EXCEPT ![p] = IF f \in @ THEN @ \ {f} ELSE @ \cup {f}]
  /\ watch' = [w \in Watcher |->
       IF watch[w].stage \in {"watching", "polled"} /\ watch[w].of = p
       THEN [watch[w] EXCEPT !.pending = TRUE] ELSE watch[w]]
  /\ UNCHANGED <<mode, disk, engine, locks, running, th>>

\* The process ends or dies, and a server is started again.
Restart ==
  /\ mode' \in {"tcp", "mcp"}
  /\ root' = None /\ graph' = {} /\ state' = "Uninitialized" /\ count' = 0
  /\ poisoned' = FALSE /\ analysing' = None /\ writer' = None
  /\ readers' = [t \in Client |-> 0]
  /\ running' = FALSE
  /\ watch' = [w \in Watcher |-> Off]
  /\ th' = [t \in Client |-> Idle]
  /\ UNCHANGED <<tree, edits, disk>>

Work(t) ==
  \/ Peek(t) \/ Claim(t) \/ Initialise(t) \/ Analyse(t) \/ Refuse(t) \/ Begin(t)
  \/ \E f \in File : Parse(t, f)
  \/ Land(t) \/ Finish(t) \/ StopWatcher(t) \/ StartWatcher(t) \/ TakeGraph(t) \/ Note(t)
  \/ Query(t) \/ NestedQuery(t) \/ Rename(t) \/ Persist(t)

Turn(w) == Attach(w) \/ Poll(w) \/ Wake(w)

Next ==
  \/ \E t \in Client : Work(t) \/ Panic(t)
  \/ \E t \in Client, req \in Kinds, p \in Project : Receive(t, req, p)
  \/ \E w \in Watcher : Turn(w)
  \/ \E p \in Project, f \in File : Edit(p, f)
  \/ Restart

Spec == Init /\ [][Next]_vars

\* Threads are scheduled, and parking_lot's task-fair queue lets each waiter in some
\* time.  Nobody has to make requests, to edit, to panic or to restart.
FairSpec ==
  /\ Spec
  /\ \A t \in Client : SF_vars(Work(t))
  /\ \A w \in Watcher : WF_vars(Turn(w))

-----------------------------------------------------------------------------
(* Properties *)

\* Symbols of one project never get into the graph or the database of another, no
\* matter how analyses, inits and switches of the workspace interleave.
GraphIsHome ==
  /\ root = None => graph = {}
  /\ root # None => graph \subseteq Home(root)
  /\ \A p \in Project : disk[p] \subseteq Home(p)

\* The counts that a Ready state announces are those of the graph that queries see.
ReadyCounts == state = "Ready" => count = Cardinality(graph)

\* A timeline request waits for its second guard while a writer waits for its first.
Stuck == writer # None /\ \E t \in Client : At(t, "nested")

\* What a thread needs to go on from where it is.
CanGo(t) ==
  \/ th[t].at \in {"init", "peek", "enter", "stop", "report", "note", "read", "nested", "rename", "persist"}
     /\ writer = None
  \/ At(t, "claimed") /\ Alone(t)
  \/ At(t, "queue") /\ Free
  \/ At(t, "scan") \/ At(t, "saving")
  \/ At(t, "sleep") /\ \E w \in Watcher : watch[w] = Off

\* Threads never all wait for one another: of those at work some thread can go on.
NoCircularWait ==
  (\E t \in Client : ~At(t, "idle")) => Stuck \/ \E t \in Client : CanGo(t)

\* ... and does: a thread that has what it needs has a step to take.
SomeoneMoves == NoCircularWait /\ \A t \in Client : CanGo(t) => ENABLED Work(t)

\* Every request gets its answer, for as long as no timeline request is stuck.
EveryRequestEnds == \A t \in Client : th[t].at # "idle" ~> (th[t].at = "idle" \/ Stuck)

=============================================================================
