------------------------------- MODULE Preflight -------------------------------
(***************************************************************************)
(* What a check reports: the diff against the graph baseline               *)
(* (src/engine/src/routing/preflight.rs, signals.rs and                    *)
(* build_workspace_check_payload_with_policy of cli.rs).                   *)
(*                                                                         *)
(* A check loads `.hologram/baseline.json`, analyses the workspace, asks   *)
(* git for the changed files, reports per-file risks and the growth of     *)
(* deep coupling and cycles since the baseline, saves the graph it         *)
(* analysed as the next baseline, and only then appends to the audit log   *)
(* and prints.  With --files-from it looks at the files it is given and    *)
(* leaves the baseline alone.  Nothing keeps two checks of one workspace   *)
(* apart, and the user works on.                                           *)
(***************************************************************************)
EXTENDS Naturals

CONSTANTS
  File,       \* the files of the workspace
  Managed,    \* those audit-risk keeps itself (.hologram, hook, CI workflow, audit log)
  Skipped,    \* those a full scan leaves out: lockfiles and very large files
  PathRisk,   \* migrations, serialization formats and configuration, by their names
  Graph,      \* the graphs an analysis can give
  Selection,  \* the lists of files --files-from may give
  Git,        \* does git know the workspace?
  Job,        \* the checks that may be running at one time
  SaveFaults  \* can writing the baseline fail?

\* No baseline, an unreadable one, and a workspace without a single symbol.
EmptyGraph == [nodes |-> 0, edges |-> 0, deep |-> 0, cycles |-> 0, shared |-> {}]

ASSUME FileAssumption == 
  Managed \cup Skipped \cup PathRisk \subseteq File /\ Selection \subseteq SUBSET File
ASSUME GraphAssumption ==
  \A g \in Graph : /\ g.nodes \in Nat /\ g.edges \in Nat /\ g.deep \in Nat
                   /\ g.cycles \in Nat /\ g.shared \subseteq File
ASSUME SwitchAssumption == Git \in BOOLEAN /\ SaveFaults \in BOOLEAN

VARIABLES
  risky,    \* the files whose contents hold a risk (a leaked key, an injection ...)
  dirty,    \* the files `git status` lists
  graph,    \* the graph an analysis would give now
  baseline, \* the saved graph
  check,    \* the state of each running check
  prev,     \* history: the graph the last ordinary check analysed and went on to save
  calm      \* history: no checks overlapped and no save failed

tree == <<risky, dirty, graph>>
vars == <<risky, dirty, graph, baseline, check, prev, calm>>

Graphs == Graph \cup {EmptyGraph}

\* A finding: a per-file risk, or growth of the whole graph.
Whole == "workspace"
Finding == {"content", "path", "shared"} \X File \cup {"deep", "cycle"} \X {Whole}

Idle == [at |-> "idle", ordinary |-> TRUE, given |-> {}, before |-> EmptyGraph, after |-> EmptyGraph,
         changed |-> {}, found |-> {}, stay |-> {}]

-----------------------------------------------------------------------------
(* run_full_check_with_options *)

SameSize(g, h) == g.nodes = h.nodes /\ g.edges = h.edges

\* First check with nothing changed: every file is scanned.
Initial(c) == c.before.nodes = 0 /\ c.changed = {}

\* Fault: changed files do not keep a check from ending early.
Quiet_IgnoresChanges(c) == ~Initial(c) /\ SameSize(c.before, c.after)

\* Nothing changed since the baseline: nothing is scanned.
Quiet(c) == ~Initial(c) /\ c.changed = {} /\ SameSize(c.before, c.after)

ContentRisks(files) == {<<"content", f>> : f \in risky \cap files}

\* Signals by file name and by shared data written in a changed file.
FileSignals(c) ==
  {<<"path", f>> : f \in c.changed \cap PathRisk} \cup
  {<<"shared", f>> : f \in c.changed \cap c.after.shared}

\* Growth since the baseline; left out when the files were given.
GrowthSignals(c) ==
  {s \in {<<"deep", Whole>>, <<"cycle", Whole>>} :
     /\ c.ordinary
     /\ s[1] = "deep" => c.after.deep > c.before.deep
     /\ s[1] = "cycle" => c.after.cycles > c.before.cycles}

Report(c) ==
  IF Initial(c) THEN IF c.ordinary THEN ContentRisks(File \ (Managed \cup Skipped)) ELSE {}
  ELSE IF Quiet(c) THEN {}
  ELSE FileSignals(c) \cup GrowthSignals(c) \cup ContentRisks(c.changed)

-----------------------------------------------------------------------------
TypeOK ==
  /\ risky \subseteq File
  /\ dirty \subseteq File
  /\ graph \in Graphs
  /\ baseline \in Graphs
  /\ check \in [Job -> [at : {"idle", "loaded", "analysed", "listed", "found", "report"},
                        ordinary : BOOLEAN, given : SUBSET File, before : Graphs, after : Graphs,
                        changed : SUBSET File, found : SUBSET Finding,
                        stay : SUBSET File]]
  /\ prev \in Graphs
  /\ calm \in BOOLEAN

Init ==
  /\ risky \in SUBSET File
  /\ dirty \in IF Git THEN SUBSET File ELSE {{}}
  /\ graph \in Graphs
  /\ baseline = EmptyGraph
  /\ check = [j \in Job |-> Idle]
  /\ prev = EmptyGraph
  /\ calm = TRUE

Step(j, from, c) ==
  /\ check[j].at = from
  /\ check' = [check EXCEPT ![j] = c]

\* A check starts, of what git lists or of the files of --files-from, and loads the
\* baseline; a damaged file counts as none.
Begin(j, ordinary, files) ==
  /\ Step(j, "idle", [Idle EXCEPT !.at = "loaded", !.ordinary = ordinary, !.given = files,
                                  !.before = baseline, !.stay = File])
  /\ calm' = (calm /\ \A k \in Job : check[k].at = "idle")
  /\ UNCHANGED <<risky, dirty, graph, baseline, prev>>

Analyse(j) ==
  /\ Step(j, "loaded", [check[j] EXCEPT !.at = "analysed", !.after = graph])
  /\ UNCHANGED <<risky, dirty, graph, baseline, prev, calm>>

\* git status, or the files given; without the files audit-risk keeps itself.
List(j) ==
  /\ LET c == check[j]
         files == IF c.ordinary THEN dirty ELSE c.given
     IN  Step(j, "analysed", [c EXCEPT !.at = "listed", !.changed = files \ Managed])
  /\ UNCHANGED <<risky, dirty, graph, baseline, prev, calm>>

\* run_full_check_with_options reads the files and makes up the findings.
Examine(j) ==
  /\ LET c == check[j]
     IN  Step(j, "listed", [c EXCEPT !.at = "found", !.found = Report(c)])
  /\ UNCHANGED <<risky, dirty, graph, baseline, prev, calm>>

\* Fault: a check of given files moves the baseline too.
Save_Always(j) ==
  /\ Step(j, "found", [check[j] EXCEPT !.at = "report"])
  /\ baseline' = check[j].after
  /\ prev' = IF check[j].ordinary THEN check[j].after ELSE prev
  /\ UNCHANGED <<risky, dirty, graph, calm>>

\* An ordinary check saves its graph as the baseline; an error is ignored, and
\* leaves the file as it was or damaged.
Save(j) ==
  /\ Step(j, "found", [check[j] EXCEPT !.at = "report"])
  /\ IF check[j].ordinary
     THEN /\ \/ baseline' = check[j].after /\ UNCHANGED calm
             \/ /\ SaveFaults /\ baseline' \in {baseline, EmptyGraph}
                /\ calm' = FALSE
          /\ prev' = check[j].after
     ELSE UNCHANGED <<baseline, prev, calm>>
  /\ UNCHANGED <<risky, dirty, graph>>

\* The entry is in the audit log and the report is printed.
Deliver(j) ==
  /\ Step(j, "report", Idle)
  /\ UNCHANGED <<risky, dirty, graph, baseline, prev, calm>>

\* The check fails or dies; a save it was in the middle of leaves a damaged file.
Abandon(j) ==
  /\ check[j].at # "idle"
  /\ check' = [check EXCEPT ![j] = Idle]
  /\ \/ UNCHANGED <<baseline, calm>>
     \/ /\ SaveFaults /\ check[j].at = "found" /\ check[j].ordinary
        /\ baseline' = EmptyGraph
        /\ calm' = FALSE
  /\ UNCHANGED <<risky, dirty, graph, prev>>

\* History: the files nobody edited or committed since a check began.
KeepStay(files) ==
  check' = [j \in Job |-> [check[j] EXCEPT !.stay = @ \cap files]]

\* Somebody edits a file, for better or worse.
Edit(f) ==
  /\ risky' \in {risky \cup {f}, risky \ {f}}
  /\ dirty' \in IF Git THEN {dirty \cup {f}, dirty \ {f}} ELSE {{}}
  /\ graph' \in Graphs
  /\ KeepStay(File \ {f})
  /\ UNCHANGED <<baseline, prev, calm>>

\* git commit: nothing is listed any more.
Commit ==
  /\ dirty' = {}
  /\ KeepStay({})
  /\ UNCHANGED <<risky, graph, baseline, prev, calm>>

Next ==
  \/ \E j \in Job :
       \/ Begin(j, TRUE, {}) \/ \E files \in Selection : Begin(j, FALSE, files)
       \/ Analyse(j) \/ List(j) \/ Examine(j) \/ Save(j) \/ Deliver(j) \/ Abandon(j)
  \/ \E f \in File : Edit(f)
  \/ Commit

Spec == Init /\ [][Next]_vars

-----------------------------------------------------------------------------
(* Properties *)

\* The files check j had to find risky: they held a risk ever since it began.
Stayed(j) == (risky \cap check[j].stay) \ Managed

\* A file that git listed and that held a risk for as long as the check ran is in
\* its report, whatever other checks, edits of other files, failed saves and
\* damaged baselines there were.
DirtyRiskReported ==
  \A j \in Job : check[j].at \in {"found", "report"} /\ check[j].ordinary =>
    \A f \in Stayed(j) \cap dirty : <<"content", f>> \in check[j].found

\* As long as checks do not overlap and saves succeed, one that looks at all
\* reports growth exactly when there are more cycles, or more deep coupling, than the
\* ordinary check before it saw: growth is not announced twice, and a check of given
\* files does not use it up.
TellsGrowth(c, before) ==
  /\ (<<"cycle", Whole>> \in c.found) <=> c.after.cycles > before.cycles
  /\ (<<"deep", Whole>> \in c.found) <=> c.after.deep > before.deep
AlarmIffGrown ==
  \A j \in Job : calm /\ check[j].at = "found" /\ check[j].ordinary =>
    LET c == check[j]
    IN  ~Quiet(c) /\ (prev.nodes # 0 \/ c.changed # {}) => TellsGrowth(c, prev)
=============================================================================
