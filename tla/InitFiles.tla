------------------------------- MODULE InitFiles -------------------------------
(***************************************************************************)
(* `audit-risk init`: the configuration files of a workspace               *)
(* (run_init_command_with_options, build_init_plan and apply_init_plan of  *)
(* src/engine/src/cli.rs).                                                 *)
(*                                                                         *)
(* A run plans an action for every file and refuses, having written        *)
(* nothing, if there is one it may not overwrite.  Then it writes the new  *)
(* contents beside their targets, puts them in place by renaming, one      *)
(* after the other, and points git at the hook.  An error on the way is    *)
(* followed by a rollback.  Each file operation may fail, the process may  *)
(* die between any two of them, and the user edits files meanwhile.        *)
(***************************************************************************)
EXTENDS Naturals, Sequences, FiniteSets

CONSTANTS
  Plan,       \* the files in the order of build_default_init_files
  Executable, \* those that need the x bit: the pre-commit hook
  Managed,    \* those `check` may have written before: .hologram/.gitignore
  Parents,    \* per file, the directories it lies in below the workspace, outermost first
  UserText,   \* what users write into them
  Legacy,     \* the contents `check` used to write
  Default,    \* the contents init writes
  Absent,     \* no such file
  Foreign,    \* a symbolic link, a directory, or not readable
  Repository, \* is the workspace a git repository?
  MaxRuns,    \* bound: runs of init
  MaxEdits    \* bound: edits by the user

File == {Plan[i] : i \in 1..Len(Plan)}
Text == UserText \cup {Legacy, Default}
Dir == UNION {{Parents[f][i] : i \in 1..Len(Parents[f])} : f \in File}

ASSUME PlanAssumption ==
  /\ Plan \in Seq(File) /\ Plan # << >>
  /\ \A i, j \in 1..Len(Plan) : Plan[i] = Plan[j] => i = j
  /\ Executable \subseteq File /\ Managed \subseteq File
  /\ \A f \in File : Parents[f] \in Seq(Dir)
\* Directories are a tree: above a directory lie the same ones, whoever asks.
ASSUME TreeAssumption ==
  \A f, g \in File : \A i \in 1..Len(Parents[f]), j \in 1..Len(Parents[g]) :
    Parents[f][i] = Parents[g][j] => i = j /\ \A k \in 1..i : Parents[f][k] = Parents[g][k]
ASSUME TextAssumption ==
  /\ Absent \notin Text /\ Foreign \notin Text /\ Absent # Foreign
  /\ Legacy # Default /\ {Legacy, Default} \cap UserText = {}
ASSUME InitBoundsAssumption == Repository \in BOOLEAN /\ MaxRuns \in Nat /\ MaxEdits \in Nat

VARIABLES
  disk,     \* the targets: contents and x bit
  locked,   \* the targets that are read-only, or lie in a read-only directory
  dirs,     \* the directories there are
  stray,    \* the targets with a temporary file of a finished run beside them
  backups,  \* the files moved out of the way
  hooks,    \* git's core.hooksPath: "none", "ours" or "other"
  cmd,      \* the run in progress
  runs,     \* the number of runs so far
  edits,    \* the number of edits so far
  outcome,  \* history: how the last run ended
  trouble,  \* history: did a step of its rollback or cleanup fail?
  touched,  \* history: has the user edited anything since it began?
  before,   \* history: the workspace when it began
  owned,    \* history: what the user last put into a file
  late,     \* history: the files the user last edited while a run was in progress
  accepted  \* history: a run without --force was accepted, and nothing edited since

work == <<disk, dirs, stray, backups, hooks>>
history == <<outcome, trouble, touched, before, owned, late, accepted>>
vars == <<work, locked, cmd, runs, edits, history>>

Content == [text : Text \cup {Absent, Foreign}, exec : BOOLEAN]
Nothing == [text |-> Absent, exec |-> FALSE]
Backup == [file : File, run : Nat, was : Content]
Action == {"create", "replace", "make_executable", "unchanged"}

\* created: the directories this run made; temps: the files it staged and has not
\* yet renamed; done: its committed actions, oldest first.
Idle == [stage |-> "idle", plan |-> [f \in File |-> "unchanged"], pos |-> 1,
         created |-> << >>, temps |-> {}, done |-> << >>]

-----------------------------------------------------------------------------
(* build_init_plan *)

Installed(f) == [text |-> Default, exec |-> f \in Executable]

Settled(f) == disk[f].text = Default
NeedsBit(f) == f \in Executable /\ ~disk[f].exec

MayReplace(f, force) ==
  /\ disk[f].text \in Text \ {Default}
  /\ force \/ (f \in Managed /\ disk[f].text = Legacy)

ActionFor(f, force) ==
  CASE disk[f].text = Absent -> "create"
    [] Settled(f) /\ NeedsBit(f) -> "make_executable"
    [] MayReplace(f, force) -> "replace"
    [] OTHER -> "unchanged"

\* The files that make the whole plan fail.
Refused(force) ==
  {f \in File :
     \/ disk[f].text # Absent /\ ~Settled(f) /\ ~MayReplace(f, force)
     \/ f \in locked /\ ActionFor(f, force) # "unchanged"}

-----------------------------------------------------------------------------
TypeOK ==
  /\ disk \in [File -> Content]
  /\ locked \subseteq File
  /\ dirs \subseteq Dir
  /\ stray \subseteq File
  /\ backups \subseteq Backup
  /\ hooks \in {"none", "ours", "other"}
  /\ cmd \in [stage : {"idle", "staging", "commit", "between", "hook", "cleanup", "rollback", "rmdirs"},
              plan : [File -> Action], pos : 1..Len(Plan), created : Seq(Dir),
              temps : SUBSET File, done : Seq([action : Action, file : File])]
  /\ runs \in Nat /\ edits \in Nat
  /\ outcome \in {"none", "running", "done", "failed", "died"}
  /\ trouble \in BOOLEAN /\ touched \in BOOLEAN /\ accepted \in BOOLEAN
  /\ owned \in [File -> Text \cup {Absent, Foreign}]
  /\ late \subseteq File

Dirs(f) == {Parents[f][i] : i \in 1..Len(Parents[f])}

\* A workspace in which `check`, init and the user have been before, or not; a copy of
\* it may have lost the x bits.
Init ==
  /\ disk \in [File -> [text : Text \cup {Absent, Foreign}, exec : {FALSE}]]
  /\ \A f \in File : disk[f].text = Legacy => f \in Managed
  /\ locked \in SUBSET File
  /\ dirs = UNION {Dirs(f) : f \in {g \in File : disk[g].text # Absent}}
  /\ stray = {} /\ backups = {}
  /\ hooks \in {"none", "ours", "other"}
  /\ cmd = Idle /\ runs = 0 /\ edits = 0
  /\ outcome = "none" /\ trouble = FALSE /\ touched = FALSE /\ before = work
  /\ owned = [f \in File |-> disk[f].text]
  /\ late = {} /\ accepted = FALSE

-----------------------------------------------------------------------------
(* apply_init_plan: contents are staged *)

Now == Plan[cmd.pos]

\* The loop goes on with the next file, or the next loop begins.
Onward(c) ==
  IF c.pos < Len(Plan) THEN [c EXCEPT !.pos = @ + 1]
  ELSE [c EXCEPT !.pos = 1, !.stage = IF c.stage = "staging" THEN "commit" ELSE "hook"]

\* A run starts that is not refused; one that is refused, and --dry-run, write nothing.
Begin(force) ==
  /\ cmd.stage = "idle" /\ runs < MaxRuns
  /\ Refused(force) = {}
  /\ cmd' = [Idle EXCEPT !.stage = "staging", !.plan = [f \in File |-> ActionFor(f, force)]]
  /\ runs' = runs + 1
  /\ outcome' = "running" /\ trouble' = FALSE /\ touched' = FALSE /\ before' = work
  /\ accepted' = ~force
  /\ UNCHANGED <<work, locked, edits, owned, late>>

Writes(f) == cmd.plan[f] \in {"create", "replace"}

\* Going up from the file, the directories that do not exist, up to the first that does.
Missing(f) ==
  LET there == CHOOSE n \in 0..Len(Parents[f]) :
        /\ n > 0 => Parents[f][n] \in dirs
        /\ \A i \in (n + 1)..Len(Parents[f]) : Parents[f][i] \notin dirs
  IN  SubSeq(Parents[f], there + 1, Len(Parents[f]))

Stage ==
  /\ cmd.stage = "staging"
  /\ IF Writes(Now)
     THEN /\ dirs' = dirs \cup Dirs(Now)
          /\ cmd' = Onward([cmd EXCEPT !.created = @ \o Missing(Now), !.temps = @ \cup {Now}])
     ELSE cmd' = Onward(cmd) /\ UNCHANGED dirs
  /\ UNCHANGED <<disk, stray, backups, hooks, locked, runs, edits, history>>

\* A directory cannot be made, or the temporary file not be written.
StageFails ==
  /\ cmd.stage = "staging" /\ Writes(Now)
  /\ \E n \in 0..Len(Missing(Now)), part \in SUBSET {Now} :
       LET made == SubSeq(Missing(Now), 1, n)
       IN  /\ n < Len(Missing(Now)) => part = {}
           /\ dirs' = dirs \cup {made[i] : i \in 1..n}
           /\ cmd' = [cmd EXCEPT !.stage = "cleanup", !.created = @ \o made, !.temps = @ \cup part]
  /\ UNCHANGED <<disk, stray, backups, hooks, locked, runs, edits, history>>

-----------------------------------------------------------------------------
(* ... and put in place *)

Commit(action) == cmd.stage = "commit" /\ cmd.plan[Now] = action
Done(c) == Onward([c EXCEPT !.stage = "commit", !.temps = @ \ {Now},
                            !.done = Append(@, [action |-> c.plan[Now], file |-> Now])])

LeaveAlone ==
  /\ Commit("unchanged")
  /\ cmd' = Onward(cmd)
  /\ UNCHANGED <<work, locked, runs, edits, history>>

\* rename puts the file in place, whatever is there by now.
Create ==
  /\ Commit("create")
  /\ disk' = [disk EXCEPT ![Now] = Installed(Now)]
  /\ cmd' = Done(cmd)
  /\ UNCHANGED <<dirs, stray, backups, hooks, locked, runs, edits, history>>

\* Fault: the old file is removed rather than renamed.
BackUp_Removes ==
  /\ Commit("replace") /\ disk[Now].text # Absent
  /\ disk' = [disk EXCEPT ![Now] = Nothing]
  /\ cmd' = [cmd EXCEPT !.stage = "between"]
  /\ UNCHANGED <<backups, dirs, stray, hooks, locked, runs, edits, history>>

\* A file to replace is first renamed ...
BackUp ==
  /\ Commit("replace") /\ disk[Now].text # Absent
  /\ backups' = backups \cup {[file |-> Now, run |-> runs, was |-> disk[Now]]}
  /\ disk' = [disk EXCEPT ![Now] = Nothing]
  /\ cmd' = [cmd EXCEPT !.stage = "between"]
  /\ UNCHANGED <<dirs, stray, hooks, locked, runs, edits, history>>

\* ... then the new one takes its place.
Replace ==
  /\ cmd.stage = "between"
  /\ disk' = [disk EXCEPT ![Now] = Installed(Now)]
  /\ cmd' = Done(cmd)
  /\ UNCHANGED <<dirs, stray, backups, hooks, locked, runs, edits, history>>

\* If it cannot, the old one is put back, if that succeeds.
Restore ==
  /\ cmd.stage = "between"
  /\ cmd' = [cmd EXCEPT !.stage = "cleanup"]
  /\ \/ \E b \in backups :
          /\ b.file = Now /\ b.run = runs
          /\ disk' = [disk EXCEPT ![Now] = b.was]
          /\ backups' = backups \ {b}
          /\ UNCHANGED trouble
     \/ trouble' = TRUE /\ UNCHANGED <<disk, backups>>
  /\ UNCHANGED <<dirs, stray, hooks, locked, runs, edits, outcome, touched, before, owned, late, accepted>>

MakeExecutable ==
  /\ Commit("make_executable") /\ disk[Now].text # Absent
  /\ disk' = [disk EXCEPT ![Now].exec = TRUE]
  /\ cmd' = Done(cmd)
  /\ UNCHANGED <<dirs, stray, backups, hooks, locked, runs, edits, history>>

\* Fault: files are written in place, so that an error leaves a part of one.
CommitFails_Part ==
  /\ cmd.stage = "commit" /\ cmd.plan[Now] # "unchanged"
  /\ disk' = [disk EXCEPT ![Now] = [text |-> CHOOSE t \in UserText : TRUE, exec |-> FALSE]]
  /\ cmd' = [cmd EXCEPT !.stage = "cleanup"]
  /\ UNCHANGED <<dirs, stray, backups, hooks, locked, runs, edits, history>>

\* An action fails.
CommitFails ==
  /\ cmd.stage = "commit" /\ cmd.plan[Now] # "unchanged"
  /\ cmd' = [cmd EXCEPT !.stage = "cleanup"]
  /\ UNCHANGED <<work, locked, runs, edits, history>>

\* activate_pre_commit_hook: never instead of another hook; an error is only told.
Activate ==
  /\ cmd.stage = "hook"
  /\ hooks' \in {hooks} \cup (IF Repository /\ hooks # "other" THEN {"ours"} ELSE {})
  /\ cmd' = Idle /\ outcome' = "done"
  /\ UNCHANGED <<disk, dirs, stray, backups, locked, runs, edits,
                 trouble, touched, before, owned, late, accepted>>

-----------------------------------------------------------------------------
(* ... or undone *)

\* cleanup_staged_init_files ignores what it cannot remove.
Cleanup ==
  /\ cmd.stage = "cleanup"
  /\ \E left \in SUBSET cmd.temps :
       /\ stray' = stray \cup left
       /\ trouble' = (trouble \/ left # {})
  /\ cmd' = [cmd EXCEPT !.stage = "rollback", !.temps = {}]
  /\ UNCHANGED <<disk, dirs, backups, hooks, locked, runs, edits,
                 outcome, touched, before, owned, late, accepted>>

LastDone == cmd.done[Len(cmd.done)]
Popped(c) == [c EXCEPT !.done = SubSeq(@, 1, Len(@) - 1)]

\* Fault: only files are put back.
Undo_NotBits ==
  LET f == LastDone.file
      mine == {b \in backups : b.file = f /\ b.run = runs}
  IN  CASE LastDone.action = "create" ->
             disk' = [disk EXCEPT ![f] = Nothing] /\ UNCHANGED backups
        [] LastDone.action = "replace" ->
             \E b \in mine : disk' = [disk EXCEPT ![f] = b.was] /\ backups' = backups \ {b}
        [] OTHER -> UNCHANGED <<disk, backups>>

\* What rollback_init_actions does about one committed action.
Undo ==
  LET f == LastDone.file
      mine == {b \in backups : b.file = f /\ b.run = runs}
  IN  CASE LastDone.action = "create" ->
             disk' = [disk EXCEPT ![f] = Nothing] /\ UNCHANGED backups
        [] LastDone.action = "replace" ->
             \E b \in mine : disk' = [disk EXCEPT ![f] = b.was] /\ backups' = backups \ {b}
        [] OTHER -> disk' = [disk EXCEPT ![f].exec = FALSE] /\ UNCHANGED backups

\* The last action not yet undone is undone, newest first ...
Rollback ==
  /\ cmd.stage = "rollback" /\ cmd.done # << >>
  /\ disk[LastDone.file].text # Absent
  /\ Undo
  /\ cmd' = Popped(cmd)
  /\ UNCHANGED <<dirs, stray, hooks, locked, runs, edits, history>>

\* ... or cannot be, and of a replaced file perhaps only the new one is removed.
RollbackFails ==
  /\ cmd.stage = "rollback" /\ cmd.done # << >>
  /\ disk' \in {disk} \cup
       (IF LastDone.action = "replace" THEN {[disk EXCEPT ![LastDone.file] = Nothing]} ELSE {})
  /\ cmd' = Popped(cmd)
  /\ trouble' = TRUE
  /\ UNCHANGED <<dirs, stray, backups, hooks, locked, runs, edits,
                 outcome, touched, before, owned, late, accepted>>

RolledBack ==
  /\ cmd.stage = "rollback" /\ cmd.done = << >>
  /\ cmd' = [cmd EXCEPT !.stage = "rmdirs"]
  /\ UNCHANGED <<work, locked, runs, edits, history>>

LastDir == cmd.created[Len(cmd.created)]

\* A directory with a file, a backup, a temporary file or a directory in it.
InUse(d) ==
  \E f \in File : d \in Dirs(f) /\ \/ disk[f].text # Absent \/ f \in stray
                                   \/ \E b \in backups : b.file = f
                                   \/ \E i \in 2..Len(Parents[f]) :
                                        Parents[f][i - 1] = d /\ Parents[f][i] \in dirs

\* cleanup_init_dirs, newest first; remove_dir fails on a directory in use.
RemoveDir ==
  /\ cmd.stage = "rmdirs" /\ cmd.created # << >>
  /\ \/ ~InUse(LastDir) /\ dirs' = dirs \ {LastDir} /\ UNCHANGED trouble
     \/ InUse(LastDir) /\ UNCHANGED <<dirs, trouble>>
     \/ trouble' = TRUE /\ UNCHANGED dirs
  /\ cmd' = [cmd EXCEPT !.created = SubSeq(@, 1, Len(@) - 1)]
  /\ UNCHANGED <<disk, stray, backups, hooks, locked, runs, edits,
                 outcome, touched, before, owned, late, accepted>>

\* The error is reported.
Fail ==
  /\ cmd.stage = "rmdirs" /\ cmd.created = << >>
  /\ cmd' = Idle /\ outcome' = "failed"
  /\ UNCHANGED <<work, locked, runs, edits, trouble, touched, before, owned, late, accepted>>

-----------------------------------------------------------------------------
\* The process dies; what it staged stays, or in the middle of a cleanup a part of it.
Die ==
  /\ cmd.stage # "idle"
  /\ \E left \in SUBSET cmd.temps :
       /\ cmd.stage # "cleanup" => left = cmd.temps
       /\ stray' = stray \cup left
  /\ cmd' = Idle /\ outcome' = "died"
  /\ UNCHANGED <<disk, dirs, backups, hooks, locked, runs, edits,
                 trouble, touched, before, owned, late, accepted>>

\* The user writes or deletes a file.
Edit(f, t) ==
  /\ edits < MaxEdits /\ disk[f].text # Foreign
  /\ disk' = [disk EXCEPT ![f] = IF t = Absent THEN Nothing ELSE [@ EXCEPT !.text = t]]
  /\ dirs' = dirs \cup IF t = Absent THEN {} ELSE Dirs(f)
  /\ edits' = edits + 1
  /\ owned' = [owned EXCEPT ![f] = t]
  /\ late' = IF cmd.stage = "idle" THEN late \ {f} ELSE late \cup {f}
  /\ touched' = TRUE /\ accepted' = FALSE
  /\ UNCHANGED <<stray, backups, hooks, locked, cmd, runs, outcome, trouble, before>>

Next ==
  \/ \E force \in BOOLEAN : Begin(force)
  \/ Stage \/ StageFails
  \/ LeaveAlone \/ Create \/ BackUp \/ Replace \/ Restore \/ MakeExecutable \/ CommitFails
  \/ Activate
  \/ Cleanup \/ Rollback \/ RollbackFails \/ RolledBack \/ RemoveDir \/ Fail
  \/ Die
  \/ \E f \in File, t \in UserText \cup {Absent} : Edit(f, t)

Spec == Init /\ [][Next]_vars

-----------------------------------------------------------------------------
(* Properties *)

\* Whatever fails, and wherever the process dies, what a user put into a file before
\* a run began is in the file or in a backup of it.
NothingLost ==
  \A f \in File \ late : owned[f] # Absent =>
    \/ disk[f].text = owned[f]
    \/ \E b \in backups : b.file = f /\ b.was.text = owned[f]

\* A run that gets to the end has installed every file, the hook with its x bit, and
\* one that fails has changed nothing, not even a directory or an x bit, unless a step
\* of its rollback failed too (which its message tells) or the user edited files.
AllOrNothing ==
  ~touched =>
    /\ outcome = "failed" /\ ~trouble => work = before
    /\ cmd.stage = "hook" => \A f \in File : disk[f].text = Default /\ ~NeedsBit(f)

\* After a run without --force that failed, died or was rolled back badly, another one
\* is not refused: what init itself leaves behind never asks for --force.
RetryAccepted == accepted => Refused(FALSE) = {}
=============================================================================
