--------------------------- MODULE InitFiles_proofs ---------------------------
(***************************************************************************)
(* Proofs about InitFiles, for any files, contents and number of runs and  *)
(* edits.                                                                  *)
(*                                                                         *)
(* Nothing is lost: between two runs what a user wrote is in the file or   *)
(* in a backup. Within a run it is in a backup of every file that the run  *)
(* has replaced or is replacing, and of every file that it creates; a      *)
(* backup goes only when it becomes the file again, and of one file at a   *)
(* time.                                                                   *)
(*                                                                         *)
(* A retry is accepted: whatever a run without --force puts into a file or *)
(* back into it, it wrote itself or found acceptable.                      *)
(*                                                                         *)
(* All or nothing: the workspace is at all times the one the run found but *)
(* for the directories it has made, the files it has in hand and the       *)
(* backups of those it replaces; a rollback takes these back in turn, the  *)
(* last first, and a directory it made is empty when its turn comes.       *)
(***************************************************************************)
EXTENDS InitFiles, SequenceTheorems, WellFoundedInduction, TLAPS

Stages == {"idle", "staging", "commit", "between", "hook", "cleanup", "rollback", "rmdirs"}
DoneAction == [action : Action, file : File]
Command(c) == c \in [stage : Stages, plan : [File -> Action], pos : 1..Len(Plan),
                     created : {c.created}, temps : {c.temps}, done : Seq(DoneAction)]

Types ==
  /\ disk \in [File -> Content]
  /\ backups \subseteq Backup
  /\ runs \in Nat
  /\ owned \in [File -> Text \cup {Absent, Foreign}] /\ late \subseteq File
  /\ Command(cmd)

\* The files whose contents before the run are a user's, and a backup that has them.
Entrusted == {f \in File \ late : owned[f] # Absent}
Kept(f) == \E b \in backups : b.file = f /\ b.was.text = owned[f]

Places == 1..Len(cmd.done)
Orderly ==
  /\ \A k \in Places : cmd.done[k].action = cmd.plan[cmd.done[k].file]
  /\ \A k, l \in Places : cmd.done[k].file = cmd.done[l].file => k = l
  /\ cmd.stage \in {"idle", "staging"} => cmd.done = << >>
  /\ cmd.stage \in {"commit", "between"} => \A k \in Places : \E i \in 1..(cmd.pos - 1) : cmd.done[k].file = Plan[i]

Safe ==
  /\ \A f \in Entrusted : disk[f].text = owned[f] \/ Kept(f)
  /\ cmd.stage # "idle" => \A f \in Entrusted : cmd.plan[f] = "create" => Kept(f)
  /\ \A k \in Places : cmd.done[k].action = "replace" /\ cmd.done[k].file \in Entrusted => Kept(cmd.done[k].file)
  /\ cmd.stage = "between" => cmd.plan[Now] = "replace" /\ (Now \in Entrusted => Kept(Now))

IInv == Types /\ Orderly /\ Safe

-----------------------------------------------------------------------------
(* Small facts *)

LEMMA PlanNat == Len(Plan) \in Nat \ {0}
BY PlanAssumption, EmptySeq, LenProperties

LEMMA IdleTyped == Command(Idle) /\ Idle.done = << >> /\ Idle.stage = "idle"
BY PlanNat DEF Idle, Command, Stages, Action

LEMMA NowIsFile ==
  ASSUME Types
  PROVE  Now \in File
BY PlanAssumption DEF Types, Command, Now

\* One field of a command changes.
Rest(d, c, fields) == \A field \in {"stage", "plan", "pos", "done", "created", "temps"} \ fields : d[field] = c[field]
LEMMA SetStage ==
  ASSUME NEW c, Command(c), NEW x \in Stages
  PROVE  Command([c EXCEPT !.stage = x]) /\ [c EXCEPT !.stage = x].stage = x /\ Rest([c EXCEPT !.stage = x], c, {"stage"})
BY DEF Command, Rest
LEMMA SetPos ==
  ASSUME NEW c, Command(c), NEW x \in 1..Len(Plan)
  PROVE  Command([c EXCEPT !.pos = x]) /\ [c EXCEPT !.pos = x].pos = x /\ Rest([c EXCEPT !.pos = x], c, {"pos"})
BY DEF Command, Rest
LEMMA SetDone ==
  ASSUME NEW c, Command(c), NEW x \in Seq(DoneAction)
  PROVE  Command([c EXCEPT !.done = x]) /\ [c EXCEPT !.done = x].done = x /\ Rest([c EXCEPT !.done = x], c, {"done"})
BY DEF Command, Rest
LEMMA SetTemps ==
  ASSUME NEW c, Command(c), NEW x
  PROVE  Command([c EXCEPT !.temps = x]) /\ [c EXCEPT !.temps = x].temps = x /\ Rest([c EXCEPT !.temps = x], c, {"temps"})
BY DEF Command, Rest
LEMMA SetCreated ==
  ASSUME NEW c, Command(c), NEW x
  PROVE  Command([c EXCEPT !.created = x]) /\ [c EXCEPT !.created = x].created = x /\ Rest([c EXCEPT !.created = x], c, {"created"})
BY DEF Command, Rest

\* The loop over the plan.
LEMMA OnwardKeeps ==
  ASSUME NEW c, Command(c)
  PROVE  /\ Command(Onward(c))
         /\ Onward(c).plan = c.plan /\ Onward(c).done = c.done
         /\ Onward(c).created = c.created /\ Onward(c).temps = c.temps
         /\ \/ Onward(c).stage = c.stage /\ Onward(c).pos = c.pos + 1 /\ c.pos < Len(Plan)
            \/ /\ Onward(c).stage = IF c.stage = "staging" THEN "commit" ELSE "hook"
               /\ Onward(c).pos = 1 /\ c.pos = Len(Plan)
<1>1. CASE c.pos < Len(Plan)
  BY <1>1, PlanNat DEF Onward, Command
<1>2. CASE ~(c.pos < Len(Plan))
  <2> DEFINE next == IF c.stage = "staging" THEN "commit" ELSE "hook"
             first == [c EXCEPT !.pos = 1]
  <2>1. Command(first) /\ first.pos = 1 /\ Rest(first, c, {"pos"})
    BY SetPos, PlanNat
  <2>2. next \in Stages
    BY DEF Stages
  <2>3. Onward(c) = [first EXCEPT !.stage = next]
    BY <1>2 DEF Onward
  <2> HIDE DEF first, next
  <2>4. Command(Onward(c)) /\ Onward(c).stage = next /\ Rest(Onward(c), first, {"stage"})
    BY <2>1, <2>2, <2>3, SetStage
  <2> QED  BY <1>2, <2>1, <2>4, PlanNat DEF Rest, next, Command
<1> QED  BY <1>1, <1>2

\* What is entrusted, and its backups, as long as neither the user nor a file moves.
LEMMA SameBackups ==
  ASSUME UNCHANGED <<backups, owned, late>>
  PROVE  Entrusted' = Entrusted /\ \A f : Kept(f)' <=> Kept(f)
BY DEF Entrusted, Kept

LEMMA InitIInv == Init => IInv
<1> SUFFICES ASSUME Init PROVE IInv
  OBVIOUS
<1>1. Types
  BY IdleTyped DEF Init, Types, Content, Text
<1>2. Orderly
  BY IdleTyped DEF Init, Orderly, Places
<1>3. Safe
  BY IdleTyped DEF Init, Safe, Places, Entrusted
<1> QED  BY <1>1, <1>2, <1>3 DEF IInv

-----------------------------------------------------------------------------
(* Steps that move no file *)

LEMMA QuietIInv ==
  ASSUME IInv, UNCHANGED <<disk, backups, runs, owned, late>>, Command(cmd'),
         cmd.stage # "idle", cmd'.stage \notin {"idle", "between"},
         cmd'.plan = cmd.plan, cmd'.done = cmd.done,
         cmd'.stage = "staging" => cmd.stage = "staging",
         cmd'.stage = "commit" => cmd.stage = "staging" \/ (cmd.stage = "commit" /\ cmd'.pos \in {cmd.pos, cmd.pos + 1})
  PROVE  IInv'
<1>1. Types'
  BY DEF IInv, Types
<1>2. Orderly'
  <2>1. cmd.stage = "staging" => Places = {}
    BY DEF IInv, Orderly, Places
  <2>2. cmd'.stage = "commit" => \A k \in Places : \E i \in 1..(cmd'.pos - 1) : cmd.done[k].file = Plan[i]
    <3> SUFFICES ASSUME cmd'.stage = "commit", cmd.stage = "commit", NEW k \in Places
                 PROVE  \E i \in 1..(cmd'.pos - 1) : cmd.done[k].file = Plan[i]
      BY <2>1
    <3>1. PICK i \in 1..(cmd.pos - 1) : cmd.done[k].file = Plan[i]
      BY DEF IInv, Orderly
    <3>2. i \in 1..(cmd'.pos - 1)
      BY <1>1, PlanNat DEF IInv, Types, Command
    <3> QED  BY <3>1, <3>2
  <2> QED  BY <2>2 DEF IInv, Orderly, Places
<1>3. Safe'
  BY SameBackups DEF IInv, Safe, Places
<1> QED  BY <1>1, <1>2, <1>3 DEF IInv

LEMMA IdleIInv ==
  ASSUME IInv, UNCHANGED <<disk, backups, runs, owned, late>>, cmd' = Idle
  PROVE  IInv'
<1>1. Types'
  BY IdleTyped DEF IInv, Types
<1>2. Orderly' /\ Places' = {}
  BY IdleTyped DEF Orderly, Places
<1>3. Safe'
  BY <1>2, IdleTyped, SameBackups DEF IInv, Safe
<1> QED  BY <1>1, <1>2, <1>3 DEF IInv

LEMMA BeginIInv ==
  ASSUME IInv, NEW force \in BOOLEAN, Begin(force)
  PROVE  IInv'
<1> DEFINE plan == [f \in File |-> ActionFor(f, force)]
<1>1. plan \in [File -> Action] /\ \A f \in File : plan[f] = "create" => disk[f].text = Absent
  BY DEF ActionFor, Action
<1> HIDE DEF plan
<1>2. cmd' = [[Idle EXCEPT !.stage = "staging"] EXCEPT !.plan = plan]
  BY DEF Begin, plan
<1>3. Command(cmd') /\ cmd'.plan = plan /\ cmd'.done = << >> /\ cmd'.stage = "staging"
  <2>1. cmd' = [stage |-> "staging", plan |-> plan, pos |-> 1, created |-> << >>, temps |-> {}, done |-> << >>]
    BY <1>2 DEF Idle
  <2> QED  BY <1>1, <2>1, PlanNat DEF Command, Stages
<1>4. UNCHANGED <<disk, backups, owned, late>> /\ runs' \in Nat
  BY DEF IInv, Types, Begin, work
<1>5. Types'
  BY <1>3, <1>4 DEF IInv, Types
<1>6. Orderly' /\ Places' = {}
  BY <1>3 DEF Orderly, Places
<1>7. Safe'
  <2>1. \A f \in Entrusted : f \in File /\ owned[f] # Absent
    BY DEF Entrusted
  <2> QED  BY <1>1, <1>3, <1>4, <1>6, <2>1, SameBackups DEF IInv, Safe
<1> QED  BY <1>5, <1>6, <1>7 DEF IInv

\* What these steps make of the command.
LEMMA StageCommand ==
  ASSUME Types, Stage
  PROVE  /\ Command(cmd') /\ cmd'.plan = cmd.plan /\ cmd'.done = cmd.done /\ cmd.stage = "staging"
         /\ \/ cmd'.stage = "staging" /\ cmd'.pos = cmd.pos + 1
            \/ cmd'.stage = "commit" /\ cmd'.pos = 1 /\ cmd.pos = Len(Plan)
         /\ Writes(Now) => cmd'.created = cmd.created \o Missing(Now) /\ cmd'.temps = cmd.temps \cup {Now}
         /\ ~Writes(Now) => cmd'.created = cmd.created /\ cmd'.temps = cmd.temps
<1> DEFINE b == [cmd EXCEPT !.created = @ \o Missing(Now)]
           c == [b EXCEPT !.temps = @ \cup {Now}]
<1>1. Command(cmd) /\ cmd.stage = "staging"
  BY DEF Types, Stage
<1>2. Command(b) /\ b.created = cmd.created \o Missing(Now) /\ Rest(b, cmd, {"created"})
  BY <1>1, SetCreated
<1>3. cmd' = IF Writes(Now) THEN Onward(c) ELSE Onward(cmd)
  BY DEF Stage
<1> HIDE DEF b
<1>4. Command(c) /\ c.temps = b.temps \cup {Now} /\ Rest(c, b, {"temps"})
  BY <1>2, SetTemps
<1> HIDE DEF c
<1>5. /\ c.stage = cmd.stage /\ c.pos = cmd.pos /\ c.plan = cmd.plan /\ c.done = cmd.done
      /\ c.created = cmd.created \o Missing(Now) /\ c.temps = cmd.temps \cup {Now}
  BY <1>2, <1>4 DEF Rest
<1>6. CASE Writes(Now)
  BY <1>1, <1>3, <1>4, <1>5, <1>6, OnwardKeeps
<1>7. CASE ~Writes(Now)
  BY <1>1, <1>3, <1>7, OnwardKeeps
<1> QED  BY <1>6, <1>7

LEMMA StageFailsCommand ==
  ASSUME Types, StageFails
  PROVE  /\ Command(cmd') /\ cmd'.plan = cmd.plan /\ cmd'.done = cmd.done
         /\ cmd.stage = "staging" /\ cmd'.stage = "cleanup"
         /\ \E n \in 0..Len(Missing(Now)), part \in SUBSET {Now} :
              LET made == SubSeq(Missing(Now), 1, n)
              IN  /\ n < Len(Missing(Now)) => part = {}
                  /\ dirs' = dirs \cup {made[i] : i \in 1..n}
                  /\ cmd'.created = cmd.created \o made /\ cmd'.temps = cmd.temps \cup part
<1>0. PICK n \in 0..Len(Missing(Now)), part \in SUBSET {Now} :
        /\ n < Len(Missing(Now)) => part = {}
        /\ dirs' = dirs \cup {SubSeq(Missing(Now), 1, n)[i] : i \in 1..n}
        /\ cmd' = [cmd EXCEPT !.stage = "cleanup", !.created = @ \o SubSeq(Missing(Now), 1, n), !.temps = @ \cup part]
  BY DEF StageFails
<1>1. PICK made : made = SubSeq(Missing(Now), 1, n)
  OBVIOUS
<1> DEFINE c == [cmd EXCEPT !.stage = "cleanup"]
           d == [c EXCEPT !.created = @ \o made]
<1>2. cmd' = [d EXCEPT !.temps = @ \cup part]
  BY <1>0, <1>1
<1>3. Command(c) /\ c.stage = "cleanup" /\ Rest(c, cmd, {"stage"})
  BY SetStage DEF Types, Stages
<1> HIDE DEF c
<1>4. Command(d) /\ d.created = c.created \o made /\ Rest(d, c, {"created"})
  BY <1>3, SetCreated
<1> HIDE DEF d
<1>5. Command(cmd') /\ cmd'.temps = d.temps \cup part /\ Rest(cmd', d, {"temps"})
  BY <1>2, <1>4, SetTemps
<1>6. /\ cmd'.plan = cmd.plan /\ cmd'.done = cmd.done /\ cmd'.stage = "cleanup"
      /\ cmd'.created = cmd.created \o made /\ cmd'.temps = cmd.temps \cup part
  BY <1>3, <1>4, <1>5 DEF Rest
<1> QED  BY <1>0, <1>1, <1>5, <1>6 DEF StageFails

LEMMA LeaveAloneCommand ==
  ASSUME Types, LeaveAlone
  PROVE  /\ Command(cmd') /\ cmd'.plan = cmd.plan /\ cmd'.done = cmd.done /\ cmd.stage = "commit"
         /\ cmd'.created = cmd.created /\ cmd'.temps = cmd.temps
         /\ \/ cmd'.stage = "commit" /\ cmd'.pos = cmd.pos + 1
            \/ cmd'.stage = "hook" /\ cmd.pos = Len(Plan)
BY OnwardKeeps DEF Types, LeaveAlone, Commit

LEMMA NextStageCommand ==
  ASSUME Types, CommitFails \/ RolledBack
  PROVE  /\ Command(cmd') /\ cmd'.plan = cmd.plan /\ cmd'.done = cmd.done
         /\ cmd'.created = cmd.created /\ cmd'.temps = cmd.temps
         /\ \/ cmd.stage = "commit" /\ cmd'.stage = "cleanup"
            \/ cmd.stage = "rollback" /\ cmd'.stage = "rmdirs"
<1>1. PICK x \in {"cleanup", "rmdirs"} :
        cmd' = [cmd EXCEPT !.stage = x] /\ cmd.stage = IF x = "cleanup" THEN "commit" ELSE "rollback"
  BY DEF CommitFails, RolledBack
<1>2. x \in Stages
  BY DEF Stages
<1>3. Command(cmd') /\ cmd'.stage = x /\ Rest(cmd', cmd, {"stage"})
  BY <1>1, <1>2, SetStage DEF Types
<1> QED  BY <1>1, <1>3 DEF Rest

LEMMA CleanupCommand ==
  ASSUME Types, Cleanup
  PROVE  /\ Command(cmd') /\ cmd'.plan = cmd.plan /\ cmd'.done = cmd.done
         /\ cmd.stage = "cleanup" /\ cmd'.stage = "rollback"
         /\ cmd'.created = cmd.created /\ cmd'.temps = {}
<1> DEFINE c == [cmd EXCEPT !.stage = "rollback"]
<1>1. Command(c) /\ c.stage = "rollback" /\ Rest(c, cmd, {"stage"})
  BY SetStage DEF Types, Stages
<1>2. cmd' = [c EXCEPT !.temps = {}] /\ cmd.stage = "cleanup"
  BY DEF Cleanup
<1> HIDE DEF c
<1>3. Command(cmd') /\ cmd'.temps = {} /\ Rest(cmd', c, {"temps"})
  BY <1>1, <1>2, SetTemps
<1> QED  BY <1>1, <1>2, <1>3 DEF Rest

LEMMA RemoveDirCommand ==
  ASSUME Types, RemoveDir
  PROVE  /\ Command(cmd') /\ cmd'.plan = cmd.plan /\ cmd'.done = cmd.done
         /\ cmd.stage = "rmdirs" /\ cmd'.stage = "rmdirs" /\ cmd'.temps = cmd.temps
         /\ cmd'.created = SubSeq(cmd.created, 1, Len(cmd.created) - 1)
<1>1. cmd' = [cmd EXCEPT !.created = SubSeq(@, 1, Len(@) - 1)] /\ cmd.stage = "rmdirs"
  BY DEF RemoveDir
<1>2. Command(cmd') /\ cmd'.created = SubSeq(cmd.created, 1, Len(cmd.created) - 1) /\ Rest(cmd', cmd, {"created"})
  BY <1>1, SetCreated DEF Types
<1> QED  BY <1>1, <1>2 DEF Rest

Quiet == Stage \/ StageFails \/ LeaveAlone \/ CommitFails \/ Activate \/ Cleanup \/ RolledBack \/ RemoveDir \/ Fail \/ Die

\* They move no file, and either end the run or keep its plan and what it has done.
LEMMA QuietKeeps ==
  ASSUME Types, Quiet
  PROVE  /\ UNCHANGED <<disk, backups, runs, owned, late, locked, touched, before, accepted>>
         /\ \/ cmd' = Idle /\ (Activate \/ Fail \/ Die)
            \/ /\ Command(cmd') /\ cmd'.plan = cmd.plan /\ cmd'.done = cmd.done
               /\ cmd.stage # "idle" /\ cmd'.stage \notin {"idle", "between"}
               /\ cmd'.stage = "staging" => cmd.stage = "staging"
               /\ cmd'.stage = "commit" =>
                    cmd.stage = "staging" \/ (cmd.stage = "commit" /\ cmd'.pos \in {cmd.pos, cmd.pos + 1})
<1>1. UNCHANGED <<disk, backups, runs, owned, late, locked, touched, before, accepted>>
  BY DEF Quiet, Stage, StageFails, LeaveAlone, CommitFails, Activate, Cleanup, RolledBack, RemoveDir, Fail, Die, work, history
<1>2. CASE Activate \/ Fail \/ Die
  BY <1>1, <1>2 DEF Activate, Fail, Die
<1>3. CASE Stage
  BY <1>1, <1>3, StageCommand
<1>4. CASE StageFails
  BY <1>1, <1>4, StageFailsCommand
<1>5. CASE LeaveAlone
  BY <1>1, <1>5, LeaveAloneCommand
<1>6. CASE CommitFails \/ RolledBack
  BY <1>1, <1>6, NextStageCommand
<1>7. CASE Cleanup
  BY <1>1, <1>7, CleanupCommand
<1>8. CASE RemoveDir
  BY <1>1, <1>8, RemoveDirCommand
<1> QED  BY <1>2, <1>3, <1>4, <1>5, <1>6, <1>7, <1>8 DEF Quiet

LEMMA QuietStepsIInv ==
  ASSUME IInv, Quiet
  PROVE  IInv'
<1>1. Types
  BY DEF IInv
<1>2. CASE cmd' = Idle
  BY <1>1, <1>2, QuietKeeps, IdleIInv
<1>3. CASE cmd' # Idle
  BY <1>1, <1>3, QuietKeeps, QuietIInv
<1> QED  BY <1>2, <1>3

-----------------------------------------------------------------------------
(* Steps that move files *)

NowDone == [action |-> cmd.plan[Now], file |-> Now]

LEMMA DoneKeeps ==
  ASSUME Types, cmd.stage \in {"commit", "between"}
  PROVE  /\ Command(Done(cmd)) /\ NowDone \in DoneAction
         /\ Done(cmd).plan = cmd.plan /\ Done(cmd).done = Append(cmd.done, NowDone)
         /\ Done(cmd).created = cmd.created /\ Done(cmd).temps = cmd.temps \ {Now}
         /\ \/ Done(cmd).stage = "commit" /\ Done(cmd).pos = cmd.pos + 1
            \/ Done(cmd).stage = "hook" /\ cmd.pos = Len(Plan)
<1> DEFINE b == [cmd EXCEPT !.stage = "commit"]
           c == [b EXCEPT !.temps = @ \ {Now}]
           d == [c EXCEPT !.done = Append(@, NowDone)]
<1>1. Done(cmd) = Onward(d)
  BY DEF Done, NowDone
<1>2. Command(b) /\ b.stage = "commit" /\ Rest(b, cmd, {"stage"})
  BY SetStage DEF Types, Stages
<1> HIDE DEF b
<1>3. Command(c) /\ c.temps = b.temps \ {Now} /\ Rest(c, b, {"temps"})
  BY <1>2, SetTemps
<1> HIDE DEF c
<1>4. NowDone \in DoneAction /\ Append(c.done, NowDone) \in Seq(DoneAction)
  BY <1>3, NowIsFile DEF Types, Command, NowDone, DoneAction
<1>5. Command(d) /\ d.done = Append(c.done, NowDone) /\ Rest(d, c, {"done"})
  BY <1>3, <1>4, SetDone
<1> HIDE DEF d
<1>6. /\ d.plan = cmd.plan /\ d.done = Append(cmd.done, NowDone) /\ d.stage = "commit" /\ d.pos = cmd.pos
        /\ d.created = cmd.created /\ d.temps = cmd.temps \ {Now}
  BY <1>2, <1>3, <1>5 DEF Rest
<1> QED  BY <1>1, <1>4, <1>5, <1>6, OnwardKeeps

\* The places of the actions after another one is done.
LEMMA DonePlaces ==
  ASSUME Types, cmd.stage \in {"commit", "between"}, cmd' = Done(cmd)
  PROVE  /\ Places' = Places \cup {Len(cmd.done) + 1} /\ Len(cmd.done) + 1 \notin Places
         /\ \A k \in Places : cmd'.done[k] = cmd.done[k]
         /\ cmd'.done[Len(cmd.done) + 1] = NowDone
<1>1. cmd'.done = Append(cmd.done, NowDone) /\ cmd.done \in Seq(DoneAction) /\ NowDone \in DoneAction
  BY DoneKeeps DEF Types, Command
<1> QED  BY <1>1 DEF Places

LEMMA DoneOrderly ==
  ASSUME IInv, cmd.stage \in {"commit", "between"}, cmd' = Done(cmd)
  PROVE  Orderly'
<1>1. Types /\ cmd.pos \in 1..Len(Plan) /\ Len(Plan) \in Nat
  BY PlanNat DEF IInv, Types, Command
<1>2. cmd'.plan = cmd.plan /\ ((cmd'.stage = "commit" /\ cmd'.pos = cmd.pos + 1) \/ cmd'.stage = "hook")
  BY <1>1, DoneKeeps
<1>3. \A k \in Places : \E i \in 1..(cmd.pos - 1) : cmd.done[k].file = Plan[i]
  BY DEF IInv, Orderly
<1>4. \A k \in Places : cmd.done[k].file # Now
  BY <1>1, <1>3, PlanAssumption DEF Now
<1>5. \A k \in Places' : cmd'.done[k].action = cmd'.plan[cmd'.done[k].file]
  BY <1>1, <1>2, DonePlaces DEF IInv, Orderly, NowDone
<1>6. \A k, l \in Places' : cmd'.done[k].file = cmd'.done[l].file => k = l
  BY <1>1, <1>4, DonePlaces DEF IInv, Orderly, NowDone
<1>7. ASSUME cmd'.stage \in {"commit", "between"}, NEW k \in Places'
      PROVE  \E i \in 1..(cmd'.pos - 1) : cmd'.done[k].file = Plan[i]
  <2>1. cmd'.pos = cmd.pos + 1
    BY <1>2, <1>7
  <2>2. CASE k \in Places
    <3>1. PICK i \in 1..(cmd.pos - 1) : cmd.done[k].file = Plan[i]
      BY <1>3, <2>2
    <3>2. i \in 1..(cmd'.pos - 1)
      BY <1>1, <2>1
    <3> QED  BY <1>1, <2>2, <3>1, <3>2, DonePlaces
  <2>3. CASE k \notin Places
    <3>1. cmd'.done[k].file = Plan[cmd.pos]
      BY <1>1, <1>7, <2>3, DonePlaces DEF NowDone, Now
    <3> QED  BY <1>1, <2>1, <3>1
  <2> QED  BY <2>2, <2>3
<1> QED  BY <1>2, <1>5, <1>6, <1>7 DEF Orderly

LEMMA InstalledTyped == \A f \in File : Installed(f) \in Content
BY DEF Installed, Content, Text

LEMMA CommitIInv ==
  ASSUME IInv, Create \/ Replace \/ MakeExecutable
  PROVE  IInv'
<1>1. /\ cmd.stage \in {"commit", "between"} /\ cmd' = Done(cmd)
      /\ UNCHANGED <<backups, runs, owned, late>>
  BY DEF Create, Replace, MakeExecutable, Commit, history
<1>2. Types /\ Now \in File
  BY NowIsFile DEF IInv
<1>3. Types'
  <2>1. disk' \in [File -> Content]
    BY <1>2, InstalledTyped DEF Types, Content, Create, Replace, MakeExecutable
  <2> QED  BY <1>1, <1>2, <2>1, DoneKeeps DEF Types
<1>4. Entrusted' = Entrusted /\ \A f : Kept(f)' <=> Kept(f)
  BY <1>1, SameBackups
<1>5. \A f \in File : disk'[f].text = disk[f].text \/ (f = Now /\ (f \in Entrusted => Kept(f)))
  BY <1>2 DEF IInv, Types, Safe, Content, Create, Replace, MakeExecutable, Commit
<1>6. Now \in Entrusted /\ cmd.plan[Now] = "replace" => Kept(Now)
  BY DEF IInv, Safe, Create, Replace, MakeExecutable, Commit
<1>7. Safe'
  <2>1. \A f \in Entrusted : disk'[f].text = owned[f] \/ Kept(f)
    BY <1>5 DEF IInv, Safe, Entrusted
  <2>2. cmd'.plan = cmd.plan /\ cmd'.stage \in {"commit", "hook"} /\ cmd.stage # "idle"
    BY <1>1, <1>2, DoneKeeps
  <2>3. ASSUME NEW k \in Places', cmd'.done[k].action = "replace", cmd'.done[k].file \in Entrusted
        PROVE  Kept(cmd'.done[k].file)
    BY <1>1, <1>2, <1>6, <2>3, DonePlaces DEF IInv, Safe, NowDone
  <2> QED  BY <1>1, <1>4, <2>1, <2>2, <2>3 DEF IInv, Safe
<1> QED  BY <1>1, <1>3, <1>7, DoneOrderly DEF IInv

LEMMA BackUpIInv ==
  ASSUME IInv, BackUp
  PROVE  IInv'
<1> DEFINE b == [file |-> Now, run |-> runs, was |-> disk[Now]]
<1>1. Types /\ Now \in File
  BY NowIsFile DEF IInv
<1>2. /\ cmd.stage = "commit" /\ cmd.plan[Now] = "replace" /\ UNCHANGED <<runs, owned, late>>
      /\ cmd' = [cmd EXCEPT !.stage = "between"] /\ backups' = backups \cup {b}
      /\ disk' = [disk EXCEPT ![Now] = Nothing]
  BY DEF BackUp, Commit, history
<1>3. Command(cmd') /\ cmd'.stage = "between" /\ Rest(cmd', cmd, {"stage"})
  BY <1>1, <1>2, SetStage DEF Types, Stages
<1>4. Types'
  <2>1. b \in Backup /\ Nothing \in Content
    BY <1>1 DEF Types, Backup, Nothing, Content
  <2> HIDE DEF b
  <2> QED  BY <1>1, <1>2, <1>3, <2>1 DEF Types
<1>5. Orderly'
  BY <1>2, <1>3 DEF IInv, Orderly, Places, Rest
<1>6. Entrusted' = Entrusted /\ (\A f : Kept(f) => Kept(f)')
  BY <1>2 DEF Entrusted, Kept
<1>7. ASSUME NEW f \in Entrusted, f = Now
      PROVE  Kept(f)'
  <2>1. CASE disk[f].text = owned[f]
    <3>1. b \in backups' /\ b.file = f /\ b.was.text = owned'[f]
      BY <1>2, <1>7, <2>1
    <3> HIDE DEF b
    <3> QED  BY <3>1 DEF Kept
  <2>2. CASE Kept(f)
    BY <1>6, <2>2
  <2> QED  BY <2>1, <2>2 DEF IInv, Safe
<1>8. Safe'
  <2>1. Now' = Now /\ cmd'.plan = cmd.plan /\ cmd'.done = cmd.done /\ Places' = Places
    BY <1>3 DEF Now, Rest, Places
  <2>2. \A f \in File : f # Now => disk'[f] = disk[f]
    BY <1>1, <1>2 DEF Types
  <2> QED  BY <1>2, <1>3, <1>6, <1>7, <2>1, <2>2 DEF IInv, Safe, Entrusted
<1> QED  BY <1>4, <1>5, <1>8 DEF IInv

\* A backup becomes the file again.
LEMMA PutBack ==
  ASSUME Types, NEW b \in backups, NEW f0 \in File, b.file = f0, UNCHANGED <<owned, late>>,
         disk' = [disk EXCEPT ![f0] = b.was], backups' = backups \ {b}
  PROVE  /\ disk' \in [File -> Content] /\ backups' \subseteq Backup
         /\ Entrusted' = Entrusted
         /\ \A f \in File : f # f0 => disk'[f] = disk[f] /\ (Kept(f) => Kept(f)')
         /\ Kept(f0) => disk'[f0].text = owned'[f0] \/ Kept(f0)'
<1>1. b \in Backup /\ b.was \in Content
  BY DEF Types, Backup
<1>2. disk'[f0] = b.was /\ \A f \in File : f # f0 => disk'[f] = disk[f]
  BY DEF Types
<1>3. \A f : f # f0 /\ Kept(f) => Kept(f)'
  BY DEF Kept
<1>4. ASSUME Kept(f0)
      PROVE  disk'[f0].text = owned'[f0] \/ Kept(f0)'
  <2>1. PICK c \in backups : c.file = f0 /\ c.was.text = owned[f0]
    BY <1>4 DEF Kept
  <2>2. CASE c = b
    BY <1>2, <2>1, <2>2
  <2>3. CASE c # b
    <3>1. c \in backups' /\ c.file = f0 /\ c.was.text = owned'[f0]
      BY <2>1, <2>3
    <3> QED  BY <3>1 DEF Kept
  <2> QED  BY <2>2, <2>3
<1> QED  BY <1>1, <1>2, <1>3, <1>4 DEF Types, Entrusted

LEMMA RestoreIInv ==
  ASSUME IInv, Restore
  PROVE  IInv'
<1>1. Types /\ Now \in File /\ cmd.stage = "between" /\ cmd.plan[Now] = "replace"
  BY NowIsFile DEF IInv, Safe, Restore
<1>2. Command(cmd') /\ cmd'.stage = "cleanup" /\ Rest(cmd', cmd, {"stage"}) /\ UNCHANGED <<runs, owned, late>>
  BY <1>1, SetStage DEF Types, Stages, Restore
<1>3. Orderly' /\ Places' = Places /\ cmd'.done = cmd.done /\ cmd'.plan = cmd.plan
  BY <1>2 DEF IInv, Orderly, Places, Rest
<1>4. ASSUME UNCHANGED <<disk, backups>>
      PROVE  IInv'
  <2>1. Types' /\ Safe'
    BY <1>1, <1>2, <1>3, <1>4, SameBackups DEF IInv, Types, Safe
  <2> QED  BY <1>3, <2>1 DEF IInv
<1>5. ASSUME NEW b \in backups, b.file = Now, disk' = [disk EXCEPT ![Now] = b.was], backups' = backups \ {b}
      PROVE  IInv'
  <2>1. \A k \in Places : cmd.done[k].file \in File /\ cmd.done[k].file # Now
    <3> SUFFICES ASSUME NEW k \in Places
                 PROVE  cmd.done[k].file \in File /\ cmd.done[k].file # Now
      OBVIOUS
    <3>1. PICK i \in 1..(cmd.pos - 1) : cmd.done[k].file = Plan[i]
      BY <1>1 DEF IInv, Orderly
    <3>2. cmd.pos \in 1..Len(Plan) /\ Len(Plan) \in Nat /\ cmd.done[k] \in DoneAction
      BY <1>1, PlanNat DEF Types, Command, Places
    <3> QED  BY <3>1, <3>2, PlanAssumption DEF Now, DoneAction
  <2>2. Types'
    BY <1>1, <1>2, <1>5, PutBack DEF Types
  <2>3. Entrusted' = Entrusted /\ Entrusted \subseteq File
    BY <1>2 DEF Entrusted
  <2>4. \A f \in File : f # Now => disk'[f] = disk[f] /\ (Kept(f) => Kept(f)')
    BY <1>1, <1>2, <1>5, PutBack
  <2>5. \A f \in Entrusted : disk'[f].text = owned'[f] \/ Kept(f)'
    <3> SUFFICES ASSUME NEW f \in Entrusted
                 PROVE  disk'[f].text = owned'[f] \/ Kept(f)'
      OBVIOUS
    <3>1. CASE f = Now
      <4>1. f \in File /\ b.file = f /\ disk' = [disk EXCEPT ![f] = b.was] /\ Kept(f)
        BY <1>1, <1>5, <3>1 DEF IInv, Safe
      <4> QED  BY <1>1, <1>2, <1>5, <4>1, PutBack
    <3>2. CASE f # Now
      BY <1>2, <2>3, <2>4, <3>2 DEF IInv, Safe
    <3> QED  BY <3>1, <3>2
  <2>6. \A f \in Entrusted : cmd'.plan[f] = "create" => Kept(f)'
    BY <1>1, <1>3, <2>3, <2>4 DEF IInv, Safe
  <2>7. \A k \in Places : cmd'.done[k].action = "replace" /\ cmd'.done[k].file \in Entrusted => Kept(cmd.done[k].file)'
    <3> SUFFICES ASSUME NEW k \in Places, NEW f, f = cmd.done[k].file, cmd.done[k].action = "replace", f \in Entrusted
                 PROVE  Kept(f)'
      BY <1>3 DEF Kept
    <3> QED  BY <2>1, <2>4 DEF IInv, Safe
  <2>8. Safe'
    BY <1>2, <1>3, <2>3, <2>5, <2>6, <2>7 DEF Safe, Kept
  <2> QED  BY <1>3, <2>2, <2>8 DEF IInv
<1> QED  BY <1>4, <1>5 DEF Restore

\* The last action is off the list.
LEMMA PoppedKeeps ==
  ASSUME IInv, cmd.stage = "rollback", cmd.done # << >>, cmd' = Popped(cmd)
  PROVE  /\ Command(cmd') /\ cmd'.stage = "rollback" /\ cmd'.plan = cmd.plan /\ Orderly'
         /\ cmd'.created = cmd.created /\ cmd'.temps = cmd.temps
         /\ LastDone \in DoneAction /\ LastDone.action = cmd.plan[LastDone.file]
         /\ Places' \subseteq Places /\ Places = Places' \cup {Len(cmd.done)}
         /\ \A k \in Places' : cmd'.done[k] = cmd.done[k] /\ cmd.done[k].file \in File \ {LastDone.file}
<1> DEFINE rest == SubSeq(cmd.done, 1, Len(cmd.done) - 1)
<1>1. cmd.done \in Seq(DoneAction) /\ Len(cmd.done) \in Nat /\ Len(cmd.done) > 0
  BY EmptySeq, LenProperties DEF IInv, Types, Command
<1>2. /\ rest \in Seq(DoneAction) /\ Len(rest) = Len(cmd.done) - 1
      /\ \A k \in 1..(Len(cmd.done) - 1) : rest[k] = cmd.done[k]
  BY <1>1
<1>3. cmd' = [cmd EXCEPT !.done = rest]
  BY DEF Popped
<1> HIDE DEF rest
<1>4. Command(cmd') /\ cmd'.done = rest /\ Rest(cmd', cmd, {"done"})
  BY <1>2, <1>3, SetDone DEF IInv, Types
<1>5. Places' = 1..(Len(cmd.done) - 1) /\ Places = 1..Len(cmd.done) /\ Places = Places' \cup {Len(cmd.done)}
  BY <1>1, <1>2, <1>4 DEF Places
<1>6. Len(cmd.done) \in Places /\ LastDone = cmd.done[Len(cmd.done)] /\ LastDone \in DoneAction
  BY <1>1 DEF Places, LastDone
<1>7. \A k \in Places' : k \in Places /\ k # Len(cmd.done) /\ cmd'.done[k] = cmd.done[k] /\ cmd.done[k] \in DoneAction
  BY <1>1, <1>2, <1>4, <1>5
<1>8. \A k \in Places' : cmd.done[k].file \in File \ {LastDone.file}
  BY <1>6, <1>7 DEF IInv, Orderly, DoneAction
<1>9. Orderly'
  BY <1>4, <1>7 DEF IInv, Orderly, Rest
<1> QED  BY <1>4, <1>5, <1>6, <1>7, <1>8, <1>9 DEF IInv, Orderly, Rest

LEMMA RollbackIInv ==
  ASSUME IInv, Rollback \/ RollbackFails
  PROVE  IInv'
<1>0. PICK g : g = LastDone.file
  OBVIOUS
<1>1. cmd.stage = "rollback" /\ cmd.done # << >> /\ cmd' = Popped(cmd) /\ UNCHANGED <<runs, owned, late>>
  BY DEF Rollback, RollbackFails, history
<1>2. /\ Types /\ g \in File /\ LastDone.action = cmd.plan[g]
      /\ Command(cmd') /\ cmd'.stage = "rollback" /\ cmd'.plan = cmd.plan /\ Orderly'
      /\ Places' \subseteq Places
      /\ \A k \in Places' : cmd'.done[k] = cmd.done[k] /\ cmd.done[k].file \in File \ {g}
  BY <1>0, <1>1, PoppedKeeps DEF IInv, DoneAction
<1>3. g \in Entrusted /\ LastDone.action \in {"create", "replace"} => Kept(g)
  <2>1. Len(cmd.done) \in Places /\ LastDone = cmd.done[Len(cmd.done)]
    BY <1>1, EmptySeq, LenProperties DEF IInv, Types, Command, Places, LastDone
  <2> QED  BY <1>0, <1>1, <1>2, <2>1 DEF IInv, Safe
<1>4. Entrusted' = Entrusted /\ Entrusted \subseteq File
  BY <1>1 DEF Entrusted
<1>5. ASSUME disk' \in [File -> Content], backups' \subseteq Backup,
             \A f \in File : f # g => disk'[f] = disk[f] /\ (Kept(f) => Kept(f)'),
             g \in Entrusted => disk'[g].text = owned'[g] \/ Kept(g)',
             LastDone.action = "create" => (Kept(g) => Kept(g)')
      PROVE  IInv'
  <2>1. Types'
    BY <1>1, <1>2, <1>5 DEF Types
  <2>2. \A f \in Entrusted : disk'[f].text = owned'[f] \/ Kept(f)'
    <3> SUFFICES ASSUME NEW f \in Entrusted, f # g
                 PROVE  disk'[f].text = owned'[f] \/ Kept(f)'
      BY <1>5
    <3> QED  BY <1>1, <1>4, <1>5 DEF IInv, Safe
  <2>3. ASSUME NEW f \in Entrusted, cmd'.plan[f] = "create"
        PROVE  Kept(f)'
    <3>1. Kept(f)
      BY <1>1, <1>2, <2>3 DEF IInv, Safe
    <3>2. CASE f = g
      BY <1>2, <1>5, <2>3, <3>1, <3>2
    <3>3. CASE f # g
      BY <1>4, <1>5, <3>1, <3>3
    <3> QED  BY <3>2, <3>3
  <2>4. ASSUME NEW k \in Places', NEW f, f = cmd'.done[k].file, cmd'.done[k].action = "replace", f \in Entrusted
        PROVE  Kept(f)'
    BY <1>2, <1>5, <2>4 DEF IInv, Safe
  <2>5. Safe'
    BY <1>2, <1>4, <2>2, <2>3, <2>4 DEF Safe, Kept
  <2> QED  BY <1>2, <2>1, <2>5 DEF IInv
<1>6. CASE RollbackFails
  <2>1. /\ backups' = backups
        /\ disk' = disk \/ (LastDone.action = "replace" /\ disk' = [disk EXCEPT ![g] = Nothing])
    BY <1>0, <1>6 DEF RollbackFails
  <2>2. \A f : Kept(f)' <=> Kept(f)
    BY <1>1, <2>1, SameBackups
  <2>3. disk' \in [File -> Content] /\ \A f \in File : f # g => disk'[f] = disk[f]
    <3>1. Nothing \in Content
      BY DEF Nothing, Content
    <3>2. CASE disk' = disk
      BY <1>2, <3>2 DEF Types
    <3>3. CASE disk' = [disk EXCEPT ![g] = Nothing]
      BY <1>2, <3>1, <3>3 DEF Types
    <3> QED  BY <2>1, <3>2, <3>3
  <2>4. g \in Entrusted => disk'[g].text = owned'[g] \/ Kept(g)'
    BY <1>1, <1>3, <2>1, <2>2 DEF IInv, Safe
  <2> QED  BY <1>2, <1>5, <2>1, <2>2, <2>3, <2>4 DEF Types
<1>7. CASE Rollback
  <2>1. Undo
    BY <1>7 DEF Rollback
  <2>2. CASE LastDone.action = "create"
    <3>1. disk' = [disk EXCEPT ![g] = Nothing] /\ backups' = backups
      BY <1>0, <2>1, <2>2 DEF Undo
    <3>2. \A f : Kept(f)' <=> Kept(f)
      BY <1>1, <3>1, SameBackups
    <3>3. disk' \in [File -> Content] /\ \A f \in File : f # g => disk'[f] = disk[f]
      BY <1>2, <3>1 DEF Types, Nothing, Content
    <3> QED  BY <1>2, <1>3, <1>5, <2>2, <3>1, <3>2, <3>3 DEF Types
  <2>3. CASE LastDone.action = "replace"
    <3>1. PICK b \in backups : b.file = g /\ disk' = [disk EXCEPT ![g] = b.was] /\ backups' = backups \ {b}
      BY <1>0, <2>1, <2>3 DEF Undo
    <3>2. /\ disk' \in [File -> Content] /\ backups' \subseteq Backup
          /\ \A f \in File : f # g => disk'[f] = disk[f] /\ (Kept(f) => Kept(f)')
          /\ Kept(g) => disk'[g].text = owned'[g] \/ Kept(g)'
      BY <1>1, <1>2, <3>1, PutBack
    <3> QED  BY <1>3, <1>5, <2>3, <3>2
  <2>4. CASE LastDone.action \notin {"create", "replace"}
    <3>1. disk' = [disk EXCEPT ![g].exec = FALSE] /\ backups' = backups
      BY <1>0, <2>1, <2>4 DEF Undo
    <3>2. \A f : Kept(f)' <=> Kept(f)
      BY <1>1, <3>1, SameBackups
    <3>3. /\ disk' \in [File -> Content] /\ \A f \in File : f # g => disk'[f] = disk[f]
          /\ disk'[g].text = disk[g].text
      BY <1>2, <3>1 DEF Types, Content
    <3>4. g \in Entrusted => disk'[g].text = owned'[g] \/ Kept(g)'
      BY <1>1, <3>2, <3>3 DEF IInv, Safe
    <3> QED  BY <1>2, <1>5, <3>1, <3>2, <3>3, <3>4 DEF Types
  <2> QED  BY <2>2, <2>3, <2>4
<1> QED  BY <1>6, <1>7

\* The user
LEMMA EditIInv ==
  ASSUME IInv, NEW f0 \in File, NEW t \in UserText \cup {Absent}, Edit(f0, t)
  PROVE  IInv'
<1>1. UNCHANGED <<backups, runs, cmd>>
  BY DEF Edit
<1>2. /\ disk' \in [File -> Content] /\ \A f \in File : f # f0 => disk'[f] = disk[f]
      /\ t # Absent => disk'[f0].text = t
  BY DEF IInv, Types, Edit, Content, Nothing, Text
<1>3. /\ owned' = [owned EXCEPT ![f0] = t] /\ owned' \in [File -> Text \cup {Absent, Foreign}] /\ late' \subseteq File
      /\ late' = IF cmd.stage = "idle" THEN late \ {f0} ELSE late \cup {f0}
  BY DEF IInv, Types, Edit, Text
<1>4. Types' /\ Orderly'
  BY <1>1, <1>2, <1>3 DEF IInv, Types, Orderly, Places
<1>5. \A f \in Entrusted' : f # f0 => f \in Entrusted /\ owned'[f] = owned[f] /\ (Kept(f) => Kept(f)')
  BY <1>1, <1>3 DEF IInv, Types, Entrusted, Kept
<1>6. cmd.stage # "idle" => f0 \notin Entrusted'
  BY <1>3 DEF Entrusted
<1>7. f0 \in Entrusted' => disk'[f0].text = owned'[f0]
  BY <1>2, <1>3 DEF IInv, Types, Entrusted
<1>8. Entrusted' \subseteq File /\ Places' = Places /\ Now' = Now /\ (cmd.stage = "idle" => Places = {})
  BY <1>1 DEF Entrusted, Places, Now, IInv, Orderly
<1>9. \A f \in Entrusted' : disk'[f].text = owned'[f] \/ Kept(f)'
  <2> SUFFICES ASSUME NEW f \in Entrusted', f # f0
               PROVE  disk'[f].text = owned'[f] \/ Kept(f)'
    BY <1>7
  <2> QED  BY <1>2, <1>5, <1>8 DEF IInv, Safe
<1>10. cmd.stage # "idle" => \A f \in Entrusted' : cmd.plan[f] = "create" => Kept(f)'
  BY <1>5, <1>6 DEF IInv, Safe
<1>11. ASSUME NEW k \in Places, NEW f, f = cmd.done[k].file, cmd.done[k].action = "replace", f \in Entrusted'
       PROVE  Kept(f)'
  BY <1>5, <1>6, <1>8, <1>11 DEF IInv, Safe
<1>12. ASSUME cmd.stage = "between", NEW f, f = Now, f \in Entrusted'
       PROVE  Kept(f)'
  BY <1>5, <1>6, <1>12 DEF IInv, Safe
<1>13. Safe'
  BY <1>1, <1>8, <1>9, <1>10, <1>11, <1>12 DEF IInv, Safe, Kept
<1> QED  BY <1>4, <1>13 DEF IInv

LEMMA NextIInv ==
  ASSUME IInv, [Next]_vars
  PROVE  IInv'
<1>1. CASE UNCHANGED vars
  BY <1>1 DEF vars, work, history, IInv, Types, Orderly, Safe, Places, Entrusted, Kept, Now
<1>2. CASE Next
  <2>1. ASSUME NEW force \in BOOLEAN, Begin(force) PROVE IInv'
    BY <2>1, BeginIInv
  <2>2. ASSUME NEW f \in File, NEW t \in UserText \cup {Absent}, Edit(f, t) PROVE IInv'
    BY <2>2, EditIInv
  <2> QED  BY <1>2, <2>1, <2>2, QuietStepsIInv, CommitIInv, BackUpIInv, RestoreIInv, RollbackIInv DEF Next, Quiet
<1> QED  BY <1>1, <1>2

LEMMA Invariance == Spec => []IInv
<1> QED  BY InitIInv, NextIInv, PTL DEF Spec

-----------------------------------------------------------------------------
(* Another run is accepted.  What a run without --force leaves in a file, and *)
(* what it has put aside, is what it found acceptable, or its own; the files  *)
(* that are read-only it has found installed, and leaves alone.               *)

Acceptable(f, c) == c.text \in {Absent, Default} \/ (c.text = Legacy /\ f \in Managed)
Ready ==
  accepted =>
    /\ \A f \in File : Acceptable(f, disk[f])
    /\ \A f \in locked : disk[f].text = Default /\ ~NeedsBit(f)
    /\ cmd.stage # "idle" => \A f \in locked : cmd.plan[f] = "unchanged"
    /\ \A b \in backups : b.run = runs => Acceptable(b.file, b.was)
Numbered ==
  /\ \A b \in backups : b.run <= runs
  /\ \A k \in Places : cmd.done[k].action # "unchanged"
  /\ locked \subseteq File
RetryInv == Ready /\ Numbered

\* A file that is not locked comes to hold what is acceptable, and no new backup
\* but of what was.
LEMMA ReadyMoves ==
  ASSUME IInv, RetryInv, NEW f0 \in File, UNCHANGED <<runs, accepted, locked>>,
         disk' \in [File -> Content], \A f \in File : f # f0 => disk'[f] = disk[f],
         accepted => f0 \notin locked /\ Acceptable(f0, disk'[f0]),
         \A b \in backups' : b \in backups \/ (b.file = f0 /\ b.run = runs /\ b.was = disk[f0]),
         cmd.stage # "idle", cmd'.plan = cmd.plan,
         \A k \in Places' : (k \in Places /\ cmd'.done[k] = cmd.done[k]) \/ cmd'.done[k].action # "unchanged"
  PROVE  RetryInv'
<1>1. Numbered'
  BY DEF RetryInv, Numbered, IInv, Types
<1>2. ASSUME accepted
      PROVE  /\ \A f \in File : Acceptable(f, disk'[f])
             /\ \A f \in locked : disk'[f].text = Default /\ ~NeedsBit(f)'
             /\ \A f \in locked : cmd'.plan[f] = "unchanged"
             /\ \A b \in backups' : b.run = runs => Acceptable(b.file, b.was)
  <2>1. \A f \in File : Acceptable(f, disk'[f])
    BY <1>2 DEF RetryInv, Ready
  <2>2. \A f \in locked : disk'[f] = disk[f]
    BY <1>2 DEF RetryInv, Numbered
  <2>3. \A f \in locked : disk'[f].text = Default /\ ~NeedsBit(f)'
    BY <1>2, <2>2 DEF RetryInv, Ready, NeedsBit
  <2>4. \A b \in backups' : b.run = runs => Acceptable(b.file, b.was)
    BY <1>2 DEF RetryInv, Ready
  <2> QED  BY <1>2, <2>1, <2>3, <2>4 DEF RetryInv, Ready
<1>3. Ready'
  BY <1>2 DEF Ready, Acceptable
<1> QED  BY <1>1, <1>3 DEF RetryInv

\* A file whose plan is not to leave it alone may be written.
LEMMA ReadyFiles ==
  ASSUME IInv, RetryInv, accepted, cmd.stage # "idle"
  PROVE  /\ \A f \in File : cmd.plan[f] # "unchanged" => f \notin locked
         /\ \A f \in File : Acceptable(f, disk[f]) /\ Acceptable(f, Installed(f)) /\ Acceptable(f, Nothing)
         /\ \A b \in backups : b.run = runs => Acceptable(b.file, b.was)
BY DEF RetryInv, Ready, Acceptable, Installed, Nothing

LEMMA BeginReady ==
  ASSUME IInv, RetryInv, NEW force \in BOOLEAN, Begin(force)
  PROVE  RetryInv'
<1> DEFINE plan == [f \in File |-> ActionFor(f, force)]
<1>1. cmd' = [stage |-> "staging", plan |-> plan, pos |-> 1, created |-> << >>, temps |-> {}, done |-> << >>]
  BY DEF Begin, Idle
<1> HIDE DEF plan
<1>2. cmd'.plan = plan /\ cmd'.done = << >> /\ cmd'.stage = "staging" /\ UNCHANGED <<disk, backups, locked>>
  <2>1. cmd'.plan = plan /\ cmd'.done = << >> /\ cmd'.stage = "staging"
    BY <1>1
  <2>2. UNCHANGED <<disk, backups, locked>>
    BY DEF Begin, work
  <2> QED  BY <2>1, <2>2
<1>3. Places' = {}
  BY <1>2 DEF Places
<1>4. /\ runs' = runs + 1 /\ runs \in Nat /\ backups \subseteq Backup
      /\ Refused(force) = {} /\ accepted' = ~force
  BY DEF Begin, IInv, Types
<1>5. \A b \in backups : b.run \in Nat /\ b.run <= runs
  BY <1>4 DEF RetryInv, Numbered, Backup
<1>6. Numbered'
  BY <1>2, <1>3, <1>4, <1>5 DEF RetryInv, Numbered
<1>7. ASSUME ~force
      PROVE  /\ \A f \in File : Acceptable(f, disk[f])
             /\ \A f \in locked : disk[f].text = Default /\ ~NeedsBit(f)
             /\ \A f \in locked : ActionFor(f, force) = "unchanged"
  <2>1. \A f \in File :
          /\ disk[f].text = Absent \/ Settled(f) \/ MayReplace(f, force)
          /\ f \in locked => ActionFor(f, force) = "unchanged"
    BY <1>4 DEF Refused
  <2>2. \A f \in File : Acceptable(f, disk[f])
    BY <1>7, <2>1 DEF Settled, MayReplace, Acceptable
  <2>3. \A f \in File : ActionFor(f, force) = "unchanged" => disk[f].text = Default /\ ~NeedsBit(f)
    BY <2>1, TextAssumption DEF ActionFor, Settled, MayReplace
  <2> QED  BY <2>1, <2>2, <2>3 DEF RetryInv, Numbered
<1>8. Ready'
  <2>1. \A f \in locked : f \in File
    BY DEF RetryInv, Numbered
  <2>2. \A b \in backups : b.run # runs'
    BY <1>4, <1>5
  <2> QED  BY <1>2, <1>4, <1>7, <2>1, <2>2 DEF Ready, Acceptable, NeedsBit, plan
<1> QED  BY <1>6, <1>8 DEF RetryInv

LEMMA QuietReady ==
  ASSUME IInv, RetryInv, Quiet
  PROVE  RetryInv'
<1>1. UNCHANGED <<disk, backups, runs, locked, accepted>> /\ Types
  BY QuietKeeps DEF IInv
<1>2. CASE cmd' = Idle
  <2>1. Places' = {} /\ cmd'.stage = "idle"
    BY <1>2, IdleTyped DEF Places
  <2> QED  BY <1>1, <2>1 DEF RetryInv, Ready, Numbered, Acceptable, NeedsBit
<1>3. CASE cmd' # Idle
  <2>1. cmd'.plan = cmd.plan /\ cmd'.done = cmd.done /\ cmd.stage # "idle"
    BY <1>1, <1>3, QuietKeeps
  <2>2. Places' = Places
    BY <2>1 DEF Places
  <2> QED  BY <1>1, <2>1, <2>2 DEF RetryInv, Ready, Numbered, Acceptable, NeedsBit
<1> QED  BY <1>2, <1>3

LEMMA MovesReady ==
  ASSUME IInv, RetryInv, Create \/ Replace \/ MakeExecutable \/ BackUp \/ Restore
  PROVE  RetryInv'
<1>1. /\ Types /\ Now \in File /\ UNCHANGED <<runs, accepted, locked>>
      /\ cmd.stage \in {"commit", "between"} /\ cmd.plan[Now] # "unchanged"
  BY NowIsFile DEF IInv, Safe, Create, Replace, MakeExecutable, BackUp, Restore, Commit, history
<1>2. \A f \in File : accepted /\ cmd.plan[f] # "unchanged" => f \notin locked
  BY <1>1, ReadyFiles
<1>3. CASE Create \/ Replace \/ MakeExecutable
  <2>1. cmd' = Done(cmd) /\ backups' = backups
    BY <1>3 DEF Create, Replace, MakeExecutable
  <2>2. cmd'.plan = cmd.plan /\ \A k \in Places' : (k \in Places /\ cmd'.done[k] = cmd.done[k]) \/ cmd'.done[k].action # "unchanged"
    BY <1>1, <2>1, DoneKeeps, DonePlaces DEF NowDone
  <2>3. disk' \in [File -> Content] /\ \A f \in File : f # Now => disk'[f] = disk[f]
    BY <1>1, <1>3, InstalledTyped DEF Types, Content, Create, Replace, MakeExecutable
  <2>4. disk'[Now] = Installed(Now) \/ disk'[Now].text = disk[Now].text
    BY <1>1, <1>3 DEF Types, Content, Create, Replace, MakeExecutable
  <2>5. accepted => Acceptable(Now, disk'[Now])
    BY <1>1, <2>4, ReadyFiles DEF Acceptable
  <2> QED  BY <1>1, <1>2, <2>1, <2>2, <2>3, <2>5, ReadyMoves
<1>4. CASE BackUp
  <2>1. disk' = [disk EXCEPT ![Now] = Nothing] /\ cmd' = [cmd EXCEPT !.stage = "between"]
    BY <1>4 DEF BackUp
  <2>2. Nothing \in Content
    BY DEF Nothing, Content
  <2>3. disk' \in [File -> Content] /\ (\A f \in File : f # Now => disk'[f] = disk[f]) /\ disk'[Now] = Nothing
    BY <1>1, <2>1, <2>2 DEF Types
  <2>4. cmd'.plan = cmd.plan /\ cmd'.done = cmd.done
    BY <1>1, <2>1, SetStage DEF Types, Stages, Rest
  <2>5. \A b \in backups' : b \in backups \/ (b.file = Now /\ b.run = runs /\ b.was = disk[Now])
    BY <1>4 DEF BackUp
  <2>6. accepted => Acceptable(Now, disk'[Now])
    BY <1>1, <2>3, ReadyFiles
  <2> QED  BY <1>1, <1>2, <2>3, <2>4, <2>5, <2>6, ReadyMoves DEF Places
<1>5. CASE Restore
  <2>1. cmd'.plan = cmd.plan /\ cmd'.done = cmd.done
    BY <1>1, <1>5, SetStage DEF Types, Stages, Rest, Restore
  <2>2. CASE UNCHANGED <<disk, backups>>
    BY <1>1, <1>2, <2>1, <2>2, ReadyFiles, ReadyMoves DEF Types, Places
  <2>3. CASE ~UNCHANGED <<disk, backups>>
    <3>1. PICK b \in backups : b.file = Now /\ b.run = runs /\ disk' = [disk EXCEPT ![Now] = b.was] /\ backups' = backups \ {b}
      BY <1>5, <2>3 DEF Restore
    <3>2. b.was \in Content
      BY <1>1 DEF Types, Backup
    <3>3. disk' \in [File -> Content] /\ (\A f \in File : f # Now => disk'[f] = disk[f]) /\ disk'[Now] = b.was
      BY <1>1, <3>1, <3>2 DEF Types
    <3>4. accepted => Acceptable(Now, disk'[Now])
      BY <1>1, <3>1, <3>3, ReadyFiles
    <3> QED  BY <1>1, <1>2, <2>1, <3>1, <3>3, <3>4, ReadyMoves DEF Places
  <2> QED  BY <2>2, <2>3
<1> QED  BY <1>3, <1>4, <1>5

LEMMA RollbackReady ==
  ASSUME IInv, RetryInv, Rollback \/ RollbackFails
  PROVE  RetryInv'
<1>1. PICK g : g = LastDone.file
  OBVIOUS
<1>2. cmd.stage = "rollback" /\ cmd.done # << >> /\ cmd' = Popped(cmd) /\ UNCHANGED <<runs, accepted, locked>>
  BY DEF Rollback, RollbackFails, history
<1>3. /\ g \in File /\ LastDone.action = cmd.plan[g] /\ Types /\ cmd'.plan = cmd.plan
      /\ \A k \in Places' : k \in Places /\ cmd'.done[k] = cmd.done[k]
  BY <1>1, <1>2, PoppedKeeps DEF IInv, DoneAction
<1>4. LastDone.action # "unchanged"
  <2>1. Len(cmd.done) \in Places /\ LastDone = cmd.done[Len(cmd.done)]
    BY <1>2, EmptySeq, LenProperties DEF IInv, Types, Command, Places, LastDone
  <2> QED  BY <2>1 DEF RetryInv, Numbered
<1>5. accepted => g \notin locked
  BY <1>2, <1>3, <1>4, ReadyFiles
<1>6. ASSUME NEW c \in Content, disk' = [disk EXCEPT ![g] = c], backups' \subseteq backups,
             accepted => Acceptable(g, c)
      PROVE  RetryInv'
  <2>1. disk' \in [File -> Content] /\ (\A f \in File : f # g => disk'[f] = disk[f]) /\ disk'[g] = c
    BY <1>3, <1>6 DEF Types
  <2> QED  BY <1>2, <1>3, <1>5, <1>6, <2>1, ReadyMoves
<1>7. Nothing \in Content /\ (accepted => Acceptable(g, Nothing) /\ Acceptable(g, disk[g]))
  BY <1>2, <1>3, ReadyFiles DEF Nothing, Content
<1>8. CASE disk' = [disk EXCEPT ![g] = Nothing] /\ backups' = backups
  BY <1>6, <1>7, <1>8
<1>9. CASE disk' = disk /\ backups' = backups
  BY <1>2, <1>3, <1>5, <1>7, <1>9, ReadyMoves DEF Types
<1>10. CASE Rollback /\ LastDone.action = "replace"
  <2>1. PICK b \in backups : b.file = g /\ b.run = runs /\ disk' = [disk EXCEPT ![g] = b.was] /\ backups' = backups \ {b}
    BY <1>1, <1>10 DEF Rollback, Undo
  <2>2. b.was \in Content /\ (accepted => Acceptable(g, b.was))
    BY <1>2, <1>3, <2>1, ReadyFiles DEF Types, Backup
  <2> QED  BY <1>6, <2>1, <2>2
<1>11. CASE Rollback /\ LastDone.action \notin {"create", "replace"}
  <2>1. disk' = [disk EXCEPT ![g].exec = FALSE] /\ backups' = backups
    BY <1>1, <1>11 DEF Rollback, Undo
  <2>2. PICK e \in Content : e = disk[g]
    BY <1>3 DEF Types
  <2>3. PICK c : c = [e EXCEPT !.exec = FALSE]
    OBVIOUS
  <2>4. c \in Content /\ c.text = e.text
    BY <2>3 DEF Content
  <2>5. disk' = [disk EXCEPT ![g] = c] /\ (accepted => Acceptable(g, c))
    BY <1>7, <2>1, <2>2, <2>3, <2>4 DEF Acceptable
  <2> QED  BY <1>6, <2>1, <2>4, <2>5
<1> QED  BY <1>1, <1>8, <1>9, <1>10, <1>11 DEF Rollback, RollbackFails, Undo

LEMMA NextReady ==
  ASSUME IInv, RetryInv, [Next]_vars
  PROVE  RetryInv'
<1>1. CASE UNCHANGED vars
  BY <1>1 DEF vars, work, history, RetryInv, Ready, Numbered, Acceptable, NeedsBit, Places
<1>2. ASSUME NEW f \in File, NEW t \in UserText \cup {Absent}, Edit(f, t)
      PROVE  RetryInv'
  BY <1>2 DEF Edit, RetryInv, Ready, Numbered, Places
<1>3. ASSUME NEW force \in BOOLEAN, Begin(force) PROVE RetryInv'
  BY <1>3, BeginReady
<1> QED  BY <1>1, <1>2, <1>3, QuietReady, MovesReady, RollbackReady DEF Next, Quiet

LEMMA InitReady == Init => RetryInv
BY IdleTyped DEF Init, RetryInv, Ready, Numbered, Places

-----------------------------------------------------------------------------
(* Directories.  There is no directory without those above it, and no file,   *)
(* backup or temporary file without its directories; a run that writes a file *)
(* has seen to its directories before.                                        *)

Upright(ds) ==
  \A f \in File : \A i \in 1..Len(Parents[f]) : Parents[f][i] \in ds => \A k \in 1..i : Parents[f][k] \in ds
Housed(files, ds, left, saved) ==
  \A f \in File : files[f].text # Absent \/ f \in left \/ (\E b \in saved : b.file = f) => Dirs(f) \subseteq ds
Blank(files) == \A f \in File : files[f].text = Absent => files[f] = Nothing

Hooks == {"none", "ours", "other"}
Workspaces == [File -> Content] \X (SUBSET Dir) \X (SUBSET File) \X (SUBSET Backup) \X Hooks
Was == before[1]
WasDirs == before[2]
WasStray == before[3]
WasBackups == before[4]
WasHooks == before[5]

Grounded ==
  /\ dirs \subseteq Dir /\ stray \subseteq File /\ hooks \in Hooks
  /\ Upright(dirs) /\ Housed(disk, dirs, stray, backups) /\ Blank(disk)
  /\ \A b \in backups : b.run <= runs /\ b.was.text # Absent

Staged ==
  /\ cmd.created \in Seq(Dir) /\ cmd.temps \subseteq File
  /\ \A f \in cmd.temps : Dirs(f) \subseteq dirs
  /\ cmd.stage \in {"rollback", "rmdirs"} => cmd.temps = {}
  /\ cmd.stage = "staging" => \A i \in 1..(cmd.pos - 1) : Writes(Plan[i]) => Dirs(Plan[i]) \subseteq dirs
  /\ cmd.stage \in {"commit", "between"} => \A f \in File : Writes(f) => Dirs(f) \subseteq dirs

\* The same of the workspace a run found.
Remembered ==
  /\ before \in Workspaces
  /\ Upright(WasDirs) /\ Housed(Was, WasDirs, WasStray, WasBackups) /\ Blank(Was)
  /\ \A b \in WasBackups : b.run <= runs /\ (cmd.stage # "idle" => b.run < runs)

House == Grounded /\ Staged /\ Remembered

LEMMA Least ==
  ASSUME NEW T, T \subseteq Nat, T # {}
  PROVE  \E m \in T : \A n \in T : m <= n
<1> DEFINE R == OpToRel(<, Nat)
<1>1. IsWellFoundedOn(R, Nat)
  BY NatLessThanWellFounded
<1>2. \A x, y \in Nat : <<y, x>> \in R <=> y < x
  BY DEF OpToRel
<1> HIDE DEF R
<1>3. PICK m \in T : \A n \in T : ~(<<n, m>> \in R)
  BY <1>1, WFMin
<1>4. m \in Nat /\ \A n \in T : n \in Nat /\ ~(n < m)
  BY <1>2, <1>3
<1> QED  BY <1>3, <1>4

\* A file lies in directories.
LEMMA ParentsTyped == \A f \in File : Parents[f] \in Seq(Dir) /\ Len(Parents[f]) \in Nat
BY PlanAssumption

\* A directory is equally deep above all files that it is above.
LEMMA SameLevel ==
  \A f, g \in File : \A i \in 1..Len(Parents[f]), j \in 1..Len(Parents[g]) :
    Parents[f][i] = Parents[g][j] => i = j
BY TreeAssumption

\* The directories that are missing are the innermost ones, from the first that is.
LEMMA MissingIs ==
  ASSUME NEW f \in File
  PROVE  \E n \in 0..Len(Parents[f]) :
           /\ n > 0 => Parents[f][n] \in dirs
           /\ \A i \in (n + 1)..Len(Parents[f]) : Parents[f][i] \notin dirs
           /\ Missing(f) \in Seq(Dir) /\ Len(Missing(f)) = Len(Parents[f]) - n
           /\ \A i \in 1..(Len(Parents[f]) - n) : Missing(f)[i] = Parents[f][n + i]
<1> DEFINE Last(n) == /\ n > 0 => Parents[f][n] \in dirs
                      /\ \A i \in (n + 1)..Len(Parents[f]) : Parents[f][i] \notin dirs
           T == {n \in 0..Len(Parents[f]) : \A i \in (n + 1)..Len(Parents[f]) : Parents[f][i] \notin dirs}
<1>1. Parents[f] \in Seq(Dir) /\ Len(Parents[f]) \in Nat
  BY ParentsTyped
<1>2. Len(Parents[f]) \in T /\ T \subseteq Nat
  BY <1>1
<1>3. PICK m \in T : \A n \in T : m <= n
  <2> HIDE DEF T
  <2> QED  BY <1>2, Least
<1>4. Last(m)
  <2>1. ASSUME m > 0, Parents[f][m] \notin dirs
        PROVE  FALSE
    <3>1. m - 1 \in T
      BY <1>1, <1>3, <2>1
    <3>2. m <= m - 1
      BY <1>3, <3>1
    <3> QED  BY <1>1, <1>3, <3>2
  <2> QED  BY <1>3, <2>1
<1>5. PICK n : n = CHOOSE x \in 0..Len(Parents[f]) : Last(x)
  OBVIOUS
<1>6. n \in 0..Len(Parents[f]) /\ Last(n)
  BY <1>3, <1>4, <1>5
<1>7. Missing(f) = SubSeq(Parents[f], n + 1, Len(Parents[f]))
  BY <1>5 DEF Missing
<1> QED  BY <1>1, <1>6, <1>7

\* A file's directories, or the outermost of them with those there were.
LEMMA UprightGrows ==
  ASSUME NEW ds, Upright(ds), NEW g \in File, NEW n \in 0..Len(Parents[g]), NEW new,
         \A d \in new : d \in ds \/ \E i \in 1..n : Parents[g][i] = d,
         \A i \in 1..n : Parents[g][i] \in new, ds \subseteq new
  PROVE  Upright(new)
<1> SUFFICES ASSUME NEW f \in File, NEW i \in 1..Len(Parents[f]), Parents[f][i] \in new, NEW k \in 1..i
             PROVE  Parents[f][k] \in new
  BY DEF Upright
<1>1. CASE Parents[f][i] \in ds
  BY <1>1 DEF Upright
<1>2. CASE Parents[f][i] \notin ds
  <2>1. PICK j \in 1..n : Parents[g][j] = Parents[f][i]
    BY <1>2
  <2>2. j \in 1..Len(Parents[g])
    BY ParentsTyped
  <2>3. i = j /\ Parents[f][k] = Parents[g][k]
    BY <2>1, <2>2, TreeAssumption
  <2>4. k \in 1..n
    BY <2>1, <2>3
  <2> QED  BY <2>3, <2>4
<1> QED  BY <1>1, <1>2

\* What staging a file makes of the directories.
LEMMA MakesDirs ==
  ASSUME Upright(dirs), NEW f \in File
  PROVE  /\ dirs \cup Dirs(f) = dirs \cup {Missing(f)[i] : i \in 1..Len(Missing(f))}
         /\ \A n \in 0..Len(Missing(f)) : Upright(dirs \cup {SubSeq(Missing(f), 1, n)[i] : i \in 1..n})
<1>1. PICK m \in 0..Len(Parents[f]) :
           /\ m > 0 => Parents[f][m] \in dirs
           /\ \A i \in (m + 1)..Len(Parents[f]) : Parents[f][i] \notin dirs
           /\ Missing(f) \in Seq(Dir) /\ Len(Missing(f)) = Len(Parents[f]) - m
           /\ \A i \in 1..(Len(Parents[f]) - m) : Missing(f)[i] = Parents[f][m + i]
  BY MissingIs
<1>2. Len(Parents[f]) \in Nat /\ \A k \in 1..m : Parents[f][k] \in dirs
  BY <1>1, ParentsTyped DEF Upright
<1>3. dirs \cup Dirs(f) = dirs \cup {Missing(f)[i] : i \in 1..Len(Missing(f))}
  <2>1. ASSUME NEW d \in Dirs(f), d \notin dirs
        PROVE  \E i \in 1..Len(Missing(f)) : d = Missing(f)[i]
    <3>1. PICK k \in 1..Len(Parents[f]) : d = Parents[f][k]
      BY <2>1 DEF Dirs
    <3>2. k \notin 1..m
      BY <1>2, <2>1, <3>1
    <3>3. k - m \in 1..Len(Missing(f)) /\ Missing(f)[k - m] = d
      BY <1>1, <1>2, <3>1, <3>2
    <3> QED  BY <3>3
  <2>2. ASSUME NEW i \in 1..Len(Missing(f))
        PROVE  Missing(f)[i] \in Dirs(f)
    <3>1. m + i \in 1..Len(Parents[f]) /\ Missing(f)[i] = Parents[f][m + i]
      BY <1>1, <1>2
    <3> QED  BY <3>1 DEF Dirs
  <2> QED  BY <2>1, <2>2
<1>4. ASSUME NEW n \in 0..Len(Missing(f))
      PROVE  Upright(dirs \cup {SubSeq(Missing(f), 1, n)[i] : i \in 1..n})
  <2> DEFINE new == dirs \cup {SubSeq(Missing(f), 1, n)[i] : i \in 1..n}
  <2>1. \A i \in 1..n : SubSeq(Missing(f), 1, n)[i] = Parents[f][m + i]
    BY <1>1, <1>2
  <2>2. m + n \in 0..Len(Parents[f])
    BY <1>1, <1>2
  <2>3. \A d \in new : d \in dirs \/ \E i \in 1..(m + n) : Parents[f][i] = d
    <3> SUFFICES ASSUME NEW i \in 1..n
                 PROVE  \E j \in 1..(m + n) : Parents[f][j] = SubSeq(Missing(f), 1, n)[i]
      OBVIOUS
    <3>1. m + i \in 1..(m + n)
      BY <1>1
    <3> QED  BY <2>1, <3>1
  <2>4. \A i \in 1..(m + n) : Parents[f][i] \in new
    <3> SUFFICES ASSUME NEW i \in 1..(m + n), i \notin 1..m
                 PROVE  \E j \in 1..n : Parents[f][i] = SubSeq(Missing(f), 1, n)[j]
      BY <1>2
    <3>1. i - m \in 1..n /\ m + (i - m) = i
      BY <1>1
    <3> QED  BY <2>1, <3>1
  <2> HIDE DEF new
  <2>5. dirs \subseteq new
    BY DEF new
  <2>6. Upright(new)
    BY <2>2, <2>3, <2>4, <2>5, UprightGrows
  <2> QED  BY <2>6 DEF new
<1> QED  BY <1>3, <1>4

\* The run stays in one stage, or reaches one for which nothing has to be staged.
LEMMA StagedStays ==
  ASSUME Staged, dirs \subseteq dirs', cmd'.created \in Seq(Dir), cmd'.temps \subseteq cmd.temps, cmd'.plan = cmd.plan,
         cmd'.stage \in {"rollback", "rmdirs"} => cmd'.temps = {},
         cmd'.stage # "staging", cmd'.stage \in {"commit", "between"} => cmd.stage \in {"commit", "between"}
  PROVE  Staged'
BY DEF Staged, Writes

LEMMA StagedIdle ==
  ASSUME cmd' = Idle
  PROVE  Staged'
<1>1. cmd'.created = << >> /\ cmd'.temps = {} /\ cmd'.stage = "idle"
  BY DEF Idle
<1> QED  BY <1>1 DEF Staged

LEMMA RememberedStays ==
  ASSUME Remembered, UNCHANGED <<before, runs>>, cmd'.stage # "idle" => cmd.stage # "idle"
  PROVE  Remembered'
BY DEF Remembered, Upright, Housed, Blank, Was, WasDirs, WasStray, WasBackups

\* One file changes, or is moved to a backup or back.
LEMMA GroundedMoves ==
  ASSUME Types, Grounded, UNCHANGED <<dirs, stray, hooks, runs>>, NEW f0 \in File, Dirs(f0) \subseteq dirs,
         \A f \in File : f # f0 => disk'[f] = disk[f], disk'[f0].text = Absent => disk'[f0] = Nothing,
         \A b \in backups' : b \in backups \/ (b.file = f0 /\ b.run = runs /\ b.was.text # Absent)
  PROVE  Grounded'
<1>1. \A b \in backups' : b.run <= runs /\ b.was.text # Absent
  BY DEF Grounded, Types
<1>2. Blank(disk)'
  BY DEF Grounded, Blank
<1>3. Housed(disk, dirs, stray, backups)'
  <2> SUFFICES ASSUME NEW f \in File, f # f0,
                      disk'[f].text # Absent \/ f \in stray \/ (\E b \in backups' : b.file = f)
               PROVE  Dirs(f) \subseteq dirs
    BY DEF Housed
  <2>1. disk[f].text # Absent \/ f \in stray \/ (\E b \in backups : b.file = f)
    OBVIOUS
  <2> QED  BY <2>1 DEF Grounded, Housed
<1> QED  BY <1>1, <1>2, <1>3 DEF Grounded, Upright

\* A file that is there, one of which there is a backup, and one that has been staged.
LEMMA HasDirs ==
  ASSUME House, NEW f \in File,
         \/ disk[f].text # Absent
         \/ \E b \in backups : b.file = f
         \/ cmd.stage \in {"commit", "between"} /\ Writes(f)
  PROVE  Dirs(f) \subseteq dirs
BY DEF House, Grounded, Staged, Housed

LEMMA BeginHouse ==
  ASSUME IInv, House, NEW force \in BOOLEAN, Begin(force)
  PROVE  House'
<1> DEFINE plan == [f \in File |-> ActionFor(f, force)]
<1>1. cmd' = [stage |-> "staging", plan |-> plan, pos |-> 1, created |-> << >>, temps |-> {}, done |-> << >>]
  BY DEF Begin, Idle
<1> HIDE DEF plan
<1>2. cmd'.created = << >> /\ cmd'.temps = {} /\ cmd'.stage = "staging" /\ cmd'.pos = 1
  BY <1>1
<1>3. Staged'
  BY <1>2 DEF Staged
<1>4. UNCHANGED <<disk, dirs, stray, backups, hooks>> /\ runs' = runs + 1
  BY DEF Begin, work
<1>5. runs \in Nat /\ \A b \in backups : b.run \in Nat /\ b.run <= runs
  BY DEF IInv, Types, House, Grounded, Backup
<1>6. Grounded'
  BY <1>4, <1>5 DEF House, Grounded, Upright, Housed, Blank
<1>7. before' = <<disk, dirs, stray, backups, hooks>>
  BY DEF Begin, work
<1>8. before' \in Workspaces
  BY <1>7 DEF House, Grounded, IInv, Types, Workspaces
<1>9. Was' = disk /\ WasDirs' = dirs /\ WasStray' = stray /\ WasBackups' = backups
  BY <1>7 DEF Was, WasDirs, WasStray, WasBackups
<1>10. Remembered'
  <2>1. \A b \in WasBackups' : b.run <= runs' /\ b.run < runs'
    BY <1>4, <1>5, <1>9
  <2>2. Upright(WasDirs)' /\ Housed(Was, WasDirs, WasStray, WasBackups)' /\ Blank(Was)'
    BY <1>9 DEF House, Grounded, Upright, Housed, Blank
  <2> QED  BY <1>8, <2>1, <2>2 DEF Remembered
<1> QED  BY <1>3, <1>6, <1>10 DEF House

LEMMA StageHouse ==
  ASSUME IInv, House, Stage
  PROVE  House'
<1>1. Types /\ Now \in File /\ Plan \in Seq(File)
  BY NowIsFile, PlanAssumption DEF IInv
<1>2. UNCHANGED <<disk, stray, backups, hooks, runs, before>>
  BY DEF Stage, history
<1>3. Upright(dirs) /\ dirs' = dirs \cup (IF Writes(Now) THEN Dirs(Now) ELSE {}) /\ dirs' \subseteq Dir
  BY <1>1, ParentsTyped DEF Stage, House, Grounded, Dirs
<1>4. Upright(dirs')
  <2>1. CASE Writes(Now)
    <3>0. Missing(Now) \in Seq(Dir) /\ Len(Missing(Now)) \in 0..Len(Missing(Now))
      BY <1>1, MissingIs
    <3>1. /\ Upright(dirs \cup {SubSeq(Missing(Now), 1, Len(Missing(Now)))[i] : i \in 1..Len(Missing(Now))})
          /\ dirs \cup Dirs(Now) = dirs \cup {Missing(Now)[i] : i \in 1..Len(Missing(Now))}
      BY <1>1, <1>3, <3>0, MakesDirs
    <3>2. \A i \in 1..Len(Missing(Now)) : SubSeq(Missing(Now), 1, Len(Missing(Now)))[i] = Missing(Now)[i]
      BY <3>0
    <3>3. {SubSeq(Missing(Now), 1, Len(Missing(Now)))[i] : i \in 1..Len(Missing(Now))} = {Missing(Now)[i] : i \in 1..Len(Missing(Now))}
      BY <3>2
    <3> QED  BY <1>3, <2>1, <3>1, <3>3
  <2> QED  BY <1>3, <2>1
<1>5. Grounded'
  BY <1>2, <1>3, <1>4 DEF House, Grounded, Housed, Blank, Upright
<1>6. Remembered'
  BY <1>1, <1>2, StageCommand, RememberedStays DEF House
<1>7. Staged'
  <2>1. cmd'.created \in Seq(Dir) /\ cmd'.temps \subseteq File
    <3>1. Missing(Now) \in Seq(Dir) /\ cmd.created \in Seq(Dir)
      BY <1>1, MissingIs DEF House, Staged
    <3>2. cmd.created \o Missing(Now) \in Seq(Dir)
      BY <3>1
    <3> QED  BY <1>1, <3>1, <3>2, StageCommand DEF House, Staged
  <2>2. \A f \in cmd'.temps : Dirs(f) \subseteq dirs'
    BY <1>1, <1>3, StageCommand DEF House, Staged
  <2>3. \A i \in 1..cmd.pos : Writes(Plan[i])' => Dirs(Plan[i]) \subseteq dirs'
    <3> SUFFICES ASSUME NEW i \in 1..cmd.pos, Writes(Plan[i])
                 PROVE  Dirs(Plan[i]) \subseteq dirs'
      BY <1>1, StageCommand DEF Writes
    <3>1. CASE i = cmd.pos
      BY <1>3, <3>1 DEF Now
    <3>2. CASE i # cmd.pos
      <4>1. i \in 1..(cmd.pos - 1) /\ cmd.stage = "staging"
        BY <1>1, <3>2, PlanNat, StageCommand DEF Types, Command
      <4> QED  BY <1>3, <4>1 DEF House, Staged
    <3> QED  BY <3>1, <3>2
  <2>4. CASE cmd'.stage = "staging"
    <3>1. cmd'.pos = cmd.pos + 1 /\ cmd.pos \in Nat
      BY <1>1, <2>4, PlanNat, StageCommand DEF Types, Command
    <3> QED  BY <2>1, <2>2, <2>3, <2>4, <3>1 DEF Staged
  <2>5. CASE cmd'.stage = "commit"
    <3>1. cmd.pos = Len(Plan)
      BY <1>1, <2>5, StageCommand
    <3>2. \A f \in File : Writes(f)' => Dirs(f) \subseteq dirs'
      BY <2>3, <3>1 DEF File
    <3> QED  BY <2>1, <2>2, <2>5, <3>2 DEF Staged
  <2> QED  BY <1>1, <2>4, <2>5, StageCommand
<1> QED  BY <1>5, <1>6, <1>7 DEF House

LEMMA StageFailsHouse ==
  ASSUME IInv, House, StageFails
  PROVE  House'
<1>1. Types /\ Now \in File
  BY NowIsFile DEF IInv
<1>2. UNCHANGED <<disk, stray, backups, hooks, runs, before>>
  BY DEF StageFails, history
<1>3. PICK n \in 0..Len(Missing(Now)), part \in SUBSET {Now} :
        /\ n < Len(Missing(Now)) => part = {}
        /\ dirs' = dirs \cup {SubSeq(Missing(Now), 1, n)[i] : i \in 1..n}
        /\ cmd'.created = cmd.created \o SubSeq(Missing(Now), 1, n) /\ cmd'.temps = cmd.temps \cup part
  BY <1>1, StageFailsCommand
<1>4. Upright(dirs) /\ Missing(Now) \in Seq(Dir) /\ Len(Missing(Now)) \in Nat
  BY <1>1, MissingIs DEF House, Grounded
<1>5. Upright(dirs')
  BY <1>1, <1>3, <1>4, MakesDirs
<1>6. /\ SubSeq(Missing(Now), 1, n) \in Seq(Dir) /\ dirs' \subseteq Dir
      /\ \A i \in 1..n : SubSeq(Missing(Now), 1, n)[i] = Missing(Now)[i]
  BY <1>3, <1>4 DEF House, Grounded
<1>7. Grounded'
  BY <1>2, <1>3, <1>5, <1>6 DEF House, Grounded, Housed, Blank, Upright
<1>8. Remembered'
  BY <1>1, <1>2, StageFailsCommand, RememberedStays DEF House
<1>9. part # {} => Dirs(Now) \subseteq dirs'
  <2>1. n = Len(Missing(Now)) => dirs' = dirs \cup {Missing(Now)[i] : i \in 1..n}
    BY <1>3, <1>6
  <2> QED  BY <1>1, <1>3, <1>4, <2>1, MakesDirs
<1>10. Staged'
  <2>1. cmd'.stage = "cleanup" /\ cmd'.created \in Seq(Dir) /\ cmd'.temps \subseteq File
    BY <1>1, <1>3, <1>6, StageFailsCommand DEF House, Staged
  <2>2. \A f \in cmd'.temps : Dirs(f) \subseteq dirs'
    BY <1>3, <1>9 DEF House, Staged
  <2> QED  BY <2>1, <2>2 DEF Staged
<1> QED  BY <1>7, <1>8, <1>10 DEF House

LEMMA QuietHouse ==
  ASSUME IInv, House, LeaveAlone \/ CommitFails \/ Activate \/ Cleanup \/ RolledBack \/ Fail \/ Die
  PROVE  House'
<1>1. Types /\ Quiet
  BY DEF IInv, Quiet
<1>2. UNCHANGED <<disk, backups, runs, before>> /\ dirs' = dirs
  BY <1>1, QuietKeeps DEF LeaveAlone, CommitFails, Activate, Cleanup, RolledBack, Fail, Die, work
<1>3. Remembered'
  <2>1. cmd'.stage # "idle" => cmd.stage # "idle"
    BY <1>1, QuietKeeps, IdleTyped
  <2> QED  BY <1>2, <2>1, RememberedStays DEF House
<1>4. hooks' \in Hooks /\ \E left \in SUBSET cmd.temps : stray' = stray \cup left
  <2>1. CASE LeaveAlone \/ CommitFails \/ RolledBack \/ Fail
    <3>1. hooks' = hooks /\ stray' = stray \cup {}
      BY <2>1 DEF LeaveAlone, CommitFails, RolledBack, Fail, work
    <3> QED  BY <3>1 DEF House, Grounded
  <2>2. CASE Activate
    <3>1. hooks' \in Hooks /\ stray' = stray \cup {}
      BY <2>2 DEF Activate, House, Grounded, Hooks
    <3> QED  BY <3>1
  <2>3. CASE Cleanup \/ Die
    BY <2>3 DEF Cleanup, Die, House, Grounded
  <2> QED  BY <2>1, <2>2, <2>3
<1>5. Grounded'
  BY <1>2, <1>4 DEF House, Grounded, Staged, Upright, Housed, Blank
<1>6. CASE Activate \/ Fail \/ Die
  BY <1>3, <1>5, <1>6, StagedIdle DEF Activate, Fail, Die, House
<1>7. CASE LeaveAlone \/ CommitFails \/ RolledBack
  <2>1. /\ cmd'.plan = cmd.plan /\ cmd'.created = cmd.created /\ cmd'.temps = cmd.temps
        /\ cmd'.stage \in {"rollback", "rmdirs"} => cmd.stage = "rollback"
        /\ cmd'.stage # "staging" /\ (cmd'.stage \in {"commit", "between"} => cmd.stage = "commit")
    BY <1>1, <1>7, LeaveAloneCommand, NextStageCommand
  <2>2. Staged'
    BY <1>2, <2>1, StagedStays DEF House, Staged
  <2> QED  BY <1>3, <1>5, <2>2 DEF House
<1>8. CASE Cleanup
  <2>1. Staged'
    BY <1>1, <1>2, <1>8, CleanupCommand, StagedStays DEF House, Staged
  <2> QED  BY <1>3, <1>5, <2>1 DEF House
<1> QED  BY <1>6, <1>7, <1>8

\* A directory goes only if nothing is in it.
LEMMA EmptyDirGoes ==
  ASSUME Grounded, NEW d, ~InUse(d), dirs' = dirs \ {d}, UNCHANGED <<disk, stray, backups, hooks, runs>>
  PROVE  Grounded'
<1>1. Upright(dirs)'
  <2> SUFFICES ASSUME NEW f \in File, NEW i \in 1..Len(Parents[f]), Parents[f][i] \in dirs, NEW k \in 1..i, Parents[f][k] = d, k # i
               PROVE  FALSE
    BY DEF Grounded, Upright
  <2>1. k + 1 \in 1..i /\ k + 1 \in 2..Len(Parents[f]) /\ Parents[f][(k + 1) - 1] = d
    BY ParentsTyped
  <2>2. Parents[f][k + 1] \in dirs
    BY <2>1 DEF Grounded, Upright
  <2>3. d \in Dirs(f)
    BY ParentsTyped DEF Dirs
  <2> QED  BY <2>1, <2>2, <2>3 DEF InUse
<1>2. Housed(disk, dirs, stray, backups)'
  BY DEF Grounded, Housed, InUse
<1> QED  BY <1>1, <1>2 DEF Grounded, Blank

LEMMA RemoveDirHouse ==
  ASSUME IInv, House, RemoveDir
  PROVE  House'
<1>1. Types /\ UNCHANGED <<disk, stray, backups, hooks, runs, before>>
  BY DEF IInv, RemoveDir
<1>2. Grounded'
  <2>1. CASE dirs' = dirs
    BY <1>1, <2>1 DEF House, Grounded, Upright, Housed, Blank
  <2>2. CASE ~InUse(LastDir) /\ dirs' = dirs \ {LastDir}
    BY <1>1, <2>2, EmptyDirGoes DEF House
  <2> QED  BY <2>1, <2>2 DEF RemoveDir
<1>3. Remembered'
  BY <1>1, RemoveDirCommand, RememberedStays DEF House
<1>4. cmd'.created \in Seq(Dir)
  <2>1. cmd.created \in Seq(Dir) /\ cmd.created # << >>
    BY DEF House, Staged, RemoveDir
  <2>2. Len(cmd.created) \in Nat /\ Len(cmd.created) > 0
    BY <2>1, EmptySeq, LenProperties
  <2> QED  BY <1>1, <2>1, <2>2, RemoveDirCommand
<1>5. Staged'
  <2>1. cmd'.stage = "rmdirs" /\ cmd'.temps = {}
    BY <1>1, RemoveDirCommand DEF House, Staged
  <2> QED  BY <1>4, <2>1 DEF Staged
<1> QED  BY <1>2, <1>3, <1>5 DEF House

LEMMA CommitHouse ==
  ASSUME IInv, House, Create \/ Replace \/ MakeExecutable
  PROVE  House'
<1>1. /\ Types /\ Now \in File /\ cmd.stage \in {"commit", "between"}
      /\ UNCHANGED <<dirs, stray, backups, hooks, runs, before>> /\ cmd' = Done(cmd)
  BY NowIsFile DEF IInv, Create, Replace, MakeExecutable, Commit, history
<1>2. Dirs(Now) \subseteq dirs
  <2>1. Writes(Now) \/ disk[Now].text # Absent
    BY DEF IInv, Safe, Create, Replace, MakeExecutable, Commit, Writes
  <2> QED  BY <1>1, <2>1, HasDirs
<1>3. (\A f \in File : f # Now => disk'[f] = disk[f]) /\ disk'[Now].text # Absent
  BY <1>1, TextAssumption DEF Types, Content, Installed, Text, Create, Replace, MakeExecutable
<1>4. Grounded'
  BY <1>1, <1>2, <1>3, GroundedMoves DEF House
<1>5. /\ cmd'.plan = cmd.plan /\ cmd'.created = cmd.created /\ cmd'.temps \subseteq cmd.temps
      /\ cmd'.stage \in {"commit", "hook"}
  BY <1>1, DoneKeeps
<1>6. Staged' /\ Remembered'
  BY <1>1, <1>5, StagedStays, RememberedStays DEF House, Staged
<1> QED  BY <1>4, <1>6 DEF House

LEMMA BackUpHouse ==
  ASSUME IInv, House, BackUp \/ Restore
  PROVE  House'
<1>1. Types /\ Now \in File /\ cmd.stage \in {"commit", "between"} /\ UNCHANGED <<dirs, stray, hooks, runs, before>>
  BY NowIsFile DEF IInv, BackUp, Restore, Commit, history
<1>2. PICK x \in {"between", "cleanup"} : cmd' = [cmd EXCEPT !.stage = x]
  BY DEF BackUp, Restore
<1>3. /\ cmd'.plan = cmd.plan /\ cmd'.created = cmd.created /\ cmd'.temps = cmd.temps
      /\ cmd'.stage = x
  BY <1>1, <1>2, SetStage DEF Types, Stages, Rest
<1>4. Staged' /\ Remembered'
  BY <1>1, <1>3, StagedStays, RememberedStays DEF House, Staged
<1>5. CASE BackUp
  <2>1. /\ disk' = [disk EXCEPT ![Now] = Nothing] /\ disk[Now].text # Absent
        /\ \A b \in backups' : b \in backups \/ (b.file = Now /\ b.run = runs /\ b.was.text # Absent)
    BY <1>5 DEF BackUp
  <2>2. Dirs(Now) \subseteq dirs /\ disk'[Now] = Nothing /\ \A f \in File : f # Now => disk'[f] = disk[f]
    BY <1>1, <2>1, HasDirs DEF Types
  <2>3. Grounded'
    BY <1>1, <2>1, <2>2, GroundedMoves DEF House
  <2> QED  BY <1>4, <2>3 DEF House
<1>6. CASE Restore /\ UNCHANGED <<disk, backups>>
  <2>1. Grounded'
    BY <1>1, <1>6 DEF House, Grounded, Upright, Housed, Blank
  <2> QED  BY <1>4, <2>1 DEF House
<1>7. ASSUME NEW b \in backups, b.file = Now, disk' = [disk EXCEPT ![Now] = b.was], backups' = backups \ {b}
      PROVE  House'
  <2>1. Dirs(Now) \subseteq dirs
    BY <1>1, <1>7, HasDirs
  <2>2. disk'[Now].text # Absent /\ \A f \in File : f # Now => disk'[f] = disk[f]
    BY <1>1, <1>7 DEF Types, House, Grounded
  <2>3. Grounded'
    BY <1>1, <1>7, <2>1, <2>2, GroundedMoves DEF House
  <2> QED  BY <1>4, <2>3 DEF House
<1> QED  BY <1>5, <1>6, <1>7 DEF Restore

\* What becomes of the file whose action is undone, or not.
LEMMA RollbackMoves ==
  ASSUME Types, Rollback \/ RollbackFails, NEW g \in File, g = LastDone.file
  PROVE  /\ \A f \in File : f # g => disk'[f] = disk[f]
         /\ \/ RollbackFails /\ backups' = backups /\ disk'[g] \in {disk[g], Nothing}
            \/ LastDone.action = "create" /\ backups' = backups /\ disk[g].text # Absent /\ disk'[g] = Nothing
            \/ LastDone.action = "replace" /\ \E b \in backups :
                 b.file = g /\ b.run = runs /\ disk'[g] = b.was /\ backups' = backups \ {b}
            \/ /\ LastDone.action \notin {"create", "replace"} /\ backups' = backups /\ disk[g].text # Absent
               /\ disk'[g] = [text |-> disk[g].text, exec |-> FALSE]
<1>1. CASE RollbackFails
  BY <1>1 DEF RollbackFails, Types
<1>2. CASE Rollback /\ LastDone.action = "create"
  BY <1>2 DEF Rollback, Undo, Types
<1>3. CASE Rollback /\ LastDone.action = "replace"
  BY <1>3 DEF Rollback, Undo, Types
<1>4. CASE Rollback /\ LastDone.action \notin {"create", "replace"}
  <2>1. disk' = [disk EXCEPT ![g].exec = FALSE] /\ backups' = backups /\ disk[g].text # Absent
    BY <1>4 DEF Rollback, Undo
  <2>2. PICK e \in Content : e = disk[g]
    BY DEF Types
  <2>3. [e EXCEPT !.exec = FALSE] = [text |-> e.text, exec |-> FALSE]
    <3>1. PICK c : c = [e EXCEPT !.exec = FALSE]
      OBVIOUS
    <3>2. c \in Content /\ c.text = e.text /\ c.exec = FALSE
      BY <3>1 DEF Content
    <3>3. c = [text |-> c.text, exec |-> c.exec]
      BY <3>2 DEF Content
    <3> QED  BY <3>1, <3>2, <3>3
  <2> QED  BY <1>4, <2>1, <2>2, <2>3 DEF Types
<1> QED  BY <1>1, <1>2, <1>3, <1>4

LEMMA RollbackHouse ==
  ASSUME IInv, House, Rollback \/ RollbackFails
  PROVE  House'
<1>1. PICK g : g = LastDone.file
  OBVIOUS
<1>2. /\ Types /\ cmd.stage = "rollback" /\ cmd.done # << >> /\ cmd' = Popped(cmd)
      /\ UNCHANGED <<dirs, stray, hooks, runs, before>>
  BY DEF Rollback, RollbackFails, history, IInv
<1>3. /\ g \in File /\ cmd'.stage = "rollback" /\ cmd'.plan = cmd.plan
      /\ cmd'.created = cmd.created /\ cmd'.temps = cmd.temps
  BY <1>1, <1>2, PoppedKeeps DEF DoneAction
<1>4. Staged' /\ Remembered'
  BY <1>2, <1>3, StagedStays, RememberedStays DEF House, Staged
<1>5. CASE \E f \in File : disk'[f] # disk[f] \/ backups' # backups
  <2>1. \A f \in File : f # g => disk'[f] = disk[f]
    BY <1>1, <1>2, <1>3, RollbackMoves
  <2>2. disk'[g].text = Absent => disk'[g] = Nothing
    <3>1. disk[g].text = Absent => disk[g] = Nothing
      BY <1>3 DEF House, Grounded, Blank
    <3>2. \A b \in backups : b.was.text # Absent
      BY DEF House, Grounded
    <3>3. \/ disk'[g] \in {disk[g], Nothing} \/ (\E b \in backups : disk'[g] = b.was)
          \/ (disk[g].text # Absent /\ disk'[g] = [text |-> disk[g].text, exec |-> FALSE])
      BY <1>1, <1>2, <1>3, RollbackMoves
    <3> QED  BY <3>1, <3>2, <3>3
  <2>3. backups' \subseteq backups
    BY <1>1, <1>2, <1>3, RollbackMoves
  <2>4. disk[g].text # Absent \/ (\E b \in backups : b.file = g) \/ disk'[g] = disk[g]
    <3>1. disk[g].text = Absent => disk[g] = Nothing
      BY <1>3 DEF House, Grounded, Blank
    <3> QED  BY <1>1, <1>2, <1>3, <3>1, RollbackMoves
  <2>5. CASE Dirs(g) \subseteq dirs
    BY <1>2, <1>3, <1>4, <2>1, <2>2, <2>3, <2>5, GroundedMoves DEF House
  <2>6. CASE ~(Dirs(g) \subseteq dirs)
    <3>1. disk'[g] = disk[g]
      BY <1>3, <2>4, <2>6, HasDirs
    <3>2. Grounded'
      BY <1>2, <2>1, <2>3, <3>1 DEF House, Grounded, Upright, Housed, Blank
    <3> QED  BY <1>4, <3>2 DEF House
  <2> QED  BY <2>5, <2>6
<1>6. CASE ~(\E f \in File : disk'[f] # disk[f] \/ backups' # backups)
  <2>1. Grounded'
    BY <1>2, <1>3, <1>6 DEF House, Grounded, Upright, Housed, Blank
  <2> QED  BY <1>4, <2>1 DEF House
<1> QED  BY <1>5, <1>6

LEMMA EditHouse ==
  ASSUME IInv, House, NEW f0 \in File, NEW t \in UserText \cup {Absent}, Edit(f0, t)
  PROVE  House'
<1>1. UNCHANGED <<stray, backups, hooks, cmd, runs, before>> /\ Types
  BY DEF Edit, IInv
<1>2. Remembered'
  BY <1>1, RememberedStays DEF House
<1>3. dirs' = dirs \cup (IF t = Absent THEN {} ELSE Dirs(f0)) /\ dirs' \subseteq Dir
  BY ParentsTyped DEF Edit, House, Grounded, Dirs
<1>4. Staged'
  BY <1>1, <1>3 DEF House, Staged, Writes
<1>5. Upright(dirs)'
  <2>1. CASE t = Absent
    BY <1>3, <2>1 DEF House, Grounded, Upright
  <2>2. CASE t # Absent
    <3>1. /\ Len(Parents[f0]) \in 0..Len(Parents[f0]) /\ Upright(dirs) /\ dirs' = dirs \cup Dirs(f0)
          /\ \A d \in Dirs(f0) : \E i \in 1..Len(Parents[f0]) : Parents[f0][i] = d
          /\ \A i \in 1..Len(Parents[f0]) : Parents[f0][i] \in Dirs(f0)
      BY <1>3, <2>2, ParentsTyped DEF House, Grounded, Dirs
    <3>2. Upright(dirs')
      BY <3>1, UprightGrows
    <3> QED  BY <3>2 DEF Upright
  <2> QED  BY <2>1, <2>2
<1>6. /\ \A f \in File : f # f0 => disk'[f] = disk[f]
      /\ t = Absent => disk'[f0] = Nothing
      /\ t # Absent => disk'[f0].text # Absent
  <2>1. \A f \in File : f # f0 => disk'[f] = disk[f]
    BY <1>1 DEF Edit, Types
  <2>2. t = Absent => disk'[f0] = Nothing
    BY <1>1 DEF Edit, Types
  <2>3. t # Absent => disk'[f0].text = t
    BY <1>1 DEF Edit, Types, Content
  <2> QED  BY <2>1, <2>2, <2>3
<1>7. Housed(disk, dirs, stray, backups)' /\ Blank(disk)'
  BY <1>1, <1>3, <1>6 DEF House, Grounded, Housed, Blank, Nothing
<1>8. Grounded'
  BY <1>1, <1>3, <1>5, <1>7 DEF House, Grounded
<1> QED  BY <1>2, <1>4, <1>8 DEF House

LEMMA InitHouse == Init => House
<1> SUFFICES ASSUME Init PROVE House
  OBVIOUS
<1>1. cmd.created = << >> /\ cmd.temps = {} /\ cmd.stage = "idle" /\ backups = {} /\ stray = {} /\ runs = 0
  BY DEF Init, Idle
<1>2. Staged
  BY <1>1 DEF Staged
<1>3. Upright(dirs)
  <2> SUFFICES ASSUME NEW f \in File, NEW i \in 1..Len(Parents[f]), Parents[f][i] \in dirs, NEW k \in 1..i
               PROVE  Parents[f][k] \in dirs
    BY DEF Upright
  <2>1. PICK g \in File : disk[g].text # Absent /\ Parents[f][i] \in Dirs(g) /\ Dirs(g) \subseteq dirs
    BY DEF Init
  <2>2. PICK j \in 1..Len(Parents[g]) : Parents[g][j] = Parents[f][i]
    BY <2>1 DEF Dirs
  <2>3. Parents[f][k] = Parents[g][k] /\ k \in 1..Len(Parents[g])
    BY <2>2, TreeAssumption, ParentsTyped
  <2> QED  BY <2>1, <2>3 DEF Dirs
<1>4. dirs \subseteq Dir
  BY ParentsTyped DEF Init, Dirs
<1>5. Housed(disk, dirs, stray, backups)
  BY <1>1 DEF Init, Housed
<1>6. Blank(disk)
  <2> SUFFICES ASSUME NEW f \in File, disk[f].text = Absent PROVE disk[f] = Nothing
    BY DEF Blank
  <2>1. disk[f] \in [text : Text \cup {Absent, Foreign}, exec : {FALSE}]
    BY DEF Init
  <2> QED  BY <2>1 DEF Nothing
<1>7. Grounded
  BY <1>1, <1>3, <1>4, <1>5, <1>6 DEF Grounded, Init, Hooks
<1>8. before = <<disk, dirs, stray, backups, hooks>> /\ Types
  BY InitIInv DEF Init, work, IInv
<1>9. before \in Workspaces
  BY <1>7, <1>8 DEF Grounded, Types, Workspaces
<1>10. Was = disk /\ WasDirs = dirs /\ WasStray = stray /\ WasBackups = {}
  BY <1>1, <1>8 DEF Was, WasDirs, WasStray, WasBackups
<1>11. Remembered
  BY <1>1, <1>7, <1>9, <1>10 DEF Remembered, Grounded
<1> QED  BY <1>2, <1>7, <1>11 DEF House

LEMMA NextHouse ==
  ASSUME IInv, House, [Next]_vars
  PROVE  House'
<1>1. CASE UNCHANGED vars
  <2>1. UNCHANGED <<disk, dirs, stray, backups, hooks, cmd, runs, before>>
    BY <1>1 DEF vars, work, history
  <2>2. Grounded' /\ Staged'
    BY <2>1 DEF House, Grounded, Staged, Upright, Housed, Blank, Writes
  <2>3. Remembered'
    BY <2>1, RememberedStays DEF House
  <2> QED  BY <2>2, <2>3 DEF House
<1>2. ASSUME NEW f \in File, NEW t \in UserText \cup {Absent}, Edit(f, t) PROVE House'
  BY <1>2, EditHouse
<1>3. ASSUME NEW force \in BOOLEAN, Begin(force) PROVE House'
  BY <1>3, BeginHouse
<1> QED  BY <1>1, <1>2, <1>3, StageHouse, StageFailsHouse, QuietHouse, RemoveDirHouse, CommitHouse, BackUpHouse, RollbackHouse DEF Next

-----------------------------------------------------------------------------
(* The plan fits the workspace that the run found, and is carried out in      *)
(* order; a run that has got to the hook has failed in nothing.               *)

PlanFits(f) ==
  /\ cmd.plan[f] = "create" => Was[f] = Nothing
  /\ cmd.plan[f] = "make_executable" => Was[f] = [text |-> Default, exec |-> FALSE] /\ f \in Executable
  /\ cmd.plan[f] = "unchanged" => Was[f].text = Default /\ (f \in Executable => Was[f].exec)
DoneOrLeft(f) == cmd.plan[f] = "unchanged" \/ \E k \in Places : cmd.done[k].file = f
Planned ==
  /\ cmd.stage # "idle" => (\A f \in File : PlanFits(f)) /\ outcome = "running"
  /\ cmd.stage \in {"commit", "between"} => \A i \in 1..(cmd.pos - 1) : DoneOrLeft(Plan[i])
  /\ cmd.stage = "hook" => \A f \in File : DoneOrLeft(f)
  /\ cmd.stage = "rmdirs" => cmd.done = << >>
  /\ cmd.stage \in {"staging", "commit", "between", "hook"} => ~trouble

LEMMA BeginPlanned ==
  ASSUME IInv, House, NEW force \in BOOLEAN, Begin(force)
  PROVE  Planned' /\ cmd'.stage = "staging" /\ cmd'.done = << >> /\ cmd'.created = << >>
<1> DEFINE plan == [f \in File |-> ActionFor(f, force)]
<1>1. cmd' = [stage |-> "staging", plan |-> plan, pos |-> 1, created |-> << >>, temps |-> {}, done |-> << >>]
  BY DEF Begin, Idle
<1> HIDE DEF plan
<1>2. cmd'.plan = plan /\ cmd'.done = << >> /\ cmd'.created = << >> /\ cmd'.stage = "staging"
  BY <1>1
<1>3. Was' = disk /\ outcome' = "running" /\ trouble' = FALSE
  BY DEF Begin, work, Was
<1>4. \A f \in File : disk[f].text = Absent \/ Settled(f) \/ MayReplace(f, force)
  BY DEF Begin, Refused
<1>5. \A f \in File : PlanFits(f)'
  <2> SUFFICES ASSUME NEW f \in File PROVE PlanFits(f)'
    OBVIOUS
  <2>1. cmd'.plan[f] = ActionFor(f, force)
    BY <1>2 DEF plan
  <2>2. ActionFor(f, force) = "create" => disk[f] = Nothing
    BY DEF ActionFor, House, Grounded, Blank
  <2>3. ActionFor(f, force) = "make_executable" => disk[f] = [text |-> Default, exec |-> FALSE] /\ f \in Executable
    <3>1. disk[f] \in Content /\ (disk[f].text = Default /\ disk[f].exec = FALSE => disk[f] = [text |-> Default, exec |-> FALSE])
      BY DEF IInv, Types, Content
    <3> QED  BY <3>1 DEF ActionFor, Settled, NeedsBit, Content
  <2>4. ActionFor(f, force) = "unchanged" => disk[f].text = Default /\ (f \in Executable => disk[f].exec)
    BY <1>4, TextAssumption DEF ActionFor, Settled, MayReplace, NeedsBit
  <2> QED  BY <1>3, <2>1, <2>2, <2>3, <2>4 DEF PlanFits
<1> QED  BY <1>2, <1>3, <1>5 DEF Planned

\* A step other than of the loop over the plan.
LEMMA PlannedStays ==
  ASSUME Planned, UNCHANGED <<before, outcome>>, cmd'.plan = cmd.plan, cmd.stage # "idle",
         cmd'.stage \in {"staging", "cleanup", "rollback", "rmdirs"},
         cmd'.stage = "staging" => cmd.stage = "staging" /\ ~trouble', cmd'.stage = "rmdirs" => cmd'.done = << >>
  PROVE  Planned'
BY DEF Planned, PlanFits, Was

\* A step of the loop: the file the loop is at is done, or left.
LEMMA PlannedOn ==
  ASSUME IInv, Planned, UNCHANGED <<before, outcome, trouble>>, cmd'.plan = cmd.plan, NEW f0, f0 = Now,
         cmd.stage \in {"commit", "between"},
         \/ cmd'.stage \in {"commit", "between"} /\ cmd'.pos \in {cmd.pos, cmd.pos + 1}
         \/ cmd'.stage = "hook" /\ cmd.pos = Len(Plan),
         \A f : DoneOrLeft(f) => DoneOrLeft(f)',
         cmd'.stage = "hook" \/ cmd'.pos # cmd.pos => DoneOrLeft(f0)'
  PROVE  Planned'
<1>1. cmd.pos \in 1..Len(Plan) /\ Len(Plan) \in Nat
  BY PlanNat DEF IInv, Types, Command
<1>2. ASSUME NEW i \in 1..cmd.pos, i = cmd.pos => DoneOrLeft(f0)', NEW f, f = Plan[i]
      PROVE  DoneOrLeft(f)'
  <2>1. CASE i = cmd.pos
    BY <1>2, <2>1 DEF Now
  <2>2. CASE i # cmd.pos
    <3>1. i \in 1..(cmd.pos - 1)
      BY <1>1, <2>2
    <3> QED  BY <1>2, <3>1 DEF Planned
  <2> QED  BY <2>1, <2>2
<1>3. /\ \A f \in File : PlanFits(f)'
      /\ outcome' = "running" /\ ~trouble'
  BY DEF Planned, PlanFits, Was
<1>4. CASE cmd'.stage = "hook"
  <2>1. \A f \in File : DoneOrLeft(f)'
    <3> SUFFICES ASSUME NEW f \in File PROVE DoneOrLeft(f)'
      OBVIOUS
    <3>1. PICK i \in 1..Len(Plan) : f = Plan[i]
      BY DEF File
    <3>2. cmd.pos = Len(Plan) /\ DoneOrLeft(f0)'
      BY <1>4
    <3> QED  BY <1>2, <3>1, <3>2
  <2> QED  BY <1>3, <1>4, <2>1 DEF Planned
<1>5. CASE cmd'.stage \in {"commit", "between"}
  <2>1. ASSUME NEW i \in 1..(cmd'.pos - 1), NEW f, f = Plan[i]
        PROVE  DoneOrLeft(f)'
    <3>1. i \in 1..cmd.pos /\ (i = cmd.pos => cmd'.pos # cmd.pos)
      BY <1>1, <1>5
    <3> QED  BY <1>2, <2>1, <3>1
  <2>2. \A i \in 1..(cmd'.pos - 1) : DoneOrLeft(Plan[i])'
    BY <2>1
  <2> QED  BY <1>3, <1>5, <2>2 DEF Planned
<1> QED  BY <1>4, <1>5

LEMMA QuietPlanned ==
  ASSUME IInv, House, Planned, Quiet
  PROVE  Planned'
<1>1. Types /\ UNCHANGED before
  BY QuietKeeps DEF IInv
<1>2. CASE Activate \/ Fail \/ Die
  <2>1. cmd'.stage = "idle"
    BY <1>2, IdleTyped DEF Activate, Fail, Die
  <2> QED  BY <2>1 DEF Planned
<1>3. CASE Stage
  <2>1. UNCHANGED <<outcome, trouble>> /\ ~trouble /\ cmd.stage = "staging"
    BY <1>3 DEF Stage, history, Planned
  <2>2. cmd'.plan = cmd.plan /\ cmd'.stage \in {"staging", "commit"} /\ (cmd'.stage = "commit" => cmd'.pos = 1)
    BY <1>1, <1>3, StageCommand
  <2>3. (\A f \in File : PlanFits(f)') /\ outcome' = "running"
    BY <1>1, <2>1, <2>2 DEF Planned, PlanFits, Was
  <2>4. cmd'.stage = "commit" => \A i \in 1..(cmd'.pos - 1) : DoneOrLeft(Plan[i])'
    BY <2>2
  <2> QED  BY <2>1, <2>2, <2>3, <2>4 DEF Planned
<1>4. CASE StageFails \/ CommitFails \/ Cleanup \/ RolledBack \/ RemoveDir
  <2>1. outcome' = outcome
    BY <1>4 DEF StageFails, CommitFails, Cleanup, RolledBack, RemoveDir, history
  <2>2. cmd'.plan = cmd.plan /\ cmd.stage # "idle" /\ cmd'.stage \in {"cleanup", "rollback", "rmdirs"}
    BY <1>1, <1>4, StageFailsCommand, NextStageCommand, CleanupCommand, RemoveDirCommand
  <2>3. cmd'.stage = "rmdirs" => cmd'.done = << >>
    <3>1. CASE RolledBack
      BY <1>1, <3>1, NextStageCommand DEF RolledBack
    <3>2. CASE ~RolledBack
      BY <1>1, <1>4, <3>2, StageFailsCommand, NextStageCommand, CleanupCommand, RemoveDirCommand DEF Planned, CommitFails
    <3> QED  BY <3>1, <3>2
  <2> QED  BY <1>1, <2>1, <2>2, <2>3, PlannedStays
<1>5. CASE LeaveAlone
  <2>1. /\ UNCHANGED <<outcome, trouble>> /\ cmd'.plan = cmd.plan /\ cmd'.done = cmd.done /\ cmd.stage = "commit"
        /\ \/ cmd'.stage = "commit" /\ cmd'.pos = cmd.pos + 1
           \/ cmd'.stage = "hook" /\ cmd.pos = Len(Plan)
    BY <1>1, <1>5, LeaveAloneCommand DEF LeaveAlone, history
  <2>2. PICK f0 : f0 = Now
    OBVIOUS
  <2>3. \A f : DoneOrLeft(f) => DoneOrLeft(f)'
    BY <2>1 DEF DoneOrLeft, Places
  <2>4. DoneOrLeft(f0)'
    BY <1>5, <2>1, <2>2 DEF DoneOrLeft, LeaveAlone, Commit
  <2> QED  BY <1>1, <2>1, <2>2, <2>3, <2>4, PlannedOn
<1> QED  BY <1>2, <1>3, <1>4, <1>5 DEF Quiet

LEMMA MovesPlanned ==
  ASSUME IInv, House, Planned, Create \/ Replace \/ MakeExecutable \/ BackUp \/ Restore
  PROVE  Planned'
<1>1. Types /\ cmd.stage \in {"commit", "between"} /\ UNCHANGED <<before, outcome>>
  BY DEF IInv, Create, Replace, MakeExecutable, BackUp, Restore, Commit, history
<1>2. PICK f0 : f0 = Now
  OBVIOUS
<1>3. CASE Create \/ Replace \/ MakeExecutable
  <2>1. cmd' = Done(cmd) /\ trouble' = trouble
    BY <1>3 DEF Create, Replace, MakeExecutable, history
  <2>2. /\ cmd'.plan = cmd.plan
        /\ \/ cmd'.stage = "commit" /\ cmd'.pos = cmd.pos + 1
           \/ cmd'.stage = "hook" /\ cmd.pos = Len(Plan)
    BY <1>1, <2>1, DoneKeeps
  <2>3. /\ Places' = Places \cup {Len(cmd.done) + 1} /\ \A k \in Places : cmd'.done[k] = cmd.done[k]
        /\ cmd'.done[Len(cmd.done) + 1].file = f0
    BY <1>1, <1>2, <2>1, DonePlaces DEF NowDone
  <2>4. \A f : DoneOrLeft(f) => DoneOrLeft(f)'
    BY <2>2, <2>3 DEF DoneOrLeft
  <2>5. DoneOrLeft(f0)'
    BY <2>3 DEF DoneOrLeft
  <2> QED  BY <1>1, <1>2, <2>1, <2>2, <2>4, <2>5, PlannedOn
<1>4. CASE BackUp \/ Restore
  <2>1. PICK x \in {"between", "cleanup"} : cmd' = [cmd EXCEPT !.stage = x] /\ (x = "between" => trouble' = trouble)
    BY <1>4 DEF BackUp, Restore, history
  <2>2. x \in Stages
    BY DEF Stages
  <2>3. cmd'.stage = x /\ Rest(cmd', cmd, {"stage"})
    BY <1>1, <2>1, <2>2, SetStage DEF Types
  <2>4. cmd'.plan = cmd.plan /\ cmd'.done = cmd.done /\ cmd'.pos = cmd.pos
    BY <2>3 DEF Rest
  <2>5. CASE x = "cleanup"
    BY <1>1, <2>3, <2>4, <2>5, PlannedStays
  <2>6. CASE x = "between"
    <3>1. \A f : DoneOrLeft(f) => DoneOrLeft(f)'
      BY <2>4 DEF DoneOrLeft, Places
    <3>2. cmd.pos \in {cmd.pos, cmd.pos + 1}
      OBVIOUS
    <3> QED  BY <1>1, <1>2, <2>1, <2>3, <2>4, <2>6, <3>1, <3>2, PlannedOn
  <2> QED  BY <2>5, <2>6
<1> QED  BY <1>3, <1>4

LEMMA NextPlanned ==
  ASSUME IInv, House, Planned, [Next]_vars
  PROVE  Planned'
<1>1. CASE UNCHANGED vars
  BY <1>1 DEF vars, work, history, Planned, PlanFits, DoneOrLeft, Was, Places
<1>2. ASSUME NEW f \in File, NEW t \in UserText \cup {Absent}, Edit(f, t) PROVE Planned'
  BY <1>2 DEF Edit, Planned, PlanFits, DoneOrLeft, Was, Places
<1>3. ASSUME NEW force \in BOOLEAN, Begin(force) PROVE Planned'
  BY <1>3, BeginPlanned
<1>4. CASE Rollback \/ RollbackFails
  <2>1. cmd.stage = "rollback" /\ cmd.done # << >> /\ cmd' = Popped(cmd) /\ UNCHANGED <<before, outcome>>
    BY <1>4 DEF Rollback, RollbackFails, history
  <2>2. cmd'.stage = "rollback" /\ cmd'.plan = cmd.plan
    BY <2>1, PoppedKeeps
  <2> QED  BY <2>1, <2>2, PlannedStays
<1> QED  BY <1>1, <1>2, <1>3, <1>4, QuietPlanned, MovesPlanned DEF Next, Quiet

LEMMA InitPlanned == Init => Planned
BY IdleTyped DEF Init, Planned

-----------------------------------------------------------------------------
(* All or nothing.  As long as the user edits nothing and no step of a        *)
(* rollback fails, the workspace is the one the run found, but for the        *)
(* directories it has made, the files it has in hand and the backups of those *)
(* it replaces; a directory it made comes after the one it lies in.           *)

InHand(f) == (cmd.stage = "between" /\ f = Now) \/ \E k \in Places : cmd.done[k].file = f
Moved == {f \in File : InHand(f) /\ cmd.plan[f] = "replace"}
Saved(f) == [file |-> f, run |-> runs, was |-> Was[f]]

Made(made, now, then) ==
  /\ now = then \cup {made[i] : i \in 1..Len(made)}
  /\ \A i \in 1..Len(made) : made[i] \notin then
  /\ \A i, k \in 1..Len(made) : made[i] = made[k] => i = k
  /\ \A f \in File : \A j \in 2..Len(Parents[f]) : \A i, k \in 1..Len(made) :
       made[i] = Parents[f][j - 1] /\ made[k] = Parents[f][j] => i < k
DirsMade == Made(cmd.created, dirs, WasDirs)
FilesInHand ==
  /\ \A f \in File : ~InHand(f) => disk[f] = Was[f]
  /\ cmd.stage = "between" => disk[Now] = Nothing
  /\ \A k \in Places : disk[cmd.done[k].file] = Installed(cmd.done[k].file)
BackupsOfMoved == backups = WasBackups \cup {Saved(f) : f \in Moved}
Elsewhere == hooks = WasHooks /\ stray = WasStray

Undisturbed == DirsMade /\ FilesInHand /\ BackupsOfMoved /\ Elsewhere
Calm == ~touched /\ ~trouble
Atomic ==
  /\ cmd.stage # "idle" /\ Calm => Undisturbed
  /\ cmd.stage = "idle" /\ Calm /\ outcome = "failed" => work = before

AInv == IInv /\ House /\ Planned /\ RetryInv /\ Atomic

\* The part of a file's missing directories that has been made goes to the end of the list.
LEMMA MadeMore ==
  ASSUME House, DirsMade, NEW f \in File, NEW n \in 0..Len(Missing(f)), UNCHANGED before,
         dirs' = dirs \cup {SubSeq(Missing(f), 1, n)[i] : i \in 1..n},
         cmd'.created = cmd.created \o SubSeq(Missing(f), 1, n)
  PROVE  DirsMade'
<1>1. PICK m \in 0..Len(Parents[f]) :
           /\ \A i \in (m + 1)..Len(Parents[f]) : Parents[f][i] \notin dirs
           /\ Missing(f) \in Seq(Dir) /\ Len(Missing(f)) = Len(Parents[f]) - m
           /\ \A i \in 1..(Len(Parents[f]) - m) : Missing(f)[i] = Parents[f][m + i]
  BY MissingIs
<1>2. PICK made : made = SubSeq(Missing(f), 1, n)
  OBVIOUS
<1>3. PICK c : c = cmd.created
  OBVIOUS
<1>4. PICK L \in Nat : L = Len(c) /\ c \in Seq(Dir)
  BY <1>3 DEF House, Staged
<1>5. Len(Parents[f]) \in Nat /\ n \in Nat /\ m \in Nat /\ m + n <= Len(Parents[f])
  BY <1>1, ParentsTyped
<1>6. made \in Seq(Dir) /\ Len(made) = n /\ \A i \in 1..n : made[i] = Missing(f)[i]
  BY <1>1, <1>2, <1>5
<1>7. \A i \in 1..n : m + i \in 1..Len(Parents[f]) /\ made[i] = Parents[f][m + i] /\ made[i] \notin dirs
  <2> SUFFICES ASSUME NEW i \in 1..n
               PROVE  m + i \in 1..Len(Parents[f]) /\ made[i] = Parents[f][m + i] /\ made[i] \notin dirs
    OBVIOUS
  <2>1. m + i \in 1..Len(Parents[f]) /\ m + i \in (m + 1)..Len(Parents[f]) /\ i \in 1..(Len(Parents[f]) - m)
    BY <1>5
  <2> QED  BY <1>1, <1>6, <2>1
<1>8. cmd'.created = c \o made /\ dirs' = dirs \cup {made[i] : i \in 1..n}
  BY <1>2, <1>3
<1>9. PICK d : d = cmd'.created
  OBVIOUS
<1>10. Len(d) = L + n /\ (\A i \in 1..L : d[i] = c[i]) /\ (\A i \in 1..n : d[L + i] = made[i])
  <2>1. /\ Len(c \o made) = Len(c) + Len(made)
        /\ \A i \in 1..(Len(c) + Len(made)) : (c \o made)[i] = IF i <= Len(c) THEN c[i] ELSE made[i - Len(c)]
    BY <1>4, <1>6, ConcatProperties
  <2>2. Len(d) = L + n /\ \A i \in 1..(L + n) : d[i] = IF i <= L THEN c[i] ELSE made[i - L]
    BY <1>4, <1>6, <1>8, <1>9, <2>1
  <2>3. \A i \in 1..L : i \in 1..(L + n) /\ i <= L
    BY <1>5
  <2>4. \A i \in 1..n : L + i \in 1..(L + n) /\ ~(L + i <= L) /\ (L + i) - L = i
    BY <1>5
  <2> QED  BY <2>2, <2>3, <2>4
<1>11. \A i \in 1..(L + n) : i \in 1..L \/ (i - L \in 1..n /\ d[i] = made[i - L])
  BY <1>4, <1>5, <1>10
<1>12. \A i \in 1..L : d[i] \in dirs
  BY <1>3, <1>4, <1>10 DEF DirsMade, Made
<1>13. \A i \in 1..(L + n) : i \notin 1..L => d[i] \notin dirs
  BY <1>7, <1>11
<1>14. dirs' = WasDirs \cup {d[i] : i \in 1..(L + n)}
  <2>1. dirs = WasDirs \cup {d[i] : i \in 1..L}
    <3>1. {d[i] : i \in 1..L} = {c[i] : i \in 1..L}
      BY <1>10
    <3> QED  BY <1>3, <1>4, <3>1 DEF DirsMade, Made
  <2>2. {made[i] : i \in 1..n} \subseteq {d[i] : i \in 1..(L + n)}
    <3> SUFFICES ASSUME NEW i \in 1..n PROVE \E k \in 1..(L + n) : made[i] = d[k]
      OBVIOUS
    <3>1. L + i \in 1..(L + n) /\ made[i] = d[L + i]
      BY <1>5, <1>10
    <3> QED  BY <3>1
  <2>3. {d[i] : i \in 1..L} \subseteq {d[i] : i \in 1..(L + n)}
    BY <1>5
  <2>4. {d[i] : i \in 1..(L + n)} \subseteq {d[i] : i \in 1..L} \cup {made[i] : i \in 1..n}
    BY <1>11
  <2> QED  BY <1>8, <2>1, <2>2, <2>3, <2>4
<1>15. WasDirs \subseteq dirs
  BY DEF DirsMade, Made
<1>16. \A i \in 1..(L + n) : d[i] \notin WasDirs
  <2> SUFFICES ASSUME NEW i \in 1..(L + n) PROVE d[i] \notin WasDirs
    OBVIOUS
  <2>1. CASE i \in 1..L
    BY <1>3, <1>4, <1>10, <2>1 DEF DirsMade, Made
  <2>2. CASE i \notin 1..L
    BY <1>13, <1>15, <2>2
  <2> QED  BY <2>1, <2>2
<1>17. ASSUME NEW i \in 1..(L + n), NEW k \in 1..(L + n), d[i] = d[k]
       PROVE  i = k
  <2>1. CASE i \in 1..L /\ k \in 1..L
    BY <1>3, <1>4, <1>10, <1>17, <2>1 DEF DirsMade, Made
  <2>2. CASE i \notin 1..L /\ k \notin 1..L
    <3>1. i - L \in 1..n /\ k - L \in 1..n /\ Parents[f][m + (i - L)] = Parents[f][m + (k - L)]
      BY <1>7, <1>11, <1>17, <2>2
    <3>2. m + (i - L) \in 1..Len(Parents[f]) /\ m + (k - L) \in 1..Len(Parents[f])
      BY <1>7, <3>1
    <3>3. m + (i - L) = m + (k - L)
      BY <3>1, <3>2, SameLevel, Zenon
    <3> QED  BY <1>4, <1>5, <3>3
  <2> QED  BY <1>12, <1>13, <1>17, <2>1, <2>2
<1>18. ASSUME NEW g \in File, NEW j \in 2..Len(Parents[g]), NEW i \in 1..(L + n), NEW k \in 1..(L + n),
              d[i] = Parents[g][j - 1], d[k] = Parents[g][j]
       PROVE  i < k
  <2>0. j \in 1..Len(Parents[g]) /\ j - 1 \in 1..Len(Parents[g]) /\ j - 1 \in 1..j
    BY ParentsTyped
  <2>1. CASE i \in 1..L /\ k \in 1..L
    BY <1>3, <1>4, <1>10, <1>18, <2>1 DEF DirsMade, Made
  <2>2. CASE i \in 1..L /\ k \notin 1..L
    BY <1>4, <1>5, <2>2
  <2>3. CASE i \notin 1..L /\ k \in 1..L
    <3>1. Parents[g][j] \in dirs /\ Parents[g][j - 1] \notin dirs
      BY <1>12, <1>13, <1>18, <2>3
    <3> QED  BY <2>0, <3>1 DEF House, Grounded, Upright
  <2>4. CASE i \notin 1..L /\ k \notin 1..L
    <3>1. i - L \in 1..n /\ k - L \in 1..n /\ Parents[f][m + (i - L)] = Parents[g][j - 1] /\ Parents[f][m + (k - L)] = Parents[g][j]
      BY <1>7, <1>11, <1>18, <2>4
    <3>2. m + (i - L) \in 1..Len(Parents[f]) /\ m + (k - L) \in 1..Len(Parents[f])
      BY <1>7, <3>1
    <3>3. m + (i - L) = j - 1
      BY <2>0, <3>1, <3>2, SameLevel, Zenon
    <3>4. m + (k - L) = j
      BY <2>0, <3>1, <3>2, SameLevel, Zenon
    <3> QED  BY <1>4, <1>5, <3>3, <3>4
  <2> QED  BY <2>1, <2>2, <2>3, <2>4
<1>19. PICK now, then : now = dirs' /\ then = WasDirs
  OBVIOUS
<1>20. Made(d, now, then)
  BY <1>10, <1>14, <1>16, <1>17, <1>18, <1>19 DEF Made
<1> QED  BY <1>9, <1>19, <1>20 DEF DirsMade, WasDirs

\* When all files are back, the directory made last is empty.
LEMMA LastEmpty ==
  ASSUME House, Undisturbed, cmd.stage = "rmdirs", cmd.done = << >>, cmd.created # << >>
  PROVE  ~InUse(LastDir)
<1>1. Places = {} /\ \A f \in File : ~InHand(f)
  BY DEF Places, InHand
<1>2. (\A f \in File : disk[f] = Was[f]) /\ backups = WasBackups /\ stray = WasStray
  BY <1>1 DEF Undisturbed, FilesInHand, BackupsOfMoved, Moved, Elsewhere
<1>3. PICK n \in Nat : n = Len(cmd.created) /\ n > 0
  BY EmptySeq, LenProperties DEF House, Staged
<1>4. LastDir = cmd.created[n] /\ n \in 1..n /\ LastDir \notin WasDirs
  BY <1>3 DEF LastDir, Undisturbed, DirsMade, Made
<1>5. ASSUME NEW f \in File, LastDir \in Dirs(f)
      PROVE  disk[f].text = Absent /\ f \notin stray /\ ~\E b \in backups : b.file = f
  BY <1>2, <1>4, <1>5 DEF House, Remembered, Housed
<1>6. ASSUME NEW f \in File, NEW i \in 2..Len(Parents[f]), Parents[f][i - 1] = LastDir, Parents[f][i] \in dirs
      PROVE  FALSE
  <2>1. i \in 1..Len(Parents[f]) /\ i - 1 \in 1..i
    BY ParentsTyped
  <2>2. Parents[f][i] \notin WasDirs
    BY <1>4, <1>6, <2>1 DEF House, Remembered, Upright
  <2>3. PICK k \in 1..n : cmd.created[k] = Parents[f][i]
    BY <1>3, <1>6, <2>2 DEF Undisturbed, DirsMade, Made
  <2>4. n < k
    BY <1>3, <1>4, <1>6, <2>3 DEF Undisturbed, DirsMade, Made
  <2> QED  BY <2>3, <2>4
<1> QED  BY <1>5, <1>6 DEF InUse

LEMMA MadeLess ==
  ASSUME House, DirsMade, cmd.created # << >>, UNCHANGED before, dirs' = dirs \ {LastDir},
         cmd'.created = SubSeq(cmd.created, 1, Len(cmd.created) - 1)
  PROVE  DirsMade'
<1>1. PICK c \in Seq(Dir) : c = cmd.created
  BY DEF House, Staged
<1>2. PICK n \in Nat : n = Len(c) /\ n > 0
  BY <1>1, EmptySeq, LenProperties
<1>3. PICK d : d = cmd'.created
  OBVIOUS
<1>4. Len(d) = n - 1 /\ \A i \in 1..(n - 1) : d[i] = c[i]
  BY <1>1, <1>2, <1>3
<1>5. LastDir = c[n] /\ n \in 1..n /\ (\A i \in 1..(n - 1) : i \in 1..n /\ c[i] # c[n]) /\ c[n] \notin WasDirs
  BY <1>1, <1>2 DEF LastDir, DirsMade, Made
<1>6. dirs = WasDirs \cup {c[i] : i \in 1..n}
  BY <1>1, <1>2 DEF DirsMade, Made
<1>7. dirs' = WasDirs \cup {d[i] : i \in 1..(n - 1)}
  <2>1. {c[i] : i \in 1..n} \ {c[n]} = {c[i] : i \in 1..(n - 1)}
    <3>1. \A i \in 1..n : i = n \/ i \in 1..(n - 1)
      BY <1>2
    <3> QED  BY <1>5, <3>1
  <2>2. {c[i] : i \in 1..(n - 1)} = {d[i] : i \in 1..(n - 1)}
    BY <1>4
  <2> QED  BY <1>5, <1>6, <2>1, <2>2
<1>8. PICK now, then : now = dirs' /\ then = WasDirs
  OBVIOUS
<1>9. \A i \in 1..(n - 1) : i \in 1..n
  BY <1>2
<1>10. Made(d, now, then)
  <2>1. \A i \in 1..(n - 1) : d[i] \notin then
    BY <1>1, <1>2, <1>4, <1>8, <1>9 DEF DirsMade, Made
  <2>2. \A i, k \in 1..(n - 1) : d[i] = d[k] => i = k
    BY <1>1, <1>2, <1>4, <1>9 DEF DirsMade, Made
  <2>3. \A f \in File : \A j \in 2..Len(Parents[f]) : \A i, k \in 1..(n - 1) :
          d[i] = Parents[f][j - 1] /\ d[k] = Parents[f][j] => i < k
    BY <1>1, <1>2, <1>4, <1>9 DEF DirsMade, Made
  <2> QED  BY <1>4, <1>7, <1>8, <2>1, <2>2, <2>3 DEF Made
<1> QED  BY <1>3, <1>8, <1>10 DEF DirsMade, WasDirs

\* Steps that leave files, directories and the rest alone, and are not about to end the run.
LEMMA UndisturbedStays ==
  ASSUME Undisturbed, UNCHANGED <<disk, dirs, stray, backups, hooks, before, runs>>,
         cmd'.plan = cmd.plan, cmd'.done = cmd.done, cmd'.created = cmd.created,
         cmd.stage # "between", cmd'.stage # "between"
  PROVE  Undisturbed'
<1>1. \A f : InHand(f)' <=> InHand(f)
  BY DEF InHand, Places
<1>2. Moved' = Moved
  BY <1>1 DEF Moved
<1>3. {Saved(f) : f \in Moved}' = {Saved(f) : f \in Moved}
  BY <1>2 DEF Saved, Was
<1>4. BackupsOfMoved'
  BY <1>3 DEF Undisturbed, BackupsOfMoved, WasBackups
<1>5. FilesInHand'
  BY <1>1 DEF Undisturbed, FilesInHand, Was, Places
<1>6. DirsMade' /\ Elsewhere'
  BY DEF Undisturbed, DirsMade, Made, Elsewhere, WasDirs, WasHooks, WasStray
<1> QED  BY <1>4, <1>5, <1>6 DEF Undisturbed

\* So do those that make or remove a directory.
LEMMA FilesStay ==
  ASSUME Undisturbed, UNCHANGED <<disk, backups, before, runs, stray, hooks>>,
         cmd'.plan = cmd.plan, cmd'.done = cmd.done, cmd.stage # "between", cmd'.stage # "between"
  PROVE  FilesInHand' /\ BackupsOfMoved' /\ Elsewhere'
<1>1. \A f : InHand(f)' <=> InHand(f)
  BY DEF InHand, Places
<1>2. Moved' = Moved
  BY <1>1 DEF Moved
<1>3. {Saved(f) : f \in Moved}' = {Saved(f) : f \in Moved}
  BY <1>2 DEF Saved, Was
<1> QED  BY <1>1, <1>3 DEF Undisturbed, FilesInHand, BackupsOfMoved, Elsewhere, Was, WasBackups, WasStray, WasHooks, Places

LEMMA BeginAtomic ==
  ASSUME AInv, NEW force \in BOOLEAN, Begin(force)
  PROVE  Atomic'
<1>1. cmd'.stage = "staging" /\ cmd'.done = << >> /\ cmd'.created = << >>
  BY BeginPlanned DEF AInv
<1>2. before' = <<disk, dirs, stray, backups, hooks>> /\ UNCHANGED <<disk, dirs, stray, backups, hooks>>
  BY DEF Begin, work
<1>3. /\ Was' = disk /\ WasDirs' = dirs /\ WasStray' = stray /\ WasBackups' = backups /\ WasHooks' = hooks
  BY <1>2 DEF Was, WasDirs, WasStray, WasBackups, WasHooks
<1>4. Places' = {} /\ \A f : ~InHand(f)'
  BY <1>1 DEF Places, InHand
<1>5. Moved' = {}
  BY <1>4 DEF Moved
<1>6. FilesInHand' /\ BackupsOfMoved' /\ Elsewhere'
  BY <1>1, <1>2, <1>3, <1>4, <1>5 DEF FilesInHand, BackupsOfMoved, Elsewhere
<1>7. DirsMade'
  BY <1>1, <1>2, <1>3 DEF DirsMade, Made
<1> QED  BY <1>1, <1>6, <1>7 DEF Atomic, Undisturbed

LEMMA StageAtomic ==
  ASSUME AInv, Stage \/ StageFails, Undisturbed
  PROVE  Undisturbed'
<1>1. Types /\ Now \in File /\ UNCHANGED <<disk, backups, before, runs, stray, hooks>>
  BY NowIsFile DEF AInv, IInv, Stage, StageFails, history
<1>2. cmd'.plan = cmd.plan /\ cmd'.done = cmd.done /\ cmd.stage # "between" /\ cmd'.stage # "between"
  BY <1>1, StageCommand, StageFailsCommand
<1>3. Missing(Now) \in Seq(Dir) /\ Len(Missing(Now)) \in 0..Len(Missing(Now))
  BY <1>1, MissingIs
<1>4. DirsMade'
  <2>1. CASE StageFails
    <3>1. PICK n \in 0..Len(Missing(Now)) :
            /\ dirs' = dirs \cup {SubSeq(Missing(Now), 1, n)[i] : i \in 1..n}
            /\ cmd'.created = cmd.created \o SubSeq(Missing(Now), 1, n)
      BY <1>1, <2>1, StageFailsCommand
    <3> QED  BY <1>1, <3>1, MadeMore DEF AInv, Undisturbed
  <2>2. CASE Stage /\ Writes(Now)
    <3>1. SubSeq(Missing(Now), 1, Len(Missing(Now))) = Missing(Now)
      BY <1>3
    <3>2. dirs' = dirs \cup Dirs(Now) /\ cmd'.created = cmd.created \o Missing(Now)
      BY <1>1, <2>2, StageCommand DEF Stage
    <3>3. dirs \cup Dirs(Now) = dirs \cup {Missing(Now)[i] : i \in 1..Len(Missing(Now))}
      BY <1>1, MakesDirs DEF AInv, House, Grounded
    <3> QED  BY <1>1, <1>3, <3>1, <3>2, <3>3, MadeMore DEF AInv, Undisturbed
  <2>3. CASE Stage /\ ~Writes(Now)
    <3>1. UNCHANGED dirs /\ cmd'.created = cmd.created
      BY <1>1, <2>3, StageCommand DEF Stage
    <3> QED  BY <1>1, <3>1 DEF Undisturbed, DirsMade, WasDirs
  <2> QED  BY <2>1, <2>2, <2>3
<1> QED  BY <1>1, <1>2, <1>4, FilesStay DEF Undisturbed

LEMMA RemoveDirAtomic ==
  ASSUME AInv, RemoveDir, Undisturbed, ~trouble, ~trouble'
  PROVE  Undisturbed'
<1>1. Types /\ UNCHANGED <<disk, backups, before, runs, stray, hooks>> /\ cmd.stage = "rmdirs" /\ cmd.created # << >>
  BY DEF AInv, IInv, RemoveDir
<1>2. ~InUse(LastDir)
  BY <1>1, LastEmpty DEF AInv, Planned
<1>3. dirs' = dirs \ {LastDir}
  BY <1>2 DEF RemoveDir
<1>4. DirsMade'
  BY <1>1, <1>3, RemoveDirCommand, MadeLess DEF AInv, Undisturbed
<1> QED  BY <1>1, <1>4, RemoveDirCommand, FilesStay DEF Undisturbed

LEMMA FailAtomic ==
  ASSUME AInv, Fail, Undisturbed
  PROVE  work' = before'
<1>1. /\ cmd.stage = "rmdirs" /\ cmd.done = << >> /\ cmd.created = << >>
      /\ UNCHANGED <<disk, dirs, stray, backups, hooks, before>>
  BY DEF Fail, work, AInv, Planned
<1>2. \A f \in File : ~InHand(f)
  BY <1>1 DEF InHand, Places
<1>3. Moved = {}
  BY <1>2 DEF Moved
<1>4. dirs = WasDirs /\ backups = WasBackups /\ hooks = WasHooks /\ stray = WasStray
  BY <1>1, <1>3 DEF Undisturbed, DirsMade, Made, BackupsOfMoved, Elsewhere
<1>5. before \in Workspaces /\ disk \in [File -> Content]
  BY DEF AInv, House, Remembered, IInv, Types
<1>6. before = <<Was, WasDirs, WasStray, WasBackups, WasHooks>> /\ Was \in [File -> Content]
  BY <1>5 DEF Workspaces, Was, WasDirs, WasStray, WasBackups, WasHooks
<1>7. disk = Was
  BY <1>2, <1>5, <1>6 DEF Undisturbed, FilesInHand
<1>8. work = before
  BY <1>4, <1>6, <1>7 DEF work
<1>9. work' = work
  BY DEF Fail
<1> QED  BY <1>1, <1>8, <1>9

LEMMA QuietAtomic ==
  ASSUME AInv, Quiet
  PROVE  Atomic'
<1>1. Types /\ UNCHANGED <<disk, backups, runs, touched, before>>
  BY QuietKeeps DEF AInv, IInv
<1>2. CASE Activate \/ Die
  <2>1. cmd'.stage = "idle" /\ outcome' # "failed"
    BY <1>2, IdleTyped DEF Activate, Die
  <2> QED  BY <2>1 DEF Atomic
<1>3. CASE Fail
  <2>1. cmd'.stage = "idle" /\ cmd.stage # "idle" /\ trouble' = trouble
    BY <1>3, IdleTyped DEF Fail
  <2>2. Calm' => work' = before'
    BY <1>1, <1>3, <2>1, FailAtomic DEF AInv, Atomic, Calm
  <2> QED  BY <2>1, <2>2 DEF Atomic
<1>4. CASE Stage \/ StageFails
  <2>1. trouble' = trouble /\ cmd.stage # "idle" /\ cmd'.stage # "idle"
    BY <1>1, <1>4, StageCommand, StageFailsCommand DEF Stage, StageFails, history
  <2> QED  BY <1>1, <1>4, <2>1, StageAtomic DEF AInv, Atomic, Calm
<1>5. CASE RemoveDir
  <2>1. (trouble => trouble') /\ cmd.stage # "idle" /\ cmd'.stage # "idle"
    BY <1>1, <1>5, RemoveDirCommand DEF RemoveDir
  <2> QED  BY <1>1, <1>5, <2>1, RemoveDirAtomic DEF AInv, Atomic, Calm
<1>6. CASE LeaveAlone \/ CommitFails \/ RolledBack \/ Cleanup
  <2>1. /\ cmd'.plan = cmd.plan /\ cmd'.done = cmd.done /\ cmd'.created = cmd.created
        /\ cmd.stage \notin {"idle", "between"} /\ cmd'.stage \notin {"idle", "between"}
    BY <1>1, <1>6, LeaveAloneCommand, NextStageCommand, CleanupCommand DEF CommitFails, RolledBack
  <2>2. UNCHANGED <<dirs, hooks>> /\ (trouble => trouble') /\ (~trouble' => stray' = stray)
    <3>1. CASE Cleanup
      BY <3>1 DEF Cleanup
    <3>2. CASE LeaveAlone \/ CommitFails \/ RolledBack
      BY <3>2 DEF LeaveAlone, CommitFails, RolledBack, work, history
    <3> QED  BY <1>6, <3>1, <3>2
  <2> QED  BY <1>1, <2>1, <2>2, UndisturbedStays DEF AInv, Atomic, Calm
<1> QED  BY <1>2, <1>3, <1>4, <1>5, <1>6 DEF Quiet

\* Setting or clearing the x bit does that and nothing else.
LEMMA OtherBit ==
  ASSUME NEW c \in Content, NEW b \in BOOLEAN
  PROVE  [c EXCEPT !.exec = b] = [text |-> c.text, exec |-> b]
<1>1. PICK d : d = [c EXCEPT !.exec = b]
  OBVIOUS
<1>2. d \in Content /\ d.text = c.text /\ d.exec = b
  BY <1>1 DEF Content
<1>3. d = [text |-> d.text, exec |-> d.exec]
  BY <1>2 DEF Content
<1> QED  BY <1>1, <1>2, <1>3

LEMMA DefaultIsContent ==
  ASSUME NEW b \in BOOLEAN
  PROVE  [text |-> Default, exec |-> b] \in Content
BY DEF Content, Text

\* A file the run is about to act on is not in hand yet.
LEMMA NowIsNew ==
  ASSUME AInv, cmd.stage = "commit"
  PROVE  Now \in File /\ ~InHand(Now)
<1>1. Types /\ Now \in File /\ cmd.pos \in 1..Len(Plan) /\ Len(Plan) \in Nat
  BY NowIsFile, PlanNat DEF AInv, IInv, Types, Command
<1>2. ASSUME NEW k \in Places, cmd.done[k].file = Now
      PROVE  FALSE
  <2>1. PICK i \in 1..(cmd.pos - 1) : cmd.done[k].file = Plan[i]
    BY DEF AInv, IInv, Orderly
  <2>2. i \in 1..Len(Plan) /\ i # cmd.pos /\ Plan[i] = Plan[cmd.pos]
    BY <1>1, <1>2, <2>1 DEF Now
  <2> QED  BY <1>1, <2>2, PlanAssumption
<1> QED  BY <1>1, <1>2 DEF InHand

\* While a file is between its backup and its new contents, no action on it is done.
LEMMA BetweenIsNew ==
  ASSUME AInv, cmd.stage = "between", NEW k \in Places
  PROVE  cmd.done[k].file # Now
<1>1. cmd.pos \in 1..Len(Plan) /\ Len(Plan) \in Nat
  BY PlanNat DEF AInv, IInv, Types, Command
<1>2. PICK i \in 1..(cmd.pos - 1) : cmd.done[k].file = Plan[i]
  BY DEF AInv, IInv, Orderly
<1> QED  BY <1>1, <1>2, PlanAssumption DEF Now

LEMMA CommitAtomic ==
  ASSUME AInv, Create \/ Replace \/ MakeExecutable, Undisturbed
  PROVE  Undisturbed'
<1>1. /\ Types /\ cmd.stage \in {"commit", "between"}
      /\ UNCHANGED <<dirs, stray, backups, hooks, before, runs>> /\ cmd' = Done(cmd)
  BY DEF AInv, IInv, Create, Replace, MakeExecutable, Commit, history
<1>2. PICK f0 \in File : f0 = Now
  BY <1>1, NowIsFile
<1>3. /\ cmd'.plan = cmd.plan /\ cmd'.created = cmd.created /\ cmd'.stage # "between"
      /\ Places' = Places \cup {Len(cmd.done) + 1} /\ \A k \in Places : cmd'.done[k] = cmd.done[k]
      /\ cmd'.done[Len(cmd.done) + 1].file = f0
  BY <1>1, <1>2, DoneKeeps, DonePlaces DEF NowDone
<1>4. \A f : InHand(f)' <=> (InHand(f) \/ f = f0)
  BY <1>2, <1>3 DEF InHand
<1>5. \A f \in File : f # f0 => disk'[f] = disk[f]
  BY <1>1, <1>2 DEF Types, Create, Replace, MakeExecutable
<1>6. disk'[f0] = Installed(f0)
  <2>1. CASE Create \/ Replace
    BY <1>1, <1>2, <2>1 DEF Types, Create, Replace
  <2>2. CASE MakeExecutable
    <3>1. cmd.stage = "commit" /\ cmd.plan[f0] = "make_executable" /\ disk' = [disk EXCEPT ![f0].exec = TRUE]
      BY <1>2, <2>2 DEF MakeExecutable, Commit
    <3>2. disk[f0] = Was[f0]
      BY <1>2, <3>1, NowIsNew DEF Undisturbed, FilesInHand
    <3>3. disk[f0] = [text |-> Default, exec |-> FALSE] /\ f0 \in Executable
      BY <3>1, <3>2 DEF AInv, Planned, PlanFits
    <3>4. disk'[f0] = [[text |-> Default, exec |-> FALSE] EXCEPT !.exec = TRUE]
      BY <1>1, <3>1, <3>3 DEF Types
    <3>5. PICK c \in Content : c = [text |-> Default, exec |-> FALSE]
      BY DefaultIsContent
    <3>6. c.text = Default /\ [c EXCEPT !.exec = TRUE] = [text |-> c.text, exec |-> TRUE]
      BY <3>5, OtherBit
    <3> QED  BY <3>3, <3>4, <3>5, <3>6 DEF Installed
  <2> QED  BY <2>1, <2>2
<1>7. \A k \in Places : cmd.done[k].file \in File /\ cmd.done[k].file # f0
  <2> SUFFICES ASSUME NEW k \in Places PROVE cmd.done[k].file \in File /\ cmd.done[k].file # f0
    OBVIOUS
  <2>1. cmd.done[k] \in DoneAction
    BY <1>1 DEF Types, Command, Places
  <2>2. cmd.done[k].file # Now
    BY <1>1, NowIsNew, BetweenIsNew DEF InHand
  <2> QED  BY <1>2, <2>1, <2>2 DEF DoneAction
<1>8. FilesInHand'
  <2>1. \A f \in File : ~InHand(f)' => disk'[f] = Was'[f]
    BY <1>1, <1>4, <1>5 DEF Undisturbed, FilesInHand, Was
  <2>2. ASSUME NEW k \in Places', NEW f, f = cmd'.done[k].file
        PROVE  disk'[f] = Installed(f)
    <3>1. CASE k \in Places
      BY <1>3, <1>5, <1>7, <2>2, <3>1 DEF Undisturbed, FilesInHand
    <3>2. CASE k \notin Places
      BY <1>3, <1>6, <2>2, <3>2
    <3> QED  BY <3>1, <3>2
  <2> QED  BY <1>3, <2>1, <2>2 DEF FilesInHand
<1>9. BackupsOfMoved'
  <2>1. InHand(f0) \/ cmd.plan[f0] # "replace"
    BY <1>2 DEF Create, Replace, MakeExecutable, Commit, InHand
  <2>2. Moved' = Moved
    BY <1>3, <1>4, <2>1 DEF Moved
  <2>3. {Saved(f) : f \in Moved}' = {Saved(f) : f \in Moved}
    BY <1>1, <2>2 DEF Saved, Was
  <2> QED  BY <1>1, <2>3 DEF Undisturbed, BackupsOfMoved, WasBackups
<1>10. DirsMade' /\ Elsewhere'
  BY <1>1, <1>3 DEF Undisturbed, DirsMade, Made, Elsewhere, WasDirs, WasHooks, WasStray
<1> QED  BY <1>8, <1>9, <1>10 DEF Undisturbed

LEMMA BackUpAtomic ==
  ASSUME AInv, BackUp, Undisturbed
  PROVE  Undisturbed'
<1>1. /\ Types /\ cmd.stage = "commit" /\ cmd.plan[Now] = "replace"
      /\ UNCHANGED <<dirs, stray, hooks, before, runs>> /\ cmd' = [cmd EXCEPT !.stage = "between"]
  BY DEF AInv, IInv, BackUp, Commit, history
<1>2. PICK f0 \in File : f0 = Now
  BY <1>1, NowIsFile
<1>3. /\ cmd'.plan = cmd.plan /\ cmd'.created = cmd.created /\ cmd'.stage = "between"
      /\ cmd'.done = cmd.done /\ cmd'.pos = cmd.pos
  BY <1>1, SetStage DEF Types, Stages, Rest
<1>4. Now' = f0 /\ Places' = Places /\ ~InHand(f0)
  BY <1>1, <1>2, <1>3, NowIsNew DEF Now, Places
<1>5. \A f : InHand(f)' <=> (InHand(f) \/ f = f0)
  BY <1>1, <1>3, <1>4 DEF InHand
<1>6. disk'[f0] = Nothing /\ \A f \in File : f # f0 => disk'[f] = disk[f]
  BY <1>1, <1>2 DEF Types, BackUp
<1>7. FilesInHand'
  <2>1. \A k \in Places : cmd.done[k].file \in File /\ cmd.done[k].file # f0
    <3>1. \A k \in Places : cmd.done[k] \in DoneAction
      BY <1>1 DEF Types, Command, Places
    <3>2. \A k \in Places : cmd.done[k].file # f0
      BY <1>4 DEF InHand
    <3> QED  BY <3>1, <3>2 DEF DoneAction
  <2>2. \A f \in File : ~InHand(f)' => disk'[f] = Was'[f]
    BY <1>1, <1>5, <1>6 DEF Undisturbed, FilesInHand, Was
  <2>3. \A k \in Places : disk'[cmd.done[k].file] = Installed(cmd.done[k].file)
    BY <1>6, <2>1 DEF Undisturbed, FilesInHand
  <2> QED  BY <1>3, <1>4, <1>6, <2>2, <2>3 DEF FilesInHand
<1>8. BackupsOfMoved'
  <2>1. Moved' = Moved \cup {f0}
    BY <1>1, <1>2, <1>3, <1>5 DEF Moved
  <2>2. disk[f0] = Was[f0]
    BY <1>4 DEF Undisturbed, FilesInHand
  <2>3. backups' = backups \cup {Saved(f0)}
    BY <1>2, <2>2 DEF BackUp, Saved
  <2>4. \A f : Saved(f)' = Saved(f)
    BY <1>1 DEF Saved, Was
  <2>5. {Saved(f) : f \in Moved}' = {Saved(f) : f \in Moved} \cup {Saved(f0)}
    BY <2>1, <2>4
  <2> QED  BY <1>1, <2>3, <2>5 DEF Undisturbed, BackupsOfMoved, WasBackups
<1>9. DirsMade' /\ Elsewhere'
  BY <1>1, <1>3 DEF Undisturbed, DirsMade, Made, Elsewhere, WasDirs, WasHooks, WasStray
<1> QED  BY <1>7, <1>8, <1>9 DEF Undisturbed

\* A file leaves the run's hand as it was found.
LEMMA LetGo ==
  ASSUME AInv, Undisturbed, NEW f0 \in File, UNCHANGED <<dirs, stray, hooks, before, runs>>,
         cmd'.plan = cmd.plan, cmd'.created = cmd.created, cmd'.stage # "between",
         \A f : InHand(f)' <=> (InHand(f) /\ f # f0),
         \A k \in Places' : k \in Places /\ cmd'.done[k] = cmd.done[k] /\ cmd.done[k].file \in File \ {f0},
         \A f \in File : f # f0 => disk'[f] = disk[f], disk'[f0] = Was[f0],
         backups' = backups \ {Saved(f0)}, InHand(f0)
  PROVE  Undisturbed'
<1>1. FilesInHand'
  <2>1. \A f \in File : ~InHand(f)' => disk'[f] = Was'[f]
    BY DEF Undisturbed, FilesInHand, Was
  <2>2. \A k \in Places' : disk'[cmd'.done[k].file] = Installed(cmd'.done[k].file)
    BY DEF Undisturbed, FilesInHand
  <2> QED  BY <2>1, <2>2 DEF FilesInHand
<1>2. BackupsOfMoved'
  <2>1. Moved' = Moved \ {f0}
    BY DEF Moved
  <2>2. \A f : Saved(f)' = Saved(f) /\ Saved(f).file = f /\ Saved(f).run = runs
    BY DEF Saved, Was
  <2>3. {Saved(f) : f \in Moved}' = {Saved(f) : f \in Moved} \ {Saved(f0)}
    <3>1. {Saved(f) : f \in Moved}' = {Saved(f) : f \in Moved \ {f0}}
      BY <2>1, <2>2
    <3>2. \A f \in Moved : f # f0 => Saved(f) # Saved(f0)
      BY <2>2
    <3> QED  BY <3>1, <3>2
  <2>4. runs \in Nat /\ \A b \in WasBackups : b.run \in Nat
    <3>1. WasBackups \subseteq Backup
      BY DEF AInv, House, Remembered, Workspaces, WasBackups
    <3> QED  BY <3>1 DEF AInv, IInv, Types, Backup
  <2>5. cmd.stage # "idle"
    BY DEF InHand, AInv, IInv, Orderly, Places
  <2>6. Saved(f0) \notin WasBackups
    BY <2>2, <2>4, <2>5 DEF AInv, House, Remembered
  <2> QED  BY <2>3, <2>6 DEF Undisturbed, BackupsOfMoved, WasBackups
<1>3. DirsMade' /\ Elsewhere'
  BY DEF Undisturbed, DirsMade, Made, Elsewhere, WasDirs, WasHooks, WasStray
<1> QED  BY <1>1, <1>2, <1>3 DEF Undisturbed

\* The backup this run made of a file holds what the run found, and there is none of
\* a file it does not replace.
LEMMA BackupIs ==
  ASSUME AInv, Undisturbed, cmd.stage # "idle", NEW b \in backups, b.run = runs
  PROVE  b = Saved(b.file) /\ b.file \in Moved
<1>1. runs \in Nat /\ WasBackups \subseteq Backup
  BY DEF AInv, IInv, Types, House, Remembered, Workspaces, WasBackups
<1>2. b \notin WasBackups
  BY <1>1 DEF AInv, House, Remembered, Backup
<1>3. PICK f \in Moved : b = Saved(f)
  BY <1>2 DEF Undisturbed, BackupsOfMoved
<1> QED  BY <1>3 DEF Saved

LEMMA RestoreAtomic ==
  ASSUME AInv, Restore, Undisturbed, ~trouble'
  PROVE  Undisturbed'
<1>1. Types /\ cmd.stage = "between" /\ UNCHANGED <<dirs, stray, hooks, before, runs>> /\ cmd' = [cmd EXCEPT !.stage = "cleanup"]
  BY DEF AInv, IInv, Restore
<1>2. PICK f0 \in File : f0 = Now
  BY <1>1, NowIsFile
<1>3. PICK b \in backups : b.file = f0 /\ b.run = runs /\ disk' = [disk EXCEPT ![f0] = b.was] /\ backups' = backups \ {b}
  BY <1>2 DEF Restore
<1>4. b = Saved(f0) /\ b.was = Was[f0]
  BY <1>1, <1>3, BackupIs DEF Saved
<1>5. cmd'.plan = cmd.plan /\ cmd'.created = cmd.created /\ cmd'.stage = "cleanup" /\ cmd'.done = cmd.done
  BY <1>1, SetStage DEF Types, Stages, Rest
<1>6. Places' = Places /\ \A k \in Places : cmd.done[k].file \in File \ {f0}
  <2>1. \A k \in Places : cmd.done[k] \in DoneAction /\ cmd.done[k].file # f0
    BY <1>1, <1>2, BetweenIsNew DEF Types, Command, Places
  <2> QED  BY <1>5, <2>1 DEF Places, DoneAction
<1>7. InHand(f0) /\ \A f : InHand(f)' <=> (InHand(f) /\ f # f0)
  BY <1>1, <1>2, <1>5, <1>6 DEF InHand
<1>8. disk'[f0] = Was[f0] /\ \A f \in File : f # f0 => disk'[f] = disk[f]
  BY <1>1, <1>3, <1>4 DEF Types
<1> QED  BY <1>1, <1>3, <1>4, <1>5, <1>6, <1>7, <1>8, LetGo

LEMMA RollbackAtomic ==
  ASSUME AInv, Rollback, Undisturbed
  PROVE  Undisturbed'
<1>1. PICK g : g = LastDone.file
  OBVIOUS
<1>2. /\ Types /\ cmd.stage = "rollback" /\ cmd.done # << >> /\ cmd' = Popped(cmd)
      /\ UNCHANGED <<dirs, stray, hooks, before, runs>>
  BY DEF Rollback, history, AInv, IInv
<1>3. /\ g \in File /\ LastDone.action = cmd.plan[g] /\ LastDone \in DoneAction
      /\ cmd'.stage = "rollback" /\ cmd'.plan = cmd.plan /\ cmd'.created = cmd.created
      /\ Places = Places' \cup {Len(cmd.done)}
      /\ \A k \in Places' : k \in Places /\ cmd'.done[k] = cmd.done[k] /\ cmd.done[k].file \in File \ {g}
  BY <1>1, <1>2, PoppedKeeps DEF DoneAction, AInv
<1>4. LastDone = cmd.done[Len(cmd.done)] /\ Len(cmd.done) \in Places
  BY <1>3 DEF LastDone
<1>5. InHand(g) /\ \A f : InHand(f)' <=> (InHand(f) /\ f # g)
  BY <1>1, <1>2, <1>3, <1>4 DEF InHand
<1>6. PlanFits(g) /\ disk[g] = Installed(g) /\ LastDone.action # "unchanged"
  BY <1>1, <1>2, <1>3, <1>4 DEF AInv, Planned, Undisturbed, FilesInHand, RetryInv, Numbered
<1>7. \A f \in File : f # g => disk'[f] = disk[f]
  BY <1>1, <1>2, <1>3, RollbackMoves
<1>8. cmd.plan[g] # "replace" => Saved(g) \notin backups
  <2>1. Saved(g).run = runs /\ Saved(g).file = g
    BY DEF Saved
  <2> QED  BY <1>2, <2>1, BackupIs DEF Moved
<1>9. CASE LastDone.action = "create"
  <2>1. disk'[g] = Nothing /\ backups' = backups
    BY <1>1, <1>2, <1>3, <1>9 DEF Rollback, Undo, Types
  <2>2. disk'[g] = Was[g] /\ backups' = backups \ {Saved(g)}
    BY <1>3, <1>6, <1>8, <1>9, <2>1 DEF PlanFits
  <2> QED  BY <1>2, <1>3, <1>5, <1>7, <2>2, LetGo
<1>10. CASE LastDone.action = "replace"
  <2>1. PICK b \in backups : b.file = g /\ b.run = runs /\ disk' = [disk EXCEPT ![g] = b.was] /\ backups' = backups \ {b}
    BY <1>1, <1>10 DEF Rollback, Undo
  <2>2. b = Saved(g) /\ b.was = Was[g]
    BY <1>2, <2>1, BackupIs DEF Saved
  <2>3. disk'[g] = Was[g]
    BY <1>2, <1>3, <2>1, <2>2 DEF Types
  <2> QED  BY <1>2, <1>3, <1>5, <1>7, <2>1, <2>2, <2>3, LetGo
<1>11. CASE LastDone.action = "make_executable"
  <2>1. disk' = [disk EXCEPT ![g].exec = FALSE] /\ backups' = backups
    BY <1>1, <1>11 DEF Rollback, Undo
  <2>2. PICK e \in Content : e = [text |-> Default, exec |-> TRUE]
    BY DefaultIsContent
  <2>3. e.text = Default /\ [e EXCEPT !.exec = FALSE] = [text |-> e.text, exec |-> FALSE]
    BY <2>2, OtherBit
  <2>6. disk[g] = e
    <3>1. g \in Executable
      BY <1>3, <1>6, <1>11 DEF PlanFits
    <3> QED  BY <1>6, <2>2, <3>1 DEF Installed
  <2>4. disk'[g] = [text |-> Default, exec |-> FALSE]
    BY <1>2, <1>3, <2>1, <2>3, <2>6 DEF Types
  <2>5. disk'[g] = Was[g] /\ backups' = backups \ {Saved(g)}
    BY <1>3, <1>6, <1>8, <1>11, <2>1, <2>4 DEF PlanFits
  <2> QED  BY <1>2, <1>3, <1>5, <1>7, <2>5, LetGo
<1> QED  BY <1>3, <1>6, <1>9, <1>10, <1>11 DEF DoneAction, Action

LEMMA NextAtomic ==
  ASSUME AInv, [Next]_vars
  PROVE  Atomic'
<1>1. CASE UNCHANGED vars
  <2>1. UNCHANGED <<disk, dirs, stray, backups, hooks, cmd, runs, outcome, trouble, touched, before>>
    BY <1>1 DEF vars, work, history
  <2>2. DirsMade => DirsMade'
    BY <2>1 DEF DirsMade, WasDirs
  <2>3. Elsewhere => Elsewhere'
    BY <2>1 DEF Elsewhere, WasHooks, WasStray
  <2>4. \A f : (InHand(f)' <=> InHand(f)) /\ Saved(f)' = Saved(f)
    BY <2>1 DEF InHand, Places, Now, Saved, Was
  <2>5. FilesInHand => FilesInHand'
    BY <2>1, <2>4 DEF FilesInHand, Was, Now, Places
  <2>6. Moved' = Moved
    BY <2>1, <2>4 DEF Moved
  <2>7. {Saved(f) : f \in Moved}' = {Saved(f) : f \in Moved}
    BY <2>4, <2>6
  <2>8. BackupsOfMoved => BackupsOfMoved'
    BY <2>1, <2>7 DEF BackupsOfMoved, WasBackups
  <2> QED  BY <2>1, <2>2, <2>3, <2>5, <2>8 DEF AInv, Atomic, Undisturbed, Calm, work
<1>2. ASSUME NEW f \in File, NEW t \in UserText \cup {Absent}, Edit(f, t) PROVE Atomic'
  BY <1>2 DEF Edit, Atomic, Calm
<1>3. ASSUME NEW force \in BOOLEAN, Begin(force) PROVE Atomic'
  BY <1>3, BeginAtomic
<1>4. CASE Create \/ Replace \/ MakeExecutable \/ BackUp
  <2>1. UNCHANGED <<touched, trouble>> /\ cmd.stage # "idle"
    BY <1>4 DEF Create, Replace, MakeExecutable, BackUp, Commit, history
  <2>2. cmd'.stage # "idle"
    <3>1. CASE BackUp
      BY <3>1, SetStage DEF AInv, IInv, Types, BackUp, Stages
    <3>2. CASE Create \/ Replace \/ MakeExecutable
      <4>1. cmd' = Done(cmd) /\ cmd.stage \in {"commit", "between"} /\ Types
        BY <3>2 DEF AInv, IInv, Create, Replace, MakeExecutable, Commit
      <4> QED  BY <4>1, DoneKeeps
    <3> QED  BY <1>4, <3>1, <3>2
  <2> QED  BY <1>4, <2>1, <2>2, CommitAtomic, BackUpAtomic DEF AInv, Atomic, Calm
<1>5. CASE Restore
  <2>1. touched' = touched /\ (trouble => trouble') /\ cmd.stage # "idle"
    BY <1>5 DEF Restore
  <2>2. cmd'.stage # "idle"
    BY <1>5, SetStage DEF AInv, IInv, Types, Restore, Stages
  <2> QED  BY <1>5, <2>1, <2>2, RestoreAtomic DEF AInv, Atomic, Calm
<1>6. CASE Rollback \/ RollbackFails
  <2>1. touched' = touched /\ cmd.stage = "rollback" /\ cmd.done # << >> /\ cmd' = Popped(cmd)
    BY <1>6 DEF Rollback, RollbackFails, history
  <2>2. cmd'.stage # "idle"
    BY <2>1, PoppedKeeps DEF AInv
  <2>3. RollbackFails \/ trouble' = trouble
    BY <1>6 DEF Rollback, history
  <2>4. RollbackFails => trouble'
    BY DEF RollbackFails
  <2> QED  BY <1>6, <2>1, <2>2, <2>3, <2>4, RollbackAtomic DEF AInv, Atomic, Calm
<1> QED  BY <1>1, <1>2, <1>3, <1>4, <1>5, <1>6, QuietAtomic DEF Next, Quiet

LEMMA InitAtomic == Init => Atomic
BY IdleTyped DEF Init, Atomic

LEMMA AInvariance == Spec => []AInv
<1>1. Init => AInv
  BY InitIInv, InitHouse, InitPlanned, InitReady, InitAtomic DEF AInv
<1>2. AInv /\ [Next]_vars => AInv'
  BY NextIInv, NextHouse, NextPlanned, NextReady, NextAtomic DEF AInv
<1> QED  BY <1>1, <1>2, PTL DEF Spec

-----------------------------------------------------------------------------
(* Theorems *)

\* Whatever fails, and wherever the process dies, what a user put into a file before
\* a run began is in the file or in a backup of it.
THEOREM UsersLoseNothing == Spec => []NothingLost
<1>1. IInv => NothingLost
  BY DEF IInv, Safe, Entrusted, Kept, NothingLost
<1> QED  BY <1>1, Invariance, PTL

\* Whatever a run without --force left behind when it failed, died or was rolled back
\* badly, another one is not refused.
THEOREM RetryNeedsNoForce == Spec => []RetryAccepted
<1>1. IInv /\ RetryInv => RetryAccepted
  BY TextAssumption DEF IInv, Types, Content, RetryInv, Numbered, Ready, Acceptable, RetryAccepted,
                        Refused, ActionFor, Settled, NeedsBit, MayReplace, Text
<1>2. Spec => [](IInv /\ RetryInv)
  BY InitIInv, NextIInv, InitReady, NextReady, PTL DEF Spec
<1> QED  BY <1>1, <1>2, PTL

\* A run that gets to the hook has installed every file, the hook with its x bit; one
\* that fails leaves files, x bits, directories, backups and git's hooks path as they
\* were, unless a step of its rollback failed too or the user edited files.
THEOREM InitIsAtomic == Spec => []AllOrNothing
<1>1. ASSUME AInv
      PROVE  AllOrNothing
  <2>1. ASSUME ~touched, outcome = "failed", ~trouble
        PROVE  work = before
    BY <1>1, <2>1 DEF AInv, Planned, Atomic, Calm
  <2>2. ASSUME ~touched, cmd.stage = "hook", NEW f \in File
        PROVE  disk[f].text = Default /\ ~NeedsBit(f)
    <3>1. Undisturbed /\ PlanFits(f) /\ DoneOrLeft(f)
      BY <1>1, <2>2 DEF AInv, Planned, Atomic, Calm
    <3>2. CASE InHand(f)
      <4>1. disk[f] = Installed(f)
        <5>1. PICK k \in Places : cmd.done[k].file = f
          BY <2>2, <3>2 DEF InHand
        <5> QED  BY <3>1, <5>1 DEF Undisturbed, FilesInHand
      <4>2. disk[f].text = Default
        BY <4>1 DEF Installed
      <4>3. CASE f \in Executable
        <5>1. disk[f] = [text |-> Default, exec |-> TRUE]
          BY <4>1, <4>3 DEF Installed
        <5> QED  BY <4>2, <5>1 DEF NeedsBit
      <4>4. CASE f \notin Executable
        BY <4>2, <4>4 DEF NeedsBit
      <4> QED  BY <4>3, <4>4
    <3>3. CASE ~InHand(f)
      <4>1. disk[f] = Was[f] /\ cmd.plan[f] = "unchanged"
        BY <3>1, <3>3 DEF InHand, DoneOrLeft, Undisturbed, FilesInHand
      <4> QED  BY <3>1, <4>1 DEF PlanFits, NeedsBit
    <3> QED  BY <3>2, <3>3
  <2> QED  BY <2>1, <2>2 DEF AllOrNothing
<1> QED  BY <1>1, AInvariance, PTL
=============================================================================
