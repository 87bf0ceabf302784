--------------------------- MODULE Checks_proofs ---------------------------
(***************************************************************************)
(* Proofs about the commands that check a workspace: Preflight, for        *)
(* any files, graphs and number of running checks, whether or not git      *)
(* knows the workspace, and whatever becomes of the baseline; Watch,       *)
(* the loop that repeats checks, for any files, texts, rules, gates and    *)
(* windows, and any number of edits, sessions and changes of the clock;    *)
(* and Scan, the scanners a check runs on its files, for any lines,        *)
(* commands and arguments, and any number of them.                         *)
(*                                                                         *)
(* A risky file that git lists throughout a check is reported because it   *)
(* is among the changed files of the check, and a check that has changed   *)
(* files can take neither of the two ways out that skip their scan.        *)
(* Growth is announced exactly if there is some because a check that       *)
(* nothing disturbs compares with the graph of the one before it: the      *)
(* baseline is that graph, and nobody else is running to put another in    *)
(* its place.                                                              *)
(*                                                                         *)
(* The loop begins a check because the snapshot differs, and makes it the  *)
(* one seen last, so a difference pays for one check and only an edit      *)
(* makes a new one; and what it notes when it judges is what it then puts  *)
(* on record and tells, but for what finds no place on the page: every key *)
(* noted was told when it was noted, or has been left out since            *)
(* (ToldOrCut).                                                            *)
(*                                                                         *)
(* A command stays risky with one more argument because every loop over    *)
(* its arguments comes by the positions it came by before.  The names      *)
(* that stand for child_process are those of JavaScript's scopes because   *)
(* the bindings of a name are made deeper and deeper, so that the last     *)
(* one is the innermost, and up to every depth both say the same of it     *)
(* (CallInv).  The catch blocks found are those that are silent because    *)
(* the brace a block ends with is the first behind which as many blocks    *)
(* are open as before it: each block on the stack is open in the text,     *)
(* every other one has ended, and none overlaps another (BlocksInv); the   *)
(* except suites because a header is open as long as every line below it   *)
(* is indented further (SuitesInv).                                        *)
(***************************************************************************)
EXTENDS Preflight, Watch, Scan, Integers, SequenceTheorems, FiniteSetTheorems, TLAPS

Stage == {"idle", "loaded", "analysed", "listed", "found", "report"}
CheckState ==
  [at : Stage, ordinary : BOOLEAN, given : SUBSET File, before : Graphs, after : Graphs,
   changed : SUBSET File, found : SUBSET Finding, stay : SUBSET File]

\* What git listed while the check ran, and still lists, is among its changed files.
ListedIsChanged ==
  \A j \in Job : check[j].at = "listed" /\ check[j].ordinary =>
    (dirty \cap check[j].stay) \ Managed \subseteq check[j].changed

IInv == TypeOK /\ ListedIsChanged /\ DirtyRiskReported

-----------------------------------------------------------------------------
(* Types *)

LEMMA EmptyGraphType ==
  /\ EmptyGraph \in Graphs
  /\ \A g \in Graphs : g.deep \in Nat
BY GraphAssumption DEF Graphs, EmptyGraph

LEMMA IdleType == Idle \in CheckState /\ Idle.at = "idle"
BY EmptyGraphType DEF Idle, CheckState, Stage

\* A report consists of findings.
LEMMA ReportType ==
  ASSUME TypeOK, NEW c \in CheckState
  PROVE  Report(c) \subseteq Finding
<1>1. \A named \in SUBSET File : ContentRisks(named) \subseteq Finding
  BY DEF ContentRisks, Finding
<1>2. FileSignals(c) \subseteq Finding
  BY DEF FileSignals, Finding, CheckState
<1>3. GrowthSignals(c) \subseteq Finding
  BY DEF GrowthSignals, Finding, Whole
<1>4. c.changed \in SUBSET File /\ File \ (Managed \cup Skipped) \in SUBSET File
  BY DEF CheckState
<1>5. QED
  BY <1>1, <1>2, <1>3, <1>4 DEF Report

\* The types, with a name for the state of a check.
Types ==
  /\ risky \subseteq File /\ dirty \subseteq File
  /\ graph \in Graphs /\ baseline \in Graphs
  /\ check \in [Job -> CheckState]
  /\ prev \in Graphs /\ calm \in BOOLEAN

LEMMA TypeIs == TypeOK <=> Types
BY DEF TypeOK, Types, CheckState, Stage

LEMMA TypeInit == Init => TypeOK
<1> SUFFICES ASSUME Init PROVE TypeOK
  OBVIOUS
<1>1. dirty \subseteq File
  BY DEF Init
<1>2. QED
  BY <1>1, EmptyGraphType, IdleType, TypeIs DEF Init, Types

\* A step of one check leaves a check state behind.
LEMMA CheckStep ==
  ASSUME TypeOK, NEW j \in Job, NEW c \in CheckState, check' = [check EXCEPT ![j] = c]
  PROVE  /\ check' \in [Job -> CheckState]
         /\ check'[j] = c
         /\ \A k \in Job : k # j => check'[k] = check[k]
BY TypeIs DEF Types

LEMMA TypeStep == TypeOK /\ [Next]_vars => TypeOK'
<1>t. TypeOK' <=> Types'
  BY DEF TypeOK, Types, CheckState, Stage
<1> SUFFICES ASSUME TypeOK, Types, [Next]_vars PROVE Types'
  BY <1>t, TypeIs
<1> USE SwitchAssumption DEF Types
<1>1. ASSUME NEW j \in Job, NEW ordinary \in BOOLEAN, NEW named \in SUBSET File,
             Begin(j, ordinary, named)
      PROVE  Types'
  <2> DEFINE c == [Idle EXCEPT !.at = "loaded", !.ordinary = ordinary, !.given = named,
                               !.before = baseline, !.stay = File]
  <2>1. c \in CheckState
    BY IdleType, EmptyGraphType DEF CheckState, Stage, Idle
  <2>2. check' = [check EXCEPT ![j] = c]
    BY <1>1 DEF Begin, Step
  <2> HIDE DEF c
  <2>3. check' \in [Job -> CheckState]
    BY <2>1, <2>2, CheckStep
  <2>4. QED
    BY <1>1, <2>3 DEF Begin
<1>2. ASSUME NEW j \in Job, Analyse(j) PROVE Types'
  <2> DEFINE c == [check[j] EXCEPT !.at = "analysed", !.after = graph]
  <2>1. c \in CheckState
    BY DEF CheckState, Stage
  <2>2. check' = [check EXCEPT ![j] = c]
    BY <1>2 DEF Analyse, Step
  <2> HIDE DEF c
  <2>3. check' \in [Job -> CheckState]
    BY <2>1, <2>2, CheckStep
  <2>4. QED
    BY <1>2, <2>3 DEF Analyse
<1>3. ASSUME NEW j \in Job, List(j) PROVE Types'
  <2> DEFINE named == IF check[j].ordinary THEN dirty ELSE check[j].given
             c == [check[j] EXCEPT !.at = "listed", !.changed = named \ Managed]
  <2>1. c \in CheckState
    BY DEF CheckState, Stage
  <2>2. check' = [check EXCEPT ![j] = c]
    BY <1>3 DEF List, Step
  <2> HIDE DEF c
  <2>3. check' \in [Job -> CheckState]
    BY <2>1, <2>2, CheckStep
  <2>4. QED
    BY <1>3, <2>3 DEF List
<1>4. ASSUME NEW j \in Job, Examine(j) PROVE Types'
  <2> DEFINE old == check[j]
             c == [old EXCEPT !.at = "found", !.found = Report(old)]
  <2>1. old \in CheckState
    OBVIOUS
  <2>2. Report(old) \subseteq Finding
    BY <2>1, ReportType
  <2> HIDE DEF old
  <2>4. c \in CheckState
    BY <2>1, <2>2 DEF CheckState, Stage
  <2>5. check' = [check EXCEPT ![j] = c]
    BY <1>4 DEF Examine, Step, old
  <2> HIDE DEF c
  <2>6. check' \in [Job -> CheckState]
    BY <2>4, <2>5, CheckStep
  <2>7. QED
    BY <1>4, <2>6 DEF Examine
<1>5. ASSUME NEW j \in Job, Save(j) PROVE Types'
  <2> DEFINE c == [check[j] EXCEPT !.at = "report"]
  <2>1. c \in CheckState
    BY DEF CheckState, Stage
  <2>2. check' = [check EXCEPT ![j] = c]
    BY <1>5 DEF Save, Step
  <2> HIDE DEF c
  <2>3. check' \in [Job -> CheckState]
    BY <2>1, <2>2, CheckStep
  <2>4. baseline' \in Graphs /\ prev' \in Graphs /\ calm' \in BOOLEAN
    <3>1. CASE check[j].ordinary
      <4>1. check[j].after \in Graphs
        BY DEF CheckState
      <4>2. QED
        BY <1>5, <3>1, <4>1, EmptyGraphType DEF Save
    <3>2. CASE ~check[j].ordinary
      BY <1>5, <3>2 DEF Save
    <3>3. QED
      BY <3>1, <3>2
  <2>5. QED
    BY <1>5, <2>3, <2>4 DEF Save
<1>6. ASSUME NEW j \in Job, Deliver(j) PROVE Types'
  <2>1. check' \in [Job -> CheckState]
    BY <1>6, IdleType, CheckStep DEF Deliver, Step
  <2>2. QED
    BY <1>6, <2>1 DEF Deliver
<1>7. ASSUME NEW j \in Job, Abandon(j) PROVE Types'
  <2>1. check' \in [Job -> CheckState]
    BY <1>7, IdleType, CheckStep DEF Abandon
  <2>2. QED
    BY <1>7, <2>1, EmptyGraphType DEF Abandon
<1>8. ASSUME NEW f \in File, Edit(f) PROVE Types'
  <2>1. check' \in [Job -> CheckState]
    BY <1>8 DEF Edit, KeepStay, CheckState
  <2>2. graph' \in Graphs
    BY <1>8, EmptyGraphType DEF Edit
  <2>3. risky' \subseteq File /\ dirty' \subseteq File
    BY <1>8 DEF Edit
  <2>4. QED
    BY <1>8, <2>1, <2>2, <2>3 DEF Edit
<1>9. CASE Commit
  <2>1. check' \in [Job -> CheckState]
    BY <1>9 DEF Commit, KeepStay, CheckState
  <2>2. QED
    BY <1>9, <2>1 DEF Commit
<1>10. CASE UNCHANGED vars
  BY <1>10 DEF vars
<1>11. QED
  BY <1>1, <1>2, <1>3, <1>4, <1>5, <1>6, <1>7, <1>8, <1>9, <1>10, FileAssumption DEF Next

-----------------------------------------------------------------------------
(* The changed files of a check are scanned *)

\* A check with changed files scans them.
LEMMA ChangedIsScanned ==
  ASSUME NEW c, NEW f \in c.changed, f \in risky
  PROVE  <<"content", f>> \in Report(c)
<1>1. ~Initial(c) /\ ~Quiet(c)
  BY DEF Initial, Quiet
<1>2. <<"content", f>> \in ContentRisks(c.changed)
  BY DEF ContentRisks
<1>3. QED
  BY <1>1, <1>2 DEF Report

\* The steps that move one check on, and those of the user, keep a listed file a
\* changed one and a reported one reported.
LEMMA IInvStep == IInv /\ [Next]_vars => IInv'
<1> SUFFICES ASSUME IInv, [Next]_vars PROVE IInv'
  OBVIOUS
<1>t. TypeOK /\ TypeOK'
  BY TypeStep DEF IInv
<1>c. check \in [Job -> CheckState] /\ check' \in [Job -> CheckState]
  BY <1>t DEF TypeOK, CheckState, Stage
<1>1. ASSUME UNCHANGED <<risky, dirty>>, NEW j \in Job,
             \A k \in Job : k # j => check'[k] = check[k],
             check'[j].at \notin {"listed", "found"},
             check'[j].at = "report" =>
               check[j].at = "found" /\ check' = [check EXCEPT ![j].at = "report"]
      PROVE  IInv'
  <2>1. ListedIsChanged'
    BY <1>1 DEF IInv, ListedIsChanged
  <2>2. DirtyRiskReported'
    <3> SUFFICES ASSUME NEW k \in Job, check'[k].at \in {"found", "report"},
                        check'[k].ordinary,
                        NEW f \in (risky \cap check'[k].stay) \ Managed, f \in dirty
                 PROVE  <<"content", f>> \in check'[k].found
      BY <1>1 DEF DirtyRiskReported, Stayed
    <3>1. CASE k # j
      BY <1>1, <3>1 DEF IInv, DirtyRiskReported, Stayed
    <3>2. CASE k = j
      <4>1. /\ check[k].at = "found" /\ check'[k].found = check[k].found
            /\ check'[k].stay = check[k].stay /\ check'[k].ordinary = check[k].ordinary
        <5>1. check[j].at = "found" /\ check' = [check EXCEPT ![j].at = "report"]
          BY <1>1, <3>2
        <5>2. PICK c \in CheckState : c = check[k] /\ check'[k] = [c EXCEPT !.at = "report"]
          BY <1>c, <3>2, <5>1
        <5>3. LET d == [c EXCEPT !.at = "report"]
              IN  d.found = c.found /\ d.stay = c.stay /\ d.ordinary = c.ordinary
          BY DEF CheckState
        <5>4. QED
          BY <3>2, <5>1, <5>2, <5>3
      <4>2. QED
        BY <4>1 DEF IInv, DirtyRiskReported, Stayed
    <3>3. QED
      BY <3>1, <3>2
  <2>3. QED
    BY <1>t, <2>1, <2>2 DEF IInv
<1>2. ASSUME NEW j \in Job, NEW ordinary \in BOOLEAN, NEW named \in SUBSET File,
             Begin(j, ordinary, named)
      PROVE  IInv'
  BY <1>1, <1>2, <1>c DEF Begin, Step, Idle
<1>3. ASSUME NEW j \in Job, Analyse(j) PROVE IInv'
  <2>1. check'[j].at = "analysed"
    BY <1>3, <1>c DEF Analyse, Step, CheckState
  <2>2. QED
    BY <1>1, <1>3, <1>c, <2>1 DEF Analyse, Step
<1>4. ASSUME NEW j \in Job, List(j) PROVE IInv'
  <2>1. /\ check'[j].at = "listed" /\ check'[j].stay = check[j].stay
        /\ check'[j].ordinary = check[j].ordinary
        /\ check[j].ordinary => check'[j].changed = dirty \ Managed
    BY <1>4, <1>c DEF List, Step, CheckState
  <2>2. \A k \in Job : k # j => check'[k] = check[k]
    BY <1>4, <1>c DEF List, Step
  <2>3. UNCHANGED <<risky, dirty>>
    BY <1>4 DEF List
  <2>4. ListedIsChanged'
    BY <2>1, <2>2, <2>3 DEF IInv, ListedIsChanged
  <2>5. DirtyRiskReported'
    BY <2>1, <2>2, <2>3 DEF IInv, DirtyRiskReported, Stayed
  <2>6. QED
    BY <1>t, <2>4, <2>5 DEF IInv
<1>5. ASSUME NEW j \in Job, Examine(j) PROVE IInv'
  <2>1. /\ check[j].at = "listed" /\ check'[j].at = "found"
        /\ check'[j].found = Report(check[j]) /\ check'[j].stay = check[j].stay
        /\ check'[j].ordinary = check[j].ordinary
    BY <1>5, <1>c DEF Examine, Step, CheckState
  <2>2. \A k \in Job : k # j => check'[k] = check[k]
    BY <1>5, <1>c DEF Examine, Step
  <2>3. UNCHANGED <<risky, dirty>>
    BY <1>5 DEF Examine
  <2>4. ListedIsChanged'
    BY <2>1, <2>2, <2>3 DEF IInv, ListedIsChanged
  <2>5. DirtyRiskReported'
    <3> SUFFICES ASSUME NEW k \in Job, check'[k].at \in {"found", "report"},
                        check'[k].ordinary,
                        NEW f \in (risky \cap check'[k].stay) \ Managed, f \in dirty
                 PROVE  <<"content", f>> \in check'[k].found
      BY <2>3 DEF DirtyRiskReported, Stayed
    <3>1. CASE k # j
      BY <2>2, <3>1 DEF IInv, DirtyRiskReported, Stayed
    <3>2. CASE k = j
      <4>1. f \in check[j].changed
        BY <2>1, <3>2 DEF IInv, ListedIsChanged
      <4>2. QED
        BY <2>1, <3>2, <4>1, ChangedIsScanned
    <3>3. QED
      BY <3>1, <3>2
  <2>6. QED
    BY <1>t, <2>4, <2>5 DEF IInv
<1>6. ASSUME NEW j \in Job, Save(j) PROVE IInv'
  <2>1. /\ check[j].at = "found" /\ check' = [check EXCEPT ![j].at = "report"]
        /\ check'[j].at = "report"
    BY <1>6, <1>c DEF Save, Step, CheckState
  <2>2. QED
    BY <1>1, <1>6, <1>c, <2>1 DEF Save
<1>7. ASSUME NEW j \in Job, Deliver(j) \/ Abandon(j) PROVE IInv'
  <2>1. check' = [check EXCEPT ![j] = Idle]
    BY <1>7 DEF Deliver, Abandon, Step
  <2>2. check'[j].at = "idle"
    BY <1>c, <2>1, IdleType
  <2>3. QED
    BY <1>1, <1>7, <1>c, <2>1, <2>2 DEF Deliver, Abandon
<1>8. ASSUME NEW named \in SUBSET File, KeepStay(named),
             \A f \in named : (f \in dirty' => f \in dirty) /\ (f \in risky' => f \in risky)
      PROVE  IInv'
  <2>1. \A k \in Job :
          /\ check'[k].at = check[k].at /\ check'[k].ordinary = check[k].ordinary
          /\ check'[k].changed = check[k].changed /\ check'[k].found = check[k].found
          /\ check'[k].stay = check[k].stay \cap named
    BY <1>8, <1>c DEF KeepStay, CheckState
  <2>2. ListedIsChanged'
    BY <1>8, <2>1 DEF IInv, ListedIsChanged
  <2>3. DirtyRiskReported'
    BY <1>8, <2>1 DEF IInv, DirtyRiskReported, Stayed
  <2>4. QED
    BY <1>t, <2>2, <2>3 DEF IInv
<1>9. ASSUME NEW f \in File, Edit(f) PROVE IInv'
  <2>1. \A g \in File \ {f} :
          (g \in dirty' => g \in dirty) /\ (g \in risky' => g \in risky)
    <3>1. dirty' \in {dirty \cup {f}, dirty \ {f}} \/ (~Git /\ dirty' = {})
      BY <1>9 DEF Edit
    <3>2. QED
      BY <1>9, <3>1 DEF Edit
  <2>2. QED
    BY <1>8, <1>9, <2>1 DEF Edit
<1>10. CASE Commit
  BY <1>8, <1>10 DEF Commit
<1>11. CASE UNCHANGED vars
  BY <1>11 DEF vars, IInv, TypeOK, ListedIsChanged, DirtyRiskReported, Stayed
<1>12. QED
  BY <1>2, <1>3, <1>4, <1>5, <1>6, <1>7, <1>9, <1>10, <1>11, FileAssumption DEF Next

-----------------------------------------------------------------------------
(* Growth is announced once: while nothing disturbs the baseline it is the    *)
(* graph of the last ordinary check, and the one check that runs holds it.    *)

Comparing == {"loaded", "analysed", "listed", "found"}

\* A check that was examined announced growth exactly if there was some.
GrowthTold(c) ==
  c.at = "found" /\ c.ordinary /\ ~Initial(c) /\ ~Quiet(c) => TellsGrowth(c, c.before)

Alone == \A j, k \in Job : j # k => check[j].at = "idle" \/ check[k].at = "idle"
BeforeIsPrev == \A j \in Job : check[j].at \in Comparing => check[j].before = prev

CalmInv == calm => Alone /\ baseline = prev /\ BeforeIsPrev
AllTold == \A j \in Job : GrowthTold(check[j])
AlarmInv == TypeOK /\ CalmInv /\ AllTold

\* The scan of file contents and of changed files says nothing about growth.
LEMMA ReportOfGrowth ==
  ASSUME NEW c, c.ordinary, ~Initial(c), ~Quiet(c)
  PROVE  /\ (<<"cycle", Whole>> \in Report(c)) <=> c.after.cycles > c.before.cycles
         /\ (<<"deep", Whole>> \in Report(c)) <=> c.after.deep > c.before.deep
<1>1. \A what \in {"cycle", "deep"} : <<what, Whole>> \notin FileSignals(c)
  BY DEF FileSignals
<1>2. \A what \in {"cycle", "deep"} : <<what, Whole>> \notin ContentRisks(c.changed)
  BY DEF ContentRisks
<1>3. /\ (<<"cycle", Whole>> \in GrowthSignals(c)) <=> c.after.cycles > c.before.cycles
      /\ (<<"deep", Whole>> \in GrowthSignals(c)) <=> c.after.deep > c.before.deep
  BY DEF GrowthSignals
<1>4. QED
  BY <1>1, <1>2, <1>3 DEF Report

\* A step of a running check that leaves the saved graph alone, or ends the calm.
LEMMA RunningStep ==
  ASSUME AlarmInv, TypeOK', NEW j \in Job, NEW c \in CheckState,
         check' = [check EXCEPT ![j] = c],
         calm' => calm /\ UNCHANGED <<baseline, prev>>,
         c.at = "idle" \/ check[j].at # "idle",
         c.at \in Comparing => check[j].at \in Comparing /\ c.before = check[j].before,
         GrowthTold(c)
  PROVE  AlarmInv'
<1>1. check'[j] = c /\ \A k \in Job : k # j => check'[k] = check[k]
  BY CheckStep DEF AlarmInv
<1>2. AllTold'
  <2> SUFFICES ASSUME NEW k \in Job PROVE GrowthTold(check'[k])
    BY DEF AllTold, GrowthTold, TellsGrowth, Initial, Quiet, SameSize
  <2>1. CASE k = j
    BY <1>1, <2>1
  <2>2. CASE k # j
    BY <1>1, <2>2 DEF AlarmInv, AllTold
  <2>3. QED
    BY <2>1, <2>2
<1>3. CalmInv'
  <2> SUFFICES ASSUME calm' PROVE Alone' /\ baseline' = prev' /\ BeforeIsPrev'
    BY DEF CalmInv
  <2>1. Alone /\ baseline = prev /\ BeforeIsPrev
    BY DEF AlarmInv, CalmInv
  <2>2. Alone'
    BY <1>1, <2>1 DEF Alone
  <2>3. BeforeIsPrev'
    BY <1>1, <2>1 DEF BeforeIsPrev
  <2>4. QED
    BY <2>1, <2>2, <2>3
<1>4. QED
  BY <1>2, <1>3 DEF AlarmInv

LEMMA AlarmInit == Init => AlarmInv
<1> SUFFICES ASSUME Init PROVE AlarmInv
  OBVIOUS
<1>1. \A j \in Job : check[j].at = "idle"
  BY IdleType DEF Init
<1>2. CalmInv
  BY <1>1 DEF Init, CalmInv, Alone, BeforeIsPrev, Comparing
<1>3. AllTold
  BY <1>1 DEF AllTold, GrowthTold
<1>4. QED
  BY <1>2, <1>3, TypeInit DEF AlarmInv

LEMMA AlarmStep == AlarmInv /\ [Next]_vars => AlarmInv'
<1> SUFFICES ASSUME AlarmInv, [Next]_vars PROVE AlarmInv'
  OBVIOUS
<1>t. TypeOK /\ TypeOK'
  BY TypeStep DEF AlarmInv
<1>c. /\ check \in [Job -> CheckState] /\ check' \in [Job -> CheckState]
      /\ graph \in Graphs /\ dirty \subseteq File /\ baseline \in Graphs
  BY <1>t DEF TypeOK, CheckState, Stage
<1>1. ASSUME NEW j \in Job, NEW ordinary \in BOOLEAN, NEW named \in SUBSET File,
             Begin(j, ordinary, named)
      PROVE  AlarmInv'
  <2>1. /\ check'[j].at = "loaded" /\ check'[j].before = baseline
        /\ \A k \in Job : k # j => check'[k] = check[k]
    BY <1>1, <1>c DEF Begin, Step, Idle
  <2>2. AllTold'
    <3> SUFFICES ASSUME NEW k \in Job PROVE GrowthTold(check'[k])
      BY DEF AllTold, GrowthTold, TellsGrowth, Initial, Quiet, SameSize
    <3>1. CASE k = j
      BY <2>1, <3>1 DEF GrowthTold
    <3>2. CASE k # j
      BY <2>1, <3>2 DEF AlarmInv, AllTold
    <3>3. QED
      BY <3>1, <3>2
  <2>3. CalmInv'
    <3> SUFFICES ASSUME calm' PROVE Alone' /\ baseline' = prev' /\ BeforeIsPrev'
      BY DEF CalmInv
    <3>1. /\ \A k \in Job : check[k].at = "idle"
          /\ baseline = prev /\ UNCHANGED <<baseline, prev>>
      BY <1>1 DEF Begin, AlarmInv, CalmInv
    <3>2. \A k \in Job : k # j => check'[k].at = "idle"
      BY <2>1, <3>1
    <3>3. Alone'
      BY <3>2 DEF Alone
    <3>4. BeforeIsPrev'
      BY <2>1, <3>1, <3>2 DEF BeforeIsPrev, Comparing
    <3>5. QED
      BY <3>1, <3>3, <3>4
  <2>4. QED
    BY <1>t, <2>2, <2>3 DEF AlarmInv
<1>2. ASSUME NEW j \in Job, Analyse(j) PROVE AlarmInv'
  <2>1. PICK c \in CheckState : c = check[j]
    BY <1>c
  <2> DEFINE d == [c EXCEPT !.at = "analysed", !.after = graph]
  <2>2. d \in CheckState /\ d.at = "analysed" /\ d.before = c.before
    BY <1>c DEF CheckState, Stage
  <2>3. /\ check' = [check EXCEPT ![j] = d] /\ c.at = "loaded"
        /\ UNCHANGED <<baseline, prev, calm>>
    BY <1>2, <2>1 DEF Analyse, Step
  <2> HIDE DEF d
  <2>4. GrowthTold(d)
    BY <2>2 DEF GrowthTold
  <2>5. QED
    BY <1>t, <2>1, <2>2, <2>3, <2>4, RunningStep DEF Comparing
<1>3. ASSUME NEW j \in Job, List(j) PROVE AlarmInv'
  <2>1. PICK c \in CheckState : c = check[j]
    BY <1>c
  <2>2. PICK named \in SUBSET File : named = IF c.ordinary THEN dirty ELSE c.given
    BY <1>c DEF CheckState
  <2> DEFINE d == [c EXCEPT !.at = "listed", !.changed = named \ Managed]
  <2>3. d \in CheckState /\ d.at = "listed" /\ d.before = c.before
    BY DEF CheckState, Stage
  <2>4. /\ check' = [check EXCEPT ![j] = d] /\ c.at = "analysed"
        /\ UNCHANGED <<baseline, prev, calm>>
    BY <1>3, <2>1, <2>2 DEF List, Step
  <2> HIDE DEF d
  <2>5. GrowthTold(d)
    BY <2>3 DEF GrowthTold
  <2>6. QED
    BY <1>t, <2>1, <2>3, <2>4, <2>5, RunningStep DEF Comparing
<1>4. ASSUME NEW j \in Job, Examine(j) PROVE AlarmInv'
  <2>1. PICK c \in CheckState : c = check[j]
    BY <1>c
  <2>2. PICK found \in SUBSET Finding : found = Report(c)
    BY <1>t, ReportType
  <2> DEFINE d == [c EXCEPT !.at = "found", !.found = found]
  <2>3. /\ d \in CheckState /\ d.at = "found" /\ d.found = found
        /\ d.before = c.before /\ d.after = c.after
        /\ d.changed = c.changed /\ d.ordinary = c.ordinary
    BY DEF CheckState, Stage
  <2>4. /\ check' = [check EXCEPT ![j] = d] /\ c.at = "listed"
        /\ UNCHANGED <<baseline, prev, calm>>
    BY <1>4, <2>1, <2>2 DEF Examine, Step
  <2> HIDE DEF d
  <2>5. (Initial(d) <=> Initial(c)) /\ (Quiet(d) <=> Quiet(c))
    BY <2>3 DEF Initial, Quiet, SameSize
  <2>6. GrowthTold(d)
    BY <2>2, <2>3, <2>5, ReportOfGrowth DEF GrowthTold, TellsGrowth
  <2>7. QED
    BY <1>t, <2>1, <2>3, <2>4, <2>6, RunningStep DEF Comparing
<1>5. ASSUME NEW j \in Job, Save(j) PROVE AlarmInv'
  <2>1. PICK c \in CheckState : c = check[j]
    BY <1>c
  <2> DEFINE d == [c EXCEPT !.at = "report"]
  <2>2. d \in CheckState /\ d.at = "report"
    BY DEF CheckState, Stage
  <2>3. check' = [check EXCEPT ![j] = d] /\ c.at = "found"
    BY <1>5, <2>1 DEF Save, Step
  <2> HIDE DEF d
  <2>4. GrowthTold(d)
    BY <2>2 DEF GrowthTold
  <2>5. CASE calm' => calm /\ UNCHANGED <<baseline, prev>>
    BY <1>t, <2>1, <2>2, <2>3, <2>4, <2>5, RunningStep DEF Comparing
  <2>6. CASE calm' /\ calm /\ baseline' = c.after /\ prev' = c.after
    <3>1. Alone
      BY <2>6 DEF AlarmInv, CalmInv
    <3>2. check'[j] = d /\ \A k \in Job : k # j => check'[k] = check[k]
      BY <1>t, <2>2, <2>3, CheckStep
    <3>3. \A k \in Job : k # j => check'[k].at = "idle"
      BY <2>1, <2>3, <3>1, <3>2 DEF Alone
    <3>4. Alone' /\ BeforeIsPrev'
      BY <2>2, <3>2, <3>3 DEF Alone, BeforeIsPrev, Comparing
    <3>5. \A k \in Job : check'[k].at # "found"
      BY <2>2, <3>2, <3>3
    <3>6. AllTold'
      BY <3>5 DEF AllTold, GrowthTold
    <3>7. QED
      BY <1>t, <2>6, <3>4, <3>6 DEF AlarmInv, CalmInv
  <2>7. QED
    BY <1>5, <2>1, <2>5, <2>6 DEF Save
<1>6. ASSUME NEW j \in Job, Deliver(j) PROVE AlarmInv'
  <2>1. GrowthTold(Idle)
    BY IdleType DEF GrowthTold
  <2>2. check' = [check EXCEPT ![j] = Idle] /\ UNCHANGED <<baseline, prev, calm>>
    BY <1>6 DEF Deliver, Step
  <2>3. QED
    BY <1>t, <2>1, <2>2, IdleType, RunningStep DEF Comparing
<1>7. ASSUME NEW j \in Job, Abandon(j) PROVE AlarmInv'
  <2>1. GrowthTold(Idle)
    BY IdleType DEF GrowthTold
  <2>2. /\ check' = [check EXCEPT ![j] = Idle]
        /\ calm' => calm /\ UNCHANGED <<baseline, prev>>
    BY <1>7 DEF Abandon
  <2>3. QED
    BY <1>t, <2>1, <2>2, IdleType, RunningStep DEF Comparing
<1>8. ASSUME NEW named, KeepStay(named), UNCHANGED <<baseline, prev, calm>>
      PROVE  AlarmInv'
  <2>1. \A k \in Job :
          /\ check'[k].at = check[k].at /\ check'[k].ordinary = check[k].ordinary
          /\ check'[k].before = check[k].before /\ check'[k].after = check[k].after
          /\ check'[k].changed = check[k].changed /\ check'[k].found = check[k].found
    BY <1>8, <1>c DEF KeepStay, CheckState
  <2>2. CalmInv'
    BY <1>8, <2>1 DEF AlarmInv, CalmInv, Alone, BeforeIsPrev
  <2>3. AllTold'
    BY <2>1 DEF AlarmInv, AllTold, GrowthTold, TellsGrowth, Initial, Quiet, SameSize
  <2>4. QED
    BY <1>t, <2>2, <2>3 DEF AlarmInv
<1>9. ASSUME NEW f \in File, Edit(f) PROVE AlarmInv'
  BY <1>8, <1>9 DEF Edit
<1>10. CASE Commit
  BY <1>8, <1>10 DEF Commit
<1>11. CASE UNCHANGED vars
  <2>1. AllTold'
    BY <1>11 DEF vars, AlarmInv, AllTold, GrowthTold, TellsGrowth, Initial, Quiet, SameSize
  <2>2. CalmInv'
    BY <1>11 DEF vars, AlarmInv, CalmInv, Alone, BeforeIsPrev
  <2>3. QED
    BY <1>t, <2>1, <2>2 DEF AlarmInv
<1>12. QED
  BY <1>1, <1>2, <1>3, <1>4, <1>5, <1>6, <1>7, <1>9, <1>10, <1>11, FileAssumption DEF Next

-----------------------------------------------------------------------------
\* Every variable of a check and of the workspace keeps its type.
THEOREM TypeCorrect == Spec => []TypeOK
<1>1. QED
  BY TypeInit, TypeStep, PTL DEF Spec

\* A file that git lists and that holds a risk for as long as a check runs is in the
\* report of that check, in every workspace and whatever happened to the baseline.
THEOREM RiskReported == Spec => []DirtyRiskReported
<1>1. Init => IInv
  <2>1. Init => \A j \in Job : check[j].at = "idle"
    BY IdleType DEF Init
  <2>2. QED
    BY <2>1, TypeInit DEF IInv, ListedIsChanged, DirtyRiskReported
<1>2. IInv => DirtyRiskReported
  BY DEF IInv
<1>3. QED
  BY <1>1, <1>2, IInvStep, PTL DEF Spec

\* While checks do not overlap and no save fails, an ordinary check announces growth
\* exactly when its graph has more cycles, or more deep coupling, than that of the
\* ordinary check before it: whatever checks of given files ran in between, growth is announced, and
\* announced once.
THEOREM GrowthAnnouncedOnce == Spec => []AlarmIffGrown
<1>1. AlarmInv => AlarmIffGrown
  <2> SUFFICES ASSUME AlarmInv, NEW j \in Job, calm, check[j].at = "found",
                      check[j].ordinary, ~Quiet(check[j]),
                      prev.nodes # 0 \/ check[j].changed # {}
               PROVE  TellsGrowth(check[j], prev)
    BY DEF AlarmIffGrown
  <2>1. check[j].before = prev
    BY DEF AlarmInv, CalmInv, BeforeIsPrev, Comparing
  <2>2. ~Initial(check[j])
    BY <2>1 DEF Initial
  <2>3. GrowthTold(check[j])
    BY DEF AlarmInv, AllTold
  <2>4. QED
    BY <2>1, <2>2, <2>3 DEF GrowthTold
<1>2. QED
  BY <1>1, AlarmInit, AlarmStep, PTL DEF Spec

-----------------------------------------------------------------------------
(* Watch: the loop that repeats checks *)

Stages == {"off", "scan", "record", "show", "poll"}

\* Is there a difference that no check has been begun for?
Due == IF Snapshot # previous THEN 1 ELSE 0
Caused == checks \in Nat /\ edits \in Nat /\ checks + Due <= 1 + edits

\* When keys were noted or told.
Moments(f) == \A k \in DOMAIN f : f[k] \in Nat
Timed == now \in Nat /\ verdict.at \in Nat /\ Moments(emitted) /\ Moments(told)

\* What was told has been noted then or later, and what was noted was told then, unless
\* it was left out.
ToldOrCut(noted) ==
  /\ \A k \in DOMAIN told : k \in DOMAIN noted /\ told[k] <= noted[k]
  /\ \A k \in DOMAIN noted : k \in cut \/ (k \in DOMAIN told /\ told[k] = noted[k])

\* Is a key visible in a check judged at a time?
Fresh(noted, k, at) ==
  k \in DOMAIN noted => (IF at >= noted[k] THEN at - noted[k] ELSE 0) > Window

\* The check in progress, from its judgement on: what had been noted before it.
JudgedBy(noted) ==
  /\ Moments(noted) /\ ToldOrCut(noted)
  /\ verdict.visible = {k \in verdict.findings : Fresh(noted, k, verdict.at)}
  /\ emitted = With(noted, verdict.visible, verdict.at)
Judged == verdict.findings = FindingsIn(checked) /\ \E noted : JudgedBy(noted)
OnRecord ==
  /\ gate = {GateOf(verdict.findings)}
  /\ \A k \in verdict.visible : k \in DOMAIN recorded /\ recorded[k] = verdict.at

WatchInv ==
  /\ stage \in Stages
  /\ Caused
  /\ Timed
  /\ jsonl => cut = {}
  /\ stage \in {"scan", "poll"} => ToldOrCut(emitted)
  /\ stage \in {"record", "show"} => Judged
  /\ stage = "show" => OnRecord
  /\ stage = "poll" => gate = {GateOf(FindingsIn(checked))}

-----------------------------------------------------------------------------
(* Small facts *)

LEMMA WithMoments ==
  ASSUME NEW f, NEW S, NEW v \in Nat, Moments(f)
  PROVE  Moments(With(f, S, v))
BY DEF With, Moments

LEMMA NoneMoments == Moments(None) /\ DOMAIN None = {}
BY DEF Moments, None

LEMMA OutputVisible ==
  ASSUME NEW findings, NEW shown \in Outputs(findings)
  PROVE  shown \subseteq findings /\ (jsonl => shown = findings)
BY DEF Outputs, Pages, OnPage

\* The check in progress is still judged if nothing of it changes.
LEMMA StillJudged ==
  ASSUME Judged, UNCHANGED <<verdict, checked, emitted, told, cut>>
  PROVE  Judged'
<1>1. PICK noted : JudgedBy(noted)
  BY DEF Judged
<1>2. JudgedBy(noted)'
  BY <1>1 DEF JudgedBy, ToldOrCut, Fresh, Moments
<1>3. (verdict.findings = FindingsIn(checked))'
  BY DEF Judged, FindingsIn
<1> QED  BY <1>2, <1>3 DEF Judged

-----------------------------------------------------------------------------
(* Steps *)

LEMMA InitWatch == WatchInit => WatchInv
<1> SUFFICES ASSUME WatchInit PROVE WatchInv
  OBVIOUS
<1>1. Caused
  BY DEF WatchInit, Caused, Due
<1>2. Timed
  BY NoneMoments DEF WatchInit, Timed, NoVerdict
<1> QED  BY <1>1, <1>2 DEF WatchInit, WatchInv, Stages

LEMMA NextWatch ==
  ASSUME WatchInv, [WatchNext]_watchVars
  PROVE  WatchInv'
<1> USE DEF Stages
<1>1. CASE UNCHANGED watchVars
  <2>1. Judged => Judged'
    BY <1>1, StillJudged DEF watchVars
  <2> QED
    BY <1>1, <2>1 DEF watchVars, WatchInv, Caused, Due, Snapshot, Timed, Moments, ToldOrCut, OnRecord,
          FindingsIn, GateOf
<1>2. CASE Start
  <2>1. Caused'
    BY <1>2 DEF Start, Caused, Due, Snapshot
  <2>2. Timed'
    BY <1>2, NoneMoments DEF WatchInv, Start, Timed, NoVerdict, Moments, None
  <2>3. ToldOrCut(emitted)' /\ cut' = {}
    BY <1>2, NoneMoments DEF Start, ToldOrCut
  <2> QED  BY <1>2, <2>1, <2>2, <2>3 DEF Start, WatchInv
<1>3. ASSUME NEW f \in Source, Read(f)
      PROVE  WatchInv'
  <2>1. Caused'
    BY <1>3 DEF WatchInv, Read, world, history, Caused, Due, Snapshot
  <2>2. Timed'
    BY <1>3 DEF WatchInv, Read, world, history, telling, Timed, Moments
  <2>3. ToldOrCut(emitted)'
    BY <1>3 DEF WatchInv, Read, history, telling, ToldOrCut
  <2> QED  BY <1>3, <2>1, <2>2, <2>3 DEF WatchInv, Read, world, history, telling
<1>4. CASE Judge
  <2>1. Caused'
    BY <1>4 DEF WatchInv, Judge, world, Caused, Due, Snapshot
  <2>2. /\ verdict'.at = now /\ verdict'.findings = FindingsIn(seen)
        /\ verdict'.visible = {k \in FindingsIn(seen) : ShouldEmit(k)}
        /\ emitted' = With(emitted, verdict'.visible, now) /\ ToldOrCut(emitted) /\ Moments(emitted)
        /\ told' = told /\ cut' = cut /\ jsonl' = jsonl /\ checked' = seen /\ now' = now
    BY <1>4 DEF WatchInv, Judge, world, telling, Timed
  <2>3. \A k : ShouldEmit(k) <=> Fresh(emitted, k, now)
    BY DEF ShouldEmit, Since, Fresh
  <2>4. Timed'
    <3>1. Moments(With(emitted, verdict'.visible, now))
      BY WithMoments DEF WatchInv, Timed
    <3> QED  BY <2>2, <3>1 DEF WatchInv, Timed, Moments
  <2>5. Judged'
    <3>1. PICK noted : noted = emitted
      OBVIOUS
    <3>2. JudgedBy(noted)'
      BY <2>2, <2>3, <3>1 DEF JudgedBy, ToldOrCut, Fresh, Moments
    <3>3. (verdict.findings = FindingsIn(checked))'
      BY <2>2 DEF FindingsIn
    <3> QED  BY <3>2, <3>3 DEF Judged
  <2> QED  BY <1>4, <2>1, <2>2, <2>4, <2>5 DEF WatchInv, Judge
<1>5. CASE Record
  <2>1. Caused'
    BY <1>5 DEF WatchInv, Record, Caused, Due, Snapshot
  <2>2. Timed'
    BY <1>5 DEF WatchInv, Record, telling, Timed, Moments
  <2>3. Judged'
    BY <1>5, StillJudged DEF WatchInv, Record, telling
  <2>4. OnRecord'
    <3>1. CASE ShouldAppend(GateOf(verdict.findings), verdict.visible)
      <4>1. /\ gate' = {GateOf(verdict.findings)} /\ verdict' = verdict
            /\ recorded' = With(recorded, verdict.findings, verdict.at)
        BY <1>5, <3>1 DEF Record
      <4>2. verdict.visible \subseteq verdict.findings
        BY <1>5 DEF WatchInv, Record, Judged, JudgedBy
      <4> QED  BY <4>1, <4>2 DEF OnRecord, GateOf, With
    <3>2. CASE ~ShouldAppend(GateOf(verdict.findings), verdict.visible)
      BY <1>5, <3>2 DEF Record, ShouldAppend, OnRecord, GateOf
    <3> QED  BY <3>1, <3>2
  <2> QED  BY <1>5, <2>1, <2>2, <2>3, <2>4 DEF WatchInv, Record, telling
<1>6. CASE Show
  <2>1. Caused'
    BY <1>6 DEF WatchInv, Show, world, Caused, Due, Snapshot
  <2>2. PICK shown \in Outputs(verdict.visible) :
          /\ told' = With(told, shown, verdict.at)
          /\ cut' = (cut \ shown) \cup (verdict.visible \ shown)
    BY <1>6 DEF Show
  <2>3. /\ shown \subseteq verdict.visible
        /\ jsonl => shown = verdict.visible
    BY <2>2, OutputVisible
  <2>4. emitted' = emitted /\ now' = now /\ verdict' = verdict /\ jsonl' = jsonl
    BY <1>6 DEF Show, world
  <2>5. Timed'
    <3>1. Moments(told')
      BY <2>2, WithMoments DEF WatchInv, Timed
    <3> QED  BY <2>4, <3>1 DEF WatchInv, Timed, Moments
  <2>6. ToldOrCut(emitted)'
    <3>1. PICK noted : JudgedBy(noted)
      BY <1>6 DEF WatchInv, Show, Judged
    <3>2. \A k \in verdict.visible : k \in DOMAIN noted => noted[k] <= verdict.at
      BY <3>1, WindowAssumption DEF JudgedBy, Fresh, Moments, WatchInv, Timed
    <3>3. ASSUME NEW k \in DOMAIN told'
          PROVE  k \in DOMAIN emitted' /\ told'[k] <= emitted'[k]
      <4>1. CASE k \in shown
        BY <2>2, <2>3, <2>4, <3>1, <4>1 DEF JudgedBy, With, WatchInv, Timed
      <4>2. CASE k \notin shown
        <5>1. k \in DOMAIN told /\ told'[k] = told[k]
          BY <2>2, <4>2 DEF With
        <5>2. k \in DOMAIN noted /\ told[k] <= noted[k] /\ told[k] \in Nat /\ noted[k] \in Nat
          BY <3>1, <5>1 DEF JudgedBy, ToldOrCut, Moments, WatchInv, Timed
        <5>3. k \in DOMAIN emitted /\ emitted[k] = IF k \in verdict.visible THEN verdict.at ELSE noted[k]
          BY <3>1, <5>2 DEF JudgedBy, With
        <5> QED  BY <2>4, <3>2, <5>1, <5>2, <5>3 DEF WatchInv, Timed
      <4> QED  BY <4>1, <4>2
    <3>4. ASSUME NEW k \in DOMAIN emitted'
          PROVE  k \in cut' \/ (k \in DOMAIN told' /\ told'[k] = emitted'[k])
      <4>1. emitted[k] = (IF k \in verdict.visible THEN verdict.at ELSE noted[k])
            /\ (k \in verdict.visible \/ k \in DOMAIN noted)
        BY <2>4, <3>1, <3>4 DEF JudgedBy, With
      <4>2. CASE k \in shown
        BY <2>2, <2>3, <2>4, <4>1, <4>2 DEF With
      <4>3. CASE k \in verdict.visible \ shown
        BY <2>2, <4>3
      <4>4. CASE k \notin verdict.visible
        BY <2>2, <2>3, <2>4, <3>1, <4>1, <4>4 DEF JudgedBy, ToldOrCut, With
      <4> QED  BY <4>2, <4>3, <4>4
    <3> QED  BY <3>3, <3>4 DEF ToldOrCut
  <2>7. (jsonl => cut = {})'
    BY <2>2, <2>3, <2>4 DEF WatchInv
  <2>8. gate' = {GateOf(FindingsIn(checked))}'
    BY <1>6 DEF WatchInv, Show, Judged, OnRecord, GateOf, FindingsIn
  <2> QED  BY <1>6, <2>1, <2>5, <2>6, <2>7, <2>8 DEF WatchInv, Show
<1>7. CASE Poll
  <2>1. Caused'
    BY <1>7 DEF WatchInv, Poll, world, Caused, Due, Snapshot
  <2>2. Timed'
    BY <1>7 DEF WatchInv, Poll, world, telling, Timed, Moments
  <2>3. ToldOrCut(emitted)'
    BY <1>7 DEF WatchInv, Poll, telling, ToldOrCut
  <2> QED  BY <1>7, <2>1, <2>2, <2>3 DEF WatchInv, Poll, telling
<1>8. CASE Quit
  <2>1. Caused'
    BY <1>8 DEF WatchInv, Quit, world, session, history, Caused, Due, Snapshot
  <2>2. Timed'
    BY <1>8 DEF WatchInv, Quit, world, session, history, telling, Timed, Moments
  <2> QED  BY <1>8, <2>1, <2>2 DEF WatchInv, Quit, session, history, telling
<1>9. ASSUME NEW f \in Source, SaveFile(f)
      PROVE  WatchInv'
  <2>1. Caused'
    BY <1>9 DEF WatchInv, SaveFile, session, Caused, Due
  <2>2. Timed'
    BY <1>9 DEF WatchInv, SaveFile, session, telling, Timed, Moments
  <2>3. Judged => Judged'
    BY <1>9, StillJudged DEF SaveFile, session, telling
  <2> QED
    BY <1>9, <2>1, <2>2, <2>3 DEF WatchInv, SaveFile, session, telling, ToldOrCut, OnRecord, FindingsIn, GateOf
<1>10. CASE Tick
  <2>1. Caused'
    BY <1>10 DEF WatchInv, Tick, session, history, Caused, Due, Snapshot
  <2>2. Timed'
    BY <1>10, WatchBoundsAssumption DEF WatchInv, Tick, session, history, telling, Timed, Moments
  <2>3. Judged => Judged'
    BY <1>10, StillJudged DEF Tick, session, history, telling
  <2> QED
    BY <1>10, <2>1, <2>2, <2>3 DEF WatchInv, Tick, session, history, telling, ToldOrCut, OnRecord, FindingsIn, GateOf
<1> QED
  BY <1>1, <1>2, <1>3, <1>4, <1>5, <1>6, <1>7, <1>8, <1>9, <1>10 DEF WatchNext, Loop

-----------------------------------------------------------------------------
(* Theorems *)

LEMMA WatchInvariance == WatchSpec => []WatchInv
<1>1. WatchInit => WatchInv
  BY InitWatch
<1>2. WatchInv /\ [WatchNext]_watchVars => WatchInv'
  BY NextWatch
<1> QED  BY <1>1, <1>2, PTL DEF WatchSpec

\* watch begins at most one check for each edit, after the first, whatever the
\* checks themselves write and however the clock goes.
THEOREM NoCheckWithoutCause == WatchSpec => []ChecksHaveCause
<1>1. WatchInv => ChecksHaveCause
  BY DEF WatchInv, Caused, Due, ChecksHaveCause
<1> QED  BY <1>1, WatchInvariance, PTL

\* What is told has been put on record by the same check, and while watch waits
\* the gate last recorded is that of the last check.
THEOREM RecordIsKept == WatchSpec => []RecordKeepsUp
<1>1. WatchInv => RecordKeepsUp
  BY DEF WatchInv, OnRecord, RecordKeepsUp
<1> QED  BY <1>1, WatchInvariance, PTL

\* Of one rule in one file nothing is told twice within the window, and what is
\* suppressed was told within it or has been left out of a page; of JSON lines nothing
\* is left out.
THEOREM SuppressionHidesRepetitions == WatchSpec => ToldOncePerWindow
<1> DEFINE A == stage = "show" /\ stage' = "poll" =>
       /\ \A k \in verdict.visible \ cut' : k \in DOMAIN told => Age(k) > Window
       /\ \A k \in verdict.findings \ verdict.visible :
            k \in cut \/ (k \in DOMAIN told /\ Age(k) <= Window)
       /\ jsonl => cut' = {}
<1>1. WatchInv /\ [WatchNext]_watchVars => [A]_watchVars
  <2> SUFFICES ASSUME WatchInv, [WatchNext]_watchVars, stage = "show", stage' = "poll"
               PROVE  A
    OBVIOUS
  <2>1. PICK noted : JudgedBy(noted)
    BY DEF WatchInv, Judged
  <2>2. verdict.at \in Nat /\ Moments(noted) /\ Moments(told) /\ ToldOrCut(noted)
    BY <2>1 DEF WatchInv, Timed, JudgedBy
  <2>3. ASSUME NEW k \in verdict.visible, k \in DOMAIN told
        PROVE  Age(k) > Window
    <3>1. k \in DOMAIN noted /\ told[k] <= noted[k] /\ told[k] \in Nat /\ noted[k] \in Nat
      BY <2>2, <2>3 DEF ToldOrCut, Moments
    <3>2. Fresh(noted, k, verdict.at)
      BY <2>1, <2>3 DEF JudgedBy
    <3> QED  BY <2>2, <3>1, <3>2, WindowAssumption DEF Fresh, Age
  <2>4. ASSUME NEW k \in verdict.findings \ verdict.visible, k \notin cut
        PROVE  k \in DOMAIN told /\ Age(k) <= Window
    <3>1. ~Fresh(noted, k, verdict.at)
      BY <2>1, <2>4 DEF JudgedBy
    <3>2. k \in DOMAIN noted /\ noted[k] \in Nat
      BY <2>2, <3>1 DEF Fresh, Moments
    <3>3. k \in DOMAIN told /\ told[k] = noted[k]
      BY <2>2, <2>4, <3>2 DEF ToldOrCut
    <3> QED  BY <2>2, <3>1, <3>2, <3>3, WindowAssumption DEF Fresh, Age
  <2>5. jsonl => cut' = {}
    <3>1. jsonl' = jsonl
      BY DEF WatchNext, Loop, Start, Read, Judge, Record, Show, Poll, Quit, SaveFile, Tick, session, watchVars
    <3>2. WatchInv'
      BY NextWatch
    <3> QED  BY <3>1, <3>2 DEF WatchInv
  <2> QED  BY <2>3, <2>4, <2>5
<1> QED  BY <1>1, WatchInvariance, PTL DEF WatchSpec, ToldOncePerWindow

-----------------------------------------------------------------------------
(* The command of an MCP server *)

\* Where a loop comes by depends on the arguments before alone.
LEMMA SameLoop ==
  ASSUME NEW a \in Segment, NEW b \in Segment, NEW first \in Nat \ {0}, NEW k \in Nat, NEW option,
         k <= Len(a) + 1, Len(a) <= Len(b), \A i \in 1..Len(a) : b[i] = a[i],
         ComesBy(a, first, k, option)
  PROVE  ComesBy(b, first, k, option)
  <1>1. ASSUME NEW j \in first..k - 1, (k - j) % 2 = 1, \A i \in j..k - 1 : b[i].t = option, j = first \/ b[j - 1].t # option
        PROVE  FALSE
    <2>1. \A i \in j..k - 1 : a[i].t = option  BY <1>1
    <2>2. j = first \/ a[j - 1].t # option  BY <1>1
    <2> QED  BY <1>1, <2>1, <2>2 DEF ComesBy
  <1> QED  BY <1>1 DEF ComesBy

LEMMA LoopComesBySame ==
  ASSUME NEW a \in Segment, NEW b \in Segment, NEW first \in Nat \ {0}, NEW k \in Nat, NEW option,
         k <= Len(a) + 1, Len(a) <= Len(b), \A i \in 1..Len(a) : b[i] = a[i],
         ComesBy(b, first, k, option)
  PROVE  ComesBy(a, first, k, option)
  <1>1. ASSUME NEW j \in first..k - 1, (k - j) % 2 = 1, \A i \in j..k - 1 : a[i].t = option, j = first \/ a[j - 1].t # option
        PROVE  FALSE
    <2>1. \A i \in j..k - 1 : b[i].t = option  BY <1>1
    <2>2. j = first \/ b[j - 1].t # option  BY <1>1
    <2> QED  BY <1>1, <2>1, <2>2 DEF ComesBy
  <1> QED  BY <1>1 DEF ComesBy

\* An argument more leaves the command and env's where they are,
LEMMA IndexStays ==
  ASSUME NEW segment \in Segment, NEW arg \in ShellToken
  PROVE  /\ CommandIndex(segment) \subseteq CommandIndex(Append(segment, arg))
         /\ ExecutableIndex(segment) \subseteq ExecutableIndex(Append(segment, arg))
  <1> DEFINE more == Append(segment, arg)
  <1>1. /\ more \in Segment /\ Len(more) = Len(segment) + 1 /\ Len(segment) \in Nat
        /\ \A k \in 1..Len(segment) : more[k] = segment[k]
        /\ DOMAIN segment = 1..Len(segment) /\ DOMAIN more = 1..Len(segment) + 1
    BY DEF Segment
  <1> HIDE DEF more
  <1>2. CommandIndex(segment) \subseteq CommandIndex(more)
    BY <1>1 DEF CommandIndex
  <1>3. ASSUME NEW first \in Nat \ {0}, NEW k \in EnvWrapped(segment, first)
        PROVE  k \in EnvWrapped(more, first)
    <2>0. k \in first..Len(segment) /\ k \in first..Len(more) /\ more[k] = segment[k]
      BY <1>1, <1>3 DEF EnvWrapped
    <2>1. ASSUME NEW j \in first..k, ComesBy(segment, first, j, "-u"), Own(segment, first, j)
          PROVE  ComesBy(more, first, j, "-u") /\ Own(more, first, j)
      <3>1. ComesBy(more, first, j, "-u")  BY <2>0, <2>1, <1>1, SameLoop
      <3>2. ASSUME NEW i \in first..j - 1, ComesBy(more, first, i, "-u")
            PROVE  more[i].t \in EnvOwn
        <4>1. ComesBy(segment, first, i, "-u")  BY <2>0, <3>2, <1>1, LoopComesBySame
        <4> QED  BY <4>1, <2>0, <2>1, <1>1 DEF Own
      <3> QED  BY <3>1, <3>2 DEF Own
    <2>2. CASE /\ ComesBy(segment, first, k, "-u") /\ Own(segment, first, k)
               /\ segment[k].t \notin EnvOwn \cup {"--"} /\ ~segment[k].option
      BY <2>0, <2>1, <2>2 DEF EnvWrapped
    <2>3. CASE /\ segment[k].t # "assignment"
               /\ \E d \in first..k - 1 :
                    /\ ComesBy(segment, first, d, "-u") /\ Own(segment, first, d) /\ segment[d].t = "--"
                    /\ \A j \in d + 1..k - 1 : segment[j].t = "assignment"
      <3>1. PICK d \in first..k - 1 :
              /\ ComesBy(segment, first, d, "-u") /\ Own(segment, first, d) /\ segment[d].t = "--"
              /\ \A j \in d + 1..k - 1 : segment[j].t = "assignment"
        BY <2>3
      <3>2. ComesBy(more, first, d, "-u") /\ Own(more, first, d)  BY <2>0, <2>1, <3>1, <1>1
      <3>3. more[d].t = "--" /\ \A j \in d + 1..k - 1 : more[j].t = "assignment"  BY <1>1, <2>0, <3>1
      <3> QED  BY <2>0, <2>3, <3>2, <3>3 DEF EnvWrapped
    <2> QED  BY <1>3, <2>2, <2>3 DEF EnvWrapped
  <1>4. ASSUME NEW k \in CommandIndex(segment)
        PROVE  (IF segment[k].t = "env" THEN EnvWrapped(segment, k + 1) ELSE {k})
                 \subseteq (IF more[k].t = "env" THEN EnvWrapped(more, k + 1) ELSE {k})
    BY <1>1, <1>3, <1>4 DEF CommandIndex
  <1>5. ExecutableIndex(segment) \subseteq ExecutableIndex(more)
    BY <1>2, <1>4 DEF ExecutableIndex
  <1> QED  BY <1>2, <1>5 DEF more

\* and what was a risky option is one still.
LEMMA OptionStays ==
  ASSUME NEW args \in Segment, NEW arg \in ShellToken
  PROVE  /\ ShellOption(args) => ShellOption(Append(args, arg))
         /\ NodeOptions(args) => NodeOptions(Append(args, arg))
  <1> DEFINE more == Append(args, arg)
  <1>1. /\ more \in Segment /\ Len(more) = Len(args) + 1 /\ Len(args) \in Nat
        /\ \A k \in 1..Len(args) : more[k] = args[k]
        /\ DOMAIN args = 1..Len(args) /\ DOMAIN more = 1..Len(args) + 1
    BY DEF Segment
  <1> HIDE DEF more
  <1>2. ShellOption(args) => ShellOption(more)
    BY <1>1 DEF ShellOption
  <1>3. ASSUME NEW k \in DOMAIN args,
               args[k].t = "--inspect-brk" \/ (args[k].t = "-e" /\ k < Len(args)),
               ComesBy(args, 1, k, "-r"),
               \A j \in 1..k - 1 : ComesBy(args, 1, j, "-r") => args[j].t = "-r" \/ (args[j].option /\ args[j].t # "--")
        PROVE  NodeOptions(more)
    <2>1. k \in DOMAIN more /\ (more[k].t = "--inspect-brk" \/ (more[k].t = "-e" /\ k < Len(more)))
      BY <1>1, <1>3
    <2>2. ComesBy(more, 1, k, "-r")  BY <1>1, <1>3, SameLoop
    <2>3. ASSUME NEW j \in 1..k - 1, ComesBy(more, 1, j, "-r")
          PROVE  more[j].t = "-r" \/ (more[j].option /\ more[j].t # "--")
      <3>1. ComesBy(args, 1, j, "-r")  BY <1>1, <1>3, <2>3, LoopComesBySame
      <3> QED  BY <1>1, <1>3, <3>1
    <2> QED  BY <2>1, <2>2, <2>3 DEF NodeOptions
  <1>4. NodeOptions(args) => NodeOptions(more)  BY <1>3 DEF NodeOptions
  <1> QED  BY <1>2, <1>4 DEF more

LEMMA RestGrows ==
  ASSUME NEW segment \in Segment, NEW arg \in ShellToken, NEW k \in 1..Len(segment)
  PROVE  LET more == Append(segment, arg)
         IN /\ SubSeq(segment, k + 1, Len(segment)) \in Segment
            /\ SubSeq(more, k + 1, Len(more)) = Append(SubSeq(segment, k + 1, Len(segment)), arg)
  <1> DEFINE more == Append(segment, arg)
             old  == SubSeq(segment, k + 1, Len(segment))
             new  == SubSeq(more, k + 1, Len(more))
  <1>1. /\ more \in Seq(ShellToken) /\ Len(more) = Len(segment) + 1 /\ Len(segment) \in Nat /\ segment \in Seq(ShellToken)
        /\ \A i \in 1..Len(segment) : more[i] = segment[i]
        /\ more[Len(segment) + 1] = arg
    BY DEF Segment
  <1> HIDE DEF more
  <1>2. /\ old \in Seq(ShellToken) /\ Len(old) = Len(segment) - k
        /\ \A i \in 1..Len(segment) - k : old[i] = segment[k + i]
    BY <1>1
  <1>3. /\ new \in Seq(ShellToken) /\ Len(new) = Len(segment) + 1 - k
        /\ \A i \in 1..Len(segment) + 1 - k : new[i] = more[k + i]
    BY <1>1
  <1> HIDE DEF old, new
  <1> DEFINE w == Len(segment) - k
  <1>4. /\ Append(old, arg) \in Seq(ShellToken) /\ Len(Append(old, arg)) = Len(segment) + 1 - k
        /\ \A i \in 1..Len(segment) + 1 - k : Append(old, arg)[i] = IF i <= Len(segment) - k THEN old[i] ELSE arg
    <2>1. w \in Nat /\ Len(old) = w /\ old \in Seq(ShellToken) /\ Len(segment) + 1 - k = w + 1  BY <1>1, <1>2
    <2> HIDE DEF w
    <2>2. /\ Append(old, arg) \in Seq(ShellToken) /\ Len(Append(old, arg)) = w + 1
          /\ \A i \in 1..w + 1 : Append(old, arg)[i] = IF i <= w THEN old[i] ELSE arg
      BY <2>1
    <2> QED  BY <2>1, <2>2 DEF w
  <1> HIDE DEF w
  <1>5. \A i \in 1..Len(segment) + 1 - k : Append(old, arg)[i] = new[i]
    BY <1>1, <1>2, <1>3, <1>4
  <1>6. Append(old, arg) = new
    <2>1. Len(Append(old, arg)) = Len(new) /\ \A i \in 1..Len(new) : Append(old, arg)[i] = new[i]  BY <1>3, <1>4, <1>5
    <2> QED  BY <1>3, <1>4, <2>1, SeqEqual
  <1> QED  BY <1>2, <1>6 DEF Segment, more, old, new

LEMMA RiskStays ==
  ASSUME NEW segment \in Segment, NEW arg \in ShellToken, SegmentIsRisky(segment)
  PROVE  SegmentIsRisky(Append(segment, arg))
  <1> DEFINE more == Append(segment, arg)
             Args(s, k) == SubSeq(s, k + 1, Len(s))
  <1>1. /\ more \in Segment /\ Len(more) = Len(segment) + 1 /\ Len(segment) \in Nat
        /\ \A k \in 1..Len(segment) : more[k] = segment[k]
    BY DEF Segment
  <1>2. ASSUME NEW k \in 1..Len(segment)
        PROVE  Args(segment, k) \in Segment /\ Args(more, k) = Append(Args(segment, k), arg)
    BY RestGrows
  <1>3. CASE \E k \in CommandIndex(segment) : segment[k].tmp
    <2>1. PICK k \in CommandIndex(segment) : segment[k].tmp  BY <1>3
    <2>2. k \in CommandIndex(more) /\ k \in 1..Len(segment)  BY IndexStays DEF CommandIndex, Segment
    <2> QED  BY <1>1, <2>1, <2>2 DEF SegmentIsRisky
  <1>4. ASSUME NEW k \in ExecutableIndex(segment),
               \/ segment[k].tmp
               \/ segment[k].t \in {"curl", "eval"}
               \/ segment[k].t = "bash" /\ ShellOption(Args(segment, k))
               \/ segment[k].t = "node" /\ NodeOptions(Args(segment, k))
        PROVE  SegmentIsRisky(more)
    <2>1. k \in ExecutableIndex(more)  BY IndexStays
    <2>2. k \in 1..Len(segment)
      BY DEF ExecutableIndex, EnvWrapped, CommandIndex, Segment
    <2>3. more[k] = segment[k]  BY <1>1, <2>2
    <2>4. /\ ShellOption(Args(segment, k)) => ShellOption(Args(more, k))
          /\ NodeOptions(Args(segment, k)) => NodeOptions(Args(more, k))
      BY <1>2, <2>2, OptionStays
    <2> QED  BY <1>4, <2>1, <2>3, <2>4 DEF SegmentIsRisky
  <1> QED  BY <1>3, <1>4 DEF SegmentIsRisky

\* The inductive invariant of the search for a risky command.
RiskInv == command \in Seq(Segment) /\ judged \in BOOLEAN /\ RiskIsKept

LEMMA RiskInit == ScanInit => RiskInv
  <1>1. Risky(<<>>) = FALSE  BY DEF Risky
  <1>2. ASSUME ScanInit PROVE command \in Seq(Segment) /\ judged = Risky(command)
    <2>1. <<>> \in Seq(Segment)  OBVIOUS
    <2> QED  BY <1>1, <1>2, <2>1, McpAssumption DEF ScanInit, McpInit
  <1>3. Risky(command) \in BOOLEAN  BY DEF Risky
  <1> QED  BY <1>2, <1>3 DEF RiskInv, RiskIsKept

LEMMA RiskStep == RiskInv /\ [ScanNext]_scanVars => RiskInv'
  <1> SUFFICES ASSUME RiskInv, [ScanNext]_scanVars PROVE RiskInv'  OBVIOUS
  <1>1. CASE UNCHANGED mcpVars
    BY <1>1 DEF RiskInv, RiskIsKept, mcpVars
  <1>2. CASE PushArgument
    <2>1. PICK arg \in Argument : command' = [command EXCEPT ![Len(command)] = Append(@, arg)]
      BY <1>2 DEF PushArgument
    <2> DEFINE n == Len(command)
    <2>2. command \in Seq(Segment) /\ n \in 1..Len(command) /\ arg \in ShellToken /\ command[n] \in Segment
      BY <1>2, <2>1, McpAssumption DEF RiskInv, PushArgument
    <2>3. Append(command[n], arg) \in Segment  BY <2>2 DEF Segment
    <2>4. /\ command' \in Seq(Segment) /\ Len(command') = n
          /\ command'[n] = Append(command[n], arg)
          /\ \A s \in 1..n : s # n => command'[s] = command[s]
      BY <2>1, <2>2, <2>3
    <2>5. Risky(command) => Risky(command')
      <3>1. SUFFICES ASSUME NEW s \in 1..n, SegmentIsRisky(command[s]) PROVE SegmentIsRisky(command'[s])
        BY <2>2, <2>4 DEF Risky
      <3>2. SegmentIsRisky(command[n]) => SegmentIsRisky(Append(command[n], arg))  BY <2>2, RiskStays
      <3> QED  BY <2>4, <3>1, <3>2
    <2>6. judged' = (judged \/ Risky(command')) /\ judged' \in BOOLEAN
      BY <1>2 DEF PushArgument
    <2> QED  BY <2>4, <2>5, <2>6 DEF RiskInv, RiskIsKept
  <1> QED  BY <1>1, <1>2 DEF ScanNext, scanVars

\* The verdict on a command is that on the whole of it, wherever the search ended.
THEOREM RiskyCommandsAreFound == ScanSpec => []RiskIsKept
  <1>1. RiskInv => RiskIsKept  BY DEF RiskInv
  <1> QED  BY RiskInit, RiskStep, <1>1, PTL DEF ScanSpec

-----------------------------------------------------------------------------
(* The calls of child_process *)

\* What the passes, the loop and the scopes are made of.
LevelType == [in : {"quote", "tick", "expression"}, braces : Nat]
Binding == [name : Name, depth : Nat, is : BOOLEAN, at : Nat]
PassType ==
  [reading : BOOLEAN, commented : BOOLEAN, ended : BOOLEAN, open : {"code", "quote", "tick"}, stack : Seq(LevelType),
   begins : Seq(Token), first : Seq(Token), call : Seq(Token), evals : BOOLEAN, requires : BOOLEAN, depth : Nat]
LoopType == [in : BOOLEAN, depth : Nat, bindings : SUBSET Binding, lines : Nat, told : BOOLEAN]
Scope == [Name -> {"unknown", "child", "other"}]
MeantType == [scopes : Seq(Scope), low : Nat, going : BOOLEAN, danger : BOOLEAN, misled : BOOLEAN, dangerous : BOOLEAN]

\* Of two bindings of a name the later one was made deeper.
Ordered(bindings, depth, last) ==
  /\ \A b \in bindings : b.depth <= depth /\ b.at <= last
  /\ \A b, c \in bindings : b.name = c.name => (b.at < c.at <=> b.depth < c.depth) /\ (b.depth = c.depth => b = c)

\* A name stands for the module up to a depth: by the bindings, and by the scopes.
Stands(bindings, d, name) ==
  \E b \in bindings : b.name = name /\ b.depth <= d /\ b.is /\ \A c \in bindings : c.name = name /\ c.depth <= d => c.depth <= b.depth
Means(scopes, k, name) ==
  \E i \in 1..k : scopes[i][name] = "child" /\ \A j \in i + 1..k : scopes[j][name] = "unknown"
Agree(bindings, scopes, depth) ==
  \A d \in 0..depth : d < Len(scopes) => \A name \in Name : Stands(bindings, d, name) <=> Means(scopes, d + 1, name)

\* The literals that the two masks see open agree.
Literals(open, stack) ==
  \/ stack = <<>> /\ open = "code"
  \/ Len(stack) = 1 /\ open \in Quotes /\ stack[1].in = open
  \/ Len(stack) \in {2, 3} /\ open = "tick" /\ stack[1].in = "tick" /\ stack[2].in = "expression" /\ stack[2].braces >= 1
     /\ (Len(stack) = 3 => stack[3].in = "quote")
Extra(stack) == IF Len(stack) >= 2 THEN stack[2].braces - 1 ELSE 0

\* Nothing but declarations at the beginning of the line has been read.
Still(p, l, m) ==
  /\ p.first = <<>> /\ p.call = <<>> /\ ~p.evals /\ ~p.requires /\ p.depth = l.depth
  /\ p.begins # <<>> => p.begins[1].t # "alias"
  /\ ~m.danger
\* Passes, loop and scopes agree within a line, and between two.
Reading(p, l, m) ==
  /\ m.low = l.depth + 1
  /\ Literals(p.open, p.stack)
  /\ Len(m.scopes) = p.depth + 1 + Extra(p.stack)
  /\ p.begins = <<>> => p.stack = <<>> /\ ~m.going
  /\ ~m.going => Still(p, l, m)
  /\ p.commented => p.depth = l.depth /\ ~m.danger /\ Extra(p.stack) = 0
  /\ Agree(Declared(l, p), m.scopes, l.depth)
  /\ \A k \in l.depth + 2..Len(m.scopes) : \A name \in Name : m.scopes[k][name] = "unknown"
  /\ m.danger <=> Dangerous(Declared(l, p), p)
Between(l, m) ==
  /\ m.low = l.depth + 1 /\ Len(m.scopes) = l.depth + 1 /\ ~m.going /\ ~m.danger
  /\ Agree(l.bindings, m.scopes, l.depth)

CallType ==
  /\ line \in Seq(Token) /\ pass \in PassType /\ loop \in LoopType /\ meant \in MeantType
  /\ Len(meant.scopes) >= 1
  /\ ~pass.reading => line = <<>>
\* The inductive invariant of the search for calls.
CallInv ==
  /\ CallType
  /\ Ordered(loop.bindings, loop.depth, loop.lines)
  /\ ~meant.misled => IF pass.reading THEN Reading(pass, loop, meant) ELSE Between(loop, meant)
  /\ CallsFollowScopes


-----------------------------------------------------------------------------
\* The stack as it is read by a token, in each of its shapes.
LEMMA InCode ==
  ASSUME NEW tok \in Token
  PROVE  /\ Runs(<<>>, tok) <=> tok.t \notin Quotes
         /\ Stacked(<<>>, tok) = IF tok.t \in Quotes THEN <<Level(tok.t, 0)>> ELSE <<>>
  <1>1. Top(<<>>).in = "code"  BY DEF Top, Level
  <1>2. Append(<<>>, Level(tok.t, 0)) = <<Level(tok.t, 0)>>  OBVIOUS
  <1>3. Runs(<<>>, tok) <=> tok.t \notin Quotes  BY <1>1 DEF Runs
  <1>4. Stacked(<<>>, tok) = IF tok.t \in Quotes THEN Append(<<>>, Level(tok.t, 0)) ELSE <<>>
    BY <1>1 DEF Stacked, Quotes
  <1> QED  BY <1>2, <1>3, <1>4

LEMMA TopIs ==
  ASSUME NEW stack \in Seq(LevelType), NEW n \in Nat \ {0}, Len(stack) = n
  PROVE  stack # <<>> /\ Top(stack) = stack[n] /\ Top(stack) \in LevelType
  BY DEF Top

LEMMA PopIs ==
  ASSUME NEW stack \in Seq(LevelType), NEW n \in Nat, Len(stack) = n + 1
  PROVE  /\ Pop(stack) \in Seq(LevelType) /\ Len(Pop(stack)) = n
         /\ \A k \in 1..n : Pop(stack)[k] = stack[k]
         /\ n = 0 => Pop(stack) = <<>>
  <1>1. Pop(stack) = SubSeq(stack, 1, n)  BY DEF Pop
  <1>2. SubSeq(stack, 1, n) \in Seq(LevelType) /\ Len(SubSeq(stack, 1, n)) = n  OBVIOUS
  <1>3. \A k \in 1..n : SubSeq(stack, 1, n)[k] = stack[k]  OBVIOUS
  <1> QED  BY <1>1, <1>2, <1>3

LEMMA PushIs ==
  ASSUME NEW stack \in Seq(LevelType), NEW n \in Nat, Len(stack) = n, NEW in \in {"quote", "tick", "expression"}, NEW braces \in Nat
  PROVE  LET new == Append(stack, Level(in, braces))
         IN /\ new \in Seq(LevelType) /\ Len(new) = n + 1
            /\ \A k \in 1..n : new[k] = stack[k]
            /\ new[n + 1].in = in /\ new[n + 1].braces = braces
  <1>1. Level(in, braces) \in LevelType /\ Level(in, braces).in = in /\ Level(in, braces).braces = braces
    BY DEF Level, LevelType
  <1> QED  BY <1>1

\* A stack of one, two or three, its innermost and what is around it.
LEMMA Shape ==
  ASSUME NEW stack \in Seq(LevelType), NEW n \in Nat, Len(stack) = n + 1
  PROVE  /\ stack # <<>> /\ Top(stack) = stack[n + 1] /\ Top(stack) \in LevelType
         /\ \A k \in 1..n + 1 : stack[k] \in LevelType
         /\ Pop(stack) \in Seq(LevelType) /\ Len(Pop(stack)) = n
         /\ \A k \in 1..n : Pop(stack)[k] = stack[k]
         /\ n = 0 => Pop(stack) = <<>>
  <1>1. stack # <<>> /\ \A k \in 1..n + 1 : stack[k] \in LevelType  OBVIOUS
  <1>2. Top(stack) = stack[n + 1]  BY <1>1 DEF Top
  <1>3. stack[n + 1] \in LevelType  OBVIOUS
  <1>4. Top(stack) \in LevelType  BY <1>2, <1>3
  <1>5. /\ Pop(stack) \in Seq(LevelType) /\ Len(Pop(stack)) = n
        /\ \A k \in 1..n : Pop(stack)[k] = stack[k]
        /\ n = 0 => Pop(stack) = <<>>
    BY PopIs
  <1> HIDE DEF LevelType
  <1> QED  BY <1>1, <1>2, <1>4, <1>5, Zenon

LEMMA ShapeOne ==
  ASSUME NEW stack \in Seq(LevelType), Len(stack) = 1
  PROVE  stack # <<>> /\ Top(stack) = stack[1] /\ stack[1] \in LevelType /\ Pop(stack) = <<>>
  <1>1. Len(stack) = 0 + 1 /\ 0 \in Nat /\ 1 \in 1..0 + 1  OBVIOUS
  <1> HIDE DEF LevelType
  <1> QED  BY <1>1, Shape

LEMMA ShapeTwo ==
  ASSUME NEW stack \in Seq(LevelType), Len(stack) = 2
  PROVE  /\ stack # <<>> /\ Top(stack) = stack[2] /\ stack[2] \in LevelType
         /\ Pop(stack) \in Seq(LevelType) /\ Len(Pop(stack)) = 1 /\ Pop(stack)[1] = stack[1]
  <1>1. Len(stack) = 1 + 1 /\ 1 \in Nat /\ 2 \in 1..1 + 1 /\ 1 \in 1..1 /\ 1 + 1 = 2  OBVIOUS
  <1> QED  BY <1>1, Shape

LEMMA ShapeThree ==
  ASSUME NEW stack \in Seq(LevelType), Len(stack) = 3
  PROVE  /\ stack # <<>> /\ Top(stack) = stack[3] /\ stack[2] \in LevelType
         /\ Pop(stack) \in Seq(LevelType) /\ Len(Pop(stack)) = 2 /\ Pop(stack)[1] = stack[1] /\ Pop(stack)[2] = stack[2]
  <1>1. Len(stack) = 2 + 1 /\ 2 \in Nat /\ 2 \in 1..2 + 1 /\ 1 \in 1..2 /\ 2 \in 1..2 /\ 2 + 1 = 3  OBVIOUS
  <1> QED  BY <1>1, Shape

LEMMA StackType ==
  ASSUME NEW stack \in Seq(LevelType), NEW tok \in Token
  PROVE  Stacked(stack, tok) \in Seq(LevelType)
  <1>1. CASE stack = <<>>
    <2>1. <<>> \in Seq(LevelType)  OBVIOUS
    <2>2. ASSUME tok.t \in Quotes  PROVE <<Level(tok.t, 0)>> \in Seq(LevelType)
      <3>1. Level(tok.t, 0) \in LevelType  BY <2>2 DEF Level, LevelType, Quotes
      <3> QED  BY <3>1
    <2>3. Stacked(<<>>, tok) = IF tok.t \in Quotes THEN <<Level(tok.t, 0)>> ELSE <<>>  BY InCode
    <2> QED  BY <1>1, <2>1, <2>2, <2>3, Zenon
  <1>2. CASE stack # <<>>
    <2>2. Pop(stack) \in Seq(LevelType) /\ Top(stack) \in LevelType
      <3>1. Len(stack) = (Len(stack) - 1) + 1 /\ Len(stack) - 1 \in Nat  BY <1>2
      <3> QED  BY <3>1, Shape
    <2>3. /\ Top(stack).braces \in Nat /\ Level("expression", 1) \in LevelType
          /\ Level("expression", Top(stack).braces + 1) \in LevelType
          /\ Top(stack).braces > 1 => Level("expression", Top(stack).braces - 1) \in LevelType
          /\ tok.t \in Quotes => Level(tok.t, 0) \in LevelType
      BY <2>2 DEF Level, LevelType, Quotes
    <2> QED  BY <2>2, <2>3 DEF Stacked
  <1> QED  BY <1>1, <1>2

\* What a token does to the literals around it: one that runs, and one that does not.
LiteralsFollow(open, stack, tok) ==
  LET after == Stacked(stack, tok)
  IN /\ Literals(Opened(open, tok), after)
     /\ ~Masks(open, tok) <=> stack = <<>> /\ Runs(stack, tok)
     /\ ~Runs(stack, tok) => Extra(after) = Extra(stack)
     /\ Runs(stack, tok) /\ stack = <<>> => after = <<>>
     /\ Runs(stack, tok) /\ stack # <<>> =>
          /\ Extra(stack) \in Nat
          /\ tok.t = "end" => Extra(stack) > 0
          /\ Extra(after) = CASE tok.t \in Opening -> Extra(stack) + 1
                              [] tok.t = "end" -> Extra(stack) - 1
                              [] OTHER -> Extra(stack)

LEMMA LiteralsInCode ==
  ASSUME NEW tok \in Token  PROVE LiteralsFollow("code", <<>>, tok)
  <1>1. CASE tok.t \in Quotes
    <2> DEFINE one == <<Level(tok.t, 0)>>
    <2>1. Len(one) = 1 /\ one[1].in = tok.t /\ one # <<>>  BY DEF Level
    <2>2. Stacked(<<>>, tok) = one /\ ~Runs(<<>>, tok) /\ Opened("code", tok) = tok.t
      BY <1>1, InCode DEF Opened
    <2>3. Extra(one) = 0 /\ Extra(<<>>) = 0  BY <2>1 DEF Extra
    <2> HIDE DEF one
    <2> QED  BY <1>1, <2>1, <2>2, <2>3 DEF LiteralsFollow, Literals, Masks
  <1>2. CASE tok.t \notin Quotes
    <2>1. Stacked(<<>>, tok) = <<>> /\ Runs(<<>>, tok) /\ Opened("code", tok) = "code"
      BY <1>2, InCode DEF Opened
    <2> QED  BY <1>2, <2>1 DEF LiteralsFollow, Literals, Masks
  <1> QED  BY <1>1, <1>2

LEMMA LiteralsOfOne ==
  ASSUME NEW open \in Quotes, NEW stack \in Seq(LevelType), NEW tok \in Token, Len(stack) = 1, stack[1].in = open
  PROVE  LiteralsFollow(open, stack, tok)
  <1>1. stack # <<>> /\ Top(stack) = stack[1] /\ Pop(stack) = <<>>  BY ShapeOne
  <1>2. open # "code" /\ open \notin {"code", "expression"}  BY DEF Quotes
  <1>3. ~Runs(stack, tok) /\ Masks(open, tok)  BY <1>1, <1>2 DEF Runs, Masks
  <1>4. Extra(stack) = 0 /\ Extra(<<>>) = 0  BY DEF Extra
  <1>5. CASE tok.t = open
    <2>1. Stacked(stack, tok) = <<>> /\ Opened(open, tok) = "code"  BY <1>1, <1>2, <1>5 DEF Stacked, Opened
    <2> QED  BY <1>1, <1>3, <1>4, <2>1 DEF LiteralsFollow, Literals
  <1>6. CASE tok.t # open /\ open = "tick" /\ tok.t = "interpolate"
    <2> DEFINE new == Append(stack, Level("expression", 1))
    <2>1. Stacked(stack, tok) = new /\ Opened(open, tok) = "tick"  BY <1>1, <1>2, <1>6 DEF Stacked, Opened
    <2>2. Len(new) = 2 /\ new[1] = stack[1] /\ new[2].in = "expression" /\ new[2].braces = 1
      <3>1. 1 + 1 = 2 /\ 1 \in 1..1 /\ 1 \in Nat  OBVIOUS
      <3> QED  BY <3>1, PushIs
    <2> HIDE DEF new
    <2>3. Literals("tick", new) /\ Extra(new) = 0  BY <1>6, <2>2 DEF Literals, Extra
    <2> QED  BY <1>1, <1>3, <1>4, <2>1, <2>3 DEF LiteralsFollow
  <1>7. CASE tok.t # open /\ ~(open = "tick" /\ tok.t = "interpolate")
    <2>1. Stacked(stack, tok) = stack /\ Opened(open, tok) = open  BY <1>1, <1>2, <1>7 DEF Stacked, Opened
    <2> QED  BY <1>1, <1>3, <1>4, <2>1 DEF LiteralsFollow, Literals
  <1> QED  BY <1>5, <1>6, <1>7

LEMMA LiteralsOfTwo ==
  ASSUME NEW stack \in Seq(LevelType), NEW tok \in Token, Len(stack) = 2, tok.t # "tick",
         stack[1].in = "tick", stack[2].in = "expression", stack[2].braces >= 1
  PROVE  LiteralsFollow("tick", stack, tok)
  <1> DEFINE b == stack[2].braces
             after == Stacked(stack, tok)
  <1>1. /\ stack # <<>> /\ Top(stack) = stack[2] /\ stack[2] \in LevelType
        /\ Pop(stack) \in Seq(LevelType) /\ Len(Pop(stack)) = 1 /\ Pop(stack)[1] = stack[1]
    BY ShapeTwo
  <1>2. b \in Nat /\ b >= 1 /\ Extra(stack) = b - 1  BY <1>1 DEF LevelType, Extra
  <1>3. Masks("tick", tok) /\ Opened("tick", tok) = "tick"  BY DEF Masks, Opened
  <1>4. Runs(stack, tok) <=> tok.t # "quote" /\ (tok.t = "end" => b # 1)  BY <1>1 DEF Runs, Quotes
  <1>5. Literals("tick", stack)  BY DEF Literals
  <1>6. CASE tok.t = "quote"
    <2> DEFINE new == Append(stack, Level("quote", 0))
    <2>1. after = new  BY <1>1, <1>6 DEF Stacked, Quotes, Opening
    <2>2. Len(new) = 3 /\ new[1] = stack[1] /\ new[2] = stack[2] /\ new[3].in = "quote"
      <3>1. 2 + 1 = 3 /\ 1 \in 1..2 /\ 2 \in 1..2 /\ 2 \in Nat /\ 0 \in Nat  OBVIOUS
      <3> QED  BY <3>1, PushIs
    <2> HIDE DEF new
    <2>3. Literals("tick", new) /\ Extra(new) = b - 1  BY <2>2 DEF Literals, Extra
    <2> QED  BY <1>1, <1>2, <1>3, <1>4, <1>6, <2>1, <2>3 DEF LiteralsFollow
  <1>7. CASE tok.t = "end" /\ b = 1
    <2>1. after = Pop(stack)  BY <1>1, <1>7 DEF Stacked, Quotes, Opening
    <2>2. Literals("tick", Pop(stack)) /\ Extra(Pop(stack)) = 0  BY <1>1 DEF Literals, Extra, Quotes
    <2> QED  BY <1>1, <1>2, <1>3, <1>4, <1>7, <2>1, <2>2 DEF LiteralsFollow
  <1>8. ASSUME NEW c \in Nat, c >= 1, after = Append(Pop(stack), Level("expression", c))
        PROVE  Literals("tick", after) /\ Extra(after) = c - 1
    <2> DEFINE new == Append(Pop(stack), Level("expression", c))
    <2>1. Len(new) = 2 /\ new[1] = stack[1] /\ new[2].in = "expression" /\ new[2].braces = c
      <3>1. 1 + 1 = 2 /\ 1 \in 1..1 /\ 1 \in Nat  OBVIOUS
      <3> QED  BY <1>1, <3>1, PushIs
    <2> HIDE DEF new
    <2>2. Literals("tick", new) /\ Extra(new) = c - 1  BY <1>8, <2>1 DEF Literals, Extra
    <2> QED  BY <1>8, <2>2 DEF new
  <1>9. CASE tok.t \in Opening
    <2>1. after = Append(Pop(stack), Level("expression", b + 1))  BY <1>1, <1>9 DEF Stacked, Quotes, Opening
    <2>2. tok.t # "end" /\ tok.t # "quote"  BY <1>9 DEF Opening
    <2>3. b + 1 \in Nat /\ b + 1 >= 1 /\ (b + 1) - 1 = (b - 1) + 1  BY <1>2
    <2>4. Literals("tick", after) /\ Extra(after) = (b - 1) + 1  BY <1>8, <2>1, <2>3
    <2> QED  BY <1>1, <1>2, <1>3, <1>4, <1>9, <2>2, <2>4 DEF LiteralsFollow
  <1>10. CASE tok.t = "end" /\ b # 1
    <2>1. after = Append(Pop(stack), Level("expression", b - 1))  BY <1>1, <1>2, <1>10 DEF Stacked, Quotes, Opening
    <2>2. tok.t \notin Opening /\ b - 1 \in Nat /\ b - 1 >= 1  BY <1>2, <1>10 DEF Opening
    <2>3. Literals("tick", after) /\ Extra(after) = (b - 1) - 1  BY <1>8, <2>1, <2>2
    <2> QED  BY <1>1, <1>2, <1>3, <1>4, <1>10, <2>2, <2>3 DEF LiteralsFollow
  <1>11. CASE tok.t \notin Opening \cup {"end", "quote"}
    <2>1. after = stack  BY <1>1, <1>11 DEF Stacked, Quotes
    <2> QED  BY <1>1, <1>2, <1>3, <1>4, <1>5, <1>11, <2>1 DEF LiteralsFollow
  <1> QED  BY <1>6, <1>7, <1>9, <1>10, <1>11

LEMMA LiteralsOfThree ==
  ASSUME NEW stack \in Seq(LevelType), NEW tok \in Token, Len(stack) = 3, tok.t # "tick",
         stack[1].in = "tick", stack[2].in = "expression", stack[2].braces >= 1, stack[3].in = "quote"
  PROVE  LiteralsFollow("tick", stack, tok)
  <1>1. /\ stack # <<>> /\ Top(stack) = stack[3] /\ Pop(stack) \in Seq(LevelType) /\ Len(Pop(stack)) = 2
        /\ Pop(stack)[1] = stack[1] /\ Pop(stack)[2] = stack[2]
    BY ShapeThree
  <1>2. Masks("tick", tok) /\ Opened("tick", tok) = "tick" /\ ~Runs(stack, tok)
    BY <1>1 DEF Masks, Opened, Runs
  <1>3. CASE tok.t = "quote"
    <2>1. Stacked(stack, tok) = Pop(stack)  BY <1>1, <1>3 DEF Stacked, Quotes
    <2>2. Literals("tick", Pop(stack)) /\ Extra(Pop(stack)) = Extra(stack)  BY <1>1 DEF Literals, Extra
    <2> QED  BY <1>1, <1>2, <2>1, <2>2 DEF LiteralsFollow
  <1>4. CASE tok.t # "quote"
    <2>1. Stacked(stack, tok) = stack  BY <1>1, <1>4 DEF Stacked, Quotes
    <2>2. Literals("tick", stack)  BY DEF Literals
    <2> QED  BY <1>1, <1>2, <2>1, <2>2 DEF LiteralsFollow
  <1> QED  BY <1>3, <1>4

LEMMA LiteralsStep ==
  ASSUME NEW open \in {"code", "quote", "tick"}, NEW stack \in Seq(LevelType), NEW tok \in Token,
         Literals(open, stack), ~(tok.t = "tick" /\ Len(stack) > 1)
  PROVE  LiteralsFollow(open, stack, tok)
  <1>1. CASE stack = <<>> /\ open = "code"  BY <1>1, LiteralsInCode
  <1>2. CASE Len(stack) = 1 /\ open \in Quotes /\ stack[1].in = open  BY <1>2, LiteralsOfOne
  <1>3. CASE /\ Len(stack) \in {2, 3} /\ open = "tick" /\ stack[1].in = "tick" /\ stack[2].in = "expression"
             /\ stack[2].braces >= 1 /\ (Len(stack) = 3 => stack[3].in = "quote")
    <2>1. tok.t # "tick"  BY <1>3
    <2>2. CASE Len(stack) = 2  BY <1>3, <2>1, <2>2, LiteralsOfTwo
    <2>3. CASE Len(stack) = 3  BY <1>3, <2>1, <2>3, LiteralsOfThree
    <2> QED  BY <1>3, <2>2, <2>3
  <1> QED  BY <1>1, <1>2, <1>3 DEF Literals

\* What the fields of the pass are behind a token, and their types.
LEMMA PassedIs ==
  ASSUME NEW p \in PassType, NEW tok \in Token
  PROVE  LET after == Passed(p, tok)
             inCode == ~Masks(p.open, tok)
             runs == Runs(p.stack, tok)
         IN /\ after \in PassType
            /\ after.reading = p.reading /\ after.commented = p.commented /\ after.ended = p.ended
            /\ after.open = Opened(p.open, tok) /\ after.stack = Stacked(p.stack, tok)
            /\ after.begins = FirstOf(p.begins, TRUE, tok) /\ after.first = FirstOf(p.first, inCode, tok)
            /\ after.call = FirstOf(p.call, runs /\ tok.t = "call", tok)
            /\ after.evals = (p.evals \/ (runs /\ tok.t = "eval"))
            /\ after.requires = (p.requires \/ (inCode /\ tok.t = "require_exec"))
            /\ after.depth = IF inCode THEN BraceDepth(p.depth, tok) ELSE p.depth
  <1> DEFINE inCode == ~Masks(p.open, tok)
             runs == Runs(p.stack, tok)
             o == Opened(p.open, tok)
             s == Stacked(p.stack, tok)
             b == FirstOf(p.begins, TRUE, tok)
             f == FirstOf(p.first, inCode, tok)
             c == FirstOf(p.call, runs /\ tok.t = "call", tok)
             e == p.evals \/ (runs /\ tok.t = "eval")
             r == p.requires \/ (inCode /\ tok.t = "require_exec")
             d == IF inCode THEN BraceDepth(p.depth, tok) ELSE p.depth
             after == Passed(p, tok)
  <1>1. o \in {"code", "quote", "tick"}  BY DEF Opened, Quotes, PassType
  <1>2. s \in Seq(LevelType)
    <2>1. p.stack \in Seq(LevelType)  BY DEF PassType
    <2> QED  BY <2>1, StackType
  <1>3. ASSUME NEW some \in Seq(Token), NEW holds \in BOOLEAN  PROVE FirstOf(some, holds, tok) \in Seq(Token)
    BY <1>3 DEF FirstOf
  <1>4. p.begins \in Seq(Token) /\ p.first \in Seq(Token) /\ p.call \in Seq(Token)  BY DEF PassType
  <1>5. inCode \in BOOLEAN /\ (runs /\ tok.t = "call") \in BOOLEAN  BY DEF Masks, Runs
  <1>6. b \in Seq(Token) /\ f \in Seq(Token) /\ c \in Seq(Token)
    <2> HIDE DEF inCode, runs
    <2> QED  BY <1>3, <1>4, <1>5
  <1>7. d \in Nat  BY DEF PassType, BraceDepth
  <1>8. e \in BOOLEAN /\ r \in BOOLEAN  OBVIOUS
  <1>9. after = [p EXCEPT !.open = o, !.stack = s, !.begins = b, !.first = f, !.call = c, !.evals = e, !.requires = r, !.depth = d]
    BY DEF Passed
  <1> HIDE DEF o, s, b, f, c, e, r, d, after
  <1>10. /\ after \in PassType
         /\ after.reading = p.reading /\ after.commented = p.commented /\ after.ended = p.ended
         /\ after.open = o /\ after.stack = s /\ after.begins = b /\ after.first = f /\ after.call = c
         /\ after.evals = e /\ after.requires = r /\ after.depth = d
    BY <1>1, <1>2, <1>6, <1>7, <1>8, <1>9 DEF PassType
  <1> QED  BY <1>10 DEF o, s, b, f, c, e, r, d, after

\* What JavaScript makes of a token, when it does not mislead.
LEMMA MeaningIs ==
  ASSUME NEW p, NEW m \in MeantType, NEW tok \in Token
  PROVE  LET after == Meaning(m, p, tok)
         IN /\ after.low = m.low /\ after.dangerous = m.dangerous
            /\ ~after.misled => ~m.misled
            /\ ~Runs(p.stack, tok) => /\ after.scopes = m.scopes /\ after.going = m.going /\ after.danger = m.danger
                                      /\ ~after.misled => ~(tok.t = "tick" /\ Len(p.stack) > 1)
            /\ Runs(p.stack, tok) => /\ after.scopes = ScopesAfter(m.scopes, tok) /\ after.going
                                     /\ after.danger = (m.danger \/ tok.t \in {"eval", "require_exec"} \/ (tok.t = "call" /\ IsChild(m.scopes, tok.n)))
                                     /\ ~after.misled => ~MisleadingToken(m, p, tok)
  BY DEF Meaning, MeantType

-----------------------------------------------------------------------------
\* The blocks.
LEMMA ScopeType ==
  NewScope \in Scope /\ \A name \in Name : NewScope[name] = "unknown"
  BY DEF NewScope, Scope

LEMMA ScopesType ==
  ASSUME NEW scopes \in Seq(Scope), Len(scopes) >= 1, NEW tok \in Token
  PROVE  ScopesAfter(scopes, tok) \in Seq(Scope) /\ Len(ScopesAfter(scopes, tok)) >= 1
  <1> DEFINE inner == Len(scopes)
  <1>1. tok.n \in Name /\ inner \in Nat /\ inner >= 1  BY DEF Token
  <1>2. CASE tok.t \in Opening
    <2>1. ScopesAfter(scopes, tok) = Append(scopes, NewScope)  BY <1>2 DEF ScopesAfter, Opening
    <2> QED  BY <2>1, <1>1, ScopeType
  <1>3. CASE tok.t = "end" /\ inner > 1
    <2>1. ScopesAfter(scopes, tok) = SubSeq(scopes, 1, inner - 1)  BY <1>3 DEF ScopesAfter, Opening
    <2> QED  BY <2>1, <1>1, <1>3
  <1>4. ASSUME NEW k \in 1..inner, NEW v \in {"child", "other"}
        PROVE  [scopes EXCEPT ![k][tok.n] = v] \in Seq(Scope) /\ Len([scopes EXCEPT ![k][tok.n] = v]) = inner
    <2>1. [scopes[k] EXCEPT ![tok.n] = v] \in Scope
      <3>1. scopes[k] \in Scope  OBVIOUS
      <3> QED  BY <3>1 DEF Scope
    <2>2. [scopes EXCEPT ![k][tok.n] = v] = [scopes EXCEPT ![k] = [scopes[k] EXCEPT ![tok.n] = v]]  OBVIOUS
    <2> HIDE DEF Scope
    <2> QED  BY <2>1, <2>2
  <1>5. CASE tok.t \in {"alias", "declare"}
    <2>1. inner \in 1..inner  BY <1>1
    <2> QED  BY <1>4, <1>5, <2>1 DEF ScopesAfter, Opening
  <1>6. CASE tok.t = "assign"
    <2>1. ScopesAfter(scopes, tok) = Assigned(scopes, tok.n)  BY <1>6 DEF ScopesAfter, Opening
    <2>2. CASE Innermost(scopes, tok.n) = {}  BY <2>1, <2>2 DEF Assigned
    <2>3. CASE Innermost(scopes, tok.n) # {}
      <3> DEFINE k == CHOOSE k \in Innermost(scopes, tok.n) : TRUE
      <3>1. k \in Innermost(scopes, tok.n)  BY <2>3
      <3>2. k \in 1..inner  BY <3>1 DEF Innermost
      <3>3. ScopesAfter(scopes, tok) = [scopes EXCEPT ![k][tok.n] = "other"]  BY <2>1, <2>3 DEF Assigned
      <3> HIDE DEF k
      <3> QED  BY <1>1, <1>4, <3>2, <3>3
    <2> QED  BY <2>2, <2>3
  <1>7. CASE tok.t \notin Opening \cup Naming /\ ~(tok.t = "end" /\ inner > 1)
    BY <1>7 DEF ScopesAfter, Opening, Naming
  <1> QED  BY <1>2, <1>3, <1>5, <1>6, <1>7 DEF Naming

\* A name means what it means in the innermost blocks that say something of it.
LEMMA ChildIsMeant ==
  ASSUME NEW scopes \in Seq(Scope), NEW name \in Name
  PROVE  IsChild(scopes, name) <=> Means(scopes, Len(scopes), name)
  <1>1. DOMAIN scopes = 1..Len(scopes)  OBVIOUS
  <1>2. \A k \in 1..Len(scopes) : scopes[k][name] = "child" => scopes[k][name] # "unknown"  OBVIOUS
  <1> QED  BY <1>1, <1>2, Zenon DEF IsChild, Means, Innermost

LEMMA MeansBelow ==
  ASSUME NEW scopes, NEW others, NEW k \in Nat, NEW name,
         \A i \in 1..k : others[i][name] = scopes[i][name]
  PROVE  Means(others, k, name) <=> Means(scopes, k, name)
  BY DEF Means

LEMMA MeansAbove ==
  ASSUME NEW scopes, NEW k \in Nat, NEW n \in Nat, k <= n, NEW name,
         \A i \in k + 1..n : scopes[i][name] = "unknown"
  PROVE  Means(scopes, n, name) <=> Means(scopes, k, name)
  <1>1. ASSUME Means(scopes, n, name)  PROVE Means(scopes, k, name)
    <2>1. PICK i \in 1..n : scopes[i][name] = "child" /\ \A j \in i + 1..n : scopes[j][name] = "unknown"
      BY <1>1 DEF Means
    <2>2. i \in 1..k  BY <2>1
    <2> QED  BY <2>1, <2>2 DEF Means
  <1>2. ASSUME Means(scopes, k, name)  PROVE Means(scopes, n, name)
    <2>1. PICK i \in 1..k : scopes[i][name] = "child" /\ \A j \in i + 1..k : scopes[j][name] = "unknown"
      BY <1>2 DEF Means
    <2>2. i \in 1..n  BY <2>1
    <2>3. ASSUME NEW j \in i + 1..n  PROVE scopes[j][name] = "unknown"
      <3>1. j \in i + 1..k \/ j \in k + 1..n  BY <2>2
      <3> QED  BY <2>1, <3>1
    <2> QED  BY <2>1, <2>2, <2>3 DEF Means
  <1> QED  BY <1>1, <1>2

-----------------------------------------------------------------------------
\* The bindings.
LEMMA StandsIs ==
  ASSUME NEW depth \in Nat, NEW at \in Nat, NEW bindings \in SUBSET Binding, Ordered(bindings, depth, at), NEW name \in Name
  PROVE  StandsForChildProcess(bindings, name) <=> Stands(bindings, depth, name)
  <1>1. \A b \in bindings : b.depth <= depth  BY DEF Ordered
  <1>2. ASSUME NEW b \in bindings, NEW c \in bindings, b.name = name, c.name = name
        PROVE  c.at <= b.at <=> c.depth <= b.depth
    <2>1. b.at \in Nat /\ c.at \in Nat /\ b.depth \in Nat /\ c.depth \in Nat  BY DEF Binding
    <2>2. (b.at < c.at <=> b.depth < c.depth)  BY <1>2 DEF Ordered
    <2> QED  BY <2>1, <2>2
  <1> QED  BY <1>1, <1>2, Zenon DEF StandsForChildProcess, Stands

\* A name is taken for the innermost block of a line that declares it.
LEMMA DeclareIs ==
  ASSUME NEW depth \in Nat, NEW at \in Nat, NEW bindings \in SUBSET Binding, Ordered(bindings, depth, at),
         NEW name \in Name, NEW is \in BOOLEAN
  PROVE  LET after == Declare(bindings, Bound(name, depth, is, at + 1))
         IN /\ after \in SUBSET Binding /\ Ordered(after, depth, at + 1)
            /\ \A d \in 0..depth, other \in Name :
                 Stands(after, d, other) <=> IF other = name /\ d = depth THEN is ELSE Stands(bindings, d, other)
  <1> DEFINE new == Bound(name, depth, is, at + 1)
             after == Declare(bindings, new)
  <1>1. new \in Binding /\ new.name = name /\ new.depth = depth /\ new.is = is /\ new.at = at + 1
    BY DEF Bound, Binding
  <1> HIDE DEF new
  <1>2. \A b : b \in after <=> b = new \/ (b \in bindings /\ (b.name # name \/ b.depth # depth))
    BY <1>1 DEF Declare
  <1>3. after \in SUBSET Binding  BY <1>1 DEF Declare
  <1> HIDE DEF after
  <1>4. \A b \in bindings : b.depth \in Nat /\ b.at \in Nat /\ b.depth <= depth /\ b.at <= at
    BY DEF Ordered, Binding
  <1>5. Ordered(after, depth, at + 1)
    <2>1. \A b \in after : b.depth <= depth /\ b.at <= at + 1  BY <1>1, <1>2, <1>4
    <2>2. ASSUME NEW b \in after, NEW c \in after, b.name = c.name
          PROVE  (b.at < c.at <=> b.depth < c.depth) /\ (b.depth = c.depth => b = c)
      <3>1. CASE b = new /\ c = new  BY <1>1, <3>1
      <3>2. CASE b = new /\ c # new
        <4>1. c \in bindings /\ c.depth # depth  BY <1>1, <1>2, <2>2, <3>2
        <4>2. c.depth < depth /\ c.at < at + 1 /\ c.depth \in Nat /\ c.at \in Nat  BY <1>4, <4>1
        <4> QED  BY <1>1, <3>2, <4>2
      <3>3. CASE b # new /\ c = new
        <4>1. b \in bindings /\ b.depth # depth  BY <1>1, <1>2, <2>2, <3>3
        <4>2. b.depth < depth /\ b.at < at + 1 /\ b.depth \in Nat /\ b.at \in Nat  BY <1>4, <4>1
        <4> QED  BY <1>1, <3>3, <4>2
      <3>4. CASE b # new /\ c # new  BY <1>2, <2>2, <3>4 DEF Ordered
      <3> QED  BY <3>1, <3>2, <3>3, <3>4
    <2> QED  BY <2>1, <2>2 DEF Ordered
  <1>6. ASSUME NEW d \in 0..depth, NEW other \in Name, ~(other = name /\ d = depth)
        PROVE  Stands(after, d, other) <=> Stands(bindings, d, other)
    <2>1. ASSUME NEW b, b.name = other, b.depth <= d  PROVE b \in after <=> b \in bindings
      BY <1>1, <1>2, <1>6, <2>1
    <2> QED  BY <2>1, Zenon DEF Stands
  <1>7. Stands(after, depth, name) <=> is
    <2>1. new \in after /\ \A c \in after : c.depth <= new.depth  BY <1>1, <1>2, <1>4
    <2>2. ASSUME NEW b \in after, b.name = name, \A c \in after : c.name = name /\ c.depth <= depth => c.depth <= b.depth
          PROVE  b = new
      <3>1. depth <= b.depth  BY <1>1, <2>1, <2>2
      <3> QED  BY <1>1, <1>2, <1>4, <2>2, <3>1
    <2>3. ASSUME is  PROVE Stands(after, depth, name)
      <3>1. new.depth <= depth  BY <1>1
      <3> QED  BY <1>1, <2>1, <2>3, <3>1, Zenon DEF Stands
    <2>4. ASSUME Stands(after, depth, name)  PROVE is
      <3>1. PICK b \in after : b.name = name /\ b.depth <= depth /\ b.is /\ \A c \in after : c.name = name /\ c.depth <= depth => c.depth <= b.depth
        BY <2>4 DEF Stands
      <3>2. b = new  BY <2>2, <3>1
      <3> QED  BY <1>1, <3>1, <3>2
    <2> QED  BY <2>3, <2>4
  <1> QED  BY <1>3, <1>5, <1>6, <1>7 DEF after, new

\* What a line has declared so far keeps the order.
LEMMA DeclaredIs ==
  ASSUME NEW l \in LoopType, NEW p \in PassType, Ordered(l.bindings, l.depth, l.lines)
  PROVE  Declared(l, p) \in SUBSET Binding /\ Ordered(Declared(l, p), l.depth, l.lines + 1)
  <1>1. l.bindings \in SUBSET Binding /\ l.depth \in Nat /\ l.lines \in Nat  BY DEF LoopType
  <1>2. \A b \in l.bindings : b.at \in Nat  BY <1>1 DEF Binding
  <1>3. Ordered(l.bindings, l.depth, l.lines + 1)  BY <1>1, <1>2 DEF Ordered
  <1>4. ASSUME NEW s \in Seq(Token), s # <<>>  PROVE s[1].n \in Name
    <2>1. s[1] \in Token  BY <1>4
    <2> QED  BY <2>1 DEF Token
  <1>5. p.begins \in Seq(Token) /\ p.first \in Seq(Token)  BY DEF PassType
  <1>6. ASSUME NEW name \in Name, NEW is \in BOOLEAN
        PROVE  LET after == Declare(l.bindings, Bound(name, l.depth, is, l.lines + 1))
               IN after \in SUBSET Binding /\ Ordered(after, l.depth, l.lines + 1)
    BY <1>1, DeclareIs
  <1>7. CASE p.begins # <<>> /\ p.begins[1].t = "alias"
    BY <1>4, <1>5, <1>6, <1>7 DEF Declared
  <1>8. CASE ~(p.begins # <<>> /\ p.begins[1].t = "alias") /\ p.first # <<>> /\ p.first[1].t \in Naming
    BY <1>4, <1>5, <1>6, <1>8 DEF Declared, Naming
  <1>9. CASE ~(p.begins # <<>> /\ p.begins[1].t = "alias") /\ ~(p.first # <<>> /\ p.first[1].t \in Naming)
    BY <1>1, <1>3, <1>9 DEF Declared, Naming
  <1> QED  BY <1>7, <1>8, <1>9

\* A token that names nothing, or does not run, declares nothing.
LEMMA DeclaredSame ==
  ASSUME NEW l \in LoopType, NEW p \in PassType, NEW tok \in Token,
         Runs(p.stack, tok) => tok.t \notin Naming,
         ~Masks(p.open, tok) => Runs(p.stack, tok),
         p.begins = <<>> => p.stack = <<>>
  PROVE  Declared(l, Passed(p, tok)) = Declared(l, p)
  <1> DEFINE q == Passed(p, tok)
  <1>1. q.begins = FirstOf(p.begins, TRUE, tok) /\ q.first = FirstOf(p.first, ~Masks(p.open, tok), tok)
    BY PassedIs
  <1> HIDE DEF q
  <1>2. tok.t # "alias" \/ p.begins # <<>>
    <2>1. ASSUME tok.t = "alias", p.begins = <<>>  PROVE FALSE
      <3>1. p.stack = <<>> /\ tok.t \notin Quotes  BY <2>1 DEF Quotes
      <3>2. Runs(p.stack, tok)  BY <3>1, InCode
      <3> QED  BY <2>1, <3>2 DEF Naming
    <2> QED  BY <2>1
  <1>3. q.begins # <<>> /\ q.begins[1].t = "alias" <=> p.begins # <<>> /\ p.begins[1].t = "alias"
    BY <1>1, <1>2 DEF FirstOf
  <1>4. p.begins # <<>> => q.begins = p.begins  BY <1>1 DEF FirstOf
  <1>5. q.first # <<>> /\ q.first[1].t \in Naming <=> p.first # <<>> /\ p.first[1].t \in Naming
    BY <1>1 DEF FirstOf
  <1>6. p.first # <<>> => q.first = p.first  BY <1>1 DEF FirstOf
  <1> SUFFICES Declared(l, q) = Declared(l, p)  BY DEF q
  <1>7. CASE p.begins # <<>> /\ p.begins[1].t = "alias"
    BY <1>3, <1>4, <1>7 DEF Declared
  <1>8. CASE ~(p.begins # <<>> /\ p.begins[1].t = "alias") /\ p.first # <<>> /\ p.first[1].t \in Naming
    BY <1>3, <1>5, <1>6, <1>8 DEF Declared, Naming
  <1>9. CASE ~(p.begins # <<>> /\ p.begins[1].t = "alias") /\ ~(p.first # <<>> /\ p.first[1].t \in Naming)
    BY <1>3, <1>5, <1>9 DEF Declared, Naming
  <1> QED  BY <1>7, <1>8, <1>9

\* A name read at the beginning of its line is declared for the line's block.
LEMMA DeclaredNew ==
  ASSUME NEW l \in LoopType, NEW p \in PassType, NEW tok \in Token,
         tok.t \in Naming, ~Masks(p.open, tok), p.first = <<>>,
         p.begins # <<>> => p.begins[1].t # "alias" /\ tok.t # "alias"
  PROVE  /\ Declared(l, p) = l.bindings
         /\ Declared(l, Passed(p, tok)) = Declare(l.bindings, Bound(tok.n, l.depth, tok.t = "alias", l.lines + 1))
  <1> DEFINE q == Passed(p, tok)
  <1>1. q.begins = FirstOf(p.begins, TRUE, tok) /\ q.first = FirstOf(p.first, ~Masks(p.open, tok), tok)
    BY PassedIs
  <1> HIDE DEF q
  <1>2. Declared(l, p) = l.bindings  BY DEF Declared
  <1>3. q.first = <<tok>>  BY <1>1 DEF FirstOf
  <1>4. CASE tok.t = "alias"
    <2>1. p.begins = <<>>  BY <1>4
    <2>2. q.begins = <<tok>>  BY <1>1, <2>1 DEF FirstOf
    <2>3. q.begins # <<>> /\ q.begins[1] = tok  BY <2>2
    <2>4. Declared(l, q) = Declare(l.bindings, Bound(tok.n, l.depth, TRUE, l.lines + 1))  BY <1>4, <2>3 DEF Declared
    <2> QED  BY <1>2, <1>4, <2>4 DEF q
  <1>5. CASE tok.t # "alias"
    <2>1. q.begins # <<>> /\ q.begins[1].t # "alias"  BY <1>1, <1>5 DEF FirstOf
    <2>2. q.first # <<>> /\ q.first[1] = tok  BY <1>3
    <2>3. tok.t \in {"alias", "declare", "assign"}  BY DEF Naming
    <2>4. Declared(l, q) = Declare(l.bindings, Bound(tok.n, l.depth, FALSE, l.lines + 1))
      BY <2>1, <2>2, <2>3 DEF Declared
    <2> QED  BY <1>2, <1>5, <2>4 DEF q
  <1> QED  BY <1>4, <1>5

\* What a line says is dangerous depends on the tokens found in it.
LEMMA DangerSame ==
  ASSUME NEW bindings, NEW p, NEW q, q.evals = p.evals, q.call = p.call, q.requires = p.requires
  PROVE  Dangerous(bindings, q) <=> Dangerous(bindings, p)
  BY DEF Dangerous

\* What is agreed on for some blocks holds for others that begin with them.
LEMMA AgreeBelow ==
  ASSUME NEW bindings, NEW depth \in Nat, NEW scopes \in Seq(Scope), NEW others \in Seq(Scope), Agree(bindings, scopes, depth),
         \A k \in 1..depth + 1 : k <= Len(others) => k <= Len(scopes) /\ others[k] = scopes[k]
  PROVE  Agree(bindings, others, depth)
  <1> SUFFICES ASSUME NEW d \in 0..depth, d < Len(others), NEW name \in Name
               PROVE  Stands(bindings, d, name) <=> Means(others, d + 1, name)
    BY DEF Agree
  <1>1. d + 1 \in 1..depth + 1 /\ d + 1 <= Len(others) /\ Len(others) \in Nat /\ Len(scopes) \in Nat  OBVIOUS
  <1>2. d < Len(scopes)  BY <1>1
  <1>3. \A i \in 1..d + 1 : others[i] = scopes[i]  BY <1>1
  <1>4. Means(others, d + 1, name) <=> Means(scopes, d + 1, name)
    BY <1>1, <1>3, MeansBelow
  <1> QED  BY <1>2, <1>4 DEF Agree

LEMMA ExtraIs ==
  ASSUME NEW open \in {"code", "quote", "tick"}, NEW stack \in Seq(LevelType), Literals(open, stack)
  PROVE  Extra(stack) \in Nat /\ (stack = <<>> => Extra(stack) = 0)
  <1>1. Len(stack) >= 2 => stack[2].braces \in Nat
    <2>1. Len(stack) >= 2 => stack[2] \in LevelType  OBVIOUS
    <2> QED  BY <2>1 DEF LevelType
  <1> QED  BY <1>1 DEF Extra, Literals

-----------------------------------------------------------------------------
\* A token in a literal changes nothing but the literals.
LEMMA ReadLiteral ==
  ASSUME NEW p \in PassType, NEW l \in LoopType, NEW m \in MeantType, NEW tok \in Token,
         Reading(p, l, m), ~Meaning(m, p, tok).misled, ~Runs(p.stack, tok)
  PROVE  Reading(Passed(p, tok), l, Meaning(m, p, tok))
  <1> DEFINE q == Passed(p, tok)
             w == Meaning(m, p, tok)
  <1>1. /\ q \in PassType /\ q.commented = p.commented
        /\ q.open = Opened(p.open, tok) /\ q.stack = Stacked(p.stack, tok)
        /\ q.begins = FirstOf(p.begins, TRUE, tok) /\ q.first = FirstOf(p.first, ~Masks(p.open, tok), tok)
        /\ q.call = FirstOf(p.call, Runs(p.stack, tok) /\ tok.t = "call", tok)
        /\ q.evals = (p.evals \/ (Runs(p.stack, tok) /\ tok.t = "eval"))
        /\ q.requires = (p.requires \/ (~Masks(p.open, tok) /\ tok.t = "require_exec"))
        /\ q.depth = IF ~Masks(p.open, tok) THEN BraceDepth(p.depth, tok) ELSE p.depth
    BY PassedIs
  <1>2. w.low = m.low /\ w.scopes = m.scopes /\ w.going = m.going /\ w.danger = m.danger /\ ~(tok.t = "tick" /\ Len(p.stack) > 1)
    BY MeaningIs
  <1>3. LiteralsFollow(p.open, p.stack, tok)
    <2>1. p.open \in {"code", "quote", "tick"} /\ p.stack \in Seq(LevelType)  BY DEF PassType
    <2> QED  BY <1>2, <2>1, LiteralsStep DEF Reading
  <1>4. Declared(l, q) = Declared(l, p)
    <2>1. ~Masks(p.open, tok) => Runs(p.stack, tok)  BY <1>3 DEF LiteralsFollow
    <2>2. p.begins = <<>> => p.stack = <<>>  BY DEF Reading
    <2> QED  BY <2>1, <2>2, DeclaredSame
  <1> HIDE DEF q, w
  <1>5. Masks(p.open, tok) /\ Literals(q.open, q.stack) /\ Extra(q.stack) = Extra(p.stack)
    BY <1>1, <1>3 DEF LiteralsFollow
  <1>6. q.first = p.first /\ q.call = p.call /\ q.evals = p.evals /\ q.requires = p.requires /\ q.depth = p.depth
    BY <1>1, <1>5 DEF FirstOf, PassType
  <1>7. q.begins # <<>>  BY <1>1 DEF FirstOf
  <1>8. ~w.going => Still(q, l, w)
    <2>1. p.begins = <<>> => tok.t # "alias"
      <3>1. p.begins = <<>> => p.stack = <<>>  BY DEF Reading
      <3>2. p.stack = <<>> => tok.t \in Quotes  BY InCode
      <3> QED  BY <3>1, <3>2 DEF Quotes
    <2>2. ~w.going => Still(p, l, m)  BY <1>2 DEF Reading
    <2>3. Still(p, l, m) /\ p.begins # <<>> => q.begins = p.begins /\ q.begins[1].t # "alias"
      BY <1>1 DEF FirstOf, Still
    <2>4. p.begins = <<>> => q.begins[1].t # "alias"  BY <1>1, <2>1 DEF FirstOf
    <2> QED  BY <1>2, <1>6, <2>2, <2>3, <2>4 DEF Still
  <1>9. Dangerous(Declared(l, q), q) <=> Dangerous(Declared(l, p), p)
    BY <1>4, <1>6, DangerSame
  <1>10. Reading(q, l, w)
    BY <1>1, <1>2, <1>4, <1>5, <1>6, <1>7, <1>8, <1>9 DEF Reading
  <1> QED  BY <1>10 DEF q, w

\* So it is for a token that runs if the blocks, the names and the danger follow.
LEMMA ReadRunning ==
  ASSUME NEW p \in PassType, NEW l \in LoopType, NEW m \in MeantType, NEW tok \in Token,
         Reading(p, l, m), ~Meaning(m, p, tok).misled, Runs(p.stack, tok),
         LET q == Passed(p, tok)
             w == Meaning(m, p, tok)
         IN /\ Len(w.scopes) = q.depth + 1 + Extra(q.stack)
            /\ p.commented => q.depth = l.depth /\ ~w.danger /\ Extra(q.stack) = 0
            /\ Agree(Declared(l, q), w.scopes, l.depth)
            /\ \A k \in l.depth + 2..Len(w.scopes) : \A name \in Name : w.scopes[k][name] = "unknown"
            /\ w.danger <=> Dangerous(Declared(l, q), q)
  PROVE  Reading(Passed(p, tok), l, Meaning(m, p, tok))
  <1> DEFINE q == Passed(p, tok)
             w == Meaning(m, p, tok)
  <1>1. q.commented = p.commented /\ q.open = Opened(p.open, tok) /\ q.stack = Stacked(p.stack, tok) /\ q.begins = FirstOf(p.begins, TRUE, tok)
    BY PassedIs
  <1>2. w.low = m.low /\ w.going
    BY MeaningIs
  <1>3. LiteralsFollow(p.open, p.stack, tok)
    <2>1. p.open \in {"code", "quote", "tick"} /\ p.stack \in Seq(LevelType)  BY DEF PassType
    <2>2. ~(tok.t = "tick")  BY DEF Runs, Quotes
    <2> QED  BY <2>1, <2>2, LiteralsStep DEF Reading
  <1>4. Literals(q.open, q.stack)  BY <1>1, <1>3 DEF LiteralsFollow
  <1>5. q.begins # <<>>  BY <1>1 DEF FirstOf
  <1> HIDE DEF q, w
  <1>6. Reading(q, l, w)
    BY <1>1, <1>2, <1>4, <1>5 DEF Reading, q, w
  <1> QED  BY <1>6 DEF q, w

\* A brace that runs opens a block.
LEMMA ReadOpening ==
  ASSUME NEW p \in PassType, NEW l \in LoopType, NEW m \in MeantType, NEW tok \in Token,
         Reading(p, l, m), ~Meaning(m, p, tok).misled, Runs(p.stack, tok), tok.t \in Opening
  PROVE  Reading(Passed(p, tok), l, Meaning(m, p, tok))
  <1> DEFINE q == Passed(p, tok)
             w == Meaning(m, p, tok)
  <1>1. /\ q.stack = Stacked(p.stack, tok) /\ q.call = FirstOf(p.call, Runs(p.stack, tok) /\ tok.t = "call", tok)
        /\ q.evals = (p.evals \/ (Runs(p.stack, tok) /\ tok.t = "eval"))
        /\ q.requires = (p.requires \/ (~Masks(p.open, tok) /\ tok.t = "require_exec"))
        /\ q.depth = IF ~Masks(p.open, tok) THEN BraceDepth(p.depth, tok) ELSE p.depth
    BY PassedIs
  <1>2. /\ w.scopes = ScopesAfter(m.scopes, tok)
        /\ w.danger = (m.danger \/ tok.t \in {"eval", "require_exec"} \/ (tok.t = "call" /\ IsChild(m.scopes, tok.n)))
        /\ ~MisleadingToken(m, p, tok)
    BY MeaningIs
  <1>3. LiteralsFollow(p.open, p.stack, tok) /\ Extra(p.stack) \in Nat /\ (p.stack = <<>> => Extra(p.stack) = 0)
    <2>1. p.open \in {"code", "quote", "tick"} /\ p.stack \in Seq(LevelType)  BY DEF PassType
    <2>2. ~(tok.t = "tick")  BY DEF Runs, Quotes
    <2> QED  BY <2>1, <2>2, LiteralsStep, ExtraIs DEF Reading
  <1>4. tok.t \notin Naming /\ tok.t \notin {"end", "call", "eval", "require_exec"}  BY DEF Opening, Naming
  <1>5. Declared(l, q) = Declared(l, p)
    <2>1. ~Masks(p.open, tok) => Runs(p.stack, tok)  BY <1>3 DEF LiteralsFollow
    <2>2. p.begins = <<>> => p.stack = <<>>  BY DEF Reading
    <2> QED  BY <1>4, <2>1, <2>2, DeclaredSame
  <1> HIDE DEF q, w
  <1>6. ~p.commented /\ m.low <= Len(m.scopes)
    <2>1. Len(m.scopes) \in Nat /\ m.low \in Nat /\ m.scopes \in Seq(Scope)  BY DEF MeantType
    <2>2. tok.t \in Opening \cup {"call"} /\ tok.t \in Counting  BY DEF Counting
    <2>3. ~(Len(m.scopes) < m.low) /\ ~p.commented  BY <1>2, <2>2, Zenon DEF MisleadingToken
    <2> QED  BY <2>1, <2>3
  <1>7. w.scopes = Append(m.scopes, NewScope)  BY <1>2, <1>4 DEF ScopesAfter, Naming
  <1>8. m.scopes \in Seq(Scope) /\ Len(w.scopes) = Len(m.scopes) + 1 /\ w.scopes \in Seq(Scope)
        /\ w.scopes[Len(m.scopes) + 1] = NewScope /\ \A k \in 1..Len(m.scopes) : w.scopes[k] = m.scopes[k]
    <2>1. m.scopes \in Seq(Scope)  BY DEF MeantType
    <2> HIDE DEF Scope
    <2> QED  BY <1>7, <2>1, ScopeType
  <1>9. p.depth \in Nat /\ l.depth \in Nat /\ Len(m.scopes) \in Nat  BY <1>8 DEF PassType, LoopType
  <1>10. Len(w.scopes) = q.depth + 1 + Extra(q.stack)
    <2>1. CASE p.stack = <<>>
      <3>1. q.depth = p.depth + 1 /\ q.stack = <<>>
        BY <1>1, <1>3, <1>4, <2>1 DEF LiteralsFollow, BraceDepth
      <3> QED  BY <1>3, <1>8, <1>9, <2>1, <3>1 DEF Reading
    <2>2. CASE p.stack # <<>>
      <3>1. q.depth = p.depth /\ Extra(q.stack) = Extra(p.stack) + 1
        BY <1>1, <1>3, <1>4, <2>2 DEF LiteralsFollow
      <3>2. Len(m.scopes) = p.depth + 1 + Extra(p.stack)  BY DEF Reading
      <3>3. Len(w.scopes) = Len(m.scopes) + 1  BY <1>8
      <3> DEFINE e == Extra(p.stack)
      <3>4. e \in Nat  BY <1>3
      <3> HIDE DEF e
      <3> QED  BY <1>9, <3>1, <3>2, <3>3, <3>4 DEF e
    <2> QED  BY <2>1, <2>2
  <1>11. Agree(Declared(l, q), w.scopes, l.depth)
    <2>1. m.low = l.depth + 1 /\ Agree(Declared(l, p), m.scopes, l.depth)  BY DEF Reading
    <2>2. \A k \in 1..l.depth + 1 : k <= Len(m.scopes) /\ w.scopes[k] = m.scopes[k]  BY <1>6, <1>8, <1>9, <2>1
    <2> QED  BY <1>5, <1>8, <1>9, <2>1, <2>2, AgreeBelow
  <1>12. ASSUME NEW k \in l.depth + 2..Len(w.scopes), NEW name \in Name  PROVE w.scopes[k][name] = "unknown"
    <2>1. CASE k = Len(m.scopes) + 1  BY <1>8, <2>1, ScopeType
    <2>2. CASE k # Len(m.scopes) + 1
      <3>1. k \in l.depth + 2..Len(m.scopes) /\ k \in 1..Len(m.scopes)  BY <1>8, <1>9, <2>2
      <3> QED  BY <1>8, <3>1 DEF Reading
    <2> QED  BY <2>1, <2>2
  <1>13. w.danger <=> Dangerous(Declared(l, q), q)
    <2>1. q.evals = p.evals /\ q.call = p.call /\ q.requires = p.requires  BY <1>1, <1>4 DEF FirstOf, PassType
    <2>2. w.danger = m.danger  BY <1>2, <1>4 DEF MeantType
    <2> QED  BY <1>5, <2>1, <2>2, DangerSame DEF Reading
  <1> QED  BY <1>6, <1>10, <1>11, <1>12, <1>13, ReadRunning DEF q, w

\* A closing brace that runs closes one.
LEMMA ReadEnd ==
  ASSUME NEW p \in PassType, NEW l \in LoopType, NEW m \in MeantType, NEW tok \in Token,
         Reading(p, l, m), ~Meaning(m, p, tok).misled, Runs(p.stack, tok), tok.t = "end"
  PROVE  Reading(Passed(p, tok), l, Meaning(m, p, tok))
  <1> DEFINE q == Passed(p, tok)
             w == Meaning(m, p, tok)
  <1>1. /\ q.stack = Stacked(p.stack, tok) /\ q.call = FirstOf(p.call, Runs(p.stack, tok) /\ tok.t = "call", tok)
        /\ q.evals = (p.evals \/ (Runs(p.stack, tok) /\ tok.t = "eval"))
        /\ q.requires = (p.requires \/ (~Masks(p.open, tok) /\ tok.t = "require_exec"))
        /\ q.depth = IF ~Masks(p.open, tok) THEN BraceDepth(p.depth, tok) ELSE p.depth
    BY PassedIs
  <1>2. /\ w.scopes = ScopesAfter(m.scopes, tok)
        /\ w.danger = (m.danger \/ tok.t \in {"eval", "require_exec"} \/ (tok.t = "call" /\ IsChild(m.scopes, tok.n)))
        /\ ~MisleadingToken(m, p, tok)
    BY MeaningIs
  <1>3. LiteralsFollow(p.open, p.stack, tok) /\ Extra(p.stack) \in Nat /\ (p.stack = <<>> => Extra(p.stack) = 0)
    <2>1. p.open \in {"code", "quote", "tick"} /\ p.stack \in Seq(LevelType)  BY DEF PassType
    <2>2. ~(tok.t = "tick")  BY DEF Runs, Quotes
    <2> QED  BY <2>1, <2>2, LiteralsStep, ExtraIs DEF Reading
  <1>4. tok.t \notin Naming /\ tok.t \notin Opening /\ tok.t \notin {"call", "eval", "require_exec"}  BY DEF Opening, Naming
  <1>5. Declared(l, q) = Declared(l, p)
    <2>1. ~Masks(p.open, tok) => Runs(p.stack, tok)  BY <1>3 DEF LiteralsFollow
    <2>2. p.begins = <<>> => p.stack = <<>>  BY DEF Reading
    <2> QED  BY <1>4, <2>1, <2>2, DeclaredSame
  <1> HIDE DEF q, w
  <1>6. ~p.commented  BY <1>2 DEF MisleadingToken, Counting
  <1>7. w.scopes = IF Len(m.scopes) > 1 THEN SubSeq(m.scopes, 1, Len(m.scopes) - 1) ELSE m.scopes
    BY <1>2, <1>4 DEF ScopesAfter
  <1>8. m.scopes \in Seq(Scope) /\ Len(m.scopes) \in Nat /\ p.depth \in Nat /\ l.depth \in Nat
    BY DEF PassType, LoopType, MeantType
  <1>9. /\ w.scopes \in Seq(Scope) /\ Len(w.scopes) = (IF Len(m.scopes) > 1 THEN Len(m.scopes) - 1 ELSE Len(m.scopes))
        /\ \A k \in 1..Len(w.scopes) : w.scopes[k] = m.scopes[k]
    <2>1. CASE Len(m.scopes) > 1
      <3> DEFINE n == Len(m.scopes) - 1
      <3>1. n \in Nat /\ n < Len(m.scopes) /\ n <= Len(m.scopes)  BY <1>8, <2>1
      <3>2. SubSeq(m.scopes, 1, n) \in Seq(Scope) /\ Len(SubSeq(m.scopes, 1, n)) = n /\ \A k \in 1..n : SubSeq(m.scopes, 1, n)[k] = m.scopes[k]
        BY <1>8, <3>1
      <3> QED  BY <1>7, <2>1, <3>2
    <2>2. CASE ~(Len(m.scopes) > 1)  BY <1>7, <1>8, <2>2
    <2> QED  BY <2>1, <2>2
  <1>10. Len(w.scopes) = q.depth + 1 + Extra(q.stack)
    <2>1. CASE p.stack = <<>>
      <3>1. q.depth = (IF p.depth > 0 THEN p.depth - 1 ELSE p.depth) /\ q.stack = <<>>
        BY <1>1, <1>3, <1>4, <2>1 DEF LiteralsFollow, BraceDepth
      <3>2. Len(m.scopes) = p.depth + 1 /\ Extra(q.stack) = 0  BY <1>3, <1>8, <2>1, <3>1 DEF Reading
      <3> QED  BY <1>8, <1>9, <3>1, <3>2
    <2>2. CASE p.stack # <<>>
      <3>1. q.depth = p.depth /\ Extra(q.stack) = Extra(p.stack) - 1 /\ Extra(p.stack) > 0
        BY <1>1, <1>3, <1>4, <2>2 DEF LiteralsFollow
      <3> QED  BY <1>3, <1>8, <1>9, <2>2, <3>1 DEF Reading
    <2> QED  BY <2>1, <2>2
  <1>11. Agree(Declared(l, q), w.scopes, l.depth)
    <2>1. Agree(Declared(l, p), m.scopes, l.depth)  BY DEF Reading
    <2>2. Len(w.scopes) \in Nat /\ Len(w.scopes) <= Len(m.scopes)  BY <1>8, <1>9
    <2>3. \A k \in 1..l.depth + 1 : k <= Len(w.scopes) => k <= Len(m.scopes) /\ w.scopes[k] = m.scopes[k]
      BY <1>8, <1>9, <2>2
    <2> QED  BY <1>5, <1>8, <1>9, <2>1, <2>3, AgreeBelow
  <1>12. ASSUME NEW k \in l.depth + 2..Len(w.scopes), NEW name \in Name  PROVE w.scopes[k][name] = "unknown"
    <2>1. k \in l.depth + 2..Len(m.scopes) /\ k \in 1..Len(w.scopes)  BY <1>8, <1>9
    <2> QED  BY <1>9, <2>1 DEF Reading
  <1>13. w.danger <=> Dangerous(Declared(l, q), q)
    <2>1. q.evals = p.evals /\ q.call = p.call /\ q.requires = p.requires  BY <1>1, <1>4 DEF FirstOf, PassType
    <2>2. w.danger = m.danger  BY <1>2, <1>4 DEF MeantType
    <2> QED  BY <1>5, <2>1, <2>2, DangerSame DEF Reading
  <1> QED  BY <1>6, <1>10, <1>11, <1>12, <1>13, ReadRunning DEF q, w

\* What is neither a brace nor a name leaves the blocks and the names alone.
LEMMA ReadOther ==
  ASSUME NEW p \in PassType, NEW l \in LoopType, NEW m \in MeantType, NEW tok \in Token,
         Reading(p, l, m), ~Meaning(m, p, tok).misled, Runs(p.stack, tok), tok.t \notin Opening \cup {"end"} \cup Naming,
         Ordered(l.bindings, l.depth, l.lines), Len(m.scopes) >= 1
  PROVE  Reading(Passed(p, tok), l, Meaning(m, p, tok))
  <1> DEFINE q == Passed(p, tok)
             w == Meaning(m, p, tok)
  <1>1. /\ q.stack = Stacked(p.stack, tok) /\ q.call = FirstOf(p.call, Runs(p.stack, tok) /\ tok.t = "call", tok)
        /\ q.evals = (p.evals \/ (Runs(p.stack, tok) /\ tok.t = "eval"))
        /\ q.requires = (p.requires \/ (~Masks(p.open, tok) /\ tok.t = "require_exec"))
        /\ q.depth = IF ~Masks(p.open, tok) THEN BraceDepth(p.depth, tok) ELSE p.depth
    BY PassedIs
  <1>2. /\ w.scopes = ScopesAfter(m.scopes, tok)
        /\ w.danger = (m.danger \/ tok.t \in {"eval", "require_exec"} \/ (tok.t = "call" /\ IsChild(m.scopes, tok.n)))
        /\ ~MisleadingToken(m, p, tok)
    BY MeaningIs
  <1>3. LiteralsFollow(p.open, p.stack, tok) /\ Extra(p.stack) \in Nat /\ (p.stack = <<>> => Extra(p.stack) = 0)
    <2>1. p.open \in {"code", "quote", "tick"} /\ p.stack \in Seq(LevelType)  BY DEF PassType
    <2>2. ~(tok.t = "tick")  BY DEF Runs, Quotes
    <2> QED  BY <2>1, <2>2, LiteralsStep, ExtraIs DEF Reading
  <1>4. Declared(l, q) = Declared(l, p)
    <2>1. ~Masks(p.open, tok) => Runs(p.stack, tok)  BY <1>3 DEF LiteralsFollow
    <2>2. p.begins = <<>> => p.stack = <<>>  BY DEF Reading
    <2> QED  BY <2>1, <2>2, DeclaredSame
  <1> HIDE DEF q, w
  <1>5. w.scopes = m.scopes  BY <1>2 DEF ScopesAfter, Naming
  <1>6. q.depth = p.depth  BY <1>1 DEF BraceDepth
  <1>7. Extra(q.stack) = Extra(p.stack)
    <2>1. p.stack = <<>> => q.stack = <<>>  BY <1>1, <1>3 DEF LiteralsFollow
    <2>2. p.stack # <<>> => Extra(q.stack) = Extra(p.stack)  BY <1>1, <1>3 DEF LiteralsFollow
    <2> QED  BY <2>1, <2>2
  <1>8. w.danger <=> Dangerous(Declared(l, q), q)
    <2>1. CASE tok.t = "call"
      <3>1. p.call = <<>> /\ m.low <= Len(m.scopes)
        <4>1. Len(m.scopes) \in Nat /\ m.low \in Nat /\ m.scopes \in Seq(Scope)  BY DEF MeantType
        <4> QED  BY <1>2, <2>1, <4>1 DEF MisleadingToken
      <3>2. q.call = <<tok>> /\ q.evals = p.evals /\ q.requires = p.requires  BY <1>1, <2>1, <3>1 DEF FirstOf, PassType
      <3>3. w.danger = (m.danger \/ IsChild(m.scopes, tok.n))  BY <1>2, <2>1
      <3>4. m.danger <=> p.evals \/ p.requires  BY <3>1 DEF Reading, Dangerous
      <3>5. q.call # <<>> /\ q.call[1] = tok  BY <3>2
      <3>6. Dangerous(Declared(l, q), q) <=> p.evals \/ StandsForChildProcess(Declared(l, p), tok.n) \/ p.requires
        BY <1>4, <3>2, <3>5 DEF Dangerous
      <3>7. StandsForChildProcess(Declared(l, p), tok.n) <=> IsChild(m.scopes, tok.n)
        <4> DEFINE B == Declared(l, p)
                   D == l.depth
        <4>1. D \in Nat /\ l.lines + 1 \in Nat /\ tok.n \in Name /\ m.scopes \in Seq(Scope) /\ Len(m.scopes) \in Nat
          BY DEF LoopType, Token, MeantType
        <4>2. B \in SUBSET Binding /\ Ordered(B, D, l.lines + 1)  BY DeclaredIs
        <4>3. /\ m.low = D + 1 /\ Agree(B, m.scopes, D)
              /\ \A k \in D + 2..Len(m.scopes) : \A name \in Name : m.scopes[k][name] = "unknown"
          BY DEF Reading
        <4> HIDE DEF B, D
        <4>4. StandsForChildProcess(B, tok.n) <=> Stands(B, D, tok.n)  BY <4>1, <4>2, StandsIs
        <4>5. D \in 0..D /\ D < Len(m.scopes) /\ D + 1 \in Nat /\ D + 1 <= Len(m.scopes)  BY <3>1, <4>1, <4>3
        <4>6. Stands(B, D, tok.n) <=> Means(m.scopes, D + 1, tok.n)  BY <4>1, <4>3, <4>5 DEF Agree
        <4>7. \A i \in (D + 1) + 1..Len(m.scopes) : m.scopes[i][tok.n] = "unknown"  BY <4>1, <4>3
        <4>8. Means(m.scopes, Len(m.scopes), tok.n) <=> Means(m.scopes, D + 1, tok.n)
          BY <4>1, <4>5, <4>7, MeansAbove
        <4>9. IsChild(m.scopes, tok.n) <=> Means(m.scopes, Len(m.scopes), tok.n)  BY <4>1, ChildIsMeant
        <4> QED  BY <4>4, <4>6, <4>8, <4>9 DEF B
      <3> QED  BY <3>3, <3>4, <3>6, <3>7
    <2>2. CASE tok.t = "eval"  BY <1>1, <1>2, <2>2 DEF Dangerous
    <2>3. CASE tok.t = "require_exec"
      <3>1. p.stack = <<>>  BY <1>2, <2>3 DEF MisleadingToken
      <3>2. ~Masks(p.open, tok)  BY <1>3, <3>1 DEF LiteralsFollow
      <3> QED  BY <1>1, <1>2, <2>3, <3>2 DEF Dangerous
    <2>4. CASE tok.t \notin {"call", "eval", "require_exec"}
      <3>1. q.evals = p.evals /\ q.call = p.call /\ q.requires = p.requires  BY <1>1, <2>4 DEF FirstOf, PassType
      <3>2. w.danger = m.danger  BY <1>2, <2>4 DEF MeantType
      <3> QED  BY <1>4, <3>1, <3>2, DangerSame DEF Reading
    <2> QED  BY <2>1, <2>2, <2>3, <2>4
  <1>9. p.commented => ~w.danger
    <2>1. p.commented => tok.t \notin {"call", "eval", "require_exec"} /\ ~m.danger  BY <1>2 DEF MisleadingToken, Counting, Reading
    <2> QED  BY <1>2, <2>1
  <1>10. /\ Len(w.scopes) = q.depth + 1 + Extra(q.stack)
         /\ p.commented => q.depth = l.depth /\ ~w.danger /\ Extra(q.stack) = 0
         /\ Agree(Declared(l, q), w.scopes, l.depth)
         /\ \A k \in l.depth + 2..Len(w.scopes) : \A name \in Name : w.scopes[k][name] = "unknown"
    BY <1>4, <1>5, <1>6, <1>7, <1>9 DEF Reading
  <1> QED  BY <1>8, <1>10, ReadRunning DEF q, w

\* What an assignment or a declaration in the innermost of n blocks may do: name the one name, there.
NamesOnly(scopes, after, n, tok) ==
  /\ after \in Seq(Scope) /\ Len(after) = n
  /\ \A k \in 1..n : \A name \in Name : k # n \/ name # tok.n => after[k][name] = scopes[k][name]
  /\ Means(after, n, tok.n) <=> tok.t = "alias"

\* A name that is declared or assigned to in the innermost block.
LEMMA NamedIs ==
  ASSUME NEW scopes \in Seq(Scope), NEW n \in Nat \ {0}, Len(scopes) = n, NEW tok \in Token, tok.t \in Naming,
         tok.t = "assign" => Innermost(scopes, tok.n) \in {{}, {n}}
  PROVE  NamesOnly(scopes, ScopesAfter(scopes, tok), n, tok)
  <1> DEFINE after == ScopesAfter(scopes, tok)
  <1>1. tok.n \in Name /\ n \in 1..n /\ DOMAIN scopes = 1..n /\ scopes[n] \in Scope  BY DEF Token
  <1>2. ASSUME NEW v \in {"child", "other"}, after = [scopes EXCEPT ![n][tok.n] = v]
        PROVE  /\ after \in Seq(Scope) /\ Len(after) = n
               /\ \A k \in 1..n : \A name \in Name : k # n \/ name # tok.n => after[k][name] = scopes[k][name]
               /\ Means(after, n, tok.n) <=> v = "child"
    <2> DEFINE upper == [scopes[n] EXCEPT ![tok.n] = v]
    <2>1. upper \in Scope /\ upper[tok.n] = v /\ \A name \in Name : name # tok.n => upper[name] = scopes[n][name]
      BY <1>1 DEF Scope
    <2>2. after = [scopes EXCEPT ![n] = upper]  BY <1>2
    <2> HIDE DEF upper, after, Scope
    <2>3. after \in Seq(Scope) /\ Len(after) = n /\ after[n] = upper /\ \A k \in 1..n : k # n => after[k] = scopes[k]
      BY <1>1, <2>1, <2>2
    <2>4. Means(after, n, tok.n) <=> v = "child"
      <3>1. ASSUME v = "child"  PROVE Means(after, n, tok.n)
        <4>1. after[n][tok.n] = "child" /\ n + 1..n = {}  BY <2>1, <2>3, <3>1
        <4> QED  BY <1>1, <4>1 DEF Means
      <3>2. ASSUME Means(after, n, tok.n)  PROVE v = "child"
        <4>1. PICK i \in 1..n : after[i][tok.n] = "child" /\ \A j \in i + 1..n : after[j][tok.n] = "unknown"
          BY <3>2 DEF Means
        <4>2. after[n][tok.n] = v /\ v # "unknown"  BY <2>1, <2>3
        <4>3. i = n
          <5>1. i # n => n \in i + 1..n  OBVIOUS
          <5> QED  BY <4>1, <4>2, <5>1
        <4> QED  BY <4>1, <4>2, <4>3
      <3> QED  BY <3>1, <3>2
    <2> QED  BY <2>1, <2>3, <2>4
  <1>3. CASE tok.t = "alias"
    <2>1. after = [scopes EXCEPT ![n][tok.n] = "child"]  BY <1>3 DEF ScopesAfter, Opening
    <2> QED  BY <1>2, <1>3, <2>1 DEF NamesOnly
  <1>4. CASE tok.t = "declare"
    <2>1. after = [scopes EXCEPT ![n][tok.n] = "other"]  BY <1>4 DEF ScopesAfter, Opening
    <2> QED  BY <1>2, <1>4, <2>1 DEF NamesOnly
  <1>5. CASE tok.t = "assign" /\ Innermost(scopes, tok.n) = {n}
    <2>1. after = Assigned(scopes, tok.n)  BY <1>5 DEF ScopesAfter, Opening
    <2>2. (CHOOSE k \in Innermost(scopes, tok.n) : TRUE) = n  BY <1>5
    <2>3. after = [scopes EXCEPT ![n][tok.n] = "other"]  BY <1>5, <2>1, <2>2 DEF Assigned
    <2> QED  BY <1>2, <1>5, <2>3 DEF NamesOnly
  <1>6. CASE tok.t = "assign" /\ Innermost(scopes, tok.n) = {}
    <2>1. after = scopes  BY <1>6 DEF ScopesAfter, Opening, Assigned
    <2>2. ~IsChild(scopes, tok.n)  BY <1>6 DEF IsChild
    <2>3. ~Means(scopes, n, tok.n)  BY <1>1, <2>2, ChildIsMeant
    <2> QED  BY <1>6, <2>1, <2>3 DEF NamesOnly
  <1> QED  BY <1>3, <1>4, <1>5, <1>6 DEF Naming

LEMMA ReadNaming ==
  ASSUME NEW p \in PassType, NEW l \in LoopType, NEW m \in MeantType, NEW tok \in Token,
         Reading(p, l, m), ~Meaning(m, p, tok).misled, Runs(p.stack, tok), tok.t \in Naming,
         Ordered(l.bindings, l.depth, l.lines)
  PROVE  Reading(Passed(p, tok), l, Meaning(m, p, tok))
  <1> DEFINE q == Passed(p, tok)
             w == Meaning(m, p, tok)
             D == l.depth
  <1>1. /\ q.stack = Stacked(p.stack, tok) /\ q.call = FirstOf(p.call, Runs(p.stack, tok) /\ tok.t = "call", tok)
        /\ q.evals = (p.evals \/ (Runs(p.stack, tok) /\ tok.t = "eval"))
        /\ q.requires = (p.requires \/ (~Masks(p.open, tok) /\ tok.t = "require_exec"))
        /\ q.depth = IF ~Masks(p.open, tok) THEN BraceDepth(p.depth, tok) ELSE p.depth
    BY PassedIs
  <1>2. /\ w.scopes = ScopesAfter(m.scopes, tok)
        /\ w.danger = (m.danger \/ tok.t \in {"eval", "require_exec"} \/ (tok.t = "call" /\ IsChild(m.scopes, tok.n)))
        /\ ~MisleadingToken(m, p, tok)
    BY MeaningIs
  <1>3. /\ ~m.going /\ p.stack = <<>> /\ (tok.t = "alias" => p.begins = <<>>)
        /\ tok.t = "assign" => Innermost(m.scopes, tok.n) \in {{}, {Len(m.scopes)}}
    BY <1>2, Zenon DEF MisleadingToken
  <1>4. LiteralsFollow(p.open, p.stack, tok) /\ Extra(p.stack) = 0
    <2>1. p.open \in {"code", "quote", "tick"} /\ p.stack \in Seq(LevelType)  BY DEF PassType
    <2>2. ~(tok.t = "tick")  BY DEF Runs, Quotes
    <2> QED  BY <1>3, <2>1, <2>2, LiteralsStep, ExtraIs DEF Reading
  <1>5. ~Masks(p.open, tok) /\ q.stack = <<>>  BY <1>1, <1>3, <1>4 DEF LiteralsFollow
  <1>6. /\ p.first = <<>> /\ p.call = <<>> /\ ~p.evals /\ ~p.requires /\ p.depth = D /\ ~m.danger
        /\ p.begins # <<>> => p.begins[1].t # "alias"
    BY <1>3 DEF Reading, Still
  <1>7. /\ Declared(l, p) = l.bindings
        /\ Declared(l, q) = Declare(l.bindings, Bound(tok.n, D, tok.t = "alias", l.lines + 1))
    BY <1>3, <1>5, <1>6, DeclaredNew
  <1> HIDE DEF q, w
  <1>8. D \in Nat /\ l.lines \in Nat /\ l.bindings \in SUBSET Binding /\ m.scopes \in Seq(Scope) /\ tok.n \in Name
    BY DEF LoopType, MeantType, Token
  <1>9. Len(m.scopes) = D + 1 /\ D + 1 \in Nat \ {0} /\ Agree(l.bindings, m.scopes, D)
    <2>1. Len(m.scopes) = p.depth + 1 + Extra(p.stack) /\ Agree(Declared(l, p), m.scopes, D)  BY DEF Reading
    <2> QED  BY <1>4, <1>6, <1>7, <1>8, <2>1
  <1>10. tok.t \notin Opening \cup {"end", "call", "eval", "require_exec"}  BY DEF Naming, Opening
  <1>11. /\ w.scopes \in Seq(Scope) /\ Len(w.scopes) = D + 1
         /\ \A k \in 1..D + 1 : \A name \in Name : k # D + 1 \/ name # tok.n => w.scopes[k][name] = m.scopes[k][name]
         /\ Means(w.scopes, D + 1, tok.n) <=> tok.t = "alias"
    <2> DEFINE deep == D + 1
    <2>1. deep \in Nat \ {0} /\ Len(m.scopes) = deep  BY <1>9
    <2>2. tok.t = "assign" => Innermost(m.scopes, tok.n) \in {{}, {deep}}  BY <1>3, <2>1
    <2> HIDE DEF deep
    <2>3. NamesOnly(m.scopes, ScopesAfter(m.scopes, tok), deep, tok)  BY <1>8, <2>1, <2>2, NamedIs
    <2>4. NamesOnly(m.scopes, w.scopes, deep, tok)  BY <1>2, <2>3
    <2> QED  BY <2>4 DEF NamesOnly, deep
  <1>12. \A d \in 0..D, name \in Name :
           Stands(Declared(l, q), d, name) <=> IF name = tok.n /\ d = D THEN tok.t = "alias" ELSE Stands(l.bindings, d, name)
    <2> DEFINE is == tok.t = "alias"
               new == Declare(l.bindings, Bound(tok.n, D, is, l.lines + 1))
    <2>1. is \in BOOLEAN  OBVIOUS
    <2> HIDE DEF is
    <2>2. \A d \in 0..D, name \in Name :
            Stands(new, d, name) <=> IF name = tok.n /\ d = D THEN is ELSE Stands(l.bindings, d, name)
      BY <1>8, <2>1, DeclareIs
    <2>3. Declared(l, q) = new  BY <1>7 DEF is
    <2> HIDE DEF new
    <2> QED  BY <2>2, <2>3 DEF is
  <1>13. Agree(Declared(l, q), w.scopes, D)
    <2> SUFFICES ASSUME NEW d \in 0..D, NEW name \in Name
                 PROVE  Stands(Declared(l, q), d, name) <=> Means(w.scopes, d + 1, name)
      BY DEF Agree
    <2>1. CASE name = tok.n /\ d = D  BY <1>11, <1>12, <2>1
    <2>2. CASE ~(name = tok.n /\ d = D)
      <3>1. d + 1 \in Nat /\ \A i \in 1..d + 1 : i \in 1..D + 1 /\ (i # D + 1 \/ name # tok.n)  BY <1>8, <2>2
      <3>2. \A i \in 1..d + 1 : w.scopes[i][name] = m.scopes[i][name]  BY <1>11, <3>1
      <3>3. Means(w.scopes, d + 1, name) <=> Means(m.scopes, d + 1, name)  BY <3>1, <3>2, MeansBelow
      <3>4. d < Len(m.scopes)  BY <1>8, <1>9
      <3>5. Stands(l.bindings, d, name) <=> Means(m.scopes, d + 1, name)  BY <1>9, <3>4 DEF Agree
      <3> QED  BY <1>12, <2>2, <3>3, <3>5
    <2> QED  BY <2>1, <2>2
  <1>14. q.depth = D /\ Extra(q.stack) = 0
    BY <1>1, <1>5, <1>6, <1>10, <1>3, <1>4 DEF BraceDepth
  <1>15. ~w.danger /\ ~Dangerous(Declared(l, q), q)
    <2>1. q.call = <<>> /\ ~q.evals /\ ~q.requires  BY <1>1, <1>6, <1>10 DEF FirstOf
    <2>2. ~w.danger  BY <1>2, <1>6, <1>10
    <2> QED  BY <2>1, <2>2 DEF Dangerous
  <1>16. \A k \in D + 2..Len(w.scopes) : \A name \in Name : w.scopes[k][name] = "unknown"  BY <1>8, <1>11
  <1>17. Len(w.scopes) = q.depth + 1 + Extra(q.stack)  BY <1>8, <1>11, <1>14
  <1> QED  BY <1>13, <1>14, <1>15, <1>16, <1>17, ReadRunning DEF q, w

LEMMA ReadStep ==
  ASSUME NEW p \in PassType, NEW l \in LoopType, NEW m \in MeantType, NEW tok \in Token,
         Reading(p, l, m), ~Meaning(m, p, tok).misled, Ordered(l.bindings, l.depth, l.lines), Len(m.scopes) >= 1
  PROVE  Reading(Passed(p, tok), l, Meaning(m, p, tok))
  <1>1. CASE ~Runs(p.stack, tok)  BY <1>1, ReadLiteral
  <1>2. CASE Runs(p.stack, tok) /\ tok.t \in Opening  BY <1>2, ReadOpening
  <1>3. CASE Runs(p.stack, tok) /\ tok.t = "end"  BY <1>3, ReadEnd
  <1>4. CASE Runs(p.stack, tok) /\ tok.t \in Naming  BY <1>4, ReadNaming
  <1>5. CASE Runs(p.stack, tok) /\ tok.t \notin Opening \cup {"end"} \cup Naming  BY <1>5, ReadOther
  <1> QED  BY <1>1, <1>2, <1>3, <1>4, <1>5

-----------------------------------------------------------------------------
\* Between two lines.
LEMMA LineBegins ==
  ASSUME NEW l \in LoopType, NEW m \in MeantType, Between(l, m), NEW p \in PassType, NEW commented \in BOOLEAN,
         p = [NoPass(l.depth) EXCEPT !.reading = TRUE, !.commented = commented]
  PROVE  Reading(p, l, m)
  <1>1. /\ p.open = "code" /\ p.stack = <<>> /\ p.begins = <<>> /\ p.first = <<>> /\ p.call = <<>>
        /\ ~p.evals /\ ~p.requires /\ p.depth = l.depth
    BY DEF NoPass
  <1>2. Declared(l, p) = l.bindings  BY <1>1 DEF Declared
  <1>3. Literals(p.open, p.stack) /\ Extra(p.stack) = 0  BY <1>1 DEF Literals, Extra
  <1>4. l.depth \in Nat  BY DEF LoopType
  <1>5. Len(m.scopes) = l.depth + 1 /\ m.low = l.depth + 1 /\ ~m.going /\ ~m.danger /\ Agree(l.bindings, m.scopes, l.depth)
    BY DEF Between
  <1>6. Still(p, l, m)  BY <1>1, <1>5 DEF Still
  <1>7. ~Dangerous(l.bindings, p)  BY <1>1 DEF Dangerous
  <1>8. Len(m.scopes) = p.depth + 1 + Extra(p.stack)  BY <1>1, <1>3, <1>4, <1>5
  <1>9. \A k \in l.depth + 2..Len(m.scopes) : \A name \in Name : m.scopes[k][name] = "unknown"  BY <1>4, <1>5
  <1> QED  BY <1>1, <1>2, <1>3, <1>5, <1>6, <1>7, <1>8, <1>9 DEF Reading

LEMMA LineEnds ==
  ASSUME NEW p \in PassType, NEW l \in LoopType, NEW m \in MeantType, NEW w \in MeantType,
         Reading(p, l, m), p.stack = <<>>, Ordered(l.bindings, l.depth, l.lines),
         w.scopes = m.scopes, w.low = Len(m.scopes), ~w.going, ~w.danger, w.dangerous = m.danger
  PROVE  /\ Between(ScanLine(l, p), w)
         /\ ScanLine(l, p).told <=> w.dangerous
  <1> DEFINE B == Declared(l, p)
             kept == {b \in B : b.depth <= p.depth}
             k == ScanLine(l, p)
  <1>1. l.depth \in Nat /\ p.depth \in Nat /\ m.scopes \in Seq(Scope)  BY DEF LoopType, PassType, MeantType
  <1>2. Len(m.scopes) = p.depth + 1
    <2>1. Extra(p.stack) = 0  BY DEF Extra
    <2>2. Len(m.scopes) = p.depth + 1 + Extra(p.stack)  BY DEF Reading
    <2> QED  BY <1>1, <2>1, <2>2
  <1>3. Agree(B, m.scopes, l.depth) /\ (m.danger <=> Dangerous(B, p)) /\ (p.commented => p.depth = l.depth /\ ~m.danger)
        /\ \A j \in l.depth + 2..Len(m.scopes) : \A name \in Name : m.scopes[j][name] = "unknown"
    BY DEF Reading
  <1>4. B \in SUBSET Binding /\ Ordered(B, l.depth, l.lines + 1)  BY DeclaredIs
  <1> HIDE DEF B
  <1>5. CASE p.commented
    <2>1. k.bindings = B /\ k.depth = l.depth /\ k.told = FALSE  BY <1>5 DEF ScanLine, LoopType, B
    <2> HIDE DEF k
    <2>2. Between(k, w)  BY <1>1, <1>2, <1>3, <1>5, <2>1 DEF Between
    <2> QED  BY <1>3, <1>5, <2>1, <2>2 DEF k
  <1>6. CASE ~p.commented
    <2>1. k.bindings = kept /\ k.depth = p.depth /\ k.told = Dangerous(B, p)  BY <1>6 DEF ScanLine, LoopType, B
    <2> HIDE DEF k
    <2>2. \A b \in B : b.depth \in Nat /\ b.depth <= l.depth  BY <1>4 DEF Binding, Ordered
    <2>3. ASSUME NEW d \in 0..p.depth, NEW name \in Name  PROVE Stands(kept, d, name) <=> Means(m.scopes, d + 1, name)
      <3>1. Stands(kept, d, name) <=> Stands(B, d, name)
        <4>1. \A b : b \in kept /\ b.depth <= d <=> b \in B /\ b.depth <= d  BY <1>1, <2>2
        <4> HIDE DEF kept
        <4> QED  BY <4>1, Zenon DEF Stands
      <3>2. CASE d <= l.depth
        <4>1. d \in 0..l.depth /\ d < Len(m.scopes)  BY <1>1, <1>2, <3>2
        <4> QED  BY <1>3, <3>1, <4>1 DEF Agree
      <3>3. CASE d > l.depth
        <4>1. l.depth \in 0..l.depth /\ l.depth < Len(m.scopes)  BY <1>1, <1>2, <3>3
        <4>2. Stands(B, l.depth, name) <=> Means(m.scopes, l.depth + 1, name)  BY <1>3, <4>1 DEF Agree
        <4>3. Stands(B, d, name) <=> Stands(B, l.depth, name)
          <5>1. \A b \in B : b.depth <= d /\ b.depth <= l.depth  BY <1>1, <2>2, <3>3
          <5> QED  BY <5>1, Zenon DEF Stands
        <4>4. l.depth + 1 \in Nat /\ d + 1 \in Nat /\ l.depth + 1 <= d + 1
              /\ \A i \in (l.depth + 1) + 1..d + 1 : i \in l.depth + 2..Len(m.scopes)
          BY <1>1, <1>2, <3>3
        <4>5. Means(m.scopes, d + 1, name) <=> Means(m.scopes, l.depth + 1, name)
          BY <1>3, <4>4, MeansAbove
        <4> QED  BY <3>1, <4>2, <4>3, <4>5
      <3> QED  BY <1>1, <3>2, <3>3
    <2> HIDE DEF kept
    <2>4. Agree(kept, m.scopes, p.depth)  BY <2>3 DEF Agree
    <2>5. Between(k, w)  BY <1>2, <2>1, <2>4 DEF Between
    <2> QED  BY <1>3, <2>1, <2>5 DEF k
  <1> QED  BY <1>5, <1>6

LEMMA CallStart == ScanInit => CallInv
  <1> SUFFICES ASSUME CallInit  PROVE CallInv  BY DEF ScanInit
  <1> DEFINE first == Bound("child_process", 0, TRUE, 0)
             global == [NewScope EXCEPT !["child_process"] = "child"]
  <1>1. "child_process" \in Name  BY ScriptAssumption
  <1>2. first \in Binding /\ first.name = "child_process" /\ first.depth = 0 /\ first.is /\ first.at = 0
    BY <1>1 DEF Bound, Binding
  <1>3. /\ global \in Scope /\ global["child_process"] = "child"
        /\ \A name \in Name : name # "child_process" => global[name] = "unknown"
    BY <1>1, ScopeType DEF Scope
  <1>4. /\ line = <<>> /\ pass = NoPass(0)
        /\ loop = [in |-> FALSE, depth |-> 0, bindings |-> {first}, lines |-> 0, told |-> FALSE]
        /\ meant = [scopes |-> <<global>>, low |-> 1, going |-> FALSE, danger |-> FALSE, misled |-> FALSE, dangerous |-> FALSE]
    BY DEF CallInit
  <1> HIDE DEF first, global
  <1>5. CallType
    <2>1. line \in Seq(Token) /\ ~pass.reading  BY <1>4 DEF NoPass
    <2>2. pass \in PassType  BY <1>4 DEF NoPass, PassType
    <2>3. loop \in LoopType  BY <1>2, <1>4 DEF LoopType
    <2>4. <<global>> \in Seq(Scope) /\ Len(<<global>>) = 1
      <3> HIDE DEF Scope
      <3> QED  BY <1>3
    <2>5. meant \in MeantType /\ meant.scopes = <<global>>  BY <1>4, <2>4 DEF MeantType
    <2> QED  BY <1>4, <2>1, <2>2, <2>3, <2>4, <2>5 DEF CallType
  <1>6. Ordered(loop.bindings, loop.depth, loop.lines)
    <2>1. loop.bindings = {first} /\ loop.depth = 0 /\ loop.lines = 0  BY <1>4
    <2> QED  BY <1>2, <2>1 DEF Ordered
  <1>7. Agree({first}, <<global>>, 0)
    <2> SUFFICES ASSUME NEW name \in Name  PROVE Stands({first}, 0, name) <=> Means(<<global>>, 0 + 1, name)
      BY DEF Agree
    <2>1. Stands({first}, 0, name) <=> name = "child_process"  BY <1>2 DEF Stands
    <2>2. Means(<<global>>, 1, name) <=> global[name] = "child"
      <3>1. 1..1 = {1} /\ 1 + 1..1 = {} /\ <<global>>[1] = global  OBVIOUS
      <3> QED  BY <3>1 DEF Means
    <2> QED  BY <1>3, <2>1, <2>2
  <1>8. ~pass.reading /\ Between(loop, meant)
    <2>1. /\ loop.bindings = {first} /\ loop.depth = 0 /\ meant.scopes = <<global>> /\ meant.low = 1 /\ ~meant.going /\ ~meant.danger
          /\ Len(<<global>>) = 1 /\ ~pass.reading
      BY <1>4 DEF NoPass
    <2> QED  BY <1>7, <2>1 DEF Between
  <1>9. CallsFollowScopes  BY <1>4 DEF CallsFollowScopes
  <1> QED  BY <1>5, <1>6, <1>8, <1>9 DEF CallInv

LEMMA BeginLineKeeps ==
  ASSUME CallInv, BeginLine  PROVE CallInv'
  <1>1. /\ ~pass.reading /\ line' \in ScriptLine /\ loop' = loop /\ meant' = meant
        /\ pass' = [NoPass(loop.depth) EXCEPT !.reading = TRUE, !.commented = IsCommentOnly(line')]
    BY DEF BeginLine
  <1>2. line' \in Seq(Token)  BY <1>1, ScriptAssumption
  <1>3. IsCommentOnly(line') \in BOOLEAN  BY DEF IsCommentOnly
  <1>4. loop \in LoopType /\ meant \in MeantType /\ Len(meant.scopes) >= 1  BY DEF CallInv, CallType
  <1>5. pass' \in PassType /\ pass'.reading
    <2> DEFINE commented == IsCommentOnly(line')
               none == NoPass(loop.depth)
    <2>1. loop.depth \in Nat /\ commented \in BOOLEAN  BY <1>3, <1>4 DEF LoopType
    <2>2. pass' = [none EXCEPT !.reading = TRUE, !.commented = commented]  BY <1>1
    <2>3. none \in PassType  BY <2>1 DEF NoPass, PassType
    <2> HIDE DEF commented, none
    <2> QED  BY <2>1, <2>2, <2>3 DEF PassType
  <1>6. ASSUME ~meant.misled  PROVE Reading(pass', loop, meant)
    <2>1. Between(loop, meant)  BY <1>1, <1>6 DEF CallInv
    <2> QED  BY <1>1, <1>3, <1>4, <1>5, <2>1, LineBegins
  <1>7. CallType'  BY <1>1, <1>2, <1>4, <1>5 DEF CallType
  <1>8. CallsFollowScopes' /\ Ordered(loop.bindings, loop.depth, loop.lines)  BY <1>1 DEF CallInv, CallsFollowScopes
  <1> QED  BY <1>1, <1>5, <1>6, <1>7, <1>8 DEF CallInv

LEMMA TokensOf ==
  ASSUME line # <<>>, CallType  PROVE Head(line) \in Token /\ Tail(line) \in Seq(Token) /\ pass.reading
  BY DEF CallType

LEMMA DropTokenKeeps ==
  ASSUME CallInv, DropToken  PROVE CallInv'
  <1>1. /\ line # <<>> /\ line' = Tail(line) /\ meant' = meant
        /\ loop' = [loop EXCEPT !.in = IF pass.ended THEN @ ELSE IF @ THEN Head(line).t # "*/" ELSE Head(line).t = "/*"]
        /\ pass' = [pass EXCEPT !.ended = @ \/ (~loop.in /\ Head(line).t = "//")]
    BY DEF DropToken
  <1>2. CallType /\ pass \in PassType /\ loop \in LoopType /\ line' \in Seq(Token) /\ pass.reading
    BY <1>1, TokensOf DEF CallInv, CallType
  <1>3. /\ loop' \in LoopType /\ loop'.depth = loop.depth /\ loop'.bindings = loop.bindings /\ loop'.lines = loop.lines /\ loop'.told = loop.told
    BY <1>1, <1>2 DEF LoopType
  <1>4. /\ pass' \in PassType /\ pass'.reading = pass.reading /\ pass'.commented = pass.commented /\ pass'.open = pass.open
        /\ pass'.stack = pass.stack /\ pass'.begins = pass.begins /\ pass'.first = pass.first /\ pass'.call = pass.call
        /\ pass'.evals = pass.evals /\ pass'.requires = pass.requires /\ pass'.depth = pass.depth
    BY <1>1, <1>2 DEF PassType
  <1>5. CallType'  BY <1>1, <1>2, <1>3, <1>4 DEF CallType
  <1>6. ASSUME ~meant.misled  PROVE Reading(pass', loop', meant)
    <2>1. Reading(pass, loop, meant)  BY <1>2, <1>6 DEF CallInv
    <2>2. Declared(loop', pass') = Declared(loop, pass)  BY <1>3, <1>4 DEF Declared
    <2>3. Dangerous(Declared(loop, pass), pass') <=> Dangerous(Declared(loop, pass), pass)  BY <1>4 DEF Dangerous
    <2>4. Still(pass, loop, meant) => Still(pass', loop', meant)  BY <1>3, <1>4 DEF Still
    <2> QED  BY <1>3, <1>4, <2>1, <2>2, <2>3, <2>4 DEF Reading
  <1>7. CallsFollowScopes'  BY <1>1, <1>3 DEF CallInv, CallsFollowScopes
  <1>8. Ordered(loop.bindings, loop.depth, loop.lines)'  BY <1>3 DEF CallInv
  <1> QED  BY <1>1, <1>2, <1>4, <1>5, <1>6, <1>7, <1>8 DEF CallInv

LEMMA MeaningType ==
  ASSUME NEW p, NEW m \in MeantType, NEW tok \in Token, Len(m.scopes) >= 1
  PROVE  Meaning(m, p, tok) \in MeantType /\ Len(Meaning(m, p, tok).scopes) >= 1
  <1>1. m.scopes \in Seq(Scope)  BY DEF MeantType
  <1>2. CASE Runs(p.stack, tok)
    <2> DEFINE s == ScopesAfter(m.scopes, tok)
               d == m.danger \/ tok.t \in {"eval", "require_exec"} \/ (tok.t = "call" /\ IsChild(m.scopes, tok.n))
               f == m.misled \/ MisleadingToken(m, p, tok)
    <2>1. s \in Seq(Scope) /\ Len(s) >= 1  BY <1>1, ScopesType
    <2>2. d \in BOOLEAN /\ f \in BOOLEAN  OBVIOUS
    <2>3. Meaning(m, p, tok) = [m EXCEPT !.scopes = s, !.going = TRUE, !.danger = d, !.misled = f]
      BY <1>2 DEF Meaning
    <2> HIDE DEF s, d, f
    <2> QED  BY <2>1, <2>2, <2>3 DEF MeantType
  <1>3. CASE ~Runs(p.stack, tok)
    BY <1>3 DEF Meaning, MeantType
  <1> QED  BY <1>2, <1>3

LEMMA ReadTokenKeeps ==
  ASSUME CallInv, ReadToken  PROVE CallInv'
  <1> DEFINE tok == Head(line)
  <1>1. line # <<>> /\ line' = Tail(line) /\ pass' = Passed(pass, tok) /\ meant' = Meaning(meant, pass, tok) /\ loop' = loop
    BY DEF ReadToken
  <1>2. /\ tok \in Token /\ line' \in Seq(Token) /\ pass.reading
        /\ pass \in PassType /\ loop \in LoopType /\ meant \in MeantType /\ Len(meant.scopes) >= 1
    BY <1>1, TokensOf DEF CallInv, CallType
  <1> HIDE DEF tok
  <1>3. pass' \in PassType /\ pass'.reading  BY <1>1, <1>2, PassedIs
  <1>4. meant' \in MeantType /\ Len(meant'.scopes) >= 1  BY <1>1, <1>2, MeaningType
  <1>5. meant'.dangerous = meant.dangerous /\ (~meant'.misled => ~meant.misled)  BY <1>1, <1>2, MeaningIs
  <1>6. CallType'  BY <1>1, <1>2, <1>3, <1>4 DEF CallType
  <1>7. ~meant'.misled => Reading(pass', loop', meant')
    <2>1. ~meant'.misled => Reading(pass, loop, meant)  BY <1>2, <1>5 DEF CallInv
    <2>2. Ordered(loop.bindings, loop.depth, loop.lines)  BY DEF CallInv
    <2> QED  BY <1>1, <1>2, <2>1, <2>2, ReadStep
  <1>8. CallsFollowScopes'  BY <1>1, <1>5 DEF CallInv, CallsFollowScopes
  <1>9. Ordered(loop.bindings, loop.depth, loop.lines)'  BY <1>1 DEF CallInv
  <1> QED  BY <1>3, <1>6, <1>7, <1>8, <1>9 DEF CallInv

LEMMA EndLineKeeps ==
  ASSUME CallInv, EndLine  PROVE CallInv'
  <1> DEFINE B == Declared(loop, pass)
  <1>1. /\ pass.reading /\ line = <<>> /\ line' = line /\ pass' = NoPass(0) /\ loop' = ScanLine(loop, pass)
        /\ meant' = [meant EXCEPT !.misled = @ \/ pass.stack # <<>>, !.dangerous = meant.danger, !.danger = FALSE,
                                  !.low = Len(meant.scopes), !.going = FALSE]
    BY DEF EndLine
  <1>2. /\ pass \in PassType /\ loop \in LoopType /\ meant \in MeantType /\ Len(meant.scopes) >= 1
        /\ Ordered(loop.bindings, loop.depth, loop.lines) /\ line \in Seq(Token)
    BY DEF CallInv, CallType
  <1>3. /\ meant' \in MeantType /\ meant'.scopes = meant.scopes /\ meant'.low = Len(meant.scopes) /\ ~meant'.going /\ ~meant'.danger
        /\ meant'.dangerous = meant.danger /\ (~meant'.misled => ~meant.misled /\ pass.stack = <<>>)
    <2>1. Len(meant.scopes) \in Nat /\ (meant.misled \/ pass.stack # <<>>) \in BOOLEAN
      <3>1. meant.scopes \in Seq(Scope)  BY <1>2 DEF MeantType
      <3> QED  BY <3>1
    <2> QED  BY <1>1, <1>2, <2>1 DEF MeantType
  <1>4. pass' \in PassType /\ ~pass'.reading  BY <1>1 DEF NoPass, PassType
  <1>5. B \in SUBSET Binding /\ Ordered(B, loop.depth, loop.lines + 1)  BY <1>2, DeclaredIs
  <1>6. loop.depth \in Nat /\ pass.depth \in Nat /\ loop.lines + 1 \in Nat  BY <1>2 DEF LoopType, PassType
  <1> HIDE DEF B
  <1>7. Dangerous(B, pass) \in BOOLEAN
    BY <1>2 DEF Dangerous, PassType, StandsForChildProcess
  <1>8. loop' \in LoopType /\ Ordered(loop'.bindings, loop'.depth, loop'.lines)
    <2>1. CASE pass.commented
      <3>1. loop' = [loop EXCEPT !.bindings = B, !.lines = loop.lines + 1, !.told = FALSE]  BY <1>1, <2>1 DEF ScanLine, B
      <3>2. loop' \in LoopType /\ loop'.bindings = B /\ loop'.depth = loop.depth /\ loop'.lines = loop.lines + 1
        BY <1>2, <1>5, <1>6, <3>1 DEF LoopType
      <3> QED  BY <1>5, <3>2
    <2>2. CASE ~pass.commented
      <3> DEFINE kept == {b \in B : b.depth <= pass.depth}
      <3>1. loop' = [loop EXCEPT !.bindings = kept, !.lines = loop.lines + 1, !.depth = pass.depth, !.told = Dangerous(B, pass)]
        BY <1>1, <2>2 DEF ScanLine, B
      <3>2. kept \in SUBSET Binding /\ Ordered(kept, pass.depth, loop.lines + 1)  BY <1>5 DEF Ordered
      <3> HIDE DEF kept
      <3>3. loop' \in LoopType /\ loop'.bindings = kept /\ loop'.depth = pass.depth /\ loop'.lines = loop.lines + 1
        BY <1>2, <1>6, <1>7, <3>1, <3>2 DEF LoopType
      <3> QED  BY <3>2, <3>3
    <2> QED  BY <2>1, <2>2
  <1>9. CallType'  BY <1>1, <1>2, <1>3, <1>4, <1>8 DEF CallType
  <1>10. ASSUME ~meant'.misled  PROVE Between(loop', meant') /\ (loop'.told <=> meant'.dangerous)
    <2>1. Reading(pass, loop, meant) /\ pass.stack = <<>>  BY <1>1, <1>3, <1>10 DEF CallInv
    <2> QED  BY <1>1, <1>2, <1>3, <2>1, LineEnds
  <1>11. CallsFollowScopes'  BY <1>10 DEF CallsFollowScopes
  <1> QED  BY <1>4, <1>8, <1>9, <1>10, <1>11 DEF CallInv

LEMMA CallStep == CallInv /\ [ScanNext]_scanVars => CallInv'
  <1> SUFFICES ASSUME CallInv, [ScanNext]_scanVars  PROVE CallInv'  OBVIOUS
  <1>1. CASE CallNext
    BY <1>1, BeginLineKeeps, DropTokenKeeps, ReadTokenKeeps, EndLineKeeps DEF CallNext
  <1>2. CASE UNCHANGED callVars
    BY <1>2 DEF callVars, CallInv, CallType, CallsFollowScopes
  <1> QED  BY <1>1, <1>2 DEF ScanNext, scanVars

\* Whatever the lines are, as long as nothing in them misleads the scanner: the
\* calls reported are those of names that stand for child_process where they are.
THEOREM CallsAreFound == ScanSpec => []CallsFollowScopes
  <1>1. CallInv => CallsFollowScopes  BY DEF CallInv
  <1> QED  BY <1>1, CallStart, CallStep, PTL DEF ScanSpec

-----------------------------------------------------------------------------
(* The errors caught and forgotten *)

CodeToken == [t : STRING, line : Nat]
BlockType == [what : {"none", "try", "tried", "handler"}, open : Nat, line : Nat, silent : BOOLEAN]
BlocksType == [stack : Seq(BlockType), prev : {"none", "try", "tried", "handler"}, line : Nat, found : SUBSET [at : Nat, line : Nat]]

\* How many blocks are open behind a token, stray ends counted.
Held(tokens, k) == Count(tokens, "begin", 1, k) - Count(tokens, "end", 1, k)

-----------------------------------------------------------------------------
\* Counting the tokens of a kind.
LEMMA CountType ==
  ASSUME NEW tokens, NEW t, NEW i \in Nat, NEW j \in Nat
  PROVE  IsFiniteSet({k \in i..j : tokens[k].t = t}) /\ Count(tokens, t, i, j) \in Nat
  <1>1. IsFiniteSet(i..j)  BY FS_Interval
  <1>2. IsFiniteSet({k \in i..j : tokens[k].t = t})  BY <1>1, FS_Subset
  <1> QED  BY <1>2, FS_CardinalityType DEF Count

LEMMA CountNext ==
  ASSUME NEW tokens, NEW t, NEW n \in Nat
  PROVE  /\ Count(tokens, t, 1, 0) = 0
         /\ Count(tokens, t, 1, n + 1) = Count(tokens, t, 1, n) + IF tokens[n + 1].t = t THEN 1 ELSE 0
  <1> DEFINE S == {k \in 1..n : tokens[k].t = t}
             T == {k \in 1..n + 1 : tokens[k].t = t}
  <1>1. {k \in 1..0 : tokens[k].t = t} = {}  OBVIOUS
  <1>2. Count(tokens, t, 1, 0) = 0  BY <1>1, FS_EmptySet DEF Count
  <1>3. IsFiniteSet(S) /\ Cardinality(S) \in Nat  BY CountType, FS_CardinalityType
  <1>4. n + 1 \notin S  OBVIOUS
  <1>5. CASE tokens[n + 1].t = t
    <2>1. T = S \cup {n + 1}  BY <1>5
    <2>2. Cardinality(T) = Cardinality(S) + 1  BY <1>3, <1>4, <2>1, FS_AddElement
    <2> QED  BY <1>2, <1>5, <2>2 DEF Count
  <1>6. CASE tokens[n + 1].t # t
    <2>1. T = S  BY <1>6
    <2>2. Cardinality(T) = Cardinality(S) + 0
      <3> HIDE DEF S, T
      <3> QED  BY <1>3, <2>1
    <2> QED  BY <1>2, <1>6, <2>2 DEF Count
  <1> QED  BY <1>5, <1>6

LEMMA CountSplit ==
  ASSUME NEW tokens, NEW t, NEW i \in Nat, NEW j \in Nat, 1 <= i, i <= j + 1
  PROVE  Count(tokens, t, 1, j) = Count(tokens, t, 1, i - 1) + Count(tokens, t, i, j)
  <1> DEFINE A == {k \in 1..i - 1 : tokens[k].t = t}
             B == {k \in i..j : tokens[k].t = t}
             C == {k \in 1..j : tokens[k].t = t}
  <1>1. C = A \cup B /\ A \cap B = {}  OBVIOUS
  <1>2. i - 1 \in Nat /\ 1 \in Nat  OBVIOUS
  <1>3. IsFiniteSet(A) /\ IsFiniteSet(B)
    <2>1. IsFiniteSet(1..i - 1) /\ IsFiniteSet(i..j)  BY <1>2, FS_Interval
    <2>2. A \in SUBSET (1..i - 1) /\ B \in SUBSET (i..j)  OBVIOUS
    <2> HIDE DEF A, B
    <2> QED  BY <2>1, <2>2, FS_Subset
  <1>4. Cardinality(A) \in Nat /\ Cardinality(B) \in Nat  BY <1>3, FS_CardinalityType
  <1> HIDE DEF A, B, C
  <1>5. Cardinality(A \cup B) = Cardinality(A) + Cardinality(B) - Cardinality(A \cap B)  BY <1>3, FS_Union
  <1>6. Cardinality(A \cap B) = 0  BY <1>1, FS_EmptySet
  <1>7. Cardinality(C) = Cardinality(A) + Cardinality(B)  BY <1>1, <1>4, <1>5, <1>6
  <1> QED  BY <1>7 DEF A, B, C, Count

LEMMA CountSame ==
  ASSUME NEW tokens, NEW others, NEW t, NEW n \in Nat, \A k \in 1..n : others[k] = tokens[k]
  PROVE  Count(others, t, 1, n) = Count(tokens, t, 1, n)
  <1>1. {k \in 1..n : others[k].t = t} = {k \in 1..n : tokens[k].t = t}  OBVIOUS
  <1> QED  BY <1>1 DEF Count

LEMMA HeldIs ==
  ASSUME NEW tokens, NEW n \in Nat
  PROVE  /\ Held(tokens, n) \in Int /\ Held(tokens, 0) = 0
         /\ Held(tokens, n + 1) = Held(tokens, n) + CASE tokens[n + 1].t = "begin" -> 1
                                                     [] tokens[n + 1].t = "end" -> -1
                                                     [] OTHER -> 0
  <1> DEFINE b(k) == Count(tokens, "begin", 1, k)
             e(k) == Count(tokens, "end", 1, k)
  <1>1. b(n) \in Nat /\ e(n) \in Nat  BY CountType
  <1>2. b(0) = 0 /\ e(0) = 0  BY CountNext
  <1>3. /\ b(n + 1) = b(n) + IF tokens[n + 1].t = "begin" THEN 1 ELSE 0
        /\ e(n + 1) = e(n) + IF tokens[n + 1].t = "end" THEN 1 ELSE 0
    BY CountNext
  <1>4. Held(tokens, n) = b(n) - e(n) /\ Held(tokens, 0) = b(0) - e(0) /\ Held(tokens, n + 1) = b(n + 1) - e(n + 1)
    BY DEF Held
  <1> HIDE DEF b, e
  <1> QED  BY <1>1, <1>2, <1>3, <1>4

\* What is balanced holds as much behind it as before.
LEMMA BalancedIs ==
  ASSUME NEW tokens, NEW i \in Nat, NEW j \in Nat, 1 <= i, i <= j
  PROVE  Balanced(tokens, i, j) <=> Held(tokens, j) = Held(tokens, i - 1)
  <1>1. i - 1 \in Nat /\ 1 \in Nat  OBVIOUS
  <1>2. ASSUME NEW t
        PROVE  /\ Count(tokens, t, 1, j) = Count(tokens, t, 1, i - 1) + Count(tokens, t, i, j)
               /\ Count(tokens, t, 1, i - 1) \in Nat /\ Count(tokens, t, i, j) \in Nat
    <2>1. i <= j + 1  OBVIOUS
    <2>2. Count(tokens, t, 1, j) = Count(tokens, t, 1, i - 1) + Count(tokens, t, i, j)  BY <2>1, CountSplit
    <2>3. \A a, b \in Nat : Count(tokens, t, a, b) \in Nat  BY CountType
    <2> QED  BY <1>1, <2>2, <2>3
  <1>3. Held(tokens, j) = Count(tokens, "begin", 1, j) - Count(tokens, "end", 1, j)  BY DEF Held
  <1>4. Held(tokens, i - 1) = Count(tokens, "begin", 1, i - 1) - Count(tokens, "end", 1, i - 1)  BY DEF Held
  <1>5. Balanced(tokens, i, j) <=> Count(tokens, "begin", i, j) = Count(tokens, "end", i, j)  BY DEF Balanced
  <1> DEFINE b1 == Count(tokens, "begin", 1, i - 1)
             b2 == Count(tokens, "begin", i, j)
             e1 == Count(tokens, "end", 1, i - 1)
             e2 == Count(tokens, "end", i, j)
  <1>6. b1 \in Nat /\ b2 \in Nat /\ e1 \in Nat /\ e2 \in Nat  BY <1>2
  <1>7. Held(tokens, j) = (b1 + b2) - (e1 + e2) /\ Held(tokens, i - 1) = b1 - e1  BY <1>2, <1>3, <1>4
  <1> HIDE DEF b1, b2, e1, e2
  <1>8. Held(tokens, j) = Held(tokens, i - 1) <=> b2 = e2  BY <1>6, <1>7
  <1> QED  BY <1>5, <1>8 DEF b2, e2

-----------------------------------------------------------------------------
\* The delimiters, by what is held before and behind them.
LEMMA ClosesAt ==
  ASSUME NEW tokens, NEW n \in Nat, Len(tokens) = n, NEW open \in 1..n, NEW k
  PROVE  k \in MatchingClose(tokens, open) <=> k \in open + 1..n /\ Held(tokens, k) = Held(tokens, open - 1)
  <1>1. ASSUME k \in open + 1..n  PROVE Balanced(tokens, open, k) <=> Held(tokens, k) = Held(tokens, open - 1)
    <2>1. open \in Nat /\ k \in Nat /\ 1 <= open /\ open <= k  BY <1>1
    <2> QED  BY <2>1, BalancedIs
  <1> QED  BY <1>1 DEF MatchingClose

LEMMA OpensAt ==
  ASSUME NEW tokens, NEW close \in Nat, NEW k
  PROVE  k \in MatchingOpen(tokens, close) <=> k \in 1..close - 1 /\ Held(tokens, close) = Held(tokens, k - 1)
  <1>1. ASSUME k \in 1..close - 1  PROVE Balanced(tokens, k, close) <=> Held(tokens, close) = Held(tokens, k - 1)
    <2>1. k \in Nat /\ 1 <= k /\ k <= close  BY <1>1
    <2> QED  BY <2>1, BalancedIs
  <1> QED  BY <1>1 DEF MatchingOpen

\* The blocks on the stack are open in the text, and nothing else is.
OpenBlocks(c, stack) ==
  /\ \A x \in 1..Len(stack) :
       /\ stack[x].open \in 1..Len(c) /\ c[stack[x].open].t = "begin"
       /\ Held(c, stack[x].open) + Len(stack) = Held(c, Len(c)) + x
       /\ \A k \in stack[x].open..Len(c) : Held(c, k) >= Held(c, stack[x].open)
       /\ \A y \in x + 1..Len(stack) : stack[x].open < stack[y].open
  /\ \A k \in 0..Len(c) : Held(c, k) + Len(stack) >= Held(c, Len(c))
\* Every other block has ended, and no open one lies between its braces.
EndsAt(c, k, q) == q \in MatchingClose(c, k) /\ \A j \in MatchingClose(c, k) : q <= j
ClosedBlocks(c, stack) ==
  \A k \in 1..Len(c) : c[k].t = "begin" =>
    \/ \E x \in 1..Len(stack) : stack[x].open = k
    \/ \E q \in k + 1..Len(c) : EndsAt(c, k, q) /\ c[q].t = "end" /\ \A x \in 1..Len(stack) : q < stack[x].open \/ k > stack[x].open
\* What is told of a block, and of the token before the next one, is so in the text.
HandlerAt(c, k) == k > 0 /\ c[k].t = "catch" /\ IsTryBodyBefore(c, k)
TellsBlock(c, block) ==
  /\ block.silent <=> \A j \in block.open + 1..Len(c) : c[j].t \in IgnoredInScript
  /\ block.what = "handler" <=> HandlerAt(c, block.open - 1)
  /\ block.what = "handler" => block.line = c[block.open - 1].line
  /\ block.what = "try" <=> block.open > 1 /\ c[block.open - 1].t = "try"
TellsPrev(c, b) ==
  /\ b.prev = "try" <=> Len(c) > 0 /\ c[Len(c)].t = "try"
  /\ b.prev = "tried" <=> IsTryBodyBefore(c, Len(c) + 1)
  /\ b.prev = "handler" <=> HandlerAt(c, Len(c))
  /\ b.prev = "handler" => b.line = c[Len(c)].line
Found(c) == {[at |-> k + 1, line |-> c[k].line] : k \in SilentHandlers(c)}
\* The stack of blocks and the text agree.
BlocksInv(c, b) ==
  /\ c \in Seq(CodeToken) /\ b \in BlocksType
  /\ OpenBlocks(c, b.stack) /\ ClosedBlocks(c, b.stack)
  /\ \A x \in 1..Len(b.stack) : TellsBlock(c, b.stack[x])
  /\ TellsPrev(c, b)
  /\ b.found = Found(c)

-----------------------------------------------------------------------------
\* One more token.
Longer(c, d, n, tok) ==
  /\ d \in Seq(CodeToken) /\ Len(d) = n + 1 /\ d[n + 1] = tok
  /\ \A k \in 1..n : d[k] = c[k]
  /\ \A k \in 0..n : Held(d, k) = Held(c, k) /\ Held(c, k) \in Int
  /\ Held(d, n + 1) = Held(c, n) + CASE tok.t = "begin" -> 1 [] tok.t = "end" -> -1 [] OTHER -> 0

LEMMA AppendIs ==
  ASSUME NEW c \in Seq(CodeToken), NEW n \in Nat, Len(c) = n, NEW tok \in CodeToken
  PROVE  Longer(c, Append(c, tok), n, tok)
  <1> DEFINE d == Append(c, tok)
  <1>1. d \in Seq(CodeToken) /\ Len(d) = n + 1 /\ d[n + 1] = tok /\ \A k \in 1..n : d[k] = c[k]  OBVIOUS
  <1> HIDE DEF d
  <1>2. ASSUME NEW k \in 0..n  PROVE Held(d, k) = Held(c, k) /\ Held(c, k) \in Int
    <2>1. k \in Nat /\ \A j \in 1..k : d[j] = c[j]  BY <1>1
    <2>2. Count(d, "begin", 1, k) = Count(c, "begin", 1, k) /\ Count(d, "end", 1, k) = Count(c, "end", 1, k)
      BY <2>1, CountSame
    <2>3. Held(c, k) \in Int  BY <2>1, HeldIs
    <2> QED  BY <2>2, <2>3 DEF Held
  <1>3. Held(d, n + 1) = Held(d, n) + CASE tok.t = "begin" -> 1 [] tok.t = "end" -> -1 [] OTHER -> 0
    BY <1>1, HeldIs
  <1>4. Held(d, n) = Held(c, n)  BY <1>2
  <1>5. Longer(c, d, n, tok)  BY <1>1, <1>2, <1>3, <1>4 DEF Longer
  <1> QED  BY <1>5 DEF d

\* What was before a token stays.
LEMMA TrySame ==
  ASSUME NEW c \in Seq(CodeToken), NEW n \in Nat, Len(c) = n, NEW tok \in CodeToken, NEW d, Longer(c, d, n, tok), NEW k \in 0..n + 1
  PROVE  IsTryBodyBefore(d, k) <=> IsTryBodyBefore(c, k)
  <1>1. CASE k > 1
    <2>1. k - 1 \in 1..n /\ d[k - 1] = c[k - 1]  BY <1>1 DEF Longer
    <2>2. ASSUME NEW j  PROVE j \in MatchingOpen(d, k - 1) <=> j \in MatchingOpen(c, k - 1)
      <3>1. j \in 1..(k - 1) - 1 => j - 1 \in 0..n /\ k - 1 \in 0..n  BY <2>1
      <3>2. j \in 1..(k - 1) - 1 => Held(d, j - 1) = Held(c, j - 1) /\ Held(d, k - 1) = Held(c, k - 1)  BY <3>1 DEF Longer
      <3>3. k - 1 \in Nat  BY <2>1
      <3> QED  BY <3>2, <3>3, OpensAt
    <2>3. MatchingOpen(d, k - 1) = MatchingOpen(c, k - 1)  BY <2>2
    <2>4. ASSUME NEW j \in MatchingOpen(c, k - 1), j > 1  PROVE d[j - 1] = c[j - 1]
      <3>1. j \in 1..(k - 1) - 1  BY <2>1, <2>4 DEF MatchingOpen
      <3> QED  BY <2>1, <2>4, <3>1 DEF Longer
    <2> QED  BY <1>1, <2>1, <2>3, <2>4 DEF IsTryBodyBefore
  <1>2. CASE ~(k > 1)  BY <1>2 DEF IsTryBodyBefore
  <1> QED  BY <1>1, <1>2

LEMMA HandlerSame ==
  ASSUME NEW c \in Seq(CodeToken), NEW n \in Nat, Len(c) = n, NEW tok \in CodeToken, NEW d, Longer(c, d, n, tok), NEW k \in 0..n
  PROVE  HandlerAt(d, k) <=> HandlerAt(c, k)
  <1>1. k \in 0..n + 1 /\ (k > 0 => k \in 1..n)  OBVIOUS
  <1>2. k > 0 => d[k] = c[k]  BY <1>1 DEF Longer
  <1>3. IsTryBodyBefore(d, k) <=> IsTryBodyBefore(c, k)  BY <1>1, TrySame
  <1> QED  BY <1>2, <1>3 DEF HandlerAt

\* A block that has ended ends where it did; one that has not may end at the token.
LEMMA EndsSame ==
  ASSUME NEW c \in Seq(CodeToken), NEW n \in Nat, Len(c) = n, NEW tok \in CodeToken, NEW d, Longer(c, d, n, tok), NEW k \in 1..n, NEW q
  PROVE  EndsAt(d, k, q) <=> EndsAt(c, k, q) \/ (MatchingClose(c, k) = {} /\ q = n + 1 /\ Held(d, n + 1) = Held(c, k - 1))
  <1>1. Len(d) = n + 1 /\ n + 1 \in Nat /\ k \in 1..n + 1 /\ Held(d, k - 1) = Held(c, k - 1)  BY DEF Longer
  <1>2. ASSUME NEW j  PROVE j \in MatchingClose(d, k) <=> j \in MatchingClose(c, k) \/ (j = n + 1 /\ Held(d, n + 1) = Held(c, k - 1))
    <2>1. j \in MatchingClose(d, k) <=> j \in k + 1..n + 1 /\ Held(d, j) = Held(d, k - 1)  BY <1>1, ClosesAt
    <2>2. j \in MatchingClose(c, k) <=> j \in k + 1..n /\ Held(c, j) = Held(c, k - 1)  BY ClosesAt
    <2>3. j \in k + 1..n => Held(d, j) = Held(c, j)
      <3>1. j \in k + 1..n => j \in 0..n  OBVIOUS
      <3> QED  BY <3>1 DEF Longer
    <2>4. j \in k + 1..n + 1 <=> j \in k + 1..n \/ j = n + 1  OBVIOUS
    <2> QED  BY <1>1, <2>1, <2>2, <2>3, <2>4
  <1>3. \A j \in MatchingClose(c, k) : j \in Nat /\ j < n + 1
    <2>1. \A j \in MatchingClose(c, k) : j \in k + 1..n  BY DEF MatchingClose
    <2> QED  BY <2>1
  <1> HIDE DEF MatchingClose
  <1>4. CASE MatchingClose(c, k) = {}
    <2>1. \A j : j \in MatchingClose(d, k) <=> j = n + 1 /\ Held(d, n + 1) = Held(c, k - 1)  BY <1>2, <1>4
    <2> QED  BY <1>1, <1>4, <2>1 DEF EndsAt
  <1>5. CASE MatchingClose(c, k) # {}
    <2>1. PICK p \in MatchingClose(c, k) : TRUE  BY <1>5
    <2>2. p < n + 1 /\ p \in Nat /\ p \in MatchingClose(d, k)  BY <1>2, <1>3, <2>1
    <2>3. ~(n + 1 <= p)  BY <2>2
    <2>4. ~EndsAt(d, k, n + 1)  BY <2>2, <2>3 DEF EndsAt
    <2>5. ASSUME EndsAt(d, k, q)  PROVE EndsAt(c, k, q)
      <3>1. q # n + 1  BY <2>4, <2>5
      <3> QED  BY <1>2, <2>5, <3>1 DEF EndsAt
    <2>6. ASSUME EndsAt(c, k, q)  PROVE EndsAt(d, k, q)
      <3>1. q \in MatchingClose(c, k) /\ q <= n + 1  BY <1>3, <2>6 DEF EndsAt
      <3> QED  BY <1>2, <2>6, <3>1 DEF EndsAt
    <2> QED  BY <1>5, <2>5, <2>6
  <1> QED  BY <1>4, <1>5

LEMMA EndsOnce ==
  ASSUME NEW c \in Seq(CodeToken), NEW n \in Nat, Len(c) = n, NEW k \in 1..n, NEW q, NEW r, EndsAt(c, k, q), EndsAt(c, k, r)
  PROVE  q = r /\ q \in k + 1..n
  <1>1. q \in k + 1..n /\ r \in k + 1..n  BY DEF EndsAt, MatchingClose
  <1>2. q <= r /\ r <= q  BY DEF EndsAt
  <1> QED  BY <1>1, <1>2

\* An open block has not ended, and ends at the token if that closes it.
LEMMA OpenEnds ==
  ASSUME NEW c \in Seq(CodeToken), NEW n \in Nat, Len(c) = n, NEW tok \in CodeToken, NEW d, Longer(c, d, n, tok),
         NEW stack \in Seq(BlockType), NEW s \in Nat, Len(stack) = s, OpenBlocks(c, stack), NEW x \in 1..s
  PROVE  /\ MatchingClose(c, stack[x].open) = {}
         /\ Held(d, n + 1) = Held(c, stack[x].open - 1) <=> tok.t = "end" /\ x = s
  <1> DEFINE o == stack[x].open
  <1>1. /\ o \in 1..n /\ c[o].t = "begin" /\ Held(c, o) + s = Held(c, n) + x
        /\ \A k \in o..n : Held(c, k) >= Held(c, o)
    BY DEF OpenBlocks
  <1> HIDE DEF o
  <1>2. Held(c, o - 1) \in Int /\ Held(c, o) = Held(c, o - 1) + 1
    <2> DEFINE m == o - 1
    <2>1. m \in Nat /\ o = m + 1  BY <1>1
    <2> HIDE DEF m
    <2>2. Held(c, m) \in Int /\ Held(c, m + 1) = Held(c, m) + 1
      <3>1. c[m + 1].t = "begin"  BY <1>1, <2>1
      <3> QED  BY <2>1, <3>1, HeldIs
    <2> QED  BY <2>1, <2>2 DEF m
  <1>3. \A k \in 0..n : Held(c, k) \in Int  BY DEF Longer
  <1>4. ASSUME NEW k \in MatchingClose(c, o)  PROVE FALSE
    <2>1. k \in o + 1..n /\ Held(c, k) = Held(c, o - 1)  BY <1>1, ClosesAt
    <2>2. k \in o..n /\ k \in 0..n  BY <1>1, <2>1
    <2>3. Held(c, k) >= Held(c, o) /\ Held(c, k) \in Int  BY <1>1, <1>3, <2>2
    <2> QED  BY <1>2, <2>1, <2>3
  <1>5. Held(d, n + 1) = Held(c, o - 1) <=> tok.t = "end" /\ x = s
    <2>1. /\ tok.t = "begin" => Held(d, n + 1) = Held(c, n) + 1
          /\ tok.t = "end" => Held(d, n + 1) = Held(c, n) - 1
          /\ tok.t \notin {"begin", "end"} => Held(d, n + 1) = Held(c, n)
      <3>1. Held(c, n) \in Int  BY <1>3
      <3> QED  BY <3>1 DEF Longer
    <2>2. Held(c, n) \in Int /\ Held(c, o) \in Int /\ Held(c, o - 1) = Held(c, n) + x - s - 1  BY <1>1, <1>2, <1>3
    <2> QED  BY <2>1, <2>2
  <1> QED  BY <1>4, <1>5 DEF o

\* How the open blocks change with a token.
Follows(tok, n, stack, next, s, r) ==
  \/ tok.t = "begin" /\ r = s + 1 /\ next[s + 1].open = n + 1 /\ \A x \in 1..s : next[x].open = stack[x].open
  \/ tok.t = "end" /\ s = r + 1 /\ \A x \in 1..r : next[x].open = stack[x].open
  \/ tok.t # "begin" /\ (tok.t = "end" => s = 0) /\ r = s /\ \A x \in 1..s : next[x].open = stack[x].open

LEMMA Shifted ==
  ASSUME NEW a \in Int, NEW g \in Int, NEW h \in Int, NEW s \in Nat, NEW r \in Nat, NEW x \in Int
  PROVE  /\ a + s = h + x /\ g + s = h + r => a + r = g + x
         /\ a + s >= h /\ g + s <= h + r => a + r >= g
  OBVIOUS

LEMMA OpenStep ==
  ASSUME NEW c \in Seq(CodeToken), NEW n \in Nat, Len(c) = n, NEW tok \in CodeToken, NEW d, Longer(c, d, n, tok),
         NEW stack \in Seq(BlockType), NEW next \in Seq(BlockType), NEW s \in Nat, NEW r \in Nat, Len(stack) = s, Len(next) = r,
         OpenBlocks(c, stack), Follows(tok, n, stack, next, s, r)
  PROVE  OpenBlocks(d, next)
  <1> DEFINE H == Held(c, n)
             G == Held(d, n + 1)
  <1>1. /\ \A k \in 0..n : Held(d, k) = Held(c, k) /\ Held(c, k) \in Int
        /\ Len(d) = n + 1 /\ d[n + 1] = tok /\ \A k \in 1..n : d[k] = c[k]
    BY DEF Longer
  <1>2. H \in Int /\ G = H + CASE tok.t = "begin" -> 1 [] tok.t = "end" -> -1 [] OTHER -> 0
    BY <1>1 DEF Longer
  <1> HIDE DEF H, G
  <1>3. G \in Int /\ G + s <= H + r /\ (r >= 1 => G + s = H + r)
    BY <1>2 DEF Follows
  <1>4. \A x \in 1..s : /\ stack[x].open \in 1..n /\ c[stack[x].open].t = "begin"
                        /\ Held(c, stack[x].open) + s = H + x
                        /\ \A k \in stack[x].open..n : Held(c, k) >= Held(c, stack[x].open)
                        /\ \A y \in x + 1..s : stack[x].open < stack[y].open
    BY DEF OpenBlocks, H
  <1>5. \A k \in 0..n : Held(c, k) + s >= H  BY DEF OpenBlocks, H
  <1>6. ASSUME NEW x \in 1..r, x <= s, next[x].open = stack[x].open
        PROVE  /\ next[x].open \in 1..n /\ d[next[x].open].t = "begin"
               /\ Held(d, next[x].open) + r = G + x
               /\ \A k \in next[x].open..n + 1 : Held(d, k) >= Held(d, next[x].open)
    <2> DEFINE o == stack[x].open
    <2>1. /\ o \in 1..n /\ c[o].t = "begin" /\ Held(c, o) + s = H + x /\ \A k \in o..n : Held(c, k) >= Held(c, o)
      <3>1. x \in 1..s  BY <1>6
      <3> QED  BY <1>4, <3>1
    <2> HIDE DEF o
    <2>2. Held(d, o) = Held(c, o) /\ Held(c, o) \in Int /\ d[o] = c[o]  BY <1>1, <2>1
    <2>3. G + s = H + r  BY <1>3
    <2>4. Held(d, o) + r = G + x
      <3> DEFINE e == Held(d, o)
      <3>1. e \in Int /\ e + s = H + x /\ G + s = H + r  BY <2>1, <2>2, <2>3
      <3>2. H \in Int /\ G \in Int /\ x \in Int  BY <1>2, <1>3
      <3> HIDE DEF e
      <3>3. e + r = G + x  BY <3>1, <3>2, Shifted
      <3> QED  BY <3>3 DEF e
    <2>5. ASSUME NEW k \in o..n + 1  PROVE Held(d, k) >= Held(d, o)
      <3>1. CASE k = n + 1
        <4>1. Held(d, k) = G  BY <3>1 DEF G
        <4> QED  BY <1>3, <2>2, <2>4, <4>1
      <3>2. CASE k # n + 1
        <4>1. k \in o..n /\ k \in 0..n  BY <2>1, <3>2
        <4> QED  BY <1>1, <2>1, <2>2, <4>1
      <3> QED  BY <3>1, <3>2
    <2> QED  BY <1>6, <2>1, <2>2, <2>4, <2>5 DEF o
  <1>7. ASSUME NEW x \in 1..r
        PROVE  /\ next[x].open \in 1..n + 1 /\ d[next[x].open].t = "begin"
               /\ Held(d, next[x].open) + r = G + x
               /\ \A k \in next[x].open..n + 1 : Held(d, k) >= Held(d, next[x].open)
               /\ \A y \in x + 1..r : next[x].open < next[y].open
    <2>1. CASE x <= s
      <3>1. next[x].open = stack[x].open  BY <2>1 DEF Follows
      <3>2. /\ next[x].open \in 1..n /\ d[next[x].open].t = "begin"
            /\ Held(d, next[x].open) + r = G + x
            /\ \A k \in next[x].open..n + 1 : Held(d, k) >= Held(d, next[x].open)
        BY <1>6, <2>1, <3>1
      <3>3. ASSUME NEW y \in x + 1..r  PROVE next[x].open < next[y].open
        <4>1. CASE y <= s
          <5>1. next[y].open = stack[y].open /\ y \in x + 1..s /\ x \in 1..s  BY <2>1, <4>1 DEF Follows
          <5> QED  BY <1>4, <3>1, <5>1
        <4>2. CASE y > s
          <5>1. y = s + 1 /\ next[y].open = n + 1  BY <4>2 DEF Follows
          <5> QED  BY <3>2, <5>1
        <4> QED  BY <4>1, <4>2
      <3> QED  BY <3>2, <3>3
    <2>2. CASE x > s
      <3>1. x = s + 1 /\ r = s + 1 /\ next[x].open = n + 1 /\ tok.t = "begin"  BY <2>2 DEF Follows
      <3>2. d[n + 1].t = "begin" /\ x + 1..r = {} /\ n + 1..n + 1 = {n + 1}  BY <1>1, <3>1
      <3>3. Held(d, n + 1) = G  BY DEF G
      <3> QED  BY <1>3, <3>1, <3>2, <3>3
    <2> QED  BY <2>1, <2>2
  <1>8. ASSUME NEW k \in 0..n + 1  PROVE Held(d, k) + r >= G
    <2>1. CASE k = n + 1
      <3>1. Held(d, k) = G  BY <2>1 DEF G
      <3> QED  BY <1>3, <3>1
    <2>2. CASE k # n + 1
      <3>1. k \in 0..n  BY <2>2
      <3>2. Held(d, k) \in Int /\ Held(d, k) + s >= H  BY <1>1, <1>5, <3>1
      <3> QED  BY <1>2, <1>3, <3>2, Shifted
    <2> QED  BY <2>1, <2>2
  <1> QED  BY <1>1, <1>7, <1>8 DEF OpenBlocks, G

LEMMA ClosedStep ==
  ASSUME NEW c \in Seq(CodeToken), NEW n \in Nat, Len(c) = n, NEW tok \in CodeToken, NEW d, Longer(c, d, n, tok),
         NEW stack \in Seq(BlockType), NEW next \in Seq(BlockType), NEW s \in Nat, NEW r \in Nat, Len(stack) = s, Len(next) = r,
         OpenBlocks(c, stack), ClosedBlocks(c, stack), Follows(tok, n, stack, next, s, r)
  PROVE  ClosedBlocks(d, next)
  <1>0. ASSUME NEW x \in 1..s
        PROVE  /\ MatchingClose(c, stack[x].open) = {}
               /\ Held(d, n + 1) = Held(c, stack[x].open - 1) <=> tok.t = "end" /\ x = s
    <2>1. MatchingClose(c, stack[x].open) = {}  BY OpenEnds
    <2>2. Held(d, n + 1) = Held(c, stack[x].open - 1) <=> tok.t = "end" /\ x = s  BY OpenEnds
    <2> QED  BY <2>1, <2>2
  <1>1. Len(d) = n + 1 /\ d[n + 1] = tok /\ \A k \in 1..n : d[k] = c[k]  BY DEF Longer
  <1> SUFFICES ASSUME NEW k \in 1..n + 1, d[k].t = "begin"
               PROVE  \/ \E x \in 1..r : next[x].open = k
                      \/ \E q \in k + 1..n + 1 : EndsAt(d, k, q) /\ d[q].t = "end" /\ \A x \in 1..r : q < next[x].open \/ k > next[x].open
    BY <1>1 DEF ClosedBlocks
  <1>2. CASE k = n + 1
    <2>1. r = s + 1 /\ next[s + 1].open = n + 1  BY <1>1, <1>2 DEF Follows
    <2> QED  BY <1>2, <2>1
  <1>3. CASE k # n + 1
    <2>1. k \in 1..n /\ c[k].t = "begin"  BY <1>1, <1>3
    <2>2. CASE \E x \in 1..s : stack[x].open = k
      <3>1. PICK x \in 1..s : stack[x].open = k  BY <2>2
      <3>2. CASE x <= r
        <4>1. next[x].open = k  BY <3>1, <3>2 DEF Follows
        <4> QED  BY <3>2, <4>1
      <3>3. CASE x > r
        <4>1. tok.t = "end" /\ s = r + 1 /\ x = s /\ \A y \in 1..r : next[y].open = stack[y].open  BY <3>3 DEF Follows
        <4>2. MatchingClose(c, k) = {} /\ Held(d, n + 1) = Held(c, k - 1)
          BY <1>0, <3>1, <4>1
        <4>3. EndsAt(d, k, n + 1)  BY <2>1, <4>2, EndsSame
        <4>4. \A y \in 1..r : k > next[y].open
          <5>1. \A y \in 1..r : stack[y].open < stack[s].open
            <6>1. \A y \in 1..r : y \in 1..s /\ s \in y + 1..s  BY <4>1
            <6> QED  BY <6>1 DEF OpenBlocks
          <5>2. \A y \in 1..s : stack[y].open \in 1..n  BY DEF OpenBlocks
          <5> QED  BY <3>1, <4>1, <5>1, <5>2
        <4>5. n + 1 \in k + 1..n + 1  BY <2>1
        <4> QED  BY <1>1, <4>1, <4>3, <4>4, <4>5
      <3> QED  BY <3>2, <3>3
    <2>3. CASE ~\E x \in 1..s : stack[x].open = k
      <3>1. PICK q \in k + 1..n : EndsAt(c, k, q) /\ c[q].t = "end" /\ \A x \in 1..s : q < stack[x].open \/ k > stack[x].open
        BY <2>1, <2>3 DEF ClosedBlocks
      <3>2. EndsAt(d, k, q) /\ d[q].t = "end" /\ q \in k + 1..n + 1 /\ q \in 1..n
        <4>1. q \in 1..n /\ q \in k + 1..n + 1  BY <2>1, <3>1
        <4> QED  BY <1>1, <2>1, <3>1, <4>1, EndsSame
      <3>3. ASSUME NEW x \in 1..r  PROVE q < next[x].open \/ k > next[x].open
        <4>1. CASE x <= s  BY <3>1, <4>1 DEF Follows
        <4>2. CASE x > s
          <5>1. next[x].open = n + 1
            <6>1. x = s + 1 /\ next[s + 1].open = n + 1  BY <4>2 DEF Follows
            <6> QED  BY <6>1
          <5> QED  BY <3>2, <5>1
        <4> QED  BY <4>1, <4>2
      <3> QED  BY <3>2, <3>3
    <2> QED  BY <2>2, <2>3
  <1> QED  BY <1>2, <1>3

\* The brace that an end closes is the innermost that is open.
LEMMA TryEnds ==
  ASSUME NEW c \in Seq(CodeToken), NEW n \in Nat, Len(c) = n, NEW tok \in CodeToken, NEW d, Longer(c, d, n, tok),
         NEW stack \in Seq(BlockType), NEW s \in Nat, Len(stack) = s, OpenBlocks(c, stack)
  PROVE  IsTryBodyBefore(d, n + 2) <=>
           tok.t = "end" /\ s > 0 /\ stack[s].open > 1 /\ c[stack[s].open - 1].t = "try"
  <1>1. /\ \A k \in 0..n : Held(d, k) = Held(c, k) /\ Held(c, k) \in Int
        /\ Len(d) = n + 1 /\ d[n + 1] = tok /\ \A k \in 1..n : d[k] = c[k]
    BY DEF Longer
  <1>2. n + 2 > 1 /\ (n + 2) - 1 = n + 1 /\ n + 1 \in Nat /\ 1..(n + 1) - 1 = 1..n  OBVIOUS
  <1>3. \A k : k \in MatchingOpen(d, n + 1) <=> k \in 1..n /\ Held(d, n + 1) = Held(c, k - 1)
    <2>1. \A k \in 1..n : k - 1 \in 0..n  OBVIOUS
    <2> QED  BY <1>1, <1>2, <2>1, OpensAt
  <1> HIDE DEF MatchingOpen
  <1>4. CASE tok.t # "end"
    BY <1>1, <1>2, <1>4 DEF IsTryBodyBefore
  <1>5. CASE tok.t = "end"
    <2>1. Held(c, n) \in Int /\ Held(d, n + 1) = Held(c, n) - 1
      <3>1. Held(c, n) \in Int  BY <1>1
      <3> QED  BY <1>5, <3>1 DEF Longer
    <2>2. CASE s = 0
      <3>1. ASSUME NEW k \in MatchingOpen(d, n + 1)  PROVE FALSE
        <4>1. k \in 1..n /\ Held(c, k - 1) = Held(c, n) - 1  BY <1>3, <2>1, <3>1
        <4>2. k - 1 \in 0..n  BY <4>1
        <4>3. Held(c, k - 1) + 0 >= Held(c, n)  BY <2>2, <4>2 DEF OpenBlocks
        <4> QED  BY <2>1, <4>1, <4>3
      <3> QED  BY <1>2, <2>2, <3>1 DEF IsTryBodyBefore
    <2>3. CASE s # 0
      <3> DEFINE o == stack[s].open
      <3>1. s \in 1..s /\ s > 0  BY <2>3
      <3>2. o \in 1..n /\ Held(c, o) + s = Held(c, n) + s /\ \A k \in o..n : Held(c, k) >= Held(c, o)
        BY <3>1 DEF OpenBlocks
      <3>3. Held(d, n + 1) = Held(c, o - 1)  BY <1>5, <3>1, OpenEnds
      <3> HIDE DEF o
      <3>4. o \in MatchingOpen(d, n + 1)  BY <1>3, <3>2, <3>3
      <3>5. ASSUME NEW k \in MatchingOpen(d, n + 1)  PROVE k <= o
        <4>1. k \in 1..n /\ Held(c, k - 1) = Held(c, n) - 1  BY <1>3, <2>1, <3>5
        <4>2. ASSUME k > o  PROVE FALSE
          <5>1. k - 1 \in o..n /\ k - 1 \in 0..n /\ o \in 0..n  BY <3>2, <4>1, <4>2
          <5>2. Held(c, k - 1) >= Held(c, o) /\ Held(c, k - 1) \in Int /\ Held(c, o) \in Int  BY <1>1, <3>2, <5>1
          <5> QED  BY <2>1, <3>2, <4>1, <5>2
        <4> QED  BY <3>2, <4>1, <4>2
      <3>6. \A k \in MatchingOpen(d, n + 1) : k \in Nat  BY <1>3
      <3>7. \A k \in MatchingOpen(d, n + 1) : (\A j \in MatchingOpen(d, n + 1) : j <= k) <=> k = o
        BY <3>2, <3>4, <3>5, <3>6
      <3>8. IsTryBodyBefore(d, n + 2) <=> o > 1 /\ d[o - 1].t = "try"
        BY <1>1, <1>2, <1>5, <3>4, <3>7 DEF IsTryBodyBefore
      <3>9. o > 1 => d[o - 1] = c[o - 1]
        <4>1. o > 1 => o - 1 \in 1..n  BY <3>2
        <4> QED  BY <1>1, <4>1
      <3> QED  BY <1>5, <3>1, <3>8, <3>9 DEF o
    <2> QED  BY <2>2, <2>3
  <1> QED  BY <1>4, <1>5

\* What a token leaves of the innermost block.
Spoils(tok, stack, next, s) ==
  /\ next \in Seq(BlockType) /\ Len(next) = s
  /\ \A x \in 1..s : /\ next[x].open = stack[x].open /\ next[x].what = stack[x].what /\ next[x].line = stack[x].line
                     /\ x < s => next[x] = stack[x]
                     /\ x = s => (next[x].silent <=> stack[x].silent /\ tok.t \in IgnoredInScript)

LEMMA SpoiltIs ==
  ASSUME NEW stack \in Seq(BlockType), NEW s \in Nat, Len(stack) = s, NEW tok
  PROVE  Spoils(tok, stack, Spoilt(stack, tok), s)
  <1> DEFINE next == Spoilt(stack, tok)
  <1>1. CASE stack = <<>>
    <2>1. next = stack /\ s = 0  BY <1>1 DEF Spoilt
    <2> QED  BY <2>1 DEF Spoils
  <1>2. CASE stack # <<>> /\ tok.t \in IgnoredInScript
    <2>1. next = stack  BY <1>2 DEF Spoilt
    <2> QED  BY <1>2, <2>1 DEF Spoils
  <1>3. CASE stack # <<>> /\ tok.t \notin IgnoredInScript
    <2> DEFINE top == [stack[s] EXCEPT !.silent = FALSE]
    <2>1. s \in 1..s /\ stack[s] \in BlockType  BY <1>3
    <2>2. top \in BlockType /\ top.open = stack[s].open /\ top.what = stack[s].what /\ top.line = stack[s].line /\ ~top.silent
      BY <2>1 DEF BlockType
    <2>3. next = [stack EXCEPT ![s] = top]  BY <1>3 DEF Spoilt
    <2> HIDE DEF top, BlockType, next
    <2>4. next \in Seq(BlockType) /\ Len(next) = s /\ next[s] = top /\ \A x \in 1..s : x # s => next[x] = stack[x]
      BY <2>1, <2>2, <2>3
    <2>5. ASSUME NEW x \in 1..s
          PROVE  /\ next[x].open = stack[x].open /\ next[x].what = stack[x].what /\ next[x].line = stack[x].line
                 /\ x < s => next[x] = stack[x]
                 /\ x = s => (next[x].silent <=> stack[x].silent /\ tok.t \in IgnoredInScript)
      <3>1. CASE x = s  BY <1>3, <2>2, <2>4, <3>1
      <3>2. CASE x # s  BY <2>4, <3>2
      <3> QED  BY <3>1, <3>2
    <2> QED  BY <2>4, <2>5 DEF next, Spoils
  <1> QED  BY <1>1, <1>2, <1>3

LEMMA BlocksAre ==
  ASSUME NEW b \in BlocksType
  PROVE  /\ b.stack \in Seq(BlockType) /\ b.prev \in {"none", "try", "tried", "handler"} /\ b.line \in Nat
         /\ b.found \in SUBSET [at : Nat, line : Nat]
  BY DEF BlocksType

\* The blocks behind a token: one more, one less, or the same.
LEMMA AfterBegin ==
  ASSUME NEW b \in BlocksType, NEW at \in Nat, NEW tok \in CodeToken, tok.t = "begin"
  PROVE  LET e == BlocksAfter(b, at, tok)
         IN /\ e \in BlocksType /\ e.stack = Append(Spoilt(b.stack, tok), Block(b.prev, at, b.line))
            /\ e.prev = "none" /\ e.found = b.found
  <1> DEFINE block == Block(b.prev, at, b.line)
             stack == Append(Spoilt(b.stack, tok), block)
  <1>1. BlocksAfter(b, at, tok) = [b EXCEPT !.stack = stack, !.prev = "none"]  BY DEF BlocksAfter
  <1>2. block \in BlockType  BY BlocksAre DEF Block, BlockType
  <1>3. Spoilt(b.stack, tok) \in Seq(BlockType)
    <2>1. b.stack \in Seq(BlockType)  BY BlocksAre
    <2>2. Len(b.stack) \in Nat  BY <2>1
    <2> QED  BY <2>1, <2>2, SpoiltIs DEF Spoils
  <1>4. stack \in Seq(BlockType)
    <2> HIDE DEF block, BlockType
    <2> QED  BY <1>2, <1>3
  <1> DEFINE e == BlocksAfter(b, at, tok)
  <1> HIDE DEF stack, e
  <1>5. e = [b EXCEPT !.stack = stack, !.prev = "none"]  BY <1>1 DEF e
  <1>6. e \in BlocksType /\ e.stack = stack /\ e.prev = "none" /\ e.found = b.found  BY <1>4, <1>5 DEF BlocksType
  <1> QED  BY <1>6 DEF stack, e

FoundBehind(found, inner) ==
  {f \in found : f.at < inner.open} \cup (IF inner.silent THEN {[at |-> inner.open, line |-> inner.line]} ELSE {})

LEMMA AfterEnd ==
  ASSUME NEW b \in BlocksType, NEW at \in Nat, NEW tok \in CodeToken, tok.t = "end",
         NEW s \in Nat, Len(b.stack) = s + 1
  PROVE  /\ BlocksAfter(b, at, tok) \in BlocksType
         /\ BlocksAfter(b, at, tok).stack = SubSeq(b.stack, 1, s)
         /\ BlocksAfter(b, at, tok).prev = (IF b.stack[s + 1].what = "try" THEN "tried" ELSE "none")
         /\ BlocksAfter(b, at, tok).found =
              (IF b.stack[s + 1].what # "handler" THEN b.found ELSE FoundBehind(b.found, b.stack[s + 1]))
  <1> DEFINE inner == b.stack[s + 1]
             stack == SubSeq(b.stack, 1, s)
             went == IF inner.what = "try" THEN "tried" ELSE "none"
             found == IF inner.what # "handler" THEN b.found
                      ELSE {f \in b.found : f.at < inner.open} \cup (IF inner.silent THEN {[at |-> inner.open, line |-> inner.line]} ELSE {})
  <1>0. b.stack \in Seq(BlockType)  BY BlocksAre
  <1>1. b.stack # <<>> /\ Len(b.stack) - 1 = s /\ Len(b.stack) = s + 1  BY <1>0
  <1>2. BlocksAfter(b, at, tok) = [b EXCEPT !.stack = stack, !.prev = went, !.found = found]
    BY <1>1 DEF BlocksAfter
  <1>3. stack \in Seq(BlockType)  BY <1>0, <1>1
  <1>4. inner \in BlockType  BY <1>0, <1>1
  <1>5. found \in SUBSET [at : Nat, line : Nat]
    <2>1. b.found \in SUBSET [at : Nat, line : Nat]  BY BlocksAre
    <2>2. [at |-> inner.open, line |-> inner.line] \in [at : Nat, line : Nat]  BY <1>4 DEF BlockType
    <2> HIDE DEF inner
    <2> QED  BY <2>1, <2>2
  <1>6. went \in {"none", "try", "tried", "handler"}  OBVIOUS
  <1> DEFINE e == BlocksAfter(b, at, tok)
  <1> HIDE DEF stack, went, found, e
  <1>7. e = [b EXCEPT !.stack = stack, !.prev = went, !.found = found]  BY <1>2 DEF e
  <1>8. e \in BlocksType /\ e.stack = stack /\ e.prev = went /\ e.found = found  BY <1>3, <1>5, <1>6, <1>7 DEF BlocksType
  <1> HIDE DEF inner
  <1>9. found = IF inner.what # "handler" THEN b.found ELSE FoundBehind(b.found, inner)  BY DEF found, FoundBehind
  <1> QED  BY <1>8, <1>9 DEF stack, went, e, inner

LEMMA AfterOther ==
  ASSUME NEW b \in BlocksType, NEW at \in Nat, NEW tok \in CodeToken, tok.t # "begin", tok.t = "end" => b.stack = <<>>
  PROVE  LET e == BlocksAfter(b, at, tok)
         IN /\ e \in BlocksType /\ e.stack = Spoilt(b.stack, tok) /\ e.found = b.found
            /\ e.prev = IF tok.t = "catch" THEN (IF b.prev = "tried" THEN "handler" ELSE "none")
                        ELSE IF tok.t = "try" THEN "try" ELSE "none"
            /\ tok.t = "catch" => e.line = tok.line
  <1> DEFINE stack == Spoilt(b.stack, tok)
             went == IF tok.t = "catch" THEN (IF b.prev = "tried" THEN "handler" ELSE "none")
                     ELSE IF tok.t = "try" THEN "try" ELSE "none"
             e == BlocksAfter(b, at, tok)
  <1>1. stack \in Seq(BlockType)
    <2>1. b.stack \in Seq(BlockType)  BY BlocksAre
    <2>2. Len(b.stack) \in Nat  BY <2>1
    <2> QED  BY <2>1, <2>2, SpoiltIs DEF Spoils
  <1>2. went \in {"none", "try", "tried", "handler"}  OBVIOUS
  <1>3. tok.t = "catch" => e = [b EXCEPT !.stack = stack, !.prev = went, !.line = tok.line]  BY DEF BlocksAfter
  <1>4. tok.t # "catch" => e = [b EXCEPT !.stack = stack, !.prev = went]  BY DEF BlocksAfter
  <1>5. tok.line \in Nat  BY DEF CodeToken
  <1> HIDE DEF stack, went, e
  <1>6. /\ e \in BlocksType /\ e.stack = stack /\ e.prev = went /\ e.found = b.found
        /\ tok.t = "catch" => e.line = tok.line
    <2>1. CASE tok.t = "catch"  BY <1>1, <1>2, <1>3, <1>5, <2>1 DEF BlocksType
    <2>2. CASE tok.t # "catch"  BY <1>1, <1>2, <1>4, <2>2 DEF BlocksType
    <2> QED  BY <2>1, <2>2
  <1> QED  BY <1>6 DEF stack, went, e

\* What is told of a block stays true as tokens are added that it is told of.
LEMMA TellsLater ==
  ASSUME NEW c \in Seq(CodeToken), NEW n \in Nat, Len(c) = n, NEW tok \in CodeToken, NEW d, Longer(c, d, n, tok),
         NEW block \in BlockType, NEW later \in BlockType, block.open \in 1..n, TellsBlock(c, block),
         later.open = block.open, later.what = block.what, later.line = block.line,
         later.silent <=> block.silent /\ tok.t \in IgnoredInScript
  PROVE  TellsBlock(d, later)
  <1> DEFINE o == block.open
  <1>1. Len(d) = n + 1 /\ d[n + 1] = tok /\ \A k \in 1..n : d[k] = c[k]  BY DEF Longer
  <1>2. o \in 1..n /\ o - 1 \in 0..n /\ (o - 1 > 0 => o - 1 \in 1..n)  OBVIOUS
  <1>3. HandlerAt(d, o - 1) <=> HandlerAt(c, o - 1)  BY <1>2, HandlerSame
  <1>4. o - 1 > 0 => d[o - 1] = c[o - 1]  BY <1>1, <1>2
  <1>5. HandlerAt(c, o - 1) => o - 1 > 0  BY DEF HandlerAt
  <1> HIDE DEF o
  <1>6. block.silent <=> \A j \in o + 1..n : c[j].t \in IgnoredInScript  BY DEF TellsBlock, o
  <1>7. later.silent <=> \A j \in o + 1..n + 1 : d[j].t \in IgnoredInScript
    <2>1. \A j \in o + 1..n : d[j] = c[j]  BY <1>1, <1>2
    <2>2. \A j : j \in o + 1..n + 1 <=> j \in o + 1..n \/ j = n + 1  BY <1>2
    <2> QED  BY <1>1, <1>6, <2>1, <2>2
  <1>8. later.what = "handler" <=> HandlerAt(d, o - 1)  BY <1>3 DEF TellsBlock, o
  <1>9. later.what = "handler" => later.line = d[o - 1].line  BY <1>3, <1>4, <1>5, <1>8 DEF TellsBlock, o
  <1>10. later.what = "try" <=> o > 1 /\ d[o - 1].t = "try"
    <2>1. block.what = "try" <=> o > 1 /\ c[o - 1].t = "try"  BY DEF TellsBlock, o
    <2>2. o > 1 => o - 1 > 0  BY <1>2
    <2> QED  BY <1>4, <2>1, <2>2
  <1> QED  BY <1>1, <1>7, <1>8, <1>9, <1>10 DEF TellsBlock, o

\* A block with another one in it is not silent.
LEMMA OuterSpeaks ==
  ASSUME NEW c \in Seq(CodeToken), NEW n \in Nat, Len(c) = n,
         NEW stack \in Seq(BlockType), NEW s \in Nat, Len(stack) = s, OpenBlocks(c, stack), NEW x \in 1..s, x < s, TellsBlock(c, stack[x])
  PROVE  ~stack[x].silent
  <1>1. s \in 1..s /\ s \in x + 1..s  OBVIOUS
  <1>2. /\ stack[s].open \in 1..n /\ c[stack[s].open].t = "begin" /\ stack[x].open \in 1..n
        /\ stack[x].open < stack[s].open
    BY <1>1 DEF OpenBlocks
  <1>3. stack[s].open \in stack[x].open + 1..n  BY <1>2
  <1>4. c[stack[s].open].t \notin IgnoredInScript  BY <1>2 DEF IgnoredInScript
  <1> QED  BY <1>3, <1>4 DEF TellsBlock

\* The new block of a beginning.
LEMMA TellsNew ==
  ASSUME NEW c \in Seq(CodeToken), NEW n \in Nat, Len(c) = n, NEW tok \in CodeToken, NEW d, Longer(c, d, n, tok),
         NEW b \in BlocksType, TellsPrev(c, b), NEW block, block = Block(b.prev, n + 1, b.line)
  PROVE  TellsBlock(d, block)
  <1>1. block.open = n + 1 /\ block.what = b.prev /\ block.line = b.line /\ block.silent /\ (n + 1) - 1 = n  BY DEF Block
  <1>2. Len(d) = n + 1 /\ \A k \in 1..n : d[k] = c[k]  BY DEF Longer
  <1>3. HandlerAt(d, n) <=> HandlerAt(c, n)
    <2>1. n \in 0..n  OBVIOUS
    <2> QED  BY <2>1, HandlerSame
  <1>4. n > 0 => d[n] = c[n]  BY <1>2
  <1>5. HandlerAt(c, n) => n > 0  BY DEF HandlerAt
  <1>6. (n + 1) + 1..n + 1 = {} /\ (n + 1 > 1 <=> n > 0)  OBVIOUS
  <1>7. /\ b.prev = "try" <=> n > 0 /\ c[n].t = "try"
        /\ b.prev = "handler" <=> HandlerAt(c, n)
        /\ b.prev = "handler" => b.line = c[n].line
    BY DEF TellsPrev
  <1>8. block.silent <=> \A j \in block.open + 1..Len(d) : d[j].t \in IgnoredInScript  BY <1>1, <1>2, <1>6
  <1> QED  BY <1>1, <1>3, <1>4, <1>5, <1>6, <1>7, <1>8 DEF TellsBlock

\* What the last token was.
LEMMA TellsLast ==
  ASSUME NEW c \in Seq(CodeToken), NEW n \in Nat, Len(c) = n, NEW tok \in CodeToken, NEW d, Longer(c, d, n, tok),
         NEW b \in BlocksType, NEW s \in Nat, Len(b.stack) = s, TellsPrev(c, b), OpenBlocks(c, b.stack),
         \A x \in 1..s : TellsBlock(c, b.stack[x])
  PROVE  TellsPrev(d, BlocksAfter(b, n + 1, tok))
  <1> DEFINE e == BlocksAfter(b, n + 1, tok)
  <1>1. Len(d) = n + 1 /\ d[n + 1] = tok /\ n + 1 > 0 /\ (n + 1) + 1 = n + 2 /\ n + 1 \in Nat  BY DEF Longer
  <1>2. b.stack \in Seq(BlockType)  BY BlocksAre
  <1>3. IsTryBodyBefore(d, n + 2) <=> tok.t = "end" /\ s > 0 /\ b.stack[s].open > 1 /\ c[b.stack[s].open - 1].t = "try"
    BY <1>2, TryEnds
  <1>4. HandlerAt(d, n + 1) <=> tok.t = "catch" /\ b.prev = "tried"
    <2>1. n + 1 \in 0..n + 1  OBVIOUS
    <2>2. IsTryBodyBefore(d, n + 1) <=> IsTryBodyBefore(c, n + 1)  BY <2>1, TrySame
    <2>3. b.prev = "tried" <=> IsTryBodyBefore(c, n + 1)  BY DEF TellsPrev
    <2> QED  BY <1>1, <2>2, <2>3 DEF HandlerAt
  <1>5. CASE tok.t = "begin"
    <2>1. e.prev = "none"  BY <1>1, <1>5, AfterBegin
    <2> QED  BY <1>1, <1>3, <1>4, <1>5, <2>1 DEF TellsPrev
  <1>6. CASE tok.t = "end" /\ s > 0
    <2> DEFINE r == s - 1
    <2>1. r \in Nat /\ s = r + 1 /\ s \in 1..s  BY <1>6
    <2>2. e.prev = IF b.stack[s].what = "try" THEN "tried" ELSE "none"
      <3> HIDE DEF r
      <3>1. Len(b.stack) = r + 1  BY <2>1
      <3>2. r \in Nat /\ n + 1 \in Nat /\ tok.t = "end"  BY <1>6, <2>1
      <3>3. e.prev = IF b.stack[r + 1].what = "try" THEN "tried" ELSE "none"  BY <3>1, <3>2, AfterEnd
      <3> QED  BY <2>1, <3>3
    <2>3. b.stack[s].what = "try" <=> b.stack[s].open > 1 /\ c[b.stack[s].open - 1].t = "try"  BY <2>1 DEF TellsBlock
    <2> HIDE DEF e
    <2>4. TellsPrev(d, e)  BY <1>1, <1>3, <1>4, <1>6, <2>2, <2>3 DEF TellsPrev
    <2> QED  BY <2>4 DEF e
  <1>7. CASE tok.t # "begin" /\ (tok.t = "end" => s = 0)
    <2>1. tok.t = "end" => b.stack = <<>>  BY <1>2, <1>7
    <2>2. /\ e.prev = IF tok.t = "catch" THEN (IF b.prev = "tried" THEN "handler" ELSE "none")
                      ELSE IF tok.t = "try" THEN "try" ELSE "none"
          /\ tok.t = "catch" => e.line = tok.line
      BY <1>1, <1>7, <2>1, AfterOther
    <2> HIDE DEF e
    <2>3. TellsPrev(d, e)  BY <1>1, <1>3, <1>4, <1>7, <2>2 DEF TellsPrev
    <2> QED  BY <2>3 DEF e
  <1>8. s > 0 \/ s = 0  OBVIOUS
  <1> QED  BY <1>5, <1>6, <1>7, <1>8

-----------------------------------------------------------------------------
\* A handler that has ended, and those that are judged.
Caught(c, k, q) == k \in 1..Len(c) - 1 /\ HandlerAt(c, k) /\ c[k + 1].t = "begin" /\ EndsAt(c, k + 1, q)
SilentAt(c, k, q) ==
  /\ Caught(c, k, q)
  /\ \A j, r : Caught(c, j, r) /\ j < k => r < k
  /\ \A i \in k + 2..q - 1 : c[i].t \in IgnoredInScript

LEMMA SilentHandlerIs ==
  ASSUME NEW c \in Seq(CodeToken), NEW n \in Nat, Len(c) = n, NEW k
  PROVE  k \in SilentHandlers(c) <=> \E q : SilentAt(c, k, q)
  <1>1. \A j \in 1..n : IsHandler(c, j) <=> j \in 1..n - 1 /\ HandlerAt(c, j) /\ c[j + 1].t = "begin"
    BY DEF IsHandler, HandlerAt
  <1>2. \A j, q : q \in BodyEnd(c, j) <=> EndsAt(c, j + 1, q)  BY DEF BodyEnd, EndsAt
  <1>3. \A j, q : Caught(c, j, q) <=> j \in 1..n /\ IsHandler(c, j) /\ q \in BodyEnd(c, j)
    BY <1>1, <1>2 DEF Caught
  <1>4. DOMAIN c = 1..n  OBVIOUS
  <1>5. k \in JudgedHandlers(c) <=> (\E q : Caught(c, k, q)) /\ \A j, r : Caught(c, j, r) /\ j < k => r < k
    <2>1. ASSUME k \in 1..n  PROVE (\A j \in 1..k - 1 : IsHandler(c, j) => \A close \in BodyEnd(c, j) : close < k) <=> \A j, r : Caught(c, j, r) /\ j < k => r < k
      <3>1. \A j : j \in 1..n /\ j < k <=> j \in 1..k - 1  BY <2>1
      <3> QED  BY <1>3, <3>1
    <2>2. k \in JudgedHandlers(c) <=> k \in 1..n /\ IsHandler(c, k) /\ BodyEnd(c, k) # {} /\ \A j \in 1..k - 1 : IsHandler(c, j) => \A close \in BodyEnd(c, j) : close < k
      BY <1>4 DEF JudgedHandlers
    <2> QED  BY <1>3, <2>1, <2>2
  <1>6. ASSUME NEW q, Caught(c, k, q)
        PROVE  Kinds(SubSeq(c, k + 2, q - 1)) \subseteq IgnoredInScript <=> \A i \in k + 2..q - 1 : c[i].t \in IgnoredInScript
    <2>1. k \in 1..n - 1 /\ q \in (k + 1) + 1..n
      <3>1. k \in 1..n - 1 /\ q \in MatchingClose(c, k + 1)  BY <1>6 DEF Caught, EndsAt
      <3> QED  BY <3>1 DEF MatchingClose
    <2> DEFINE a == k + 2
               z == q - 1
               body == SubSeq(c, a, z)
    <2>2. a \in Nat /\ z \in Nat /\ 1 <= a /\ a <= z + 1 /\ z <= n  BY <2>1
    <2> HIDE DEF a, z
    <2>3. DOMAIN body = 1..(z - a) + 1 /\ \A i \in 1..(z - a) + 1 : body[i] = c[a + i - 1]  BY <2>2
    <2> HIDE DEF body
    <2>4. Kinds(body) \subseteq IgnoredInScript <=> \A i \in 1..(z - a) + 1 : c[a + i - 1].t \in IgnoredInScript
      BY <2>3 DEF Kinds
    <2>5. (\A i \in 1..(z - a) + 1 : c[a + i - 1].t \in IgnoredInScript) <=> \A i \in a..z : c[i].t \in IgnoredInScript
      <3>1. \A i \in a..z : i - a + 1 \in 1..(z - a) + 1 /\ a + (i - a + 1) - 1 = i  BY <2>2
      <3>2. \A i \in 1..(z - a) + 1 : a + i - 1 \in a..z  BY <2>2
      <3> QED  BY <3>1, <3>2
    <2> QED  BY <2>4, <2>5 DEF a, z, body
  <1>7. ASSUME NEW q, NEW r, Caught(c, k, q), Caught(c, k, r)  PROVE q = r
    <2>1. k + 1 \in 1..n /\ EndsAt(c, k + 1, q) /\ EndsAt(c, k + 1, r)  BY <1>7 DEF Caught
    <2> QED  BY <2>1, EndsOnce
  <1>8. ASSUME k \in SilentHandlers(c)  PROVE \E q : SilentAt(c, k, q)
    <2>1. k \in JudgedHandlers(c) /\ \A close \in BodyEnd(c, k) : Kinds(SubSeq(c, k + 2, close - 1)) \subseteq IgnoredInScript
      BY <1>8 DEF SilentHandlers
    <2>2. PICK q : Caught(c, k, q)  BY <1>5, <2>1
    <2>3. q \in BodyEnd(c, k)  BY <1>3, <2>2
    <2> QED  BY <1>5, <1>6, <2>1, <2>2, <2>3 DEF SilentAt
  <1>9. ASSUME NEW q, SilentAt(c, k, q)  PROVE k \in SilentHandlers(c)
    <2>1. k \in JudgedHandlers(c)  BY <1>5, <1>9 DEF SilentAt
    <2>2. ASSUME NEW close \in BodyEnd(c, k)  PROVE Kinds(SubSeq(c, k + 2, close - 1)) \subseteq IgnoredInScript
      <3>1. Caught(c, k, q)  BY <1>9 DEF SilentAt
      <3>2. Caught(c, k, close)  BY <1>3, <2>2, <3>1
      <3>3. close = q  BY <1>7, <3>1, <3>2
      <3> QED  BY <1>6, <1>9, <3>1, <3>3 DEF SilentAt
    <2> QED  BY <2>1, <2>2 DEF SilentHandlers
  <1> QED  BY <1>8, <1>9

\* The token closes the innermost block, and that handles errors.
ClosesHandler(tok, stack, s) == tok.t = "end" /\ s > 0 /\ stack[s].what = "handler"

LEMMA CaughtStep ==
  ASSUME NEW c \in Seq(CodeToken), NEW n \in Nat, Len(c) = n, NEW tok \in CodeToken, NEW d, Longer(c, d, n, tok),
         NEW stack \in Seq(BlockType), NEW s \in Nat, Len(stack) = s, OpenBlocks(c, stack), ClosedBlocks(c, stack),
         \A x \in 1..s : TellsBlock(c, stack[x]), NEW k, NEW q
  PROVE  Caught(d, k, q) <=> Caught(c, k, q) \/ (ClosesHandler(tok, stack, s) /\ k = stack[s].open - 1 /\ q = n + 1)
  <1>1. Len(d) = n + 1 /\ d[n + 1] = tok /\ \A j \in 1..n : d[j] = c[j]  BY DEF Longer
  <1>2. \A x \in 1..s : MatchingClose(c, stack[x].open) = {}  BY OpenEnds
  <1>3. \A x \in 1..s : Held(d, n + 1) = Held(c, stack[x].open - 1) <=> tok.t = "end" /\ x = s  BY OpenEnds
  <1>4. \A x \in 1..s : stack[x].open \in 1..n /\ c[stack[x].open].t = "begin"  BY DEF OpenBlocks
  <1>5. ASSUME ClosesHandler(tok, stack, s)  PROVE Caught(d, stack[s].open - 1, n + 1)
    <2> DEFINE o == stack[s].open
    <2>1. s \in 1..s /\ tok.t = "end"  BY <1>5 DEF ClosesHandler
    <2>2. o \in 1..n /\ c[o].t = "begin" /\ MatchingClose(c, o) = {} /\ Held(d, n + 1) = Held(c, o - 1)  BY <1>2, <1>3, <1>4, <2>1
    <2>3. HandlerAt(c, o - 1)  BY <1>5, <2>1 DEF ClosesHandler, TellsBlock
    <2> HIDE DEF o
    <2>4. o - 1 \in 0..n /\ o - 1 > 0 /\ (o - 1) + 1 = o  BY <2>2, <2>3 DEF HandlerAt
    <2>5. HandlerAt(d, o - 1)  BY <2>3, <2>4, HandlerSame
    <2>6. EndsAt(d, o, n + 1)  BY <2>2, EndsSame
    <2>7. d[o] = c[o] /\ o - 1 \in 1..(n + 1) - 1  BY <1>1, <2>2, <2>4
    <2>8. Caught(d, o - 1, n + 1)  BY <1>1, <2>2, <2>4, <2>5, <2>6, <2>7 DEF Caught
    <2> QED  BY <2>8 DEF o
  <1>6. ASSUME Caught(c, k, q)  PROVE Caught(d, k, q)
    <2>1. k \in 1..n - 1 /\ HandlerAt(c, k) /\ c[k + 1].t = "begin" /\ EndsAt(c, k + 1, q)  BY <1>6 DEF Caught
    <2>2. k \in 0..n /\ k + 1 \in 1..n /\ k \in 1..(n + 1) - 1  BY <2>1
    <2>3. HandlerAt(d, k) /\ EndsAt(d, k + 1, q) /\ d[k + 1] = c[k + 1]  BY <1>1, <2>1, <2>2, HandlerSame, EndsSame
    <2> QED  BY <1>1, <2>1, <2>2, <2>3 DEF Caught
  <1>7. ASSUME Caught(d, k, q), ~Caught(c, k, q)  PROVE ClosesHandler(tok, stack, s) /\ k = stack[s].open - 1 /\ q = n + 1
    <2>1. k \in 1..(n + 1) - 1 /\ HandlerAt(d, k) /\ d[k + 1].t = "begin" /\ EndsAt(d, k + 1, q)  BY <1>1, <1>7 DEF Caught
    <2>2. k \in 1..n /\ k \in 0..n  BY <2>1
    <2>3. k # n
      <3>1. ASSUME k = n  PROVE FALSE
        <4>1. q \in (k + 1) + 1..n + 1  BY <1>1, <2>1 DEF EndsAt, MatchingClose
        <4> QED  BY <3>1, <4>1
      <3> QED  BY <3>1
    <2>4. k \in 1..n - 1 /\ k + 1 \in 1..n  BY <2>2, <2>3
    <2>5. HandlerAt(c, k) /\ c[k + 1].t = "begin"  BY <1>1, <2>1, <2>2, <2>4, HandlerSame
    <2>6. ~EndsAt(c, k + 1, q)  BY <1>7, <2>4, <2>5 DEF Caught
    <2>7. MatchingClose(c, k + 1) = {} /\ q = n + 1 /\ Held(d, n + 1) = Held(c, (k + 1) - 1)  BY <2>1, <2>4, <2>6, EndsSame
    <2>8. \A r : ~EndsAt(c, k + 1, r)  BY <2>7 DEF EndsAt
    <2>9. PICK x \in 1..s : stack[x].open = k + 1  BY <2>4, <2>5, <2>8 DEF ClosedBlocks
    <2>10. tok.t = "end" /\ x = s  BY <1>3, <2>7, <2>9
    <2>11. stack[x].open - 1 = k  BY <2>4, <2>9
    <2>12. stack[x].what = "handler"  BY <2>5, <2>11 DEF TellsBlock
    <2> QED  BY <2>7, <2>10, <2>11, <2>12 DEF ClosesHandler
  <1> QED  BY <1>5, <1>6, <1>7

\* Nothing is found unless a handler closes.
LEMMA FoundSame ==
  ASSUME NEW c \in Seq(CodeToken), NEW n \in Nat, Len(c) = n, NEW tok \in CodeToken, NEW d, Longer(c, d, n, tok),
         NEW stack \in Seq(BlockType), NEW s \in Nat, Len(stack) = s, OpenBlocks(c, stack), ClosedBlocks(c, stack),
         \A x \in 1..s : TellsBlock(c, stack[x]), ~ClosesHandler(tok, stack, s)
  PROVE  Found(d) = Found(c)
  <1>1. Len(d) = n + 1 /\ n + 1 \in Nat /\ d \in Seq(CodeToken) /\ \A j \in 1..n : d[j] = c[j]  BY DEF Longer
  <1>2. ASSUME NEW k, NEW q  PROVE Caught(d, k, q) <=> Caught(c, k, q)  BY CaughtStep
  <1>3. ASSUME NEW k, NEW q, Caught(c, k, q)  PROVE k \in 1..n /\ \A i \in k + 2..q - 1 : d[i] = c[i]
    <2>1. k \in 1..n - 1 /\ q \in (k + 1) + 1..n  BY <1>3 DEF Caught, EndsAt, MatchingClose
    <2>2. k \in 1..n  BY <2>1
    <2>3. \A i \in k + 2..q - 1 : i \in 1..n  BY <2>1
    <2>4. \A i \in k + 2..q - 1 : d[i] = c[i]  BY <1>1, <2>3
    <2> QED  BY <2>2, <2>4
  <1>4. \A k, q : SilentAt(d, k, q) <=> SilentAt(c, k, q)  BY <1>2, <1>3 DEF SilentAt
  <1>5. ASSUME NEW k  PROVE k \in SilentHandlers(d) <=> k \in SilentHandlers(c)
    <2>1. k \in SilentHandlers(d) <=> \E q : SilentAt(d, k, q)  BY <1>1, SilentHandlerIs
    <2>2. k \in SilentHandlers(c) <=> \E q : SilentAt(c, k, q)  BY SilentHandlerIs
    <2> QED  BY <1>4, <2>1, <2>2
  <1>6. SilentHandlers(d) = SilentHandlers(c)  BY <1>5
  <1>7. \A k \in SilentHandlers(c) : d[k] = c[k]
    <2>1. \A k \in SilentHandlers(c) : \E q : SilentAt(c, k, q)  BY SilentHandlerIs
    <2>2. \A k \in SilentHandlers(c) : k \in 1..n  BY <1>3, <2>1 DEF SilentAt
    <2> QED  BY <1>1, <2>2
  <1> HIDE DEF SilentHandlers
  <1> QED  BY <1>6, <1>7 DEF Found

\* A handler that closes hides those in it.
LEMMA FoundNew ==
  ASSUME NEW c \in Seq(CodeToken), NEW n \in Nat, Len(c) = n, NEW tok \in CodeToken, NEW d, Longer(c, d, n, tok),
         NEW stack \in Seq(BlockType), NEW s \in Nat, Len(stack) = s, OpenBlocks(c, stack), ClosedBlocks(c, stack),
         \A x \in 1..s : TellsBlock(c, stack[x]), ClosesHandler(tok, stack, s)
  PROVE  Found(d) = FoundBehind(Found(c), stack[s])
  <1> DEFINE o == stack[s].open
             h == o - 1
  <1>1. Len(d) = n + 1 /\ n + 1 \in Nat /\ d \in Seq(CodeToken) /\ \A j \in 1..n : d[j] = c[j]  BY DEF Longer
  <1>2. s \in 1..s /\ tok.t = "end" /\ stack[s].what = "handler"  BY DEF ClosesHandler
  <1>3. o \in 1..n /\ MatchingClose(c, o) = {}
    <2>1. MatchingClose(c, o) = {}  BY <1>2, OpenEnds
    <2> QED  BY <1>2, <2>1 DEF OpenBlocks
  <1>4. HandlerAt(c, h) /\ stack[s].line = c[h].line /\ (stack[s].silent <=> \A j \in o + 1..n : c[j].t \in IgnoredInScript)
    BY <1>2 DEF TellsBlock
  <1> HIDE DEF o
  <1>5. h \in 1..n - 1 /\ h + 1 = o /\ c[h].t = "catch"  BY <1>3, <1>4 DEF HandlerAt
  <1>6. ASSUME NEW k, NEW q  PROVE Caught(d, k, q) <=> Caught(c, k, q) \/ (k = h /\ q = n + 1)
    <2>1. Caught(d, k, q) <=> Caught(c, k, q) \/ (ClosesHandler(tok, stack, s) /\ k = stack[s].open - 1 /\ q = n + 1)
      BY CaughtStep
    <2> QED  BY <2>1 DEF o
  <1> HIDE DEF h
  <1>7. ASSUME NEW k, NEW q, Caught(c, k, q)
        PROVE  k \in 1..n /\ k # h /\ q \in 1..n /\ \A i \in k + 2..q - 1 : d[i] = c[i]
    <2>1. k \in 1..n - 1 /\ q \in (k + 1) + 1..n /\ EndsAt(c, k + 1, q)  BY <1>7 DEF Caught, EndsAt, MatchingClose
    <2>2. \A i \in k + 2..q - 1 : i \in 1..n  BY <2>1
    <2>3. k # h  BY <1>3, <1>5, <2>1 DEF EndsAt
    <2> QED  BY <1>1, <2>1, <2>2, <2>3
  <1>8. ASSUME NEW j, NEW r, Caught(c, j, r), j < h  PROVE r < h
    <2>1. j \in 1..n - 1 /\ j + 1 \in 1..n /\ c[j + 1].t = "begin" /\ EndsAt(c, j + 1, r)  BY <1>8 DEF Caught
    <2>2. ~\E x \in 1..s : stack[x].open = j + 1
      <3>1. ASSUME NEW x \in 1..s, stack[x].open = j + 1  PROVE FALSE
        <4>1. MatchingClose(c, stack[x].open) = {}  BY OpenEnds
        <4> QED  BY <2>1, <3>1, <4>1 DEF EndsAt
      <3> QED  BY <3>1
    <2>3. PICK q \in (j + 1) + 1..n : EndsAt(c, j + 1, q) /\ c[q].t = "end" /\ \A x \in 1..s : q < stack[x].open \/ j + 1 > stack[x].open
      BY <2>1, <2>2 DEF ClosedBlocks
    <2>4. q = r  BY <2>1, <2>3, EndsOnce
    <2>5. q < o \/ j + 1 > o  BY <1>2, <2>3 DEF o
    <2>6. q # h  BY <1>5, <2>3
    <2> QED  BY <1>5, <1>8, <2>1, <2>3, <2>4, <2>5, <2>6
  <1>9. ASSUME NEW k, NEW q  PROVE SilentAt(d, k, q) <=> (SilentAt(c, k, q) /\ k < h) \/ (k = h /\ q = n + 1 /\ stack[s].silent)
    <2>1. CASE Caught(c, k, q)
      <3>1. k \in 1..n /\ k # h /\ \A i \in k + 2..q - 1 : d[i] = c[i]  BY <1>7, <2>1
      <3>2. Caught(d, h, n + 1) /\ Caught(d, k, q)  BY <1>6, <2>1
      <3>3. ASSUME SilentAt(d, k, q)  PROVE SilentAt(c, k, q) /\ k < h
        <4>1. \A j, r : Caught(d, j, r) /\ j < k => r < k  BY <3>3 DEF SilentAt
        <4>2. ~(h < k)  BY <3>1, <3>2, <4>1
        <4>3. \A j, r : Caught(c, j, r) /\ j < k => r < k  BY <1>6, <4>1
        <4> QED  BY <1>5, <2>1, <3>1, <3>3, <4>2, <4>3 DEF SilentAt
      <3>4. ASSUME SilentAt(c, k, q), k < h  PROVE SilentAt(d, k, q)
        <4>1. ASSUME NEW j, NEW r, Caught(d, j, r), j < k  PROVE r < k
          <5>1. j # h
            <6>1. ASSUME j = h  PROVE FALSE
              BY <1>5, <3>1, <3>4, <4>1, <6>1
            <6> QED  BY <6>1
          <5>2. Caught(c, j, r)  BY <1>6, <4>1, <5>1
          <5> QED  BY <3>4, <4>1, <5>2 DEF SilentAt
        <4> QED  BY <3>1, <3>2, <3>4, <4>1 DEF SilentAt
      <3> QED  BY <3>1, <3>3, <3>4
    <2>2. CASE ~Caught(c, k, q) /\ k = h /\ q = n + 1
      <3>1. Caught(d, h, n + 1)  BY <1>6
      <3>2. ASSUME NEW j, NEW r, Caught(d, j, r), j < h  PROVE r < h
        <4>1. j # h
          <5>1. ASSUME j = h  PROVE FALSE
            BY <1>5, <3>2, <5>1
          <5> QED  BY <5>1
        <4>2. Caught(c, j, r)  BY <1>6, <3>2, <4>1
        <4> QED  BY <1>8, <3>2, <4>2
      <3>3. h + 2 = o + 1 /\ (n + 1) - 1 = n /\ \A i \in o + 1..n : d[i] = c[i]  BY <1>1, <1>3, <1>5
      <3>4. SilentAt(d, h, n + 1) <=> \A i \in o + 1..n : c[i].t \in IgnoredInScript  BY <3>1, <3>2, <3>3 DEF SilentAt
      <3>5. ~SilentAt(c, k, q)  BY <2>2 DEF SilentAt
      <3> QED  BY <1>4, <2>2, <3>4, <3>5
    <2>3. CASE ~Caught(c, k, q) /\ ~(k = h /\ q = n + 1)
      <3>1. ~Caught(d, k, q)  BY <1>6, <2>3
      <3> QED  BY <2>3, <3>1 DEF SilentAt
    <2> QED  BY <2>1, <2>2, <2>3
  <1>10. ASSUME NEW k  PROVE k \in SilentHandlers(d) <=> (k \in SilentHandlers(c) /\ k < h) \/ (k = h /\ stack[s].silent)
    <2>1. k \in SilentHandlers(d) <=> \E q : SilentAt(d, k, q)  BY <1>1, SilentHandlerIs
    <2>2. k \in SilentHandlers(c) <=> \E q : SilentAt(c, k, q)  BY SilentHandlerIs
    <2> QED  BY <1>9, <2>1, <2>2
  <1>11. \A k \in SilentHandlers(c) : k \in 1..n /\ d[k] = c[k]
    <2>1. \A k \in SilentHandlers(c) : \E q : SilentAt(c, k, q)  BY SilentHandlerIs
    <2>2. \A k \in SilentHandlers(c) : k \in 1..n  BY <1>7, <2>1 DEF SilentAt
    <2> QED  BY <1>1, <2>2
  <1>12. d[h] = c[h]  BY <1>1, <1>5
  <1> HIDE DEF SilentHandlers
  <1>13. ASSUME NEW f
         PROVE  f \in Found(d) <=> (f \in Found(c) /\ f.at < o) \/ (stack[s].silent /\ f = [at |-> o, line |-> stack[s].line])
    <2>1. f \in Found(d) <=> \E k \in SilentHandlers(d) : f = [at |-> k + 1, line |-> d[k].line]  BY DEF Found
    <2>2. f \in Found(c) <=> \E k \in SilentHandlers(c) : f = [at |-> k + 1, line |-> c[k].line]  BY DEF Found
    <2>3. ASSUME f \in Found(d)  PROVE (f \in Found(c) /\ f.at < o) \/ (stack[s].silent /\ f = [at |-> o, line |-> stack[s].line])
      <3>1. PICK k \in SilentHandlers(d) : f = [at |-> k + 1, line |-> d[k].line]  BY <2>1, <2>3
      <3>2. CASE k \in SilentHandlers(c) /\ k < h
        <4>1. f = [at |-> k + 1, line |-> c[k].line] /\ k \in 1..n  BY <1>11, <3>1, <3>2
        <4>2. f.at = k + 1 /\ k + 1 < o  BY <1>5, <3>2, <4>1
        <4> QED  BY <2>2, <3>2, <4>1, <4>2
      <3>3. CASE k = h /\ stack[s].silent
        <4>1. f = [at |-> o, line |-> stack[s].line]  BY <1>4, <1>5, <1>12, <3>1, <3>3
        <4> QED  BY <3>3, <4>1
      <3> QED  BY <1>10, <3>1, <3>2, <3>3
    <2>4. ASSUME f \in Found(c), f.at < o  PROVE f \in Found(d)
      <3>1. PICK k \in SilentHandlers(c) : f = [at |-> k + 1, line |-> c[k].line]  BY <2>2, <2>4
      <3>2. k \in 1..n /\ d[k] = c[k] /\ f.at = k + 1  BY <1>11, <3>1
      <3>3. k < h  BY <1>3, <1>5, <2>4, <3>2
      <3> QED  BY <1>10, <2>1, <3>1, <3>2, <3>3
    <2>5. ASSUME stack[s].silent, f = [at |-> o, line |-> stack[s].line]  PROVE f \in Found(d)
      <3>1. h \in SilentHandlers(d)  BY <1>10, <2>5
      <3>2. f = [at |-> h + 1, line |-> d[h].line]  BY <1>4, <1>5, <1>12, <2>5
      <3> QED  BY <2>1, <3>1, <3>2
    <2> QED  BY <2>3, <2>4, <2>5
  <1>14. ASSUME NEW f
         PROVE  f \in FoundBehind(Found(c), stack[s]) <=> (f \in Found(c) /\ f.at < o) \/ (stack[s].silent /\ f = [at |-> o, line |-> stack[s].line])
    BY DEF FoundBehind, o
  <1> QED  BY <1>13, <1>14

\* Behind a token the blocks that stay open are told of as before.
LEMMA TellsSpoilt ==
  ASSUME NEW c \in Seq(CodeToken), NEW n \in Nat, Len(c) = n, NEW tok \in CodeToken, NEW d, Longer(c, d, n, tok),
         NEW stack \in Seq(BlockType), NEW s \in Nat, Len(stack) = s, OpenBlocks(c, stack),
         \A x \in 1..s : TellsBlock(c, stack[x])
  PROVE  \A x \in 1..s : TellsBlock(d, Spoilt(stack, tok)[x])
  <1> DEFINE next == Spoilt(stack, tok)
  <1>0. Spoils(tok, stack, next, s)  BY SpoiltIs
  <1> HIDE DEF next
  <1>1. /\ next \in Seq(BlockType) /\ Len(next) = s
        /\ \A x \in 1..s : /\ next[x].open = stack[x].open /\ next[x].what = stack[x].what /\ next[x].line = stack[x].line
                           /\ x < s => next[x] = stack[x]
                           /\ x = s => (next[x].silent <=> stack[x].silent /\ tok.t \in IgnoredInScript)
    BY <1>0 DEF Spoils
  <1>2. ASSUME NEW x \in 1..s  PROVE TellsBlock(d, next[x])
    <2> DEFINE block == stack[x]
               later == next[x]
    <2>1. block \in BlockType /\ later \in BlockType  BY <1>1
    <2>2. block.open \in 1..n  BY DEF OpenBlocks
    <2>3. later.open = block.open /\ later.what = block.what /\ later.line = block.line  BY <1>1
    <2>4. later.silent <=> block.silent /\ tok.t \in IgnoredInScript
      <3>1. CASE x = s  BY <1>1, <3>1
      <3>2. CASE x < s
        <4>1. ~stack[x].silent  BY <3>2, OuterSpeaks
        <4> QED  BY <1>1, <3>2, <4>1
      <3> QED  BY <3>1, <3>2
    <2>5. TellsBlock(c, block)  OBVIOUS
    <2> HIDE DEF block, later
    <2>6. TellsBlock(d, later)  BY <2>1, <2>2, <2>3, <2>4, <2>5, TellsLater
    <2> QED  BY <2>6 DEF later
  <1> QED  BY <1>2 DEF next

LEMMA TellsOuter ==
  ASSUME NEW c \in Seq(CodeToken), NEW n \in Nat, Len(c) = n, NEW tok \in CodeToken, NEW d, Longer(c, d, n, tok),
         NEW stack \in Seq(BlockType), NEW s \in Nat, Len(stack) = s, OpenBlocks(c, stack),
         NEW x \in 1..s, x < s, TellsBlock(c, stack[x])
  PROVE  TellsBlock(d, stack[x])
  <1> DEFINE block == stack[x]
  <1>1. ~block.silent  BY OuterSpeaks
  <1>2. block \in BlockType /\ block.open \in 1..n  BY DEF OpenBlocks
  <1>3. TellsBlock(c, block)  OBVIOUS
  <1> HIDE DEF block
  <1>4. TellsBlock(d, block)  BY <1>1, <1>2, <1>3, TellsLater
  <1> QED  BY <1>4 DEF block

\* The blocks are told of right behind every token.
LEMMA BlocksStep ==
  ASSUME NEW c, NEW b, BlocksInv(c, b), NEW tok \in CodeToken
  PROVE  BlocksInv(Append(c, tok), BlocksAfter(b, Len(c) + 1, tok))
  <1> DEFINE n == Len(c)
             s == Len(b.stack)
             d == Append(c, tok)
             e == BlocksAfter(b, n + 1, tok)
             stack == b.stack
  <1>1. /\ c \in Seq(CodeToken) /\ b \in BlocksType /\ OpenBlocks(c, stack) /\ ClosedBlocks(c, stack)
        /\ \A x \in 1..s : TellsBlock(c, stack[x])
        /\ TellsPrev(c, b) /\ b.found = Found(c)
    BY DEF BlocksInv
  <1>2. stack \in Seq(BlockType)  BY <1>1, BlocksAre
  <1>3. n \in Nat /\ s \in Nat /\ n + 1 \in Nat /\ Len(c) = n /\ Len(stack) = s  BY <1>1, <1>2
  <1> HIDE DEF n, s
  <1>4. Longer(c, d, n, tok)  BY <1>1, <1>3, AppendIs
  <1>5. d \in Seq(CodeToken) /\ Len(d) = n + 1  BY <1>4 DEF Longer
  <1> HIDE DEF d
  <1>6. TellsPrev(d, e)  BY <1>1, <1>3, <1>4, TellsLast
  <1>7. ~ClosesHandler(tok, stack, s) => Found(d) = Found(c)  BY <1>1, <1>2, <1>3, <1>4, FoundSame
  <1>8. SUFFICES ASSUME NEW next, next = e.stack
                 PROVE  /\ e \in BlocksType
                        /\ \E r \in Nat : next \in Seq(BlockType) /\ Len(next) = r /\ Follows(tok, n, stack, next, s, r) /\ \A x \in 1..r : TellsBlock(d, next[x])
                        /\ e.found = Found(d)
    <2> HIDE DEF e, stack
    <2> DEFINE next == e.stack
    <2>1. /\ e \in BlocksType /\ e.found = Found(d)
          /\ \E r \in Nat : next \in Seq(BlockType) /\ Len(next) = r /\ Follows(tok, n, stack, next, s, r) /\ \A x \in 1..r : TellsBlock(d, next[x])
      BY <1>8
    <2> HIDE DEF next
    <2>2. PICK r \in Nat : next \in Seq(BlockType) /\ Len(next) = r /\ Follows(tok, n, stack, next, s, r) /\ \A x \in 1..r : TellsBlock(d, next[x])
      BY <2>1
    <2>3. OpenBlocks(d, next)  BY <1>1, <1>2, <1>3, <1>4, <2>2, OpenStep
    <2>4. ClosedBlocks(d, next)  BY <1>1, <1>2, <1>3, <1>4, <2>2, ClosedStep
    <2>5. BlocksInv(d, e)  BY <1>5, <1>6, <2>1, <2>2, <2>3, <2>4 DEF BlocksInv, next
    <2> QED  BY <2>5 DEF d, e, n
  <1> DEFINE spoilt == Spoilt(stack, tok)
  <1>0. Spoils(tok, stack, spoilt, s)  BY <1>2, <1>3, SpoiltIs
  <1> HIDE DEF spoilt
  <1>9. /\ spoilt \in Seq(BlockType) /\ Len(spoilt) = s
        /\ \A x \in 1..s : spoilt[x].open = stack[x].open
    BY <1>0 DEF Spoils
  <1>10. \A x \in 1..s : TellsBlock(d, spoilt[x])  BY <1>1, <1>2, <1>3, <1>4, TellsSpoilt DEF spoilt
  <1>11. CASE tok.t = "begin"
    <2> DEFINE block == Block(b.prev, n + 1, b.line)
    <2>1. e \in BlocksType /\ e.stack = Append(spoilt, block) /\ e.found = b.found
      BY <1>1, <1>3, <1>11, AfterBegin DEF spoilt
    <2>2. block \in BlockType
      <3>1. b.prev \in {"none", "try", "tried", "handler"} /\ b.line \in Nat  BY <1>1, BlocksAre
      <3> QED  BY <1>3, <3>1 DEF Block, BlockType
    <2>3. TellsBlock(d, block)  BY <1>1, <1>3, <1>4, TellsNew
    <2>4. block.open = n + 1  BY DEF Block
    <2>5. ~ClosesHandler(tok, stack, s)  BY <1>11 DEF ClosesHandler
    <2> HIDE DEF block, e, stack, BlockType
    <2>6. next \in Seq(BlockType) /\ Len(next) = s + 1 /\ next[s + 1] = block /\ \A x \in 1..s : next[x] = spoilt[x]
      BY <1>3, <1>8, <1>9, <2>1, <2>2
    <2>7. Follows(tok, n, stack, next, s, s + 1)  BY <1>9, <1>11, <2>4, <2>6 DEF Follows
    <2>8. \A x \in 1..s + 1 : TellsBlock(d, next[x])
      <3>1. \A x \in 1..s + 1 : x \in 1..s \/ x = s + 1  BY <1>3
      <3> QED  BY <1>10, <2>3, <2>6, <3>1
    <2>9. s + 1 \in Nat  BY <1>3
    <2> QED  BY <1>1, <1>7, <2>1, <2>5, <2>6, <2>7, <2>8, <2>9
  <1>12. CASE tok.t = "end" /\ s > 0
    <2> DEFINE r == s - 1
    <2>1. r \in Nat /\ s = r + 1 /\ s \in 1..s  BY <1>3, <1>12
    <2> HIDE DEF r
    <2>2. /\ e \in BlocksType /\ e.stack = SubSeq(stack, 1, r)
          /\ e.found = (IF stack[r + 1].what # "handler" THEN b.found ELSE FoundBehind(b.found, stack[r + 1]))
      <3>1. tok.t = "end" /\ Len(b.stack) = r + 1 /\ n + 1 \in Nat  BY <1>3, <1>12, <2>1
      <3> QED  BY <1>1, <2>1, <3>1, AfterEnd
    <2>3. ClosesHandler(tok, stack, s) => Found(d) = FoundBehind(Found(c), stack[s])  BY <1>1, <1>2, <1>3, <1>4, FoundNew
    <2>4. ClosesHandler(tok, stack, s) <=> stack[s].what = "handler"  BY <1>12, <2>1 DEF ClosesHandler
    <2>5. e.found = Found(d)  BY <1>1, <1>7, <2>1, <2>2, <2>3, <2>4
    <2> HIDE DEF e, stack, BlockType
    <2>6. next \in Seq(BlockType) /\ Len(next) = r /\ \A x \in 1..r : next[x] = stack[x]
      BY <1>2, <1>3, <1>8, <2>1, <2>2
    <2>7. Follows(tok, n, stack, next, s, r)  BY <1>12, <2>1, <2>6 DEF Follows
    <2>8. ASSUME NEW x \in 1..r  PROVE TellsBlock(d, next[x])
      <3>1. x \in 1..s /\ x < s  BY <2>1
      <3>2. TellsBlock(d, stack[x])  BY <1>1, <1>2, <1>3, <1>4, <3>1, TellsOuter
      <3> QED  BY <2>6, <3>2
    <2> QED  BY <2>1, <2>2, <2>5, <2>6, <2>7, <2>8
  <1>13. CASE tok.t # "begin" /\ (tok.t = "end" => s = 0)
    <2>1. tok.t = "end" => b.stack = <<>>  BY <1>2, <1>3, <1>13
    <2>2. e \in BlocksType /\ e.stack = spoilt /\ e.found = b.found  BY <1>1, <1>3, <1>13, <2>1, AfterOther DEF spoilt
    <2>3. ~ClosesHandler(tok, stack, s)  BY <1>3, <1>13 DEF ClosesHandler
    <2> HIDE DEF e, stack
    <2>4. Follows(tok, n, stack, next, s, s)  BY <1>8, <1>9, <1>13, <2>2 DEF Follows
    <2> QED  BY <1>1, <1>3, <1>7, <1>8, <1>9, <1>10, <2>2, <2>3, <2>4
  <1>14. s > 0 \/ s = 0  BY <1>3
  <1> QED  BY <1>11, <1>12, <1>13, <1>14

\* Nothing is open or found before the first token.
LEMMA BlocksStart ==
  ASSUME NEW b, b = [stack |-> <<>>, prev |-> "none", line |-> 0, found |-> {}]
  PROVE  BlocksInv(<<>>, b)
  <1> DEFINE c == <<>>
  <1>1. c \in Seq(CodeToken) /\ Len(c) = 0 /\ b \in BlocksType /\ b.stack = <<>> /\ Len(b.stack) = 0 /\ b.prev = "none" /\ b.found = {}
    BY DEF BlocksType
  <1> HIDE DEF c
  <1>2. Held(c, 0) = 0  BY HeldIs
  <1>3. OpenBlocks(c, b.stack) /\ ClosedBlocks(c, b.stack) /\ \A x \in 1..Len(b.stack) : TellsBlock(c, b.stack[x])
    BY <1>1, <1>2 DEF OpenBlocks, ClosedBlocks
  <1>4. ~IsTryBodyBefore(c, 1)  BY DEF IsTryBodyBefore
  <1>5. TellsPrev(c, b)  BY <1>1, <1>4 DEF TellsPrev, HandlerAt
  <1>6. \A k : k \notin SilentHandlers(c)
    <2>1. \A k, q : ~Caught(c, k, q)  BY <1>1 DEF Caught
    <2> QED  BY <1>1, <2>1, SilentHandlerIs DEF SilentAt
  <1>7. Found(c) = {}  BY <1>6 DEF Found
  <1>8. BlocksInv(c, b)  BY <1>1, <1>3, <1>5, <1>7 DEF BlocksInv
  <1> QED  BY <1>8 DEF c

LEMMA BlocksTell ==
  ASSUME NEW c, NEW b, BlocksInv(c, b)
  PROVE  CatchBlocks(c) = {f.line : f \in b.found}
  <1>1. b.found = Found(c)  BY DEF BlocksInv
  <1>2. ASSUME NEW l  PROVE l \in CatchBlocks(c) <=> l \in {f.line : f \in b.found}
    <2> HIDE DEF SilentHandlers
    <2>1. l \in CatchBlocks(c) <=> \E k \in SilentHandlers(c) : l = c[k].line  BY DEF CatchBlocks
    <2>2. l \in {f.line : f \in b.found} <=> \E k \in SilentHandlers(c) : l = [at |-> k + 1, line |-> c[k].line].line
      BY <1>1 DEF Found
    <2> QED  BY <2>1, <2>2
  <1> QED  BY <1>2

PythonLine == Seq(SourceToken)
\* The headers whose suites may go on, and those whose suites are silent so far.
IsOpen(text, l) == IsExceptHeader(text[l]) /\ Len(text[l]) = 1 /\ \A m \in l + 1..Len(text) : Deeper(text, l, m)
IsSilent(text, l) == Suite(text, l) \subseteq IgnoredInPython
HeaderAt(text, l) == [n |-> text[l][1].n, line |-> l, silent |-> IsSilent(text, l)]
\* The open headers and the lines agree.
SuitesInv(text, s) ==
  /\ s.open = {HeaderAt(text, l) : l \in {k \in 1..Len(text) : IsOpen(text, k)}}
  /\ s.found = {l \in 1..Len(text) : IsExceptHeader(text[l]) /\ IsSilent(text, l) /\ ~IsOpen(text, l)}

Grows(t, u, n, l) == Len(u) = n + 1 /\ u[n + 1] = l /\ \A k \in 1..n : u[k] = t[k]
Under(t, k, l) == l = <<>> \/ l[1].n > t[k][1].n

\* A line belongs to the suites that are open and that it is indented under.
LEMMA SuiteGrows ==
  ASSUME NEW t \in Seq(PythonLine), NEW n \in Nat, Len(t) = n, NEW l \in PythonLine, NEW u, Grows(t, u, n, l), NEW k \in 1..n
  PROVE  /\ u[k] = t[k]
         /\ IsOpen(u, k) <=> IsOpen(t, k) /\ Under(t, k, l)
         /\ IsExceptHeader(t[k]) =>
              (IsSilent(u, k) <=> IsSilent(t, k) /\ (IsOpen(t, k) /\ Under(t, k, l) => Kinds(l) \subseteq IgnoredInPython))
  <1>1. Len(u) = n + 1 /\ u[n + 1] = l /\ \A j \in 1..n : u[j] = t[j]  BY DEF Grows
  <1>2. u[k] = t[k]  BY <1>1
  <1>0. t[k] \in Seq(SourceToken) /\ Len(t[k]) \in Nat
    <2>1. t[k] \in PythonLine  OBVIOUS
    <2>2. t[k] \in Seq(SourceToken)  BY <2>1 DEF PythonLine
    <2> QED  BY <2>2
  <1>3. \A m \in k + 1..n : Deeper(u, k, m) <=> Deeper(t, k, m)
    <2>1. \A m \in k + 1..n : m \in 1..n  OBVIOUS
    <2> QED  BY <1>1, <1>2, <2>1 DEF Deeper
  <1>4. Deeper(u, k, n + 1) <=> Under(t, k, l)  BY <1>1, <1>2 DEF Deeper, Under
  <1>5. \A m : m \in k + 1..n + 1 <=> m \in k + 1..n \/ m = n + 1  OBVIOUS
  <1>6. IsOpen(u, k) <=> IsOpen(t, k) /\ Under(t, k, l)
    BY <1>1, <1>2, <1>3, <1>4, <1>5 DEF IsOpen
  <1>7. ASSUME IsExceptHeader(t[k]), Len(t[k]) > 1
        PROVE  IsSilent(u, k) <=> IsSilent(t, k) /\ (IsOpen(t, k) /\ Under(t, k, l) => Kinds(l) \subseteq IgnoredInPython)
    <2>0. Len(u[k]) > 1  BY <1>2, <1>7
    <2>1. Suite(t, k) = Kinds(Tail(t[k])) /\ Suite(u, k) = Kinds(Tail(u[k]))  BY <1>7, <2>0 DEF Suite
    <2>3. Suite(u, k) = Suite(t, k)  BY <1>2, <2>1
    <2>4. IsSilent(u, k) <=> IsSilent(t, k)  BY <2>3 DEF IsSilent
    <2>2. ~IsOpen(t, k)
      <3> DEFINE w == Len(t[k])
      <3>1. w \in Nat /\ w > 1  BY <1>0, <1>7
      <3> HIDE DEF w
      <3>2. w # 1  BY <3>1
      <3> QED  BY <3>2 DEF IsOpen, w
    <2> QED  BY <2>2, <2>4
  <1>8. ASSUME IsExceptHeader(t[k]), ~(Len(t[k]) > 1)
        PROVE  IsSilent(u, k) <=> IsSilent(t, k) /\ (IsOpen(t, k) /\ Under(t, k, l) => Kinds(l) \subseteq IgnoredInPython)
    <2>1. Len(t[k]) = 1
      <3>1. t[k] # <<>>  BY <1>8 DEF IsExceptHeader
      <3>2. Len(t[k]) # 0  BY <1>0, <3>1, EmptySeq
      <3> DEFINE w == Len(t[k])
      <3>3. w \in Nat /\ w # 0 /\ ~(w > 1)  BY <1>0, <1>8, <3>2
      <3> HIDE DEF w
      <3>4. w = 1  BY <3>3
      <3> QED  BY <3>4 DEF w
    <2>2. Suite(t, k) = UNION {Kinds(t[m]) : m \in Below(t, k)} /\ Suite(u, k) = UNION {Kinds(u[m]) : m \in Below(u, k)}
      BY <1>2, <1>8 DEF Suite
    <2>3. IsSilent(t, k) <=> \A m \in Below(t, k) : Kinds(t[m]) \subseteq IgnoredInPython  BY <2>2 DEF IsSilent
    <2>4. IsSilent(u, k) <=> \A m \in Below(u, k) : Kinds(u[m]) \subseteq IgnoredInPython  BY <2>2 DEF IsSilent
    <2>5. \A m : m \in Below(t, k) <=> m \in k + 1..n /\ \A i \in k + 1..m : Deeper(t, k, i)  BY DEF Below
    <2>6. \A m : m \in Below(u, k) <=> m \in k + 1..n + 1 /\ \A i \in k + 1..m : Deeper(u, k, i)  BY <1>1 DEF Below
    <2>7. IsOpen(t, k) <=> \A i \in k + 1..n : Deeper(t, k, i)  BY <1>8, <2>1 DEF IsOpen
    <2>8. n + 1 \in Below(u, k) <=> IsOpen(t, k) /\ Under(t, k, l)  BY <1>3, <1>4, <1>5, <2>6, <2>7
    <2>9. ASSUME NEW m, m # n + 1  PROVE m \in Below(u, k) <=> m \in Below(t, k)
      <3>1. m \in k + 1..n => \A i \in k + 1..m : i \in k + 1..n  OBVIOUS
      <3> QED  BY <1>3, <1>5, <2>5, <2>6, <2>9, <3>1
    <2>10. n + 1 \notin Below(t, k)  BY <2>5
    <2>11. \A m \in Below(t, k) : m \in 1..n  BY <2>5
    <2> HIDE DEF Below, IsOpen, Kinds
    <2> QED  BY <1>1, <2>3, <2>4, <2>8, <2>9, <2>10, <2>11
  <1> QED  BY <1>2, <1>6, <1>7, <1>8

\* What was known of the suites, one by one.
LEMMA OpenSuites ==
  ASSUME NEW t, NEW n \in Nat, Len(t) = n, NEW s, SuitesInv(t, s)
  PROVE  /\ \A o : o \in s.open <=> \E k \in 1..n : IsOpen(t, k) /\ o = HeaderAt(t, k)
         /\ \A k : k \in s.found <=> k \in 1..n /\ IsExceptHeader(t[k]) /\ IsSilent(t, k) /\ ~IsOpen(t, k)
  <1>1. s.open = {HeaderAt(t, k) : k \in {j \in 1..n : IsOpen(t, j)}}  BY DEF SuitesInv
  <1>2. s.found = {k \in 1..n : IsExceptHeader(t[k]) /\ IsSilent(t, k) /\ ~IsOpen(t, k)}  BY DEF SuitesInv
  <1> HIDE DEF HeaderAt, IsOpen, IsSilent, IsExceptHeader
  <1>3. \A o : o \in s.open <=> \E k \in 1..n : IsOpen(t, k) /\ o = HeaderAt(t, k)  BY <1>1
  <1> QED  BY <1>2, <1>3

LEMMA SuitesKnown ==
  ASSUME NEW t, NEW n \in Nat, Len(t) = n, NEW s,
         \A o : o \in s.open <=> \E k \in 1..n : IsOpen(t, k) /\ o = HeaderAt(t, k),
         \A k : k \in s.found <=> k \in 1..n /\ IsExceptHeader(t[k]) /\ IsSilent(t, k) /\ ~IsOpen(t, k)
  PROVE  SuitesInv(t, s)
  <1>1. s.open = {HeaderAt(t, k) : k \in {j \in 1..n : IsOpen(t, j)}}
    <2> HIDE DEF HeaderAt, IsOpen
    <2> QED  OBVIOUS
  <1>2. s.found = {k \in 1..n : IsExceptHeader(t[k]) /\ IsSilent(t, k) /\ ~IsOpen(t, k)}
    <2> HIDE DEF IsSilent, IsOpen, IsExceptHeader
    <2> QED  OBVIOUS
  <1> QED  BY <1>1, <1>2 DEF SuitesInv

LEMMA NewLineSuite ==
  ASSUME NEW t, NEW n \in Nat, NEW l \in PythonLine, NEW u, Grows(t, u, n, l)
  PROVE  /\ IsOpen(u, n + 1) <=> IsExceptHeader(l) /\ Len(l) = 1
         /\ HeaderAt(u, n + 1) = [n |-> l[1].n, line |-> n + 1, silent |-> IsSilent(u, n + 1)]
         /\ IsExceptHeader(l) => (IsSilent(u, n + 1) <=> Len(l) = 1 \/ Kinds(Tail(l)) \subseteq IgnoredInPython)
         /\ IsExceptHeader(l) => (Len(l) > 1 <=> Len(l) # 1)
  <1>1. Len(u) = n + 1 /\ u[n + 1] = l  BY DEF Grows
  <1>2. (n + 1) + 1..n + 1 = {}  OBVIOUS
  <1>3. IsOpen(u, n + 1) <=> IsExceptHeader(l) /\ Len(l) = 1  BY <1>1, <1>2 DEF IsOpen
  <1>4. HeaderAt(u, n + 1) = [n |-> l[1].n, line |-> n + 1, silent |-> IsSilent(u, n + 1)]
    <2> HIDE DEF IsSilent
    <2> QED  BY <1>1 DEF HeaderAt
  <1>5. ASSUME IsExceptHeader(l)
        PROVE  Len(l) > 1 <=> Len(l) # 1
    <2>1. l \in Seq(SourceToken) /\ l # <<>>  BY <1>5 DEF PythonLine, IsExceptHeader
    <2>2. Len(l) \in Nat /\ Len(l) # 0  BY <2>1, EmptySeq
    <2> DEFINE w == Len(l)
    <2>3. w \in Nat /\ w # 0  BY <2>2
    <2> HIDE DEF w
    <2>4. w > 1 <=> w # 1  BY <2>3
    <2> QED  BY <2>4 DEF w
  <1>6. ASSUME IsExceptHeader(l)
        PROVE  IsSilent(u, n + 1) <=> Len(l) = 1 \/ Kinds(Tail(l)) \subseteq IgnoredInPython
    <2>1. CASE Len(l) = 1
      <3>1. ~(Len(u[n + 1]) > 1)  BY <1>1, <1>5, <1>6, <2>1
      <3>2. Below(u, n + 1) = {}  BY <1>1, <1>2 DEF Below
      <3>3. Suite(u, n + 1) = UNION {Kinds(u[m]) : m \in Below(u, n + 1)}  BY <3>1 DEF Suite
      <3>4. Suite(u, n + 1) = {}
        <4> HIDE DEF Below, Kinds
        <4> QED  BY <3>2, <3>3
      <3> QED  BY <2>1, <3>4 DEF IsSilent
    <2>2. CASE Len(l) # 1
      <3>1. Len(u[n + 1]) > 1  BY <1>1, <1>5, <1>6, <2>2
      <3>2. Suite(u, n + 1) = Kinds(Tail(u[n + 1]))  BY <3>1 DEF Suite
      <3>3. Suite(u, n + 1) = Kinds(Tail(l))  BY <1>1, <3>2
      <3> QED  BY <2>2, <3>3 DEF IsSilent
    <2> QED  BY <2>1, <2>2
  <1> QED  BY <1>3, <1>4, <1>5, <1>6

\* The suites behind a line that is not blank, one by one.
LEMMA SuitesAfterIs ==
  ASSUME NEW s, NEW at, NEW l, l # <<>>
  PROVE  /\ \A x : x \in SuitesAfter(s, at, l).open <=>
              \/ \E o \in s.open : o.n < l[1].n /\ x = [o EXCEPT !.silent = o.silent /\ Kinds(l) \subseteq IgnoredInPython]
              \/ IsExceptHeader(l) /\ Len(l) = 1 /\ x = [n |-> l[1].n, line |-> at, silent |-> TRUE]
         /\ \A k : k \in SuitesAfter(s, at, l).found <=>
              \/ k \in s.found
              \/ \E o \in s.open : ~(o.n < l[1].n) /\ o.silent /\ k = o.line
              \/ IsExceptHeader(l) /\ Len(l) > 1 /\ Kinds(Tail(l)) \subseteq IgnoredInPython /\ k = at
  <1> DEFINE K == Kinds(l) \subseteq IgnoredInPython
             under == {o \in s.open : o.n < l[1].n}
             a == {[o EXCEPT !.silent = @ /\ K] : o \in under}
             b == IF IsExceptHeader(l) /\ Len(l) = 1 THEN {[n |-> l[1].n, line |-> at, silent |-> TRUE]} ELSE {}
             f == {o.line : o \in {c \in s.open \ under : c.silent}}
             g == IF IsExceptHeader(l) /\ Len(l) > 1 /\ Kinds(Tail(l)) \subseteq IgnoredInPython THEN {at} ELSE {}
  <1>1. SuitesAfter(s, at, l) = [found |-> s.found \cup f \cup g, open |-> a \cup b]  BY DEF SuitesAfter
  <1>2. \A x : x \in a <=> \E o \in s.open : o.n < l[1].n /\ x = [o EXCEPT !.silent = o.silent /\ K]
    <2> HIDE DEF K
    <2> QED  OBVIOUS
  <1>3. \A x : x \in b <=> IsExceptHeader(l) /\ Len(l) = 1 /\ x = [n |-> l[1].n, line |-> at, silent |-> TRUE]
    <2> HIDE DEF IsExceptHeader
    <2> QED  OBVIOUS
  <1>4. \A k : k \in f <=> \E o \in s.open : ~(o.n < l[1].n) /\ o.silent /\ k = o.line  OBVIOUS
  <1>5. \A k : k \in g <=> IsExceptHeader(l) /\ Len(l) > 1 /\ Kinds(Tail(l)) \subseteq IgnoredInPython /\ k = at
    <2> HIDE DEF IsExceptHeader, Kinds
    <2> QED  OBVIOUS
  <1> HIDE DEF a, b, f, g
  <1>6. SuitesAfter(s, at, l).open = a \cup b /\ SuitesAfter(s, at, l).found = s.found \cup f \cup g
    <2> DEFINE e == SuitesAfter(s, at, l)
    <2>1. e = [found |-> s.found \cup f \cup g, open |-> a \cup b]  BY <1>1
    <2> HIDE DEF e
    <2>2. e.open = a \cup b /\ e.found = s.found \cup f \cup g  BY <2>1
    <2> QED  BY <2>2 DEF e
  <1>7. \A x : x \in SuitesAfter(s, at, l).open <=> x \in a \/ x \in b  BY <1>6
  <1>8. \A k : k \in SuitesAfter(s, at, l).found <=> k \in s.found \/ k \in f \/ k \in g  BY <1>6
  <1> QED  BY <1>2, <1>3, <1>4, <1>5, <1>7, <1>8

\* The suites are told of right behind every line.
LEMMA SuitesStep ==
  ASSUME NEW t \in Seq(PythonLine), NEW n \in Nat, Len(t) = n, NEW l \in PythonLine, NEW u, Grows(t, u, n, l),
         NEW s, SuitesInv(t, s)
  PROVE  SuitesInv(u, SuitesAfter(s, n + 1, l))
  <1> DEFINE e == SuitesAfter(s, n + 1, l)
             K == Kinds(l) \subseteq IgnoredInPython
  <1>1. Len(u) = n + 1 /\ n + 1 \in Nat  BY DEF Grows
  <1>2. \A o : o \in s.open <=> \E k \in 1..n : IsOpen(t, k) /\ o = HeaderAt(t, k)  BY OpenSuites
  <1>3. \A k : k \in s.found <=> k \in 1..n /\ IsExceptHeader(t[k]) /\ IsSilent(t, k) /\ ~IsOpen(t, k)  BY OpenSuites
  <1>4. \A k \in 1..n : u[k] = t[k]  BY SuiteGrows
  <1>5. \A k \in 1..n : IsOpen(u, k) <=> IsOpen(t, k) /\ Under(t, k, l)  BY SuiteGrows
  <1>6. \A k \in 1..n : IsExceptHeader(t[k]) => (IsSilent(u, k) <=> IsSilent(t, k) /\ (IsOpen(t, k) /\ Under(t, k, l) => K))
    BY SuiteGrows
  <1>7. \A k \in 1..n : IsOpen(t, k) => IsExceptHeader(t[k])  BY DEF IsOpen
  <1>8. IsOpen(u, n + 1) <=> IsExceptHeader(l) /\ Len(l) = 1  BY NewLineSuite
  <1>9. HeaderAt(u, n + 1) = [n |-> l[1].n, line |-> n + 1, silent |-> IsSilent(u, n + 1)]  BY NewLineSuite
  <1>10. IsExceptHeader(l) => (IsSilent(u, n + 1) <=> Len(l) = 1 \/ Kinds(Tail(l)) \subseteq IgnoredInPython)  BY NewLineSuite
  <1>11. IsExceptHeader(l) => (Len(l) > 1 <=> Len(l) # 1)  BY NewLineSuite
  <1>12. u[n + 1] = l  BY DEF Grows
  <1>13. \A k : k \in 1..n + 1 <=> k \in 1..n \/ k = n + 1  OBVIOUS
  <1>14. CASE l = <<>>
    <2>1. e = s  BY <1>14 DEF SuitesAfter
    <2>2. K
      <3>1. Kinds(l) = {}  BY <1>14 DEF Kinds
      <3> QED  BY <3>1
    <2>3. \A k \in 1..n : Under(t, k, l)  BY <1>14 DEF Under
    <2>4. ~IsExceptHeader(l)  BY <1>14 DEF IsExceptHeader
    <2>5. \A k \in 1..n : IsOpen(t, k) => HeaderAt(u, k) = HeaderAt(t, k)
      <3>1. \A k \in 1..n : IsOpen(t, k) => (IsSilent(u, k) <=> IsSilent(t, k))  BY <1>6, <1>7, <2>2
      <3>2. ASSUME NEW k \in 1..n, IsOpen(t, k)  PROVE IsSilent(u, k) = IsSilent(t, k)
        <4>1. IsSilent(u, k) <=> IsSilent(t, k)  BY <3>1, <3>2
        <4>2. IsSilent(u, k) \in BOOLEAN /\ IsSilent(t, k) \in BOOLEAN  BY DEF IsSilent
        <4> QED  BY <4>1, <4>2 DEF IsSilent
      <3> HIDE DEF IsSilent
      <3> QED  BY <1>4, <3>2 DEF HeaderAt
    <2> HIDE DEF K, e, IsOpen, IsSilent, IsExceptHeader, HeaderAt, Under
    <2>6. \A o : o \in s.open <=> \E k \in 1..n + 1 : IsOpen(u, k) /\ o = HeaderAt(u, k)
      BY <1>2, <1>5, <1>8, <1>13, <2>3, <2>4, <2>5
    <2>7. \A k : k \in s.found <=> k \in 1..n + 1 /\ IsExceptHeader(u[k]) /\ IsSilent(u, k) /\ ~IsOpen(u, k)
      BY <1>3, <1>4, <1>5, <1>6, <1>12, <1>13, <2>2, <2>3, <2>4
    <2>8. SuitesInv(u, s)  BY <1>1, <2>6, <2>7, SuitesKnown
    <2> QED  BY <2>1, <2>8 DEF e
  <1>15. CASE l # <<>>
    <2>1. \A x : x \in e.open <=>
              \/ \E o \in s.open : o.n < l[1].n /\ x = [o EXCEPT !.silent = o.silent /\ K]
              \/ IsExceptHeader(l) /\ Len(l) = 1 /\ x = [n |-> l[1].n, line |-> n + 1, silent |-> TRUE]
      BY <1>15, SuitesAfterIs
    <2>2. \A k : k \in e.found <=>
              \/ k \in s.found
              \/ \E o \in s.open : ~(o.n < l[1].n) /\ o.silent /\ k = o.line
              \/ IsExceptHeader(l) /\ Len(l) > 1 /\ Kinds(Tail(l)) \subseteq IgnoredInPython /\ k = n + 1
      BY <1>15, SuitesAfterIs
    <2>3. \A k \in 1..n : HeaderAt(t, k).n = t[k][1].n /\ HeaderAt(t, k).line = k /\ HeaderAt(t, k).silent = IsSilent(t, k)
      <3> HIDE DEF IsSilent
      <3> QED  BY DEF HeaderAt
    <2>4. \A k \in 1..n : Under(t, k, l) <=> HeaderAt(t, k).n < l[1].n  BY <1>15, <2>3 DEF Under
    <2>5. ASSUME NEW k \in 1..n, IsOpen(t, k), Under(t, k, l)
          PROVE  HeaderAt(u, k) = [HeaderAt(t, k) EXCEPT !.silent = HeaderAt(t, k).silent /\ K]
      <3>1. IsSilent(u, k) <=> IsSilent(t, k) /\ K  BY <1>6, <1>7, <2>5
      <3>2. IsSilent(u, k) = (IsSilent(t, k) /\ K)
        <4>1. IsSilent(u, k) \in BOOLEAN  BY DEF IsSilent
        <4> QED  BY <3>1, <4>1 DEF IsSilent
      <3> HIDE DEF IsSilent, K
      <3>3. HeaderAt(u, k) = [n |-> t[k][1].n, line |-> k, silent |-> IsSilent(u, k)]  BY <1>4 DEF HeaderAt
      <3>4. [HeaderAt(t, k) EXCEPT !.silent = HeaderAt(t, k).silent /\ K] = [n |-> t[k][1].n, line |-> k, silent |-> IsSilent(t, k) /\ K]
        BY DEF HeaderAt
      <3> QED  BY <3>2, <3>3, <3>4
    <2>6. IsExceptHeader(l) /\ Len(l) = 1 => HeaderAt(u, n + 1) = [n |-> l[1].n, line |-> n + 1, silent |-> TRUE]
      <3>1. ASSUME IsExceptHeader(l), Len(l) = 1  PROVE IsSilent(u, n + 1) = TRUE
        <4>1. IsSilent(u, n + 1)  BY <1>10, <3>1
        <4> QED  BY <4>1 DEF IsSilent
      <3> HIDE DEF IsSilent
      <3> QED  BY <1>9, <3>1
    <2> HIDE DEF K, e, IsOpen, IsSilent, IsExceptHeader, HeaderAt, Under
    <2>7. ASSUME NEW x
          PROVE  x \in e.open <=> \E k \in 1..n + 1 : IsOpen(u, k) /\ x = HeaderAt(u, k)
      <3>1. (\E o \in s.open : o.n < l[1].n /\ x = [o EXCEPT !.silent = o.silent /\ K]) <=> \E k \in 1..n : IsOpen(u, k) /\ x = HeaderAt(u, k)
        <4>1. ASSUME NEW o \in s.open, o.n < l[1].n, x = [o EXCEPT !.silent = o.silent /\ K]
              PROVE  \E k \in 1..n : IsOpen(u, k) /\ x = HeaderAt(u, k)
          <5>1. PICK k \in 1..n : IsOpen(t, k) /\ o = HeaderAt(t, k)  BY <1>2
          <5>2. Under(t, k, l)  BY <2>4, <4>1, <5>1
          <5>3. x = HeaderAt(u, k)  BY <2>5, <4>1, <5>1, <5>2
          <5> QED  BY <1>5, <5>1, <5>2, <5>3
        <4>2. ASSUME NEW k \in 1..n, IsOpen(u, k), x = HeaderAt(u, k)
              PROVE  \E o \in s.open : o.n < l[1].n /\ x = [o EXCEPT !.silent = o.silent /\ K]
          <5>1. IsOpen(t, k) /\ Under(t, k, l)  BY <1>5, <4>2
          <5>2. HeaderAt(t, k) \in s.open /\ HeaderAt(t, k).n < l[1].n  BY <1>2, <2>4, <5>1
          <5>3. x = [HeaderAt(t, k) EXCEPT !.silent = HeaderAt(t, k).silent /\ K]  BY <2>5, <4>2, <5>1
          <5> QED  BY <5>2, <5>3
        <4> QED  BY <4>1, <4>2
      <3>2. (IsExceptHeader(l) /\ Len(l) = 1 /\ x = [n |-> l[1].n, line |-> n + 1, silent |-> TRUE]) <=> IsOpen(u, n + 1) /\ x = HeaderAt(u, n + 1)
        BY <1>8, <2>6
      <3> QED  BY <1>13, <2>1, <3>1, <3>2
    <2>8. ASSUME NEW k
          PROVE  k \in e.found <=> k \in 1..n + 1 /\ IsExceptHeader(u[k]) /\ IsSilent(u, k) /\ ~IsOpen(u, k)
      <3>1. CASE k \in 1..n
        <4>1. k # n + 1  BY <3>1
        <4>2. (\E o \in s.open : ~(o.n < l[1].n) /\ o.silent /\ k = o.line) <=> IsOpen(t, k) /\ ~Under(t, k, l) /\ IsSilent(t, k)
          BY <1>2, <2>3, <2>4, <3>1
        <4>3. k \in e.found <=> (IsExceptHeader(t[k]) /\ IsSilent(t, k) /\ ~IsOpen(t, k)) \/ (IsOpen(t, k) /\ ~Under(t, k, l) /\ IsSilent(t, k))
          BY <1>3, <2>2, <3>1, <4>1, <4>2
        <4> QED  BY <1>4, <1>5, <1>6, <1>7, <1>13, <3>1, <4>3
      <3>2. CASE k = n + 1
        <4>1. k \notin 1..n  BY <3>2
        <4>2. ~\E o \in s.open : ~(o.n < l[1].n) /\ o.silent /\ k = o.line  BY <1>2, <2>3, <4>1
        <4>3. k \in e.found <=> IsExceptHeader(l) /\ Len(l) > 1 /\ Kinds(Tail(l)) \subseteq IgnoredInPython
          BY <1>3, <2>2, <3>2, <4>1, <4>2
        <4> QED  BY <1>8, <1>10, <1>11, <1>12, <1>13, <3>2, <4>3
      <3>3. CASE k \notin 1..n + 1
        <4>1. ~\E o \in s.open : ~(o.n < l[1].n) /\ o.silent /\ k = o.line  BY <1>2, <1>13, <2>3, <3>3
        <4> QED  BY <1>3, <1>13, <2>2, <3>3, <4>1
      <3> QED  BY <1>13, <3>1, <3>2, <3>3
    <2>9. SuitesInv(u, e)  BY <1>1, <2>7, <2>8, SuitesKnown
    <2> QED  BY <2>9 DEF e
  <1> QED  BY <1>14, <1>15

LEMMA SuitesTell ==
  ASSUME NEW t, NEW n \in Nat, Len(t) = n, DOMAIN t = 1..n, NEW s, SuitesInv(t, s)
  PROVE  ExceptSuites(t) = SilentSuites(s)
  <1>1. \A o : o \in s.open <=> \E k \in 1..n : IsOpen(t, k) /\ o = HeaderAt(t, k)  BY OpenSuites
  <1>2. \A k : k \in s.found <=> k \in 1..n /\ IsExceptHeader(t[k]) /\ IsSilent(t, k) /\ ~IsOpen(t, k)  BY OpenSuites
  <1>3. \A k : k \in ExceptSuites(t) <=> k \in 1..n /\ IsExceptHeader(t[k]) /\ IsSilent(t, k)
    BY DEF ExceptSuites, IsSilent
  <1>4. \A k \in 1..n : IsOpen(t, k) => IsExceptHeader(t[k])  BY DEF IsOpen
  <1>5. \A k : k \in SilentSuites(s) <=> k \in s.found \/ \E o \in s.open : o.silent /\ k = o.line
    BY DEF SilentSuites
  <1>6. \A k \in 1..n : HeaderAt(t, k).line = k /\ HeaderAt(t, k).silent = IsSilent(t, k)
    <2> HIDE DEF IsSilent
    <2> QED  BY DEF HeaderAt
  <1> HIDE DEF HeaderAt, IsOpen, IsSilent, ExceptSuites, SilentSuites, IsExceptHeader
  <1>7. ASSUME NEW k  PROVE k \in ExceptSuites(t) <=> k \in SilentSuites(s)
    <2>1. (\E o \in s.open : o.silent /\ k = o.line) <=> k \in 1..n /\ IsOpen(t, k) /\ IsSilent(t, k)
      BY <1>1, <1>6
    <2> QED  BY <1>2, <1>3, <1>4, <1>5, <2>1
  <1>8. \A k : k \in ExceptSuites(t) <=> k \in SilentSuites(s)  BY <1>7
  <1>9. ExceptSuites(t) \subseteq SilentSuites(s) /\ SilentSuites(s) \subseteq ExceptSuites(t)  BY <1>8
  <1> QED  BY <1>9

-----------------------------------------------------------------------------
\* The masking, and what it has passed on.
MaskState == {"code", "quote", "tick", "line", "block"}
ContextType == [reading : BOOLEAN, state : MaskState, line : Nat, begun : BOOLEAN, misled : BOOLEAN]
\* The lines of Python that have been read, text, and the one being read.
Behind(text) ==
  IF context.reading THEN Len(lines) = Len(text) + 1 /\ \A k \in 1..Len(text) : lines[k] = text[k] ELSE lines = text
MaskType ==
  /\ language \in {"script", "python"} /\ rest \in Seq(SourceToken) /\ context \in ContextType
  /\ lines \in Seq(PythonLine)
  /\ ~context.reading => rest = <<>>
  /\ language = "python" => Len(lines) = context.line
\* The inductive invariant of the search for errors caught and forgotten.
SilenceInv ==
  /\ MaskType
  /\ language = "script" => BlocksInv(code, blocks)
  /\ language = "python" => \E text \in Seq(PythonLine) : Behind(text) /\ SuitesInv(text, suites)

LEMMA SilenceStart == ScanInit => SilenceInv
  <1> SUFFICES ASSUME ErrorInit  PROVE SilenceInv  BY DEF ScanInit
  <1>1. BlocksInv(code, blocks)  BY BlocksStart DEF ErrorInit
  <1>2. <<>> \in Seq(PythonLine) /\ <<>> \in Seq(SourceToken) /\ Len(<<>>) = 0  OBVIOUS
  <1>3. MaskType
    <2>1. context = [reading |-> FALSE, state |-> "code", line |-> 0, begun |-> FALSE, misled |-> FALSE]  BY DEF ErrorInit
    <2>2. context \in ContextType /\ context.line = 0  BY <2>1 DEF ContextType, MaskState
    <2>3. rest = <<>> /\ lines = <<>> /\ language \in {"script", "python"}  BY DEF ErrorInit
    <2> QED  BY <1>2, <2>2, <2>3 DEF MaskType
  <1>4. SuitesInv(<<>>, suites)
    <2> DEFINE t == <<>>
    <2>1. Len(t) = 0  OBVIOUS
    <2> HIDE DEF t
    <2>2. 1..0 = {} /\ 0 \in Nat  OBVIOUS
    <2>3. suites.open = {} /\ suites.found = {}  BY DEF ErrorInit
    <2>4. \A o : o \in suites.open <=> \E k \in 1..0 : IsOpen(t, k) /\ o = HeaderAt(t, k)  BY <2>2, <2>3
    <2>5. \A k : k \in suites.found <=> k \in 1..0 /\ IsExceptHeader(t[k]) /\ IsSilent(t, k) /\ ~IsOpen(t, k)  BY <2>2, <2>3
    <2>6. SuitesInv(t, suites)  BY <2>1, <2>2, <2>4, <2>5, SuitesKnown
    <2> QED  BY <2>6 DEF t
  <1>5. Behind(<<>>)  BY DEF Behind, ErrorInit
  <1> QED  BY <1>1, <1>2, <1>3, <1>4, <1>5 DEF SilenceInv

ContextBegun(c, n, state) == [c EXCEPT !.reading = TRUE, !.line = n, !.begun = FALSE, !.state = state]
ContextRead(c, state, misled) == [c EXCEPT !.state = state, !.begun = TRUE, !.misled = misled]
ContextEnded(c) == [c EXCEPT !.reading = FALSE]

LEMMA BegunIs ==
  ASSUME NEW c \in ContextType, NEW n \in Nat, NEW state \in MaskState
  PROVE  ContextBegun(c, n, state) \in ContextType /\ ContextBegun(c, n, state).reading /\ ContextBegun(c, n, state).line = n
  BY DEF ContextType, ContextBegun

LEMMA ReadIs ==
  ASSUME NEW c \in ContextType, NEW state \in MaskState, NEW misled \in BOOLEAN
  PROVE  /\ ContextRead(c, state, misled) \in ContextType
         /\ ContextRead(c, state, misled).reading = c.reading /\ ContextRead(c, state, misled).line = c.line
  BY DEF ContextType, ContextRead

LEMMA EndedIs ==
  ASSUME NEW c \in ContextType
  PROVE  ContextEnded(c) \in ContextType /\ ~ContextEnded(c).reading /\ ContextEnded(c).line = c.line
  BY DEF ContextType, ContextEnded

LEMMA NextLineKeeps == SilenceInv /\ NextLine => SilenceInv'
  <1> SUFFICES ASSUME SilenceInv, NextLine  PROVE SilenceInv'  OBVIOUS
  <1>1. MaskType  BY DEF SilenceInv
  <1>2. rest' \in Seq(SourceToken)  BY SilentAssumption DEF NextLine
  <1>3. context' \in ContextType /\ context'.reading /\ context'.line = context.line + 1 /\ ~context.reading
    <2> DEFINE state == IF context.state = "line" THEN "code" ELSE context.state
    <2>1. context \in ContextType  BY <1>1 DEF MaskType
    <2>2. state \in MaskState  BY <2>1 DEF ContextType, MaskState
    <2>3. ~context.reading /\ context' = ContextBegun(context, context.line + 1, state)  BY DEF NextLine, ContextBegun
    <2>4. context.line + 1 \in Nat  BY <2>1 DEF ContextType
    <2> HIDE DEF state
    <2> QED  BY <2>1, <2>2, <2>3, <2>4, BegunIs
  <1>4. language' = language /\ code' = code /\ blocks' = blocks /\ suites' = suites  BY DEF NextLine
  <1>5. CASE language = "script"
    <2>1. lines' = lines  BY <1>5 DEF NextLine
    <2>2. MaskType'  BY <1>1, <1>2, <1>3, <1>4, <1>5, <2>1 DEF MaskType
    <2>3. BlocksInv(code, blocks)'
      <3>1. BlocksInv(code, blocks)  BY <1>5 DEF SilenceInv
      <3> QED  BY <1>4, <3>1
    <2> QED  BY <1>4, <1>5, <2>2, <2>3 DEF SilenceInv
  <1>6. CASE language = "python"
    <2>1. lines' = Append(lines, <<>>) /\ <<>> \in PythonLine  BY <1>6 DEF NextLine, PythonLine
    <2>2. lines \in Seq(PythonLine) /\ Len(lines) = context.line /\ context.line \in Nat  BY <1>1, <1>6 DEF MaskType, ContextType
    <2>3. lines' \in Seq(PythonLine) /\ Len(lines') = Len(lines) + 1 /\ \A k \in 1..Len(lines) : lines'[k] = lines[k]
      <3> HIDE DEF PythonLine
      <3> QED  BY <2>1, <2>2
    <2>4. MaskType'  BY <1>1, <1>2, <1>3, <1>4, <2>2, <2>3 DEF MaskType
    <2>5. SuitesInv(lines, suites)
      <3>1. PICK text \in Seq(PythonLine) : Behind(text) /\ SuitesInv(text, suites)  BY <1>6 DEF SilenceInv
      <3> QED  BY <1>3, <3>1 DEF Behind
    <2>6. \E text \in Seq(PythonLine) : Len(lines') = Len(text) + 1 /\ (\A k \in 1..Len(text) : lines'[k] = text[k]) /\ SuitesInv(text, suites')
      BY <1>4, <2>2, <2>3, <2>5
    <2>7. (\E text \in Seq(PythonLine) : Behind(text) /\ SuitesInv(text, suites))'
      BY <1>3, <2>6 DEF Behind
    <2> QED  BY <1>4, <1>6, <2>4, <2>7 DEF SilenceInv
  <1> QED  BY <1>1, <1>5, <1>6 DEF MaskType

ContextKept(c, misled) == [c EXCEPT !.begun = TRUE, !.misled = misled]
ContextWent(c) == [c EXCEPT !.begun = TRUE]

LEMMA KeptIs ==
  ASSUME NEW c \in ContextType, NEW misled \in BOOLEAN
  PROVE  ContextKept(c, misled) \in ContextType /\ ContextKept(c, misled).reading = c.reading /\ ContextKept(c, misled).line = c.line
  BY DEF ContextType, ContextKept

LEMMA WentIs ==
  ASSUME NEW c \in ContextType
  PROVE  ContextWent(c) \in ContextType /\ ContextWent(c).reading = c.reading /\ ContextWent(c).line = c.line
  BY DEF ContextType, ContextWent

LEMMA RestIs == MaskType /\ rest # <<>> => context.reading /\ Head(rest) \in SourceToken /\ Tail(rest) \in Seq(SourceToken)
  <1> SUFFICES ASSUME MaskType, rest # <<>>  PROVE context.reading /\ Head(rest) \in SourceToken /\ Tail(rest) \in Seq(SourceToken)  OBVIOUS
  <1>1. rest \in Seq(SourceToken) /\ context \in ContextType /\ (~context.reading => rest = <<>>)  BY DEF MaskType
  <1> QED  BY <1>1

LEMMA MaskTokenKeeps == SilenceInv /\ MaskToken => SilenceInv'
  <1> SUFFICES ASSUME SilenceInv, MaskToken  PROVE SilenceInv'  OBVIOUS
  <1>1. MaskType  BY DEF SilenceInv
  <1>2. rest # <<>> /\ rest' = Tail(rest) /\ UNCHANGED <<language, code, lines, blocks, suites>>  BY DEF MaskToken
  <1>3. context.reading /\ Tail(rest) \in Seq(SourceToken)  BY <1>1, <1>2, RestIs
  <1> DEFINE state == StateAfter(context.state, Head(rest))
             misled == context.misled \/ (context.state = "code" /\ Head(rest).t \in Foreign)
  <1>4. context' = ContextRead(context, state, misled)  BY DEF MaskToken, ContextRead
  <1>5. context \in ContextType  BY <1>1 DEF MaskType
  <1>6. state \in MaskState
    <2>1. context.state \in MaskState  BY <1>5 DEF ContextType
    <2> QED  BY <2>1 DEF StateAfter, MaskState, Literal, LineComment
  <1>7. misled \in BOOLEAN  BY <1>5 DEF ContextType
  <1> HIDE DEF state, misled
  <1>8. context' \in ContextType /\ context'.reading = context.reading /\ context'.line = context.line
    BY <1>4, <1>5, <1>6, <1>7, ReadIs
  <1>9. MaskType'  BY <1>1, <1>2, <1>3, <1>8 DEF MaskType
  <1>10. \A text : Behind(text)' <=> Behind(text)  BY <1>2, <1>8 DEF Behind
  <1> QED  BY <1>2, <1>9, <1>10 DEF SilenceInv

LEMMA KeepTokenKeeps == SilenceInv /\ KeepToken => SilenceInv'
  <1> SUFFICES ASSUME SilenceInv, KeepToken  PROVE SilenceInv'  OBVIOUS
  <1>1. MaskType  BY DEF SilenceInv
  <1>2. rest # <<>> /\ rest' = Tail(rest) /\ UNCHANGED <<language, suites>>  BY DEF KeepToken
  <1>3. context.reading /\ Tail(rest) \in Seq(SourceToken) /\ Head(rest) \in SourceToken  BY <1>1, <1>2, RestIs
  <1>4. context \in ContextType /\ lines \in Seq(PythonLine)  BY <1>1 DEF MaskType
  <1>5. CASE language = "script"
    <2> DEFINE tok == [t |-> Head(rest).t, line |-> context.line]
    <2>1. code' = Append(code, tok) /\ blocks' = BlocksAfter(blocks, Len(code'), tok) /\ context' = ContextWent(context) /\ lines' = lines
      BY <1>5 DEF KeepToken, ContextWent
    <2>2. tok \in CodeToken
      <3>1. Head(rest).t \in STRING /\ context.line \in Nat  BY <1>3, <1>4 DEF SourceToken, ContextType
      <3> QED  BY <3>1 DEF CodeToken
    <2> HIDE DEF tok
    <2>3. BlocksInv(code, blocks)  BY <1>5 DEF SilenceInv
    <2>4. Len(code') = Len(code) + 1
      <3>1. code \in Seq(CodeToken)  BY <2>3 DEF BlocksInv
      <3> QED  BY <2>1, <2>2, <3>1
    <2>5. BlocksInv(Append(code, tok), BlocksAfter(blocks, Len(code) + 1, tok))  BY <2>2, <2>3, BlocksStep
    <2>6. BlocksInv(code', blocks')  BY <2>1, <2>4, <2>5
    <2>7. context' \in ContextType /\ context'.reading = context.reading /\ context'.line = context.line
      BY <1>4, <2>1, WentIs
    <2>8. MaskType'  BY <1>1, <1>2, <1>3, <2>1, <2>7 DEF MaskType
    <2>9. (language = "script" => BlocksInv(code, blocks))' /\ ~(language = "python")'  BY <1>2, <1>5, <2>6
    <2> QED  BY <2>8, <2>9 DEF SilenceInv
  <1>6. CASE language = "python"
    <2> DEFINE n == Len(lines)
               latest == Append(lines[n], Head(rest))
               misled == context.misled \/ (context.begun /\ lines[Len(lines)] = <<>>)
    <2>0. PICK text \in Seq(PythonLine) : Behind(text) /\ SuitesInv(text, suites)  BY <1>6 DEF SilenceInv
    <2>1. n = Len(text) + 1 /\ \A k \in 1..Len(text) : lines[k] = text[k]  BY <1>3, <2>0 DEF Behind
    <2>2. n \in 1..n /\ Len(text) \in Nat  BY <2>1
    <2>3. lines' = [lines EXCEPT ![n] = latest] /\ context' = ContextKept(context, misled) /\ UNCHANGED <<code, blocks>>
      BY <1>6 DEF KeepToken, ContextKept
    <2>4. latest \in PythonLine
      <3>1. lines[n] \in PythonLine  BY <1>4, <2>2
      <3> QED  BY <1>3, <3>1 DEF PythonLine
    <2>5. misled \in BOOLEAN  BY <1>4 DEF ContextType
    <2> HIDE DEF n, latest, misled, PythonLine
    <2>6. context' \in ContextType /\ context'.reading = context.reading /\ context'.line = context.line
      BY <1>4, <2>3, <2>5, KeptIs
    <2>7. lines' \in Seq(PythonLine) /\ Len(lines') = n /\ \A k \in 1..n : k # n => lines'[k] = lines[k]
      <3>1. Len(lines) = n  BY DEF n
      <3> QED  BY <1>4, <2>2, <2>3, <2>4, <3>1
    <2>8. Len(lines') = Len(lines)  BY <2>7 DEF n
    <2>9. MaskType'  BY <1>1, <1>2, <1>3, <2>6, <2>7, <2>8 DEF MaskType
    <2>10. Len(lines') = Len(text) + 1 /\ \A k \in 1..Len(text) : lines'[k] = text[k]
      <3>1. \A k \in 1..Len(text) : k \in 1..n /\ k # n  BY <2>1, <2>2
      <3> QED  BY <2>1, <2>7, <3>1
    <2>11. Behind(text)' /\ SuitesInv(text, suites)'  BY <1>2, <1>3, <2>0, <2>6, <2>10 DEF Behind
    <2>12. (\E t \in Seq(PythonLine) : Behind(t) /\ SuitesInv(t, suites))'  BY <2>0, <2>11
    <2> QED  BY <1>2, <1>6, <2>9, <2>12 DEF SilenceInv
  <1> QED  BY <1>1, <1>5, <1>6 DEF MaskType

LEMMA LineReadKeeps == SilenceInv /\ LineRead => SilenceInv'
  <1> SUFFICES ASSUME SilenceInv, LineRead  PROVE SilenceInv'  OBVIOUS
  <1>1. MaskType  BY DEF SilenceInv
  <1>2. context.reading /\ rest = <<>> /\ UNCHANGED <<language, rest, code, lines, blocks>>  BY DEF LineRead
  <1>3. context \in ContextType /\ lines \in Seq(PythonLine)  BY <1>1 DEF MaskType
  <1>4. context' = ContextEnded(context)  BY DEF LineRead, ContextEnded
  <1>5. context' \in ContextType /\ ~context'.reading /\ context'.line = context.line  BY <1>3, <1>4, EndedIs
  <1>6. MaskType'  BY <1>1, <1>2, <1>5 DEF MaskType
  <1>7. CASE language = "script"
    <2>1. BlocksInv(code, blocks)  BY <1>7 DEF SilenceInv
    <2>2. (language = "script" => BlocksInv(code, blocks))' /\ ~(language = "python")'  BY <1>2, <1>7, <2>1
    <2> QED  BY <1>6, <2>2 DEF SilenceInv
  <1>8. CASE language = "python"
    <2>1. PICK text \in Seq(PythonLine) : Behind(text) /\ SuitesInv(text, suites)  BY <1>8 DEF SilenceInv
    <2> DEFINE n == Len(text)
               latest == lines[Len(lines)]
    <2>2. n \in Nat /\ Len(lines) = n + 1 /\ \A k \in 1..n : lines[k] = text[k]  BY <1>2, <2>1 DEF Behind
    <2>3. latest \in PythonLine /\ Grows(text, lines, n, latest)
      <3> HIDE DEF PythonLine
      <3>1. Len(lines) \in 1..Len(lines)  BY <2>2
      <3>2. lines[Len(lines)] \in PythonLine  BY <1>3, <3>1
      <3> QED  BY <2>2, <3>2 DEF Grows
    <2>4. suites' = SuitesAfter(suites, n + 1, latest)
      <3>1. context.line = Len(lines)  BY <1>1, <1>8 DEF MaskType
      <3> QED  BY <1>8, <2>2, <3>1 DEF LineRead
    <2>5. Len(text) = n  OBVIOUS
    <2> HIDE DEF n, latest
    <2>6. SuitesInv(lines, SuitesAfter(suites, n + 1, latest))  BY <2>1, <2>2, <2>3, <2>5, SuitesStep
    <2>8. (\E t \in Seq(PythonLine) : Behind(t) /\ SuitesInv(t, suites))'
      <3>1. lines' = lines /\ SuitesInv(lines', suites')  BY <1>2, <2>4, <2>6
      <3>2. lines' \in Seq(PythonLine)  BY <1>3, <3>1
      <3> QED  BY <1>5, <3>1, <3>2 DEF Behind
    <2> QED  BY <1>2, <1>8, <1>6, <2>8 DEF SilenceInv
  <1> QED  BY <1>1, <1>7, <1>8 DEF MaskType

LEMMA SilenceStep == SilenceInv /\ [ScanNext]_scanVars => SilenceInv'
  <1> SUFFICES ASSUME SilenceInv, [ScanNext]_scanVars  PROVE SilenceInv'  OBVIOUS
  <1>1. CASE ErrorNext
    BY <1>1, NextLineKeeps, MaskTokenKeeps, KeepTokenKeeps, LineReadKeeps DEF ErrorNext
  <1>2. CASE UNCHANGED errorVars
    BY <1>2 DEF errorVars, SilenceInv, MaskType, Behind
  <1> QED  BY <1>1, <1>2 DEF ScanNext, scanVars

\* However deep the blocks and suites are nested: once a line is read, those
\* reported are the ones the language says do nothing with an error.
THEOREM SilenceIsReported == ScanSpec => []SilenceIsFound
  <1>1. ASSUME SilenceInv  PROVE SilenceIsFound
    <2>1. SUFFICES ASSUME ~context.reading
                   PROVE  IF language = "script" THEN CatchBlocks(code) = {f.line : f \in blocks.found} ELSE ExceptSuites(lines) = SilentSuites(suites)
      BY DEF SilenceIsFound
    <2>2. CASE language = "script"
      BY <1>1, <2>2, BlocksTell DEF SilenceInv
    <2>3. CASE language # "script"
      <3>1. language = "python" /\ lines \in Seq(PythonLine)  BY <1>1, <2>3 DEF SilenceInv, MaskType
      <3>2. SuitesInv(lines, suites)  BY <1>1, <2>1, <3>1 DEF SilenceInv, Behind
      <3>3. Len(lines) \in Nat /\ DOMAIN lines = 1..Len(lines)  BY <3>1
      <3> QED  BY <2>3, <3>2, <3>3, SuitesTell
    <2> QED  BY <2>2, <2>3
  <1> QED  BY <1>1, SilenceStart, SilenceStep, PTL DEF ScanSpec

=============================================================================
