--------------------------------- MODULE Watch ---------------------------------
(***************************************************************************)
(* `audit-risk watch`: check a workspace whenever something in it changes  *)
(* (run_watch_command of src/engine/src/cli.rs).                           *)
(*                                                                         *)
(* The loop compares the modification times of the files with those it saw *)
(* last.  When they differ it checks the workspace, notes the findings     *)
(* that it has not noted within the last ten minutes, appends to the audit *)
(* log if there are such findings or the gate has changed, and tells them: *)
(* all of them as JSON lines, but no more than fit on a page for people.   *)
(* Meanwhile the user edits files and the clock goes on, or is set back.   *)
(***************************************************************************)
EXTENDS Naturals, FiniteSets

CONSTANTS
  Walked,     \* the files that the walk over the workspace finds
  Log,        \* the audit log, if it is one of them
  Text,       \* contents of files
  Rules,      \* per text, the rules that it breaks
  Gate,       \* per rule, the rank of its gate effect; 0 is allow
  Severity,   \* per rule, the rank of its severity; 0 is low
  Limit,      \* how many findings fit on a page
  Verbose,    \* --verbose: pages have findings of low severity, too
  Window,     \* WATCH_DEBOUNCE_WINDOW_MS
  MaxTime,    \* bound: the clock
  MaxEdits,   \* bound: edits by the user
  MaxTicks,   \* bound: changes of the clock
  MaxStarts   \* bound: sessions

Rule == DOMAIN Gate
Source == Walked \ {Log}
Key == Source \X Rule   \* build_watch_finding_key: file_path::rule_id

ASSUME RulesAssumption == Rules \in [Text -> SUBSET Rule] /\ Gate \in [Rule -> Nat]
ASSUME PageAssumption == Severity \in [Rule -> Nat] /\ Limit \in Nat /\ Verbose \in BOOLEAN
ASSUME WindowAssumption == Window \in Nat
ASSUME WatchBoundsAssumption ==
  MaxTime \in Nat /\ MaxEdits \in Nat /\ MaxTicks \in Nat /\ MaxStarts \in Nat

VARIABLES
  files,    \* the text and the modification time of each file but the log
  written,  \* the modification time of the log
  now,      \* the clock
  stage,    \* where the loop is
  jsonl,    \* --jsonl: does the session write JSON lines?
  previous, \* previous_snapshot
  seen,     \* the texts that the check in progress has read
  verdict,  \* of the check in progress: when it was judged, and what is to be told
  emitted,  \* emitted_findings: when a key was last noted
  gate,     \* previous_audit_gate: the gate last recorded, or none
  board,    \* what the observer's dashboard shows
  checks,   \* history: checks begun in this session
  edits,    \* history: edits in this session
  count,    \* the edits, ticks and sessions so far
  checked,  \* history: the texts that the last complete check has read
  recorded, \* history: when each key was last put on record
  told,     \* history: when each key was last told in this session
  cut,      \* history: the keys left out of the output when they were last noted
  blurred   \* history: files saved at the very time at which the snapshot has them
watchVars == <<files, written, now, stage, jsonl, previous, seen, verdict, emitted, gate, board,
               checks, edits, count, checked, recorded, told, cut, blurred>>
world == <<files, written, now, blurred>>
session == <<jsonl, previous, seen, verdict, emitted, gate, board>>
telling == <<told, cut>>
history == <<checks, edits, checked, recorded, telling>>

None == [k \in {} |-> 0]
NoVerdict == [at |-> 0, findings |-> {}, visible |-> {}]
With(f, S, v) == [k \in DOMAIN f \cup S |-> IF k \in S THEN v ELSE f[k]]

\* Fault: the audit log is walked like any other file.
Snapshot_WithLog == [f \in Walked |-> IF f = Log THEN written ELSE files[f].mtime]

\* workspace_snapshot_excluding leaves the audit log out.
Snapshot == [f \in Source |-> files[f].mtime]

\* The findings of a check are those in the texts it has read.
FindingsIn(texts) == {k \in Key : k[1] \in DOMAIN texts /\ k[2] \in Rules[texts[k[1]]]}

\* The strongest gate effect.
GateOf(findings) ==
  LET ranks == {0} \cup {Gate[k[2]] : k \in findings}
  IN  CHOOSE g \in ranks : \A r \in ranks : r <= g

\* now_ms.saturating_sub(previous)
Since(t) == IF now >= t THEN now - t ELSE 0

\* should_emit_watch_finding
ShouldEmit(k) == k \in DOMAIN emitted => Since(emitted[k]) > Window

\* What of the findings an output can have: all, as JSON lines; on a page the most
\* severe of them, those of low severity only with --verbose.
OnPage(findings) == {k \in findings : Verbose \/ Severity[k[2]] > 0}
Pages(findings) ==
  {shown \in SUBSET OnPage(findings) :
     /\ Cardinality(shown) <= Limit
     /\ shown # OnPage(findings) => Cardinality(shown) = Limit
     /\ \A k \in shown, m \in OnPage(findings) \ shown : Severity[k[2]] >= Severity[m[2]]}
Outputs(findings) == IF jsonl THEN {findings} ELSE Pages(findings)

\* Fault: only a change of the gate is recorded.
ShouldAppend_GateOnly(g, visible) == gate # {g}

\* should_append_watch_audit
ShouldAppend(g, visible) == gate # {g} \/ visible # {}

WatchInit ==
  /\ files \in [Source -> [text : Text, mtime : {0}]]
  /\ written = 0
  /\ now = 0
  /\ stage = "off" /\ jsonl = FALSE
  /\ previous = None /\ seen = None /\ verdict = NoVerdict
  /\ emitted = None /\ gate = {} /\ board = {}
  /\ checks = 0 /\ edits = 0
  /\ count = [edits |-> 0, ticks |-> 0, starts |-> 0]
  /\ checked = None /\ recorded = None /\ told = None /\ cut = {}
  /\ blurred = {}

\* A session begins with a snapshot, before the first check.
Start ==
  /\ stage = "off" /\ count.starts < MaxStarts
  /\ count' = [count EXCEPT !.starts = @ + 1]
  /\ jsonl' \in BOOLEAN
  /\ previous' = Snapshot
  /\ stage' = "scan"
  /\ emitted' = None /\ gate' = {} /\ board' = {} /\ told' = None /\ cut' = {}
  /\ seen' = None /\ verdict' = NoVerdict
  /\ checks' = 1 /\ edits' = 0 /\ blurred' = {} /\ checked' = None
  /\ UNCHANGED <<files, written, now, recorded>>

\* build_workspace_check_payload reads one file after the other.
Read(f) ==
  /\ stage = "scan" /\ f \in Source \ DOMAIN seen
  /\ seen' = With(seen, {f}, files[f].text)
  /\ UNCHANGED <<world, history, stage, jsonl, previous, verdict, emitted, gate, board, count>>

\* Fault: what is suppressed is noted again.
Judge_Slides ==
  /\ stage = "scan" /\ DOMAIN seen = Source
  /\ LET findings == FindingsIn(seen)
         visible  == {k \in findings : ShouldEmit(k)}
     IN  /\ verdict' = [at |-> now, findings |-> findings, visible |-> visible]
         /\ emitted' = With(emitted, findings, now)
  /\ checked' = seen
  /\ stage' = "record"
  /\ UNCHANGED <<world, jsonl, previous, seen, gate, board, checks, edits, count, recorded, telling>>

\* Fault: the files are compared with how they were after the check.
Judge_TakesSnapshot ==
  /\ stage = "scan" /\ DOMAIN seen = Source
  /\ LET findings == FindingsIn(seen)
         visible  == {k \in findings : ShouldEmit(k)}
     IN  /\ verdict' = [at |-> now, findings |-> findings, visible |-> visible]
         /\ emitted' = With(emitted, visible, now)
  /\ checked' = seen /\ previous' = Snapshot
  /\ stage' = "record"
  /\ UNCHANGED <<world, jsonl, seen, gate, board, checks, edits, count, recorded, telling>>

\* filter_watch_findings_for_output, and the keys that pass are noted.
Judge ==
  /\ stage = "scan" /\ DOMAIN seen = Source
  /\ LET findings == FindingsIn(seen)
         visible  == {k \in findings : ShouldEmit(k)}
     IN  /\ verdict' = [at |-> now, findings |-> findings, visible |-> visible]
         /\ emitted' = With(emitted, visible, now)
  /\ checked' = seen
  /\ stage' = "record"
  /\ UNCHANGED <<world, jsonl, previous, seen, gate, board, checks, edits, count, recorded, telling>>

\* append_review_audit_entry records all findings of the check; the log's own
\* modification time changes.
Record ==
  /\ stage = "record"
  /\ IF ShouldAppend(GateOf(verdict.findings), verdict.visible)
       THEN /\ gate' = {GateOf(verdict.findings)}
            /\ recorded' = With(recorded, verdict.findings, verdict.at)
            /\ written' = now
       ELSE UNCHANGED <<gate, recorded, written>>
  /\ stage' = "show"
  /\ UNCHANGED <<files, now, blurred, jsonl, previous, seen, verdict, emitted, board,
                 checks, edits, count, checked, telling>>

\* ObserveRuntime::update with all findings, then the output of the visible ones,
\* of which a page can leave some out.
Show ==
  /\ stage = "show"
  /\ board' = verdict.findings
  /\ \E shown \in Outputs(verdict.visible) :
       /\ told' = With(told, shown, verdict.at)
       /\ cut' = (cut \ shown) \cup (verdict.visible \ shown)
  /\ stage' = "poll"
  /\ UNCHANGED <<world, jsonl, previous, seen, verdict, emitted, gate, count, checks, edits, checked, recorded>>

\* A second has passed and the modification times are not those seen last.
Poll ==
  /\ stage = "poll" /\ Snapshot # previous
  /\ previous' = Snapshot
  /\ stage' = "scan" /\ seen' = None /\ checks' = checks + 1
  /\ UNCHANGED <<world, jsonl, verdict, emitted, gate, board, count, edits, checked, recorded, telling>>

\* Any error ends the session - a scan, a walk, an append or an output that
\* fails - and so does the user.
Quit ==
  /\ stage # "off"
  /\ stage' = "off"
  /\ UNCHANGED <<world, session, history, count>>

\* The user saves a file.
SaveFile(f) ==
  /\ count.edits < MaxEdits
  /\ \E x \in Text \ {files[f].text} : files' = [files EXCEPT ![f] = [text |-> x, mtime |-> now]]
  /\ blurred' = IF f \in DOMAIN previous /\ previous[f] = now THEN blurred \cup {f} ELSE blurred
  /\ count' = [count EXCEPT !.edits = @ + 1]
  /\ edits' = edits + 1
  /\ UNCHANGED <<written, now, stage, session, checks, checked, recorded, telling>>

\* Time passes, or the clock is set back.
Tick ==
  /\ count.ticks < MaxTicks
  /\ now' \in (0..MaxTime) \ {now}
  /\ count' = [count EXCEPT !.ticks = @ + 1]
  /\ UNCHANGED <<files, written, blurred, stage, session, history>>

Loop == (\E f \in Source : Read(f)) \/ Judge \/ Record \/ Show \/ Poll
WatchNext == Start \/ Loop \/ Quit \/ (\E f \in Source : SaveFile(f)) \/ Tick

WatchSpec == WatchInit /\ [][WatchNext]_watchVars

\* The loop goes on as long as nothing ends it.
FairSpec == WatchSpec /\ WF_watchVars(Loop)

(***************************************************************************)
(* Properties                                                              *)
(***************************************************************************)
\* A change is never missed: a file saved while its check runs, before or after
\* it is read, while findings are told or between two polls, is read by a later
\* check, unless the session ends.  The code compares modification times in
\* milliseconds, so the exception is a file saved at the very time of the clock
\* that the last snapshot has for it.
Unread(f) == stage # "off" /\ f \in DOMAIN checked /\ checked[f] # files[f].text
ChangesAreChecked == \A f \in Source : Unread(f) ~> (~Unread(f) \/ f \in blurred)

\* watch does not wake itself: after the first check there is at most one for
\* every edit of a file, whatever the checks write to the audit log.
ChecksHaveCause == checks <= 1 + edits

\* Of one rule in one file nothing is told twice within ten minutes, and what is
\* suppressed has been told within them, or was noted within them and found no place
\* on the page.  With --jsonl there are no pages: suppression hides repetitions only.
Age(k) == IF verdict.at >= told[k] THEN verdict.at - told[k] ELSE 0
ToldOncePerWindow ==
  [][(stage = "show" /\ stage' = "poll") =>
       /\ \A k \in verdict.visible \ cut' : k \in DOMAIN told => Age(k) > Window
       /\ \A k \in verdict.findings \ verdict.visible :
            k \in cut \/ (k \in DOMAIN told /\ Age(k) <= Window)
       /\ jsonl => cut' = {}]_watchVars

\* The audit log keeps up with what the user is told, although most checks are
\* not recorded: nothing is told that was not put on record by the same check
\* first, and while watch waits the gate last recorded is that of the last check.
RecordKeepsUp ==
  /\ stage = "show" => \A k \in verdict.visible : k \in DOMAIN recorded /\ recorded[k] = verdict.at
  /\ stage = "poll" => gate = {GateOf(FindingsIn(checked))}
================================================================================
