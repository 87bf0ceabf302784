------------------------------- MODULE AuditLog -------------------------------
(***************************************************************************)
(* The audit log of audit-risk: `.hologram/audit.jsonl`, one JSON entry a  *)
(* line, each entry chained to the line before it by a hash                *)
(* (src/engine/src/cli.rs, append_audit_entry and                          *)
(* build_delivery_audit_integrity).  Every check, report, watch round and  *)
(* approve command appends to it from a process of its own; the file lock  *)
(* is held from before the log is read until the handle is dropped, and    *)
(* readers take no lock at all.                                            *)
(*                                                                         *)
(* The file is a sequence of physical lines.  A digest is represented by   *)
(* the sequence of contents it commits to, which is injective: SHA-256     *)
(* without collisions.                                                     *)
(***************************************************************************)
EXTENDS Naturals, Sequences

CONSTANTS
  Proc,         \* the processes that may be appending at one time
  NoProc,       \* nobody holds the lock
  Text,         \* contents of a line: ts, tool, path, action, reason, details
  Histories,    \* the logs an older version may have left: lines without hashes
  HistoryOpen,  \* may the last of those lines lack its newline?  {FALSE} or BOOLEAN
  PartShapes,   \* what an interrupted write may leave: "piece", or the "whole"
                \* record without its newline
  MaxCommands   \* bound: how many appending commands are ever started

Digest == Seq({"entry", "raw"} \X Text)
NoDigest == << >>

Line == [kind : {"record", "legacy", "torn"}, text : Text,
         prev : Digest, hash : Digest]

LegacyLine(t) == [kind |-> "legacy", text |-> t, prev |-> NoDigest, hash |-> NoDigest]

\* A line that is not JSON: a piece of a record, or two lines without a newline
\* between them.
TornLine(t) == [kind |-> "torn", text |-> t, prev |-> NoDigest, hash |-> NoDigest]

ASSUME ProcAssumption == NoProc \notin Proc
ASSUME TextAssumption == Text # {}
ASSUME HistoryAssumption ==
  /\ Histories \subseteq Seq({LegacyLine(t) : t \in Text})
  /\ HistoryOpen \subseteq BOOLEAN
ASSUME ShapeAssumption == PartShapes \subseteq {"piece", "whole"}
ASSUME BoundAssumption == MaxCommands \in Nat

VARIABLES
  file,     \* the physical lines of the log
  open,     \* the last line has no newline yet
  lock,     \* the holder of the exclusive file lock
  pc,       \* where each process is in append_audit_entry
  rec,      \* the record each process is about to write
  onto,     \* the process found the last line without a newline
  commands, \* appending commands started so far (bound)
  acked     \* history: the records whose append returned success

vars == <<file, open, lock, pc, rec, onto, commands, acked>>

-----------------------------------------------------------------------------
(* The hash chain *)

\* Over the keys that a text stands for, and prev_hash (canonical_audit_integrity_payload); what
\* else an entry has, such as the finding_id of an approval, no hash protects.
EntryHash(t, prev) == Append(prev, <<"entry", t>>)
RawHash(line) == << <<"raw", line.text>> >>

Record(t, prev) ==
  [kind |-> "record", text |-> t, prev |-> prev, hash |-> EntryHash(t, prev)]

\* The previous_hash an append derives from the log it read.
TailDigest(lines) ==
  IF lines = << >> THEN NoDigest
  ELSE LET last == lines[Len(lines)]
       IN  IF last.kind = "record" THEN last.hash ELSE RawHash(last)

IsTorn(line) == line.kind = "torn"
Malformed(lines) == \E i \in 1..Len(lines) : IsTorn(lines[i])

HashMatches(line) == line.hash = EntryHash(line.text, line.prev)

\* Fault: the replay does not compare prev_hash.
FollowsChain_NotCompared(lines, i) == TRUE

\* prev_hash names the record before it, or the raw text of an unhashed line
\* directly above it.
FollowsChain(lines, i) ==
  LET before == {j \in 1..(i - 1) : lines[j].kind = "record"}
  IN  \/ before = {} /\ lines[i].prev = NoDigest
      \/ \E j \in before : /\ \A k \in before : k <= j
                           /\ lines[i].prev = lines[j].hash
      \/ /\ i > 1
         /\ lines[i - 1].kind # "record"
         /\ lines[i].prev = RawHash(lines[i - 1])

ChainHolds(lines) ==
  \A i \in 1..Len(lines) :
    lines[i].kind = "record" => HashMatches(lines[i]) /\ FollowsChain(lines, i)

\* Fault: unhashed lines are looked for before the chain is judged.
Integrity_PartialFirst(lines) ==
  IF lines = << >> THEN {"not_started"}
  ELSE IF \E i \in 1..Len(lines) : lines[i].kind = "legacy" THEN {"partial"}
  ELSE IF Malformed(lines) THEN {"failed", "not_started"}
  ELSE IF ~ChainHolds(lines) THEN {"failed"}
  ELSE {"verified"}

\* The statuses that a report may state for the log.  A line torn within a character
\* makes the whole file unreadable, which read_audit_jsonl takes for an empty log.
Integrity(lines) ==
  IF lines = << >> THEN {"not_started"}
  ELSE IF Malformed(lines) THEN {"failed", "not_started"}
  ELSE IF ~ChainHolds(lines) THEN {"failed"}
  ELSE IF \E i \in 1..Len(lines) : lines[i].kind = "legacy" THEN {"partial"}
  ELSE {"verified"}

-----------------------------------------------------------------------------
TypeOK ==
  /\ file \in Seq(Line)
  /\ open \in BOOLEAN
  /\ lock \in Proc \cup {NoProc}
  /\ pc \in [Proc -> {"idle", "waiting", "reading", "writing", "partial", "closing"}]
  /\ rec \in [Proc -> Line]
  /\ onto \in [Proc -> BOOLEAN]
  /\ commands \in Nat
  /\ acked \subseteq Line

Init ==
  /\ file \in Histories
  /\ open \in HistoryOpen
  /\ open => file # << >>
  /\ lock = NoProc
  /\ pc = [p \in Proc |-> "idle"]
  /\ rec = [p \in Proc |-> TornLine(CHOOSE t \in Text : TRUE)]
  /\ onto = [p \in Proc |-> FALSE]
  /\ commands = 0
  /\ acked = {}

\* Bytes of one line reach the end of the file: they start a line of their own,
\* or run on from a last line that has no newline.
Landed(line) ==
  IF open THEN [file EXCEPT ![Len(file)] = TornLine(line.text)]
          ELSE Append(file, line)

\* A command opens the log and calls lock() on it.
Start(p) ==
  /\ pc[p] = "idle"
  /\ commands < MaxCommands
  /\ commands' = commands + 1
  /\ pc' = [pc EXCEPT ![p] = "waiting"]
  /\ UNCHANGED <<file, open, lock, rec, onto, acked>>

\* Fault: the lock is taken although somebody holds it.
Acquire_Shared(p) ==
  /\ pc[p] = "waiting"
  /\ lock' = p
  /\ pc' = [pc EXCEPT ![p] = "reading"]
  /\ UNCHANGED <<file, open, rec, onto, commands, acked>>

\* lock() returns.
Acquire(p) ==
  /\ pc[p] = "waiting"
  /\ lock = NoProc
  /\ lock' = p
  /\ pc' = [pc EXCEPT ![p] = "reading"]
  /\ UNCHANGED <<file, open, rec, onto, commands, acked>>

\* Fault: the refused command keeps the handle, and with it the lock.
Refuse_KeepsLock(p) ==
  /\ pc[p] = "reading"
  /\ Malformed(file)
  /\ pc' = [pc EXCEPT ![p] = "idle"]
  /\ UNCHANGED <<file, open, lock, rec, onto, commands, acked>>

\* The log read has a malformed line, or one torn within a character, on which
\* read_to_string fails: the append is refused.
Refuse(p) ==
  /\ pc[p] = "reading"
  /\ Malformed(file)
  /\ lock' = NoProc
  /\ pc' = [pc EXCEPT ![p] = "idle"]
  /\ UNCHANGED <<file, open, rec, onto, commands, acked>>

\* Fault: malformed lines are skipped, as the readers of the log do.
Prepare_Lenient(p) ==
  /\ pc[p] = "reading"
  /\ \E t \in Text : rec' = [rec EXCEPT ![p] = Record(t, TailDigest(file))]
  /\ onto' = [onto EXCEPT ![p] = open]
  /\ pc' = [pc EXCEPT ![p] = "writing"]
  /\ UNCHANGED <<file, open, lock, commands, acked>>

\* The whole log is read and the record to append is chained to its last line.
Prepare(p) ==
  /\ pc[p] = "reading"
  /\ ~Malformed(file)
  /\ \E t \in Text : rec' = [rec EXCEPT ![p] = Record(t, TailDigest(file))]
  /\ onto' = [onto EXCEPT ![p] = open]
  /\ pc' = [pc EXCEPT ![p] = "writing"]
  /\ UNCHANGED <<file, open, lock, commands, acked>>

\* Fault: the log is opened for writing, not for appending.
WriteAll_Truncates(p) ==
  /\ pc[p] = "writing"
  /\ file' = <<rec[p]>>
  /\ open' = FALSE
  /\ pc' = [pc EXCEPT ![p] = "closing"]
  /\ UNCHANGED <<lock, rec, onto, commands, acked>>

\* write_all puts the record and its newline in the file at once ...
WriteAll(p) ==
  /\ pc[p] = "writing"
  /\ file' = Landed(rec[p])
  /\ open' = FALSE
  /\ pc' = [pc EXCEPT ![p] = "closing"]
  /\ UNCHANGED <<lock, rec, onto, commands, acked>>

\* ... or a part of it first, which readers can see and an error or a crash leave.
WritePart(p) ==
  /\ pc[p] = "writing"
  /\ \E shape \in PartShapes :
       file' = Landed(IF shape = "whole" THEN rec[p] ELSE TornLine(rec[p].text))
  /\ open' = TRUE
  /\ pc' = [pc EXCEPT ![p] = "partial"]
  /\ UNCHANGED <<lock, rec, onto, commands, acked>>

\* The rest of the line follows.
WriteRest(p) ==
  /\ pc[p] = "partial"
  /\ file' = IF onto[p] THEN file ELSE [file EXCEPT ![Len(file)] = rec[p]]
  /\ open' = FALSE
  /\ pc' = [pc EXCEPT ![p] = "closing"]
  /\ UNCHANGED <<lock, rec, onto, commands, acked>>

\* flush succeeds, the handle is dropped and with it the lock, and the command
\* reports success.
Return(p) ==
  /\ pc[p] = "closing"
  /\ lock' = NoProc
  /\ pc' = [pc EXCEPT ![p] = "idle"]
  /\ acked' = acked \cup {rec[p]}
  /\ UNCHANGED <<file, open, rec, onto, commands>>

\* An I/O error ends the append, or the process dies; either way the handle is
\* closed and what was written stays.
Abandon(p) ==
  /\ pc[p] # "idle"
  /\ lock' = IF lock = p THEN NoProc ELSE lock
  /\ pc' = [pc EXCEPT ![p] = "idle"]
  /\ UNCHANGED <<file, open, rec, onto, commands, acked>>

Progress(p) ==
  \/ Acquire(p) \/ Refuse(p) \/ Prepare(p)
  \/ WriteAll(p) \/ WritePart(p) \/ WriteRest(p) \/ Return(p)

Next == \E p \in Proc : Start(p) \/ Progress(p) \/ Abandon(p)

Spec == Init /\ [][Next]_vars

\* A running command keeps running; nothing is assumed about how the system
\* chooses among the processes blocked in lock().
FairSpec == Spec /\ \A p \in Proc : WF_vars(Progress(p))

-----------------------------------------------------------------------------
(* Properties.  A reader takes no lock, so what holds in every state is what  *)
(* a report, an audit query or the approvals of a check can see.              *)

\* However appends, errors and crashes interleave, every record that can be read
\* carries its own hash and names the record (or the unhashed line) before it:
\* two commands never chain to the same predecessor.
ChainUnbroken == ChainHolds(file)

\* A malformed line is never buried: it is the last one, so the log is always a
\* valid chain followed by at most one damaged line.
DamageOnlyAtEnd == \A i \in 1..Len(file) : IsTorn(file[i]) => i = Len(file)

\* Once an append left a malformed line behind, no command writes to the log again.
NoAppendAfterDamage ==
  [][Malformed(file) /\ (\A p \in Proc : pc[p] # "partial") => UNCHANGED file]_vars

\* A record that was acknowledged but cannot be read back is never lost silently:
\* the log it went to is malformed, and no command appends to it any more.
LossIsNoticed ==
  \A r \in acked : (\E i \in 1..Len(file) : file[i] = r) \/ Malformed(file)

\* Every command that calls lock() comes to an end: nobody keeps the lock, and a
\* refused or failed append gives it back.
EveryCommandEnds == \A p \in Proc : (pc[p] = "waiting") ~> (pc[p] = "idle")

-----------------------------------------------------------------------------
(* The log as a trail (AuditTrail)                                           *)

Terminated == IF open THEN SubSeq(file, 1, Len(file) - 1) ELSE file

\* The entries of the log: its lines without a damaged or unfinished last one.
Entries ==
  IF Terminated # << >> /\ IsTorn(Terminated[Len(Terminated)])
  THEN SubSeq(Terminated, 1, Len(Terminated) - 1) ELSE Terminated

\* The acknowledged records that can be read back.
Readable == {r \in acked : \E i \in 1..Len(Entries) : Entries[i] = r}

\* A history whose last line was never finished counts without it.
Beginnings == Histories \cup {SubSeq(h, 1, Len(h) - 1) : h \in Histories \ {<< >>}}

Trail == INSTANCE AuditTrail WITH
  Histories <- Beginnings, trail <- Entries, acked <- Readable

\* The finished lines of the log are an append-only trail, whatever interrupted
\* writes and unfinished histories leave at its end.
ImplementsTrail == Trail!Spec
=============================================================================
