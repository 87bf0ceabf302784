------------------------------ MODULE AuditEdits ------------------------------
(***************************************************************************)
(* The audit log when something other than audit-risk changes lines that   *)
(* are already in it: an editor, a merge tool, a script.  Commands go on   *)
(* appending (append_audit_entry trusts the last line's integrity_hash and *)
(* checks nothing above it); what the report's replay of the log then says *)
(* of it is the question.                                                  *)
(***************************************************************************)
EXTENDS AuditLog

VARIABLES
  written,  \* history: the records audit-risk wrote, in the order it wrote them
  edits     \* changes made so far (bound)

CONSTANT MaxEdits  \* bound: how many changes are made
ASSUME EditAssumption == MaxEdits \in Nat

editVars == <<vars, written, edits>>

EditInit == Init /\ written = << >> /\ edits = 0

\* A command of audit-risk takes a step; the records that get into the log, with
\* their newline or still without it, are remembered.
CommandStep ==
  /\ Next
  /\ written' = IF file' # file /\ file'[Len(file')].kind = "record"
                THEN Append(written, file'[Len(file')]) ELSE written
  /\ UNCHANGED edits

\* An editor may also add the last newline, or strip it.
Edit(lines) ==
  /\ lock = NoProc
  /\ edits < MaxEdits
  /\ edits' = edits + 1
  /\ file' = lines
  /\ open' \in IF lines = << >> THEN {FALSE} ELSE BOOLEAN
  /\ UNCHANGED <<lock, pc, rec, onto, commands, acked, written>>

\* The content of a line is changed and its hash left as it was.
Alter == \E i \in 1..Len(file), t \in Text :
  Edit([file EXCEPT ![i].text = t])

\* A line is deleted.
Delete == \E i \in 1..Len(file) :
  Edit([j \in 1..(Len(file) - 1) |-> file[IF j < i THEN j ELSE j + 1]])

\* Two neighbouring lines change places.
Exchange == \E i \in 1..(Len(file) - 1) :
  Edit([file EXCEPT ![i] = file[i + 1], ![i + 1] = file[i]])

\* A line is copied to another place.
Copy == \E i \in 1..Len(file), k \in 0..Len(file) :
  Edit([j \in 1..(Len(file) + 1) |->
          IF j <= k THEN file[j] ELSE IF j = k + 1 THEN file[i] ELSE file[j - 1]])

EditNext == CommandStep \/ Alter \/ Delete \/ Exchange \/ Copy

EditSpec == EditInit /\ [][EditNext]_editVars

-----------------------------------------------------------------------------
\* A log the report calls verified is a part of the history: its lines are records
\* audit-risk wrote, unchanged and in the order in which it wrote them, whatever was
\* altered, deleted, moved or copied before and whatever was appended after.
VerifiedIsHistory ==
  "verified" \in Integrity(file) =>
    \A i, j \in 1..Len(file) : i <= j =>
      \E m, n \in 1..Len(written) :
        (i < j => m < n) /\ file[i] = written[m] /\ file[j] = written[n]

\* Records below an unhashed line are protected all the same: in a log called
\* partial every record is one audit-risk wrote.
PartialRecordsGenuine ==
  "partial" \in Integrity(file) =>
    \A i \in 1..Len(file) : file[i].kind = "record" =>
      \E n \in 1..Len(written) : file[i] = written[n]
=============================================================================
