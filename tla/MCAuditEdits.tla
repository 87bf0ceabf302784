----------------------------- MODULE MCAuditEdits -----------------------------
(***************************************************************************)
(* AuditEdits for TLC.                                                     *)
(***************************************************************************)
EXTENDS AuditEdits

CONSTANTS t1, t2

TwoTexts == {t1, t2}
ShortHistories == { << >>, <<LegacyLine(t1)>> }
=============================================================================
