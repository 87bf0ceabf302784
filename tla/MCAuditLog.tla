------------------------------ MODULE MCAuditLog ------------------------------
(***************************************************************************)
(* AuditLog for TLC: small histories.                                      *)
(***************************************************************************)
EXTENDS AuditLog

CONSTANTS t1, t2

TwoTexts == {t1, t2}
SomeHistories ==
  { << >>, <<LegacyLine(t1)>>, <<LegacyLine(t1), LegacyLine(t2)>> }
=============================================================================
