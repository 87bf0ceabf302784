----------------------------- MODULE MCEntitlement -----------------------------
(***************************************************************************)
(* Entitlement for TLC: two commands at once.                              *)
(***************************************************************************)
EXTENDS Entitlement, TLC

CONSTANTS p1, p2

TwoProcesses == {p1, p2}
Interchangeable == Permutations(TwoProcesses)
=============================================================================
