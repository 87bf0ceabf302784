------------------------------ MODULE MCPreflight ------------------------------
(***************************************************************************)
(* Preflight for TLC: one file, and two graphs, a flat one and one that    *)
(* gained a deep edge and a cycle.                                         *)
(***************************************************************************)
EXTENDS Preflight, TLC

CONSTANT f1

Flat == [nodes |-> 2, edges |-> 1, deep |-> 0, cycles |-> 0, shared |-> {}]
Grown == [nodes |-> 2, edges |-> 2, deep |-> 1, cycles |-> 1, shared |-> {f1}]

TwoGraphs == {Flat, Grown}
OneSelected == {{f1}}

JobsSymmetric == Permutations(Job)
=============================================================================
