------------------------------ MODULE AuditTrail ------------------------------
(***************************************************************************)
(* What the audit log promises: an append-only trail.  It starts as some   *)
(* history, grows by one entry at a time at its end, never loses or        *)
(* changes an entry, and acknowledges only entries it holds.               *)
(***************************************************************************)
EXTENDS Naturals, Sequences

CONSTANT Histories

VARIABLES trail, acked

Init == trail \in Histories /\ acked = {}

Record ==
  /\ Len(trail') = Len(trail) + 1
  /\ SubSeq(trail', 1, Len(trail)) = trail
  /\ UNCHANGED acked

Acknowledge ==
  /\ \E i \in 1..Len(trail) : acked' = acked \cup {trail[i]}
  /\ UNCHANGED trail

Next == Record \/ Acknowledge

Spec == Init /\ [][Next]_<<trail, acked>>
=============================================================================
