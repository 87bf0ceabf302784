------------------------------ MODULE MCApprovals ------------------------------
(***************************************************************************)
(* Approvals for TLC: two risky contents of one rule and in the same       *)
(* words, so that an edit leaves a finding of the same rule in the same    *)
(* place, two growths that cannot be told apart either, and contents of    *)
(* other rules and levels.                                                 *)
(***************************************************************************)
EXTENDS Approvals, TLC

CONSTANTS Other, k1, k2

Key(k) == [rule |-> "check.l4", level |-> 4, says |-> "key", rest |-> k]
Hook == [rule |-> "AI-005", level |-> 5, says |-> "hook", rest |-> Other]
NoFile == [rule |-> NoRule, level |-> 4, says |-> "no file", rest |-> Other]
Cycle(k) == [rule |-> "check.l2", level |-> 2, says |-> "1 more", rest |-> k]

Contents == {NoFile, Key(k1), Key(k2), Hook}
Growths == {Cycle(k1), Cycle(k2)}
RuleIds == {"check.l2", "check.l4", "AI-005"}
HookWarns == "AI-005" :> "warn"
TwoKeys == {<<Key(k1), Key(k2)>>}
AllOrTailAndGrowth ==
  [files : {{1, 2}}, grown : {{}}] \cup [files : {{2}}, grown : {{g} : g \in Growths}]

JobsAndKeysSymmetric == Permutations(Job) \cup Permutations({k1, k2})
=============================================================================
