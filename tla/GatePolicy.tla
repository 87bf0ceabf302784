------------------------------ MODULE GatePolicy ------------------------------
(***************************************************************************)
(* The rule policy of a review and the gate it gives                       *)
(* (src/engine/src/cli.rs, resolve_rule_policy, apply_review_policy,       *)
(* strongest_finding_gate_effect and gate_exit_code).  A gate effect the   *)
(* program does not know is written "other".                               *)
(***************************************************************************)
EXTENDS Naturals

CONSTANTS
  Rule,      \* the rule ids findings can carry
  Disabled,  \* disabled_review_rule_ids of the delivery configuration
  Custom     \* the effects stated by the configured rule packages, by rule id

GateEffect == {"allow", "warn", "require_approval", "block"}

ASSUME PolicyAssumption ==
  /\ DOMAIN Custom \subseteq Rule
  /\ \A r \in DOMAIN Custom : Custom[r] \in GateEffect \cup {"other"}

Rank(effect) ==
  CASE effect = "block" -> 3
    [] effect = "require_approval" -> 2
    [] effect = "warn" -> 1
    [] OTHER -> 0

\* The built-in package; a rule it does not know lets its findings pass.
DefaultEffect(r) ==
  CASE r \in {"check.l5", "AI-005"} -> "block"
    [] r \in {"check.l4", "AI-001", "AI-003"} -> "require_approval"
    [] r \in {"check.l3", "check.l2"} -> "warn"
    [] OTHER -> "allow"

\* A rule that is disabled in the configuration is in no package; a configured
\* package overrides the built-in one.
EffectOf(r) ==
  IF r \in Disabled THEN "allow"
  ELSE IF r \in DOMAIN Custom THEN Custom[r]
  ELSE DefaultEffect(r)

\* The decision over a set of effects.
Strongest(effects) ==
  IF \A e \in effects : Rank(e) = 0 THEN "allow"
  ELSE CHOOSE e \in effects : \A d \in effects : Rank(d) <= Rank(e)

\* gate_exit_code = 2: the decision reaches the --fail-on threshold ("off" never).
Fails(decision, failOn) ==
  /\ failOn # "off"
  /\ Rank(decision) >= Rank(failOn)
=============================================================================
