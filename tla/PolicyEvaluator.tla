-------------------------- MODULE PolicyEvaluator --------------------------
(***************************************************************************)
(* internal/controller/policy_evaluator.go and the validation of           *)
(* kubecopilotpolicy_controller.go.                                        *)
(*                                                                         *)
(* A command pattern stands for the set of messages it matches.  A policy  *)
(* is the object as the operator's cache holds it: spec and status.        *)
(***************************************************************************)
EXTENDS FiniteSets

CONSTANTS
  Messages,      \* message texts
  PolicyAgents,  \* agents a policy may name
  AnyAgent       \* spec.agentRef = ""

(* api/v1/kubecopilotpolicy_types.go: PolicyRule, KubeCopilotPolicySpec *)
Rule == [named : BOOLEAN,
         type : {"deny", "require-approval"},
         patterns : SUBSET SUBSET Messages]

PolicySpec == [agentRef : PolicyAgents \cup {AnyAgent}, rules : SUBSET Rule]

matchesPatterns(message, patterns) == \E pat \in patterns : message \in pat

(* The rules of the policies that apply: active, for this agent, matching. *)
MatchingRules(policies, agentRef, message) ==
  {r \in UNION {p.spec.rules : p \in {x \in policies : x.active /\ x.spec.agentRef \in {AnyAgent, agentRef}}} :
     matchesPatterns(message, r.patterns)}

(* EvaluatePolicies: the first deny rule met returns at once, an approval  *)
(* rule is only remembered, so the order of the list does not matter.      *)
EvaluatePolicies(policies, agentRef, message) ==
  LET rules == MatchingRules(policies, agentRef, message)
  IN IF \E r \in rules : r.type = "deny" THEN "deny"
     ELSE IF rules # {} THEN "require-approval"
     ELSE "allow"

(* The validation loop of KubeCopilotPolicyReconciler.Reconcile. *)
ValidPolicy(spec) == \A r \in spec.rules : r.named /\ r.patterns # {}
=============================================================================
