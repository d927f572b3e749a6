-------------------------- MODULE MCAgentResources --------------------------
(* Instances of AgentResources for TLC. *)
EXTENDS AgentResources

CONSTANTS a1, r1, r2, x1, x2

Scoped(account, rules, cluster) ==
  [account |-> account, rules |-> rules, cluster |-> cluster, delegateTo |-> {}]

SomeSpecs == {Scoped(x1, r1, NoRules), Scoped(x2, r2, r1)}
=============================================================================
