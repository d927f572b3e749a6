--------------------------- MODULE MCRequestPath ---------------------------
(* Instances of RequestPath for TLC: one agent, a handful of policy specs. *)
EXTENDS RequestPathInv

CONSTANTS s1, s2, a1, a2, c1, m1, m2

OneSend == {s1}
TwoSends == {s1, s2}
OneAgent == {a1}
OneCancel == {c1}
SameAgent == [s \in Sends |-> a1]
CancelFirst == [c \in Cancels |-> s1]
MsgOf == [s \in Sends |-> m1]
Msgs == {m1, m2}
PolAgents == {a1, a2}

RuleFor(type, patterns) == [named |-> TRUE, type |-> type, patterns |-> patterns]
SpecFor(agent, rules) == [agentRef |-> agent, rules |-> rules]

DenyRule == RuleFor("deny", {{m1}})
PauseRule == RuleFor("require-approval", {{m1, m2}, {m2}})

(* Deny, pause, both at once, and a rule without patterns. *)
GateSpecs == {SpecFor(AnyAgent, {DenyRule}),
              SpecFor(a1, {PauseRule}),
              SpecFor(a1, {RuleFor("deny", {}), PauseRule})}

(* Policies that deny, in force for this agent or for another one. *)
DenySpecs == {SpecFor(AnyAgent, {DenyRule, PauseRule}), SpecFor(a2, {DenyRule})}

NoSpecs == {}
=============================================================================
