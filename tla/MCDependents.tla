---------------------------- MODULE MCDependents ----------------------------
(* Instances of Dependents for TLC: the sessions s1 and s2 have one name,  *)
(* the teams t1 and t2 one coordinator.                                    *)
EXTENDS DependentsInv

CONSTANTS a1, a2, s1, s2, s3, t1, t2, m1, m2, x1, n1, n2, red, blue

TwoNames == [s \in Sessions |-> IF s = s3 THEN n2 ELSE n1]

SessionOf(tenant, strict) == [tenant |-> tenant, agentRef |-> a1, strict |-> strict]
TeamOf(members) == [coordinator |-> a1, members |-> members]
MessageTo(a) == [agentRef |-> a]

SpecOfEach ==
  [k \in Keys |->
     CASE k = s3 -> {SessionOf(red, TRUE), SessionOf(red, FALSE)}
       [] k = s1 -> {SessionOf(red, FALSE)}
       [] k = s2 -> {SessionOf(blue, FALSE)}
       [] k = t1 -> {TeamOf(<<a2>>)}
       [] k = t2 -> {TeamOf(<<a1, a2>>)}
       [] k \in Messages -> {MessageTo(a1)}
       [] k \in Agents -> {<<>>}
       [] OTHER -> {[url |-> "url"]}]

Plan(agents, create) == [agents |-> agents, create |-> create]

(* Two of a kind, or one of a kind whose agent may come later. *)
Scenarios ==
  {Plan({a1}, {s1, s2}), Plan({}, {s3, a1}), Plan({a1, a2}, {t1, t2}), Plan({a1}, {t1, a2}),
   Plan({a1}, {m1, m2}), Plan({}, {m1, a1}), Plan({}, {x1})}
TwoTenants == {Plan({a1}, {s1, s2})}
=============================================================================
