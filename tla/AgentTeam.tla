----------------------------- MODULE AgentTeam -----------------------------
(***************************************************************************)
(* KubeCopilotAgentTeamReconciler (kubecopilotagentteam_controller.go): a  *)
(* team whose agents exist makes its members the delegates of its          *)
(* coordinator.  Several teams may name one coordinator.                   *)
(***************************************************************************)
EXTENDS ControllerRuntime

(* KubeCopilotAgentTeamSpec. *)
TeamSpec == [coordinator : Agents, members : Seq(Agents)]

ASSUME TeamAssumption == \A t \in Teams : \A spec \in SpecsOf[t] : spec \in TeamSpec /\ spec.members # <<>>

VARIABLE
  overruled         \* history: teams whose coordinator another team wrote since
                    \* they last found or made it delegate to their members

TeamTypeOK == overruled \subseteq Teams
TeamInit == overruled = {}

team == Mine("team")
TeamAt(step) == work["team"].step = step
AgentsOf(spec) == {spec.coordinator} \cup {spec.members[i] : i \in DOMAIN spec.members}

StartTeam(t) ==
  /\ t \in Teams
  /\ Begin("team", t, IF known[t].there THEN "begin" ELSE "idle")
  /\ UNCHANGED overruled

(* The coordinator and every member must exist; setErrorStatus. *)
ValidateTeam ==
  /\ TeamAt("begin")
  /\ IF \A a \in AgentsOf(team.spec) : known[a].there
     THEN NoWrite /\ GoOn("team", "delegate", team)
     ELSE UpdateAndReturn("team", WithPhase(team, "Error"))
  /\ UNCHANGED overruled

(* The coordinator is read again and, unless it delegates to the members   *)
(* already, written; if it has gone, or is not the stored one any more,    *)
(* the reconcile fails.                                                    *)
coordinator == team.spec.coordinator
ReadCoordinator == known[coordinator]
(* The teams that name an agent as their coordinator, for the API server   *)
(* or for the operator.                                                    *)
Leads(o, a) == o.there /\ o.spec.coordinator = a
TeamsOf(a) == {t \in Teams : Leads(obj[t], a) \/ Leads(known[t], a)}

(* Mutant: a coordinator that delegates already is left as it is. *)
DelegatesToAny == ReadCoordinator.there /\ ReadCoordinator.spec # <<>>
DelegatesAlready == ReadCoordinator.there /\ ReadCoordinator.spec = team.spec.members

WriteDelegates ==
  /\ ReadCoordinator.there /\ ~DelegatesAlready /\ obj[coordinator] = ReadCoordinator
  /\ Put(coordinator, WithSpec(ReadCoordinator, team.spec.members), 0) /\ UNCHANGED plan
  /\ GoOn("team", "active", team)
  /\ overruled' = (overruled \cup TeamsOf(coordinator)) \ {Me("team")}

Delegate ==
  /\ TeamAt("delegate")
  /\ \/ /\ DelegatesAlready /\ NoWrite /\ GoOn("team", "active", team)
        /\ overruled' = overruled \ {Me("team")}
     \/ WriteDelegates
     \/ /\ ~ReadCoordinator.there \/ (~DelegatesAlready /\ obj[coordinator] # ReadCoordinator)
        /\ NoWrite /\ Requeue("team") /\ UNCHANGED overruled

ActivateTeam ==
  /\ TeamAt("active")
  /\ UpdateAndReturn("team", WithPhase(team, "Active"))
  /\ UNCHANGED overruled

TeamCallFails == CallFails("team") /\ UNCHANGED overruled

ReconcileTeam == ValidateTeam \/ Delegate \/ ActivateTeam \/ TeamCallFails
TeamStep == (\E t \in Teams : StartTeam(t)) \/ ReconcileTeam
=============================================================================
