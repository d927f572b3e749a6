----------------------------- MODULE Dependents -----------------------------
(***************************************************************************)
(* The controllers whose objects refer to agents: tenant sessions, agent   *)
(* teams, messages and tool servers, in one operator process, with users,  *)
(* the agents and the cluster around them.  They meet in the agents they   *)
(* read, in the delegateTo that teams write, and in the restarts.          *)
(***************************************************************************)
EXTENDS TenantSession, AgentTeam, MessageController, ToolServer

vars == <<runtimeVars, sessionVars, messageVars, overruled>>

TypeOK == RuntimeTypeOK /\ SessionTypeOK /\ MessageTypeOK /\ TeamTypeOK

Init == RuntimeInit /\ SessionInit /\ MessageInit /\ TeamInit

Restart ==
  /\ RestartRuntime
  /\ nsCache' = ns /\ reply' = "none"
  /\ UNCHANGED <<ns, misled, blind, chats, overruled>>

RuntimeDoes(A) == A /\ UNCHANGED <<sessionVars, messageVars, overruled>>
SessionDoes(A) == A /\ UNCHANGED <<messageVars, overruled>>
TeamDoes(A) == A /\ UNCHANGED <<sessionVars, messageVars>>
MessageDoes(A) == A /\ UNCHANGED <<sessionVars, overruled>>

Next ==
  \/ RuntimeDoes(RuntimeStep) \/ RuntimeDoes(ToolServerStep)
  \/ SessionDoes(SessionStep) \/ TeamDoes(TeamStep) \/ MessageDoes(MessageStep)
  \/ Restart

Spec == Init /\ [][Next]_vars

(* Informers and timers deliver, a worker takes a key that waits and goes  *)
(* on, and the namespace controller finishes.  A pod need not answer.      *)
Fairness ==
  /\ WF_vars(\/ RuntimeDoes(\E k \in Keys : CatchUp(k))
             \/ SessionDoes(\E n \in Names : CatchUpNamespace(n)))
  /\ WF_vars(SessionDoes(\E n \in Names : DrainNamespace(n)))
  /\ WF_vars(RuntimeDoes(\E k \in Watched : FireTimer(k)))
  /\ WF_vars(SessionDoes((\E s \in Sessions : StartSession(s)) \/ ReconcileSession))
  /\ WF_vars(TeamDoes(TeamStep))
  /\ WF_vars(MessageDoes((\E m \in Messages : StartMessage(m)) \/ ReconcileMessage))
  /\ WF_vars(RuntimeDoes(ToolServerStep))

FairSpec == Spec /\ Fairness

-----------------------------------------------------------------------------
(* A session namespace exists only as long as a session of its name that   *)
(* still carries the finalizer (157-159: "to prevent orphaned tenant       *)
(* namespaces"), unless a clean-up did not see it in its cache.            *)
NoOrphanNamespace ==
  \A n \in Names \ blind : ns[n].state # "none" =>
    \E s \in Sessions : NameOf[s] = n /\ obj[s].there /\ obj[s].finalizer

Alone(s) == \A r \in Sessions \ {s} : NameOf[r] # NameOf[s]

OneTenant(s) == \A p, q \in SpecsOf[s] : p.tenant = q.tenant

(* When nothing is left to do for an Active session whose name no other    *)
(* session has, and whose tenant is never edited, its namespace is there   *)
(* with the tenant's own role and binding, and with the network policy     *)
(* exactly if the isolation asks for it, whatever failed, was edited or    *)
(* came late on the way.                                                   *)
ActiveSessionIsReady ==
  \A s \in Sessions \ misled :
    Settled(s) /\ Alone(s) /\ OneTenant(s) /\ ~obj[s].deleting /\ obj[s].phase = "Active" =>
      LET space == ns[NameOf[s]]
          spec == obj[s].spec IN
      space = Namespace("active", spec.tenant, spec.strict, TRUE, spec.tenant)

(* Sessions of two tenants never share a namespace (50: "so that each      *)
(* tenant's data stays private"; session_types.go:26-27).                  *)
TenantsApart ==
  \A r, s \in Sessions :
    /\ obj[r].there /\ obj[r].phase = "Active"
    /\ obj[s].there /\ obj[s].phase = "Active"
    /\ obj[r].spec.tenant # obj[s].spec.tenant
    => NameOf[r] # NameOf[s]

Verdicts == {"Active", "Available", "Done", "Error"}

(* No key is lost: an object that nothing would bring a worker back to has *)
(* its verdict, or is being deleted and about to go.                       *)
NoKeyLost == \A k \in Watched : Settled(k) => obj[k].phase \in Verdicts /\ ~obj[k].deleting

(* When nothing is left to do for an Active team, its coordinator          *)
(* delegates to its members, unless another team wrote the coordinator     *)
(* since, or something befell the agent itself.                            *)
ActiveTeamDelegates ==
  \A t \in Teams \ overruled :
    LET a == obj[t].spec.coordinator IN
    Settled(t) /\ obj[t].phase = "Active" /\ a \notin disturbed
      => obj[a].there /\ obj[a].spec = obj[t].spec.members

(* A message is decided once. *)
MessageOutcomeIsFinal ==
  [][\A m \in Messages :
       obj[m].there /\ obj[m].phase \in {"Done", "Error"} /\ obj'[m].there => obj'[m].phase = obj[m].phase]_vars

(* A message is handed to the agent once, unless something befell it: an   *)
(* edit, a late informer, a failed call or a restart.                      *)
UndisturbedPostedOnce == \A m \in Messages \ disturbed : chats[m] <= 1

(* A message to a running agent is decided, though the pod may never       *)
(* answer it or another one.                                               *)
MessagesAreDecided ==
  \A m \in Messages :
    LET agent == obj[obj[m].spec.agentRef] IN
    obj[m].there /\ obj[m].phase = "" /\ agent.there /\ agent.phase = "Running"
      ~> ~obj[m].there \/ obj[m].phase # "" \/ ~agent.there \/ agent.phase # "Running"

(* A deleted session goes, after its namespace. *)
SessionsEnd == \A s \in Sessions : obj[s].deleting ~> ~obj[s].there
=============================================================================
