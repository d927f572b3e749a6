--------------------------- MODULE TenantSession ---------------------------
(***************************************************************************)
(* KubeCopilotSessionReconciler (kubecopilotsession_controller.go): the    *)
(* namespace of a tenant's session, its network policy, role and binding,  *)
(* and the finalizer that waits for the namespace to be gone.              *)
(*                                                                         *)
(* The namespace of a session is named after the session only: NameOf says *)
(* which sessions, in which namespaces of their own, have the same name.   *)
(***************************************************************************)
EXTENDS ControllerRuntime

CONSTANTS
  Names,            \* names of session namespaces
  NameOf,           \* sessionNamespaceName
  Tenants,
  NoTenant

(* KubeCopilotSessionSpec; strict stands for both "" and "strict". *)
SessionSpec == [tenant : Tenants, agentRef : Agents, strict : BOOLEAN]

ASSUME SessionAssumption ==
  /\ NameOf \in [Sessions -> Names]
  /\ NoTenant \notin Tenants
  /\ \A s \in Sessions : SpecsOf[s] \subseteq SessionSpec

VARIABLES
  ns, nsCache,      \* the namespaces and what is in them; the cache of them
  misled,           \* history: sessions that took a cached object for one that
                    \* was not there, or whose namespace was deleted by hand
  blind             \* history: namespaces a clean-up did not see

namespaceVars == <<ns, nsCache>>
sessionVars == <<namespaceVars, misled, blind>>

(* tenant: the label; binding: the tenant of the RoleBinding's subject. *)
NamespaceStates == {"none", "active", "terminating"}
Namespace(state, tenant, policy, role, binding) ==
  [state |-> state, tenant |-> tenant, policy |-> policy, role |-> role, binding |-> binding]
NoNamespace == Namespace("none", NoTenant, FALSE, FALSE, NoTenant)
NamespaceObjects == [state : NamespaceStates, tenant : Tenants \cup {NoTenant}, policy : BOOLEAN,
                     role : BOOLEAN, binding : Tenants \cup {NoTenant}]

SessionTypeOK ==
  /\ ns \in [Names -> NamespaceObjects] /\ nsCache \in [Names -> NamespaceObjects]
  /\ misled \subseteq Sessions /\ blind \subseteq Names

SessionInit ==
  /\ ns = [n \in Names |-> NoNamespace] /\ nsCache = ns
  /\ misled = {} /\ blind = {}

-----------------------------------------------------------------------------
(* The session the worker is at, its namespace, and what the cache says.   *)
me == Me("session")
mine == Mine("session")
myName == NameOf[me]
stored == ns[myName]
cached == nsCache[myName]

AtStep(step) == work["session"].step = step

PutNamespace(n, o, n1) ==
  /\ ns' = [ns EXCEPT ![n] = o]
  /\ \/ o = ns[n] /\ Spend(n1) /\ UNCHANGED nsCache
     \/ o # ns[n] /\ Spend(n1) /\ nsCache' = [nsCache EXCEPT ![n] = o]
     \/ o # ns[n] /\ Spend(n1 + 1) /\ UNCHANGED nsCache

CatchUpNamespace(n) ==
  /\ nsCache[n] # ns[n]
  /\ nsCache' = [nsCache EXCEPT ![n] = ns[n]]
  /\ UNCHANGED <<runtimeVars, ns, misled, blind>>

(* The namespace controller of the cluster: what is in a namespace goes    *)
(* first, then the namespace.                                              *)
DrainNamespace(n) ==
  /\ ns[n].state = "terminating"
  /\ PutNamespace(n, IF ns[n] = Namespace("terminating", ns[n].tenant, FALSE, FALSE, NoTenant)
                     THEN NoNamespace
                     ELSE Namespace("terminating", ns[n].tenant, FALSE, FALSE, NoTenant), 0)
  /\ UNCHANGED <<obj, known, plan, queueVars, disturbed, misled, blind>>

Terminating(o) == Namespace("terminating", o.tenant, o.policy, o.role, o.binding)

LoseNamespace(n) ==
  /\ ns[n].state = "active"
  /\ PutNamespace(n, Terminating(ns[n]), 1)
  /\ misled' = misled \cup {s \in Sessions : NameOf[s] = n}
  /\ UNCHANGED <<obj, known, plan, queueVars, disturbed, blind>>

-----------------------------------------------------------------------------
StartSession(s) ==
  /\ s \in Sessions
  /\ Begin("session", s,
       IF ~known[s].there \/ (known[s].deleting /\ ~known[s].finalizer) THEN "idle"
       ELSE IF known[s].deleting THEN "terminating" ELSE "begin")
  /\ UNCHANGED sessionVars

(* Mutant: the error of the update is ignored. *)
AddSessionFinalizerAnyway ==
  /\ AtStep("begin")
  /\ \/ (mine.finalizer \/ ~Unchanged("session")) /\ NoWrite /\ GoOn("session", "read", mine)
     \/ ~mine.finalizer /\ UpdateAndGoOn("session", WithFinalizer(mine, TRUE), "read")
  /\ UNCHANGED sessionVars

AddSessionFinalizer ==
  /\ AtStep("begin")
  /\ \/ mine.finalizer /\ NoWrite /\ GoOn("session", "read", mine)
     \/ ~mine.finalizer /\ UpdateAndGoOn("session", WithFinalizer(mine, TRUE), "read")
  /\ UNCHANGED sessionVars

(* The agent must exist; it need not run. *)
CheckSessionAgent ==
  /\ AtStep("read")
  /\ IF known[mine.spec.agentRef].there
     THEN NoWrite /\ GoOn("session", "namespace", mine)
     ELSE UpdateAndReturn("session", WithPhase(mine, "Error"))
  /\ UNCHANGED sessionVars

(* What the worker takes from the cache is not there any more. *)
Believe(there) == misled' = IF there THEN misled ELSE misled \cup {me}
Skip(next, there) ==
  /\ NoWrite /\ GoOn("session", next, mine)
  /\ Believe(there) /\ UNCHANGED <<namespaceVars, blind>>
(* Create, in a namespace that is there and stays. *)
CreateIn(o, allowed, next) ==
  /\ \/ /\ allowed /\ PutNamespace(myName, o, 0)
        /\ UNCHANGED <<obj, known, plan, queue, disturbed>> /\ GoOn("session", next, mine)
     \/ ~allowed /\ NoWrite /\ Requeue("session") /\ UNCHANGED namespaceVars
  /\ UNCHANGED <<misled, blind>>

ensureNamespace ==
  /\ AtStep("namespace")
  /\ IF cached.state # "none" THEN Skip("policy", stored.state # "none")
     ELSE CreateIn(Namespace("active", mine.spec.tenant, FALSE, FALSE, NoTenant),
                   stored.state = "none", "policy")

WithPolicy(o, policy) == Namespace(o.state, o.tenant, policy, o.role, o.binding)

ensureNetworkPolicy ==
  /\ AtStep("policy") /\ mine.spec.strict
  /\ IF cached.policy THEN Skip("role", stored.policy)
     ELSE CreateIn(WithPolicy(stored, TRUE), stored.state = "active" /\ ~stored.policy, "role")

(* Mutant: a policy that is there is left. *)
RemoveNetworkPolicyNot ==
  /\ AtStep("policy") /\ ~mine.spec.strict
  /\ Skip("role", TRUE)

RemoveNetworkPolicy ==
  /\ AtStep("policy") /\ ~mine.spec.strict
  /\ IF ~cached.policy THEN Skip("role", ~stored.policy)
     ELSE /\ PutNamespace(myName, WithPolicy(stored, FALSE), 0)
          /\ UNCHANGED <<obj, known, plan, queue, disturbed, misled, blind>>
          /\ GoOn("session", "role", mine)

EnsureTenantRole ==
  /\ AtStep("role")
  /\ IF cached.role THEN Skip("binding", stored.role)
     ELSE CreateIn(Namespace(stored.state, stored.tenant, stored.policy, TRUE, stored.binding),
                   stored.state = "active" /\ ~stored.role, "binding")

(* Mutant: the subject names the agent. *)
EnsureAgentBinding ==
  /\ AtStep("binding")
  /\ IF cached.binding # NoTenant THEN Skip("active", stored.binding = cached.binding)
     ELSE CreateIn(Namespace(stored.state, stored.tenant, stored.policy, stored.role, mine.spec.agentRef),
                   stored.state = "active" /\ stored.binding = NoTenant, "active")

(* A binding that is there is taken as it is. *)
EnsureTenantBinding ==
  /\ AtStep("binding")
  /\ IF cached.binding # NoTenant THEN Skip("active", stored.binding = cached.binding)
     ELSE CreateIn(Namespace(stored.state, stored.tenant, stored.policy, stored.role, mine.spec.tenant),
                   stored.state = "active" /\ stored.binding = NoTenant, "active")

ActivateSession ==
  /\ AtStep("active")
  /\ UpdateAndReturn("session", WithPhase(mine, "Active"))
  /\ UNCHANGED sessionVars

-----------------------------------------------------------------------------
(* handleDeletion. *)
MarkTerminating ==
  /\ AtStep("terminating")
  /\ UpdateAndGoOn("session", WithPhase(mine, "Terminating"), "remove")
  /\ UNCHANGED sessionVars

(* Mutant: nothing comes back to see the namespace gone. *)
DeleteNamespaceOnce ==
  /\ AtStep("remove") /\ cached.state # "none"
  /\ IF cached.state = "active" /\ stored.state = "active"
     THEN /\ PutNamespace(myName, Terminating(stored), 0)
          /\ UNCHANGED <<obj, known, plan, queue, disturbed>>
     ELSE NoWrite /\ UNCHANGED namespaceVars
  /\ Return("session")
  /\ UNCHANGED <<misled, blind>>

(* The namespace still exists: it is deleted, and looked at again later. *)
DeleteNamespace ==
  /\ AtStep("remove") /\ cached.state # "none"
  /\ IF cached.state = "active" /\ stored.state = "active"
     THEN /\ PutNamespace(myName, Terminating(stored), 0)
          /\ UNCHANGED <<obj, known, plan, queue, disturbed>>
     ELSE NoWrite /\ UNCHANGED namespaceVars
  /\ Requeue("session")
  /\ UNCHANGED <<misled, blind>>

(* The namespace is gone, as far as the cache knows. *)
NamespaceGone ==
  /\ AtStep("remove") /\ cached.state = "none"
  /\ NoWrite /\ GoOn("session", "unfin", mine)
  /\ blind' = IF stored.state = "none" THEN blind ELSE blind \cup {myName}
  /\ UNCHANGED <<namespaceVars, misled>>

RemoveSessionFinalizer ==
  /\ AtStep("unfin")
  /\ UpdateAndReturn("session", Missing)
  /\ UNCHANGED sessionVars

SessionCallFails == CallFails("session") /\ UNCHANGED sessionVars

ReconcileSession ==
  \/ AddSessionFinalizer \/ CheckSessionAgent
  \/ ensureNamespace \/ ensureNetworkPolicy \/ RemoveNetworkPolicy
  \/ EnsureTenantRole \/ EnsureTenantBinding \/ ActivateSession
  \/ MarkTerminating \/ DeleteNamespace \/ NamespaceGone \/ RemoveSessionFinalizer
  \/ SessionCallFails

SessionStep ==
  \/ \E s \in Sessions : StartSession(s)
  \/ \E n \in Names : CatchUpNamespace(n) \/ DrainNamespace(n) \/ LoseNamespace(n)
  \/ ReconcileSession
=============================================================================
