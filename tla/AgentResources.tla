--------------------------- MODULE AgentResources ---------------------------
(***************************************************************************)
(* KubeCopilotAgentReconciler (kubecopilotagent_controller.go): the        *)
(* objects it keeps for each agent, and the two cluster-scoped ones it     *)
(* must remove itself.                                                     *)
(*                                                                         *)
(* agent[a] and store[a][k] are what the API server holds, known[a] and    *)
(* cache[a][k] what the operator's informers hold.  An informer learns of  *)
(* a change at once, except for some it learns of later (CatchUpAgent,     *)
(* CatchUpObjects).  Objects are compared by their content: an update      *)
(* whose object was changed and changed back does what a fresh one would.  *)
(*                                                                         *)
(* A name can be used again: uid tells the incarnations of an agent apart, *)
(* and the owner of an object is the uid in its owner reference (0: none). *)
(***************************************************************************)
EXTENDS Integers, FiniteSets

CONSTANTS
  Agents,           \* names of KubeCopilotAgent objects
  Specs,            \* the specs users give them
  Accounts,         \* names of ServiceAccounts
  NoAccount,
  Rules,            \* lists of RBAC rules
  NoRules,          \* the empty list
  AgentIds,         \* uuids
  MaxUids,          \* bound: incarnations of a name
  MaxTrouble        \* bound: changes an informer learns of late, spec edits,
                    \* lost and failed pods, failed calls, operator restarts

(* AgentRBAC: account is agentServiceAccountName, which is given or made of *)
(* the agent's name; there is none if spec.rbac is not set.                *)
AgentSpec == [account : Accounts \cup {NoAccount}, rules : Rules \cup {NoRules}, cluster : Rules \cup {NoRules},
              delegateTo : SUBSET Agents]

(* The objects kept for an agent: a ServiceAccount has the name that the   *)
(* spec gives, the others one made of the agent's.                         *)
Named == {"role", "rb", "secret", "pvc", "pod", "svc"}
ClusterScoped == {"cr", "crb"}
Owned == Accounts \cup Named
Kinds == Owned \cup ClusterScoped

ASSUME AgentAssumption ==
  /\ Agents # {}
  /\ NoRules \notin Rules /\ NoAccount \notin Accounts
  /\ Accounts \cap (Named \cup ClusterScoped) = {}
  /\ Specs \subseteq AgentSpec
  /\ \A s \in Specs : s.account # NoAccount \/ (s.rules = NoRules /\ s.cluster = NoRules)
  /\ MaxUids \in Nat /\ MaxTrouble \in Nat

VARIABLES
  agent, known,     \* the agent objects; the operator's cache of them
  born,             \* incarnations created so far
  store, cache,     \* the objects kept for an agent; the cache of them
  podPhase,         \* status.phase of an agent's pod
  agentQueue,       \* keys waiting for the worker
  agentTimers,      \* keys that come back: RequeueAfter, or an error
  work,             \* what the worker is doing
  trouble,          \* counted against its bound
  disturbed,        \* history: agents whose pod was lost, or that took an
                    \* object of an earlier incarnation or content for theirs
  blind,            \* history: agents whose clean-up did not see an object
  unreported        \* history: agents whose pod the status report did not see

objectVars == <<store, cache, podPhase>>
queueVars == <<agentQueue, agentTimers, work>>
histories == <<disturbed, blind, unreported>>
agentVars == <<agent, known, born, objectVars, queueVars, trouble, histories>>

AgentPhases == {"", "Pending", "Running", "Error"}
NoId == 0
(* A uuid can always be had. *)
ASSUME IdAssumption == NoId \notin AgentIds /\ \A id \in AgentIds \cup {NoId} : AgentIds \ {id} # {}
NoSpec == [account |-> NoAccount, rules |-> NoRules, cluster |-> NoRules, delegateTo |-> {}]

(* metadata, spec and status of an agent; uid 0: there is none. *)
AgentObject == [uid : Nat, deleting : BOOLEAN, finalizer : BOOLEAN, spec : AgentSpec,
                agentID : AgentIds \cup {NoId}, phase : AgentPhases]
Agent(uid, deleting, finalizer, spec, id, phase) ==
  [uid |-> uid, deleting |-> deleting, finalizer |-> finalizer, spec |-> spec,
   agentID |-> id, phase |-> phase]
NoAgent == Agent(0, FALSE, FALSE, NoSpec, NoId, "")
Exists(a) == agent[a].uid # 0

(* holds: the rules of a role, the account that a binding or a kubeconfig  *)
(* names, the DELEGATE_TO_AGENTS of a pod.                                 *)
Contents == Rules \cup {NoRules} \cup Accounts \cup {NoAccount} \cup SUBSET Agents
Object(owner, holds) == [there |-> TRUE, owner |-> owner, holds |-> holds]
Absent == [there |-> FALSE, owner |-> 0, holds |-> NoRules]
Objects == [there : BOOLEAN, owner : Nat, holds : Contents]

Steps == {"idle", "id", "sa", "fin", "status", "unbind", "unrole", "unfin"}
           \cup Named \cup ClusterScoped
(* obj: the agent as the worker has it in memory. *)
Jobs == [step : Steps, agent : Agents, obj : AgentObject]
At(step, a, obj) == [step |-> step, agent |-> a, obj |-> obj]
Idle == At("idle", CHOOSE a \in Agents : TRUE, NoAgent)

AgentTypeOK ==
  /\ agent \in [Agents -> AgentObject] /\ known \in [Agents -> AgentObject]
  /\ born \in [Agents -> 0..MaxUids]
  /\ store \in [Agents -> [Kinds -> Objects]] /\ cache \in [Agents -> [Kinds -> Objects]]
  /\ podPhase \in [Agents -> {"Pending", "Running", "Failed"}]
  /\ agentQueue \subseteq Agents /\ agentTimers \subseteq Agents
  /\ work \in Jobs
  /\ trouble \in 0..MaxTrouble
  /\ disturbed \subseteq Agents /\ blind \subseteq Agents /\ unreported \subseteq Agents

AgentInit ==
  /\ agent = [a \in Agents |-> NoAgent] /\ known = agent
  /\ born = [a \in Agents |-> 0]
  /\ store = [a \in Agents |-> [k \in Kinds |-> Absent]] /\ cache = store
  /\ podPhase = [a \in Agents |-> "Pending"]
  /\ agentQueue = {} /\ agentTimers = {}
  /\ work = Idle
  /\ trouble = 0
  /\ disturbed = {} /\ blind = {} /\ unreported = {}

-----------------------------------------------------------------------------
Spend(n) == trouble + n <= MaxTrouble /\ trouble' = trouble + n

(* The API server stores obj; the informer sees it now or, within the      *)
(* bound, later.  A write that changes nothing is no event.  n is what the *)
(* write itself counts for against the bound.                              *)
PutAgent(a, obj, n) ==
  /\ agent' = [agent EXCEPT ![a] = obj]
  /\ \/ obj = agent[a] /\ Spend(n) /\ UNCHANGED <<known, agentQueue>>
     \/ /\ obj # agent[a] /\ Spend(n)
        /\ known' = [known EXCEPT ![a] = obj]
        /\ agentQueue' = agentQueue \cup {a}
     \/ obj # agent[a] /\ Spend(n + 1) /\ UNCHANGED <<known, agentQueue>>

PutObjects(a, objs, n) ==
  /\ store' = [store EXCEPT ![a] = objs]
  /\ \/ objs = store[a] /\ Spend(n) /\ UNCHANGED cache
     \/ objs # store[a] /\ Spend(n) /\ cache' = [cache EXCEPT ![a] = objs]
     \/ objs # store[a] /\ Spend(n + 1) /\ UNCHANGED cache

PutObject(a, k, obj, n) == PutObjects(a, [store[a] EXCEPT ![k] = obj], n)

CatchUpAgent(a) ==
  /\ known[a] # agent[a]
  /\ known' = [known EXCEPT ![a] = agent[a]]
  /\ agentQueue' = agentQueue \cup {a}
  /\ UNCHANGED <<agent, born, objectVars, agentTimers, work, trouble, histories>>

CatchUpObjects(a) ==
  /\ cache[a] # store[a]
  /\ cache' = [cache EXCEPT ![a] = store[a]]
  /\ UNCHANGED <<agent, known, born, store, podPhase, queueVars, trouble, histories>>

-----------------------------------------------------------------------------
(* Users: kubecopilot agent create and delete, kubectl apply. *)
CreateAgent(a) ==
  /\ ~Exists(a) /\ born[a] < MaxUids
  /\ born' = [born EXCEPT ![a] = @ + 1]
  /\ \E spec \in Specs : PutAgent(a, Agent(born[a] + 1, FALSE, FALSE, spec, NoId, ""), 0)
  /\ UNCHANGED <<objectVars, agentTimers, work, histories>>

WithSpec(obj, spec) ==
  Agent(obj.uid, obj.deleting, obj.finalizer, spec, obj.agentID, obj.phase)

EditAgent(a) ==
  /\ Exists(a)
  /\ \E spec \in Specs : PutAgent(a, WithSpec(agent[a], spec), 1)
  /\ UNCHANGED <<born, objectVars, agentTimers, work, histories>>

(* A deletion waits for the finalizers. *)
Deleting(obj) == Agent(obj.uid, TRUE, obj.finalizer, obj.spec, obj.agentID, obj.phase)

DeleteAgent(a) ==
  /\ Exists(a) /\ ~agent[a].deleting
  /\ PutAgent(a, IF agent[a].finalizer THEN Deleting(agent[a]) ELSE NoAgent, 0)
  /\ UNCHANGED <<born, objectVars, agentTimers, work, histories>>

(* The cluster: the garbage collector, the kubelet, a pod that is evicted  *)
(* or deleted by hand.  The collector takes all that a dead owner left in  *)
(* one step, at any time.                                                  *)
LeftBehind(a, k) == store[a][k].there /\ store[a][k].owner \notin {0, agent[a].uid}

Collect(a) ==
  /\ \E k \in Kinds : LeftBehind(a, k)
  /\ PutObjects(a, [k \in Kinds |-> IF LeftBehind(a, k) THEN Absent ELSE store[a][k]], 0)
  /\ podPhase' = IF LeftBehind(a, "pod") THEN [podPhase EXCEPT ![a] = "Pending"] ELSE podPhase
  /\ UNCHANGED <<agent, known, born, queueVars, histories>>

StartPod(a) ==
  /\ store[a]["pod"].there /\ podPhase[a] = "Pending"
  /\ podPhase' = [podPhase EXCEPT ![a] = "Running"]
  /\ UNCHANGED <<agent, known, born, store, cache, queueVars, trouble, histories>>

FailPod(a) ==
  /\ store[a]["pod"].there /\ podPhase[a] # "Failed"
  /\ Spend(1)
  /\ podPhase' = [podPhase EXCEPT ![a] = "Failed"]
  /\ UNCHANGED <<agent, known, born, store, cache, queueVars, histories>>

LosePod(a) ==
  /\ store[a]["pod"].there
  /\ PutObject(a, "pod", Absent, 1)
  /\ podPhase' = [podPhase EXCEPT ![a] = "Pending"]
  /\ disturbed' = disturbed \cup {a}
  /\ UNCHANGED <<agent, known, born, queueVars, blind, unreported>>

FireAgentTimer(a) ==
  /\ a \in agentTimers
  /\ agentTimers' = agentTimers \ {a}
  /\ agentQueue' = agentQueue \cup {a}
  /\ UNCHANGED <<agent, known, born, objectVars, work, trouble, histories>>

(* A new operator process lists everything afresh and queues each agent. *)
RestartOperator ==
  /\ Spend(1)
  /\ known' = agent /\ cache' = store
  /\ agentQueue' = {a \in Agents : Exists(a)}
  /\ agentTimers' = {}
  /\ work' = Idle
  /\ UNCHANGED <<agent, born, store, podPhase, histories>>

-----------------------------------------------------------------------------
(* Reconcile.  The worker holds the agent it read from the cache; me is    *)
(* its name.                                                               *)
me == work.agent
mine == work.obj

(* What a reconcile of obj does after each of its steps. *)
AfterBindings(spec) == IF spec.cluster # NoRules THEN "fin" ELSE "secret"
After(step, spec) ==
  CASE step = "id" -> IF spec.account # NoAccount THEN "sa" ELSE "pvc"
    [] step = "sa" -> IF spec.rules # NoRules THEN "role" ELSE AfterBindings(spec)
    [] step = "role" -> "rb"
    [] step = "rb" -> AfterBindings(spec)
    [] step = "fin" -> "cr"
    [] step = "cr" -> "crb"
    [] step = "crb" -> "secret"
    [] step = "secret" -> "pvc"
    [] step = "pvc" -> "pod"
    [] step = "pod" -> "svc"
    [] step = "svc" -> "status"
    [] step = "unbind" -> "unrole"
    [] step = "unrole" -> "unfin"

GoOn(obj) == work' = At(After(work.step, obj.spec), me, obj)
Stop == work' = Idle /\ UNCHANGED agentTimers
Retry == work' = Idle /\ agentTimers' = agentTimers \cup {me}

StartAgent(a) ==
  /\ work.step = "idle"
  /\ a \in agentQueue
  /\ agentQueue' = agentQueue \ {a}
  /\ work' = IF known[a].uid = 0 \/ (known[a].deleting /\ ~known[a].finalizer) THEN Idle
             ELSE At(IF known[a].deleting THEN "unbind" ELSE "id", a, known[a])
  /\ UNCHANGED <<agent, known, born, objectVars, agentTimers, trouble, histories>>

NoCall == UNCHANGED <<agent, known, agentQueue, store, cache>>
NoWrite == NoCall /\ UNCHANGED trouble
(* The agent object, or one object kept for it, is written. *)
WriteAgent(obj) == PutAgent(me, obj, 0) /\ UNCHANGED <<store, cache>>
Write(k, obj) == PutObject(me, k, obj, 0) /\ UNCHANGED <<agent, known, agentQueue>>
NoHistory == UNCHANGED histories

(* Update and Status().Update of the agent in memory: refused when the     *)
(* stored one is no longer the one that was read.                          *)
Unchanged == agent[me] = mine
Conflict == ~Unchanged /\ NoWrite /\ Retry
(* The update succeeds and the reconcile goes on with what it wrote. *)
UpdateAndGoOn(obj) == Unchanged /\ WriteAgent(obj) /\ GoOn(obj) /\ UNCHANGED agentTimers
NothingToWrite == NoWrite /\ GoOn(mine) /\ UNCHANGED agentTimers

(* A uuid is one that is not in use. *)
NewID == CHOOSE id \in AgentIds \ {agent[me].agentID} : TRUE
WithID(obj, id) == Agent(obj.uid, obj.deleting, obj.finalizer, obj.spec, id, obj.phase)

(* Mutant: the id is patched into the stored agent, whatever it says. *)
AssignIDAnyway ==
  /\ work.step = "id"
  /\ \/ mine.agentID # NoId /\ NothingToWrite
     \/ /\ mine.agentID = NoId /\ agent[me].uid = mine.uid
        /\ WriteAgent(WithID(agent[me], NewID)) /\ GoOn(WithID(agent[me], NewID))
        /\ UNCHANGED agentTimers
     \/ mine.agentID = NoId /\ agent[me].uid # mine.uid /\ NoWrite /\ Retry
  /\ NoHistory /\ UNCHANGED podPhase

AssignID ==
  /\ work.step = "id"
  /\ \/ mine.agentID # NoId /\ NothingToWrite
     \/ mine.agentID = NoId /\ UpdateAndGoOn(WithID(mine, NewID))
     \/ mine.agentID = NoId /\ Conflict
  /\ NoHistory /\ UNCHANGED podPhase

WithFinalizer(obj) == Agent(obj.uid, obj.deleting, TRUE, obj.spec, obj.agentID, obj.phase)

(* Mutant: the error of the update is ignored. *)
AddFinalizerAnyway ==
  /\ work.step = "fin"
  /\ \/ (mine.finalizer \/ ~Unchanged) /\ NothingToWrite
     \/ ~mine.finalizer /\ UpdateAndGoOn(WithFinalizer(mine))
  /\ NoHistory /\ UNCHANGED podPhase

AddFinalizer ==
  /\ work.step = "fin"
  /\ \/ mine.finalizer /\ NothingToWrite
     \/ ~mine.finalizer /\ UpdateAndGoOn(WithFinalizer(mine))
     \/ ~mine.finalizer /\ Conflict
  /\ NoHistory /\ UNCHANGED podPhase

(* Get from the cache, Create if it is not there.  The API server refuses  *)
(* to create what it has.                                                  *)
Found(k) == cache[me][k].there
Foreign(obj) == ~obj.there \/ obj.owner \notin {0, mine.uid}
Outdated(k) == k = "secret" /\ store[me][k].holds # mine.spec.account
Accept(k) ==
  /\ disturbed' = IF Foreign(store[me][k]) \/ Outdated(k) THEN disturbed \cup {me} ELSE disturbed
  /\ UNCHANGED <<blind, unreported>>
Create(k, obj) ==
  \/ ~store[me][k].there /\ Write(k, obj) /\ GoOn(mine) /\ UNCHANGED agentTimers
  \/ store[me][k].there /\ NoWrite /\ Retry

(* Created once and never changed. *)
Provide(k, holds) ==
  \/ Found(k) /\ NothingToWrite /\ Accept(k)
  \/ ~Found(k) /\ Create(k, Object(mine.uid, holds)) /\ NoHistory
EnsureExists(k, holds) == work.step = k /\ Provide(k, holds)

(* Created, or overwritten with what the spec says now. *)
EnsureHolds(k, owner, holds) ==
  /\ work.step = k
  /\ \/ /\ Found(k) /\ cache[me][k] = store[me][k]
        /\ Write(k, Object(store[me][k].owner, holds))
        /\ GoOn(mine) /\ UNCHANGED agentTimers
        /\ disturbed' = IF Foreign(store[me][k]) THEN disturbed \cup {me} ELSE disturbed
        /\ UNCHANGED <<blind, unreported>>
     \/ Found(k) /\ cache[me][k] # store[me][k] /\ NoWrite /\ Retry /\ NoHistory
     \/ ~Found(k) /\ Create(k, Object(owner, holds)) /\ NoHistory

(* An account of another name stays. *)
EnsureServiceAccount ==
  /\ work.step = "sa" /\ mine.spec.account \in Accounts
  /\ Provide(mine.spec.account, NoRules)
  /\ UNCHANGED podPhase
(* Mutant: a role that exists is left as it is. *)
EnsureRoleOnce == EnsureExists("role", mine.spec.rules) /\ UNCHANGED podPhase
EnsureRole == EnsureHolds("role", mine.uid, mine.spec.rules) /\ UNCHANGED podPhase
EnsureRoleBinding == EnsureHolds("rb", mine.uid, mine.spec.account) /\ UNCHANGED podPhase
EnsureClusterRole == EnsureHolds("cr", 0, mine.spec.cluster) /\ UNCHANGED podPhase
EnsureClusterRoleBinding == EnsureHolds("crb", 0, mine.spec.account) /\ UNCHANGED podPhase
(* The kubeconfig is written only if the cached one differs. *)
EnsureKubeconfigSecret ==
  /\ work.step = "secret"
  /\ IF Found("secret") /\ cache[me]["secret"].holds = mine.spec.account
     THEN NothingToWrite /\ Accept("secret")
     ELSE EnsureHolds("secret", mine.uid, mine.spec.account)
  /\ UNCHANGED podPhase
EnsurePVC == EnsureExists("pvc", NoRules) /\ UNCHANGED podPhase
EnsureService == EnsureExists("svc", NoRules) /\ UNCHANGED podPhase

(* The pod is told its delegates when it is created. *)
EnsurePod == EnsureExists("pod", mine.spec.delegateTo) /\ UNCHANGED podPhase

(* The pod's phase becomes the agent's.  A pod that cannot be read, as one *)
(* the cache does not have yet, is passed over and nothing comes back.     *)
PhaseOfPod(phase) ==
  CASE phase = "Running" -> "Running" [] phase = "Failed" -> "Error" [] OTHER -> "Pending"
WithPhase(obj, phase) ==
  Agent(obj.uid, obj.deleting, obj.finalizer, obj.spec, obj.agentID, phase)

PassOver ==
  /\ IF Found("pod") THEN Spend(1) ELSE UNCHANGED trouble
  /\ NoCall /\ Stop
  /\ unreported' = IF store[me]["pod"].there THEN unreported \cup {me} ELSE unreported
  /\ UNCHANGED <<disturbed, blind>>

(* Mutant: no RequeueAfter while the pod is pending. *)
ReportPhaseOnce ==
  /\ work.step = "status"
  /\ LET phase == PhaseOfPod(podPhase[me]) IN
     \/ PassOver
     \/ Found("pod") /\ Unchanged /\ WriteAgent(WithPhase(mine, phase)) /\ Stop /\ NoHistory
     \/ Found("pod") /\ Conflict /\ NoHistory
  /\ UNCHANGED podPhase

ReportPhase ==
  /\ work.step = "status"
  /\ LET phase == PhaseOfPod(podPhase[me]) IN
     \/ PassOver
     \/ /\ Found("pod") /\ Unchanged
        /\ WriteAgent(WithPhase(mine, phase))
        /\ IF phase = "Pending" THEN Retry ELSE Stop
        /\ NoHistory
     \/ Found("pod") /\ Conflict /\ NoHistory
  /\ UNCHANGED podPhase

(* cleanupClusterRBAC.  Whatever makes the Get fail counts as "not there". *)
Remove(k) ==
  /\ \/ Found(k) /\ Write(k, Absent) /\ UNCHANGED blind
     \/ /\ IF Found(k) THEN Spend(1) ELSE UNCHANGED trouble
        /\ NoCall
        /\ blind' = IF store[me][k].there THEN blind \cup {me} ELSE blind
  /\ GoOn(mine)
  /\ UNCHANGED <<agentTimers, podPhase, disturbed, unreported>>

RemoveBinding == work.step = "unbind" /\ Remove("crb")
RemoveRole == work.step = "unrole" /\ Remove("cr")

RemoveFinalizer ==
  /\ work.step = "unfin"
  /\ \/ Unchanged /\ WriteAgent(NoAgent) /\ Stop
     \/ Conflict
  /\ NoHistory /\ UNCHANGED podPhase

(* Mutant: the error is logged and not returned. *)
CallFailsQuietly ==
  /\ work.step # "idle"
  /\ Spend(1)
  /\ NoCall /\ Stop /\ NoHistory /\ UNCHANGED podPhase

CallFails ==
  /\ work.step # "idle"
  /\ Spend(1)
  /\ NoCall /\ Retry /\ NoHistory /\ UNCHANGED podPhase

Ensure ==
  \/ AssignID \/ EnsureServiceAccount \/ EnsureRole \/ EnsureRoleBinding
  \/ AddFinalizer \/ EnsureClusterRole \/ EnsureClusterRoleBinding
  \/ EnsureKubeconfigSecret \/ EnsurePVC \/ EnsurePod \/ EnsureService
  \/ ReportPhase \/ RemoveFinalizer

ReconcileAgent ==
  /\ \/ Ensure
     \/ RemoveBinding \/ RemoveRole \/ CallFails
  /\ UNCHANGED born

AgentNext ==
  \/ \E a \in Agents :
       \/ CreateAgent(a) \/ EditAgent(a) \/ DeleteAgent(a)
       \/ StartPod(a) \/ FailPod(a) \/ LosePod(a)
       \/ CatchUpAgent(a) \/ CatchUpObjects(a) \/ Collect(a)
       \/ FireAgentTimer(a) \/ StartAgent(a)
  \/ RestartOperator \/ ReconcileAgent

AgentFairness ==
  /\ WF_agentVars(ReconcileAgent)
  /\ \A a \in Agents :
       /\ WF_agentVars(CatchUpAgent(a)) /\ WF_agentVars(CatchUpObjects(a))
       /\ WF_agentVars(FireAgentTimer(a)) /\ SF_agentVars(StartAgent(a))
       /\ WF_agentVars(StartPod(a))

AgentSpecification == AgentInit /\ [][AgentNext]_agentVars /\ AgentFairness

-----------------------------------------------------------------------------
(* A cluster role or its binding exists only as long as an agent with the  *)
(* clean-up finalizer (AC:46-47, 139-147), unless the clean-up looked and  *)
(* did not see it.                                                         *)
NoOrphans ==
  \A a \in Agents \ blind : \A k \in ClusterScoped :
    store[a][k].there => Exists(a) /\ agent[a].finalizer

(* status.agentID is assigned once in the life of an agent, whatever cache *)
(* the reconciles that assign it started from.                             *)
AgentIDStable ==
  [][\A a \in Agents :
       agent[a].agentID # NoId /\ agent'[a].uid = agent[a].uid
         => agent'[a].agentID = agent[a].agentID]_agentVars

(* Nothing is left that would bring the worker back to this agent. *)
Settled(a) ==
  /\ Exists(a) /\ ~agent[a].deleting /\ known[a] = agent[a]
  /\ a \notin agentQueue \cup agentTimers /\ (work.step = "idle" \/ me # a)

Wanted(spec) ==
  {"pvc", "pod", "svc"} \cup (IF spec.account # NoAccount THEN {spec.account, "secret"} ELSE {})
    \cup (IF spec.rules # NoRules THEN {"role", "rb"} ELSE {})
    \cup (IF spec.cluster # NoRules THEN {"cr", "crb"} ELSE {})

(* Retries, conflicts and late caches lose no work: when nothing is left   *)
(* to do for an agent, everything its spec asks for is there, and its      *)
(* roles, bindings and kubeconfig say what the spec says now.              *)
NoWorkLost ==
  \A a \in Agents \ disturbed : Settled(a) =>
    LET spec == agent[a].spec IN
    /\ \A k \in Wanted(spec) : store[a][k].there
    /\ spec.rules # NoRules => store[a]["role"].holds = spec.rules
    /\ spec.cluster # NoRules => store[a]["cr"].holds = spec.cluster
    /\ \A k \in {"rb", "crb", "secret"} \cap Wanted(spec) : store[a][k].holds = spec.account

(* An agent that stays comes up, whatever fails on the way: its phase      *)
(* becomes Running or Error, unless the last report passed over its pod.   *)
ComesUp ==
  \A a \in Agents :
    Exists(a) /\ ~agent[a].deleting
      ~> \/ ~Exists(a) \/ agent[a].deleting
         \/ a \in disturbed \cup unreported \/ agent[a].phase \in {"Running", "Error"}

(* A deletion completes, however often the clean-up fails or conflicts. *)
DeletionCompletes == \A a \in Agents : agent[a].deleting ~> ~agent[a].deleting

(* The finalizer is there "to ensure cluster-scoped RBAC resources         *)
(* (ClusterRole, ClusterRoleBinding) are cleaned up on deletion" (AC:46):  *)
(* an agent that is gone has left none of them.                            *)
ClusterObjectsAreRemoved ==
  \A a \in Agents : \A k \in ClusterScoped :
    store[a][k].there => Exists(a) /\ agent[a].finalizer
=============================================================================
