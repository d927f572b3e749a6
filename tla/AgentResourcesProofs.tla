------------------------ MODULE AgentResourcesProofs ------------------------
(***************************************************************************)
(* Proofs about AgentResources: types, the stability of an agent's id,     *)
(* NoOrphans and NoWorkLost, for any agents, specs, rules and bounds.      *)
(***************************************************************************)
EXTENDS AgentResources, TLAPS

-----------------------------------------------------------------------------
(* Types. *)

LEMMA AgentTyped ==
  ASSUME NEW o \in AgentObject, NEW spec \in AgentSpec, NEW id \in AgentIds \cup {NoId},
         NEW phase \in AgentPhases
  PROVE  /\ WithSpec(o, spec) \in AgentObject
         /\ Deleting(o) \in AgentObject
         /\ WithID(o, id) \in AgentObject
         /\ WithFinalizer(o) \in AgentObject
         /\ WithPhase(o, phase) \in AgentObject
         /\ o.spec \in AgentSpec
BY DEF AgentObject, Agent, WithSpec, Deleting, WithID, WithFinalizer, WithPhase

LEMMA SpecTyped == NoSpec \in AgentSpec /\ Specs \subseteq AgentSpec
BY AgentAssumption DEF NoSpec, AgentSpec

LEMMA NewAgentTyped ==
  ASSUME NEW uid \in Nat, NEW spec \in AgentSpec
  PROVE  Agent(uid, FALSE, FALSE, spec, NoId, "") \in AgentObject
BY DEF AgentObject, Agent, AgentPhases

LEMMA NoAgentTyped == NoAgent \in AgentObject
BY SpecTyped, NewAgentTyped DEF NoAgent

LEMMA ObjectTyped ==
  /\ Absent \in Objects
  /\ \A owner \in Nat, holds \in Contents : Object(owner, holds) \in Objects
BY DEF Absent, Objects, Object, Contents

LEMMA JobTyped ==
  /\ \A step \in Steps, a \in Agents, o \in AgentObject : At(step, a, o) \in Jobs
  /\ Idle \in Jobs
<1>1. \A step \in Steps, a \in Agents, o \in AgentObject : At(step, a, o) \in Jobs
  BY DEF At, Jobs
<1>2. (CHOOSE a \in Agents : TRUE) \in Agents
  BY AgentAssumption
<1>3. "idle" \in Steps
  BY DEF Steps
<1> QED
  BY <1>1, <1>2, <1>3, NoAgentTyped DEF Idle

(* A reconcile that goes on goes on to a step. *)
Onward == {"id", "sa", "fin", "unbind", "unrole"} \cup Named \cup ClusterScoped
LEMMA AfterTyped ==
  ASSUME NEW spec \in AgentSpec, NEW step \in Onward
  PROVE  After(step, spec) \in Steps
BY DEF Onward, After, AfterBindings, Steps, Named, ClusterScoped

LEMMA WorkTyped ==
  ASSUME AgentTypeOK
  PROVE  me \in Agents /\ mine \in AgentObject /\ mine.spec \in AgentSpec /\ mine.uid \in Nat
BY DEF AgentTypeOK, Jobs, me, mine, AgentObject

LEMMA GoOnTyped ==
  ASSUME AgentTypeOK, NEW o \in AgentObject, work.step \in Onward, GoOn(o)
  PROVE  work' \in Jobs
BY WorkTyped, AfterTyped, AgentTyped, JobTyped DEF GoOn, AgentObject

LEMMA SpendTyped ==
  ASSUME AgentTypeOK, NEW n \in Nat, Spend(n)
  PROVE  trouble' \in 0..MaxTrouble
<1>1. MaxTrouble \in Nat
  BY AgentAssumption
<1> QED
  BY <1>1 DEF AgentTypeOK, Spend

LEMMA PutAgentTyped ==
  ASSUME AgentTypeOK, NEW a \in Agents, NEW o \in AgentObject, NEW n \in Nat, PutAgent(a, o, n)
  PROVE  /\ agent' \in [Agents -> AgentObject] /\ known' \in [Agents -> AgentObject]
         /\ agentQueue' \subseteq Agents /\ trouble' \in 0..MaxTrouble
<1>1. n + 1 \in Nat
  OBVIOUS
<1>2. trouble' \in 0..MaxTrouble
  BY <1>1, SpendTyped DEF PutAgent
<1>3. agent' \in [Agents -> AgentObject]
  BY DEF AgentTypeOK, PutAgent
<1>4. known' \in [Agents -> AgentObject] /\ agentQueue' \subseteq Agents
  BY DEF AgentTypeOK, PutAgent
<1> QED
  BY <1>2, <1>3, <1>4

LEMMA PutObjectsTyped ==
  ASSUME AgentTypeOK, NEW a \in Agents, NEW objs \in [Kinds -> Objects], NEW n \in Nat,
         PutObjects(a, objs, n)
  PROVE  /\ store' \in [Agents -> [Kinds -> Objects]] /\ cache' \in [Agents -> [Kinds -> Objects]]
         /\ trouble' \in 0..MaxTrouble
<1>1. n + 1 \in Nat
  OBVIOUS
<1>2. trouble' \in 0..MaxTrouble
  BY <1>1, SpendTyped DEF PutObjects
<1>3. store' \in [Agents -> [Kinds -> Objects]] /\ cache' \in [Agents -> [Kinds -> Objects]]
  BY DEF AgentTypeOK, PutObjects
<1> QED
  BY <1>2, <1>3

LEMMA PutObjectTyped ==
  ASSUME AgentTypeOK, NEW a \in Agents, NEW k \in Kinds, NEW o \in Objects, NEW n \in Nat,
         PutObject(a, k, o, n)
  PROVE  /\ store' \in [Agents -> [Kinds -> Objects]] /\ cache' \in [Agents -> [Kinds -> Objects]]
         /\ trouble' \in 0..MaxTrouble
<1>1. [store[a] EXCEPT ![k] = o] \in [Kinds -> Objects]
  BY DEF AgentTypeOK
<1> QED
  BY <1>1, PutObjectsTyped DEF PutObject
LEMMA NoCallTyped ==
  ASSUME AgentTypeOK, NoCall
  PROVE  /\ agent' \in [Agents -> AgentObject] /\ known' \in [Agents -> AgentObject]
         /\ agentQueue' \subseteq Agents
         /\ store' \in [Agents -> [Kinds -> Objects]] /\ cache' \in [Agents -> [Kinds -> Objects]]
BY DEF AgentTypeOK, NoCall

(* What the worker leaves behind, in every case. *)
CallTyped ==
  /\ agent' \in [Agents -> AgentObject] /\ known' \in [Agents -> AgentObject]
  /\ agentQueue' \subseteq Agents
  /\ store' \in [Agents -> [Kinds -> Objects]] /\ cache' \in [Agents -> [Kinds -> Objects]]
  /\ trouble' \in 0..MaxTrouble
StateTyped == work' \in Jobs /\ agentTimers' \subseteq Agents

LEMMA NoWriteTyped ==
  ASSUME AgentTypeOK, NoWrite
  PROVE  CallTyped
BY NoCallTyped DEF NoWrite, CallTyped, AgentTypeOK

LEMMA WriteAgentTyped ==
  ASSUME AgentTypeOK, NEW o \in AgentObject, WriteAgent(o)
  PROVE  CallTyped
BY WorkTyped, PutAgentTyped, 0 \in Nat DEF WriteAgent, CallTyped, AgentTypeOK

LEMMA WriteTyped ==
  ASSUME AgentTypeOK, NEW k \in Kinds, NEW o \in Objects, Write(k, o)
  PROVE  CallTyped
<1>1. /\ store' \in [Agents -> [Kinds -> Objects]] /\ cache' \in [Agents -> [Kinds -> Objects]]
      /\ trouble' \in 0..MaxTrouble
  BY WorkTyped, PutObjectTyped, 0 \in Nat DEF Write
<1> QED
  BY <1>1 DEF Write, CallTyped, AgentTypeOK

LEMMA StopTyped ==
  ASSUME AgentTypeOK, Stop \/ Retry
  PROVE  StateTyped
BY WorkTyped, JobTyped DEF Stop, Retry, StateTyped, AgentTypeOK

LEMMA GoOnStateTyped ==
  ASSUME AgentTypeOK, NEW o \in AgentObject, work.step \in Onward, GoOn(o), UNCHANGED agentTimers
  PROVE  StateTyped
BY GoOnTyped DEF StateTyped, AgentTypeOK

LEMMA WorkerTyped ==
  ASSUME AgentTypeOK, CallTyped, StateTyped, UNCHANGED <<born, podPhase>>,
         disturbed' \subseteq Agents, blind' \subseteq Agents, unreported' \subseteq Agents
  PROVE  AgentTypeOK'
BY DEF AgentTypeOK, CallTyped, StateTyped

LEMMA NoHistoryTyped ==
  ASSUME AgentTypeOK, NoHistory
  PROVE  disturbed' \subseteq Agents /\ blind' \subseteq Agents /\ unreported' \subseteq Agents
BY DEF AgentTypeOK, NoHistory, histories

LEMMA AcceptTyped ==
  ASSUME AgentTypeOK, NEW k \in Kinds, Accept(k)
  PROVE  disturbed' \subseteq Agents /\ blind' \subseteq Agents /\ unreported' \subseteq Agents
BY WorkTyped DEF AgentTypeOK, Accept

LEMMA NothingToWriteTyped ==
  ASSUME AgentTypeOK, work.step \in Onward, NothingToWrite
  PROVE  CallTyped /\ StateTyped
BY NoWriteTyped, GoOnStateTyped, WorkTyped DEF NothingToWrite

LEMMA UpdateTyped ==
  ASSUME AgentTypeOK, NEW o \in AgentObject, work.step \in Onward, UpdateAndGoOn(o)
  PROVE  CallTyped /\ StateTyped
BY WriteAgentTyped, GoOnStateTyped DEF UpdateAndGoOn

LEMMA ConflictTyped ==
  ASSUME AgentTypeOK, Conflict
  PROVE  CallTyped /\ StateTyped
BY NoWriteTyped, StopTyped DEF Conflict

LEMMA CreateTyped ==
  ASSUME AgentTypeOK, NEW k \in Kinds, NEW o \in Objects, work.step \in Onward, Create(k, o)
  PROVE  CallTyped /\ StateTyped
BY WriteTyped, NoWriteTyped, GoOnStateTyped, StopTyped, WorkTyped DEF Create

LEMMA ProvideTyped ==
  ASSUME AgentTypeOK, NEW k \in Kinds, NEW holds \in Contents, work.step \in Onward,
         Provide(k, holds), UNCHANGED <<born, podPhase>>
  PROVE  AgentTypeOK'
<1>2. Object(mine.uid, holds) \in Objects
  BY WorkTyped, ObjectTyped
<1>3. CallTyped /\ StateTyped
  BY <1>2, NothingToWriteTyped, CreateTyped DEF Provide
<1>4. disturbed' \subseteq Agents /\ blind' \subseteq Agents /\ unreported' \subseteq Agents
  BY AcceptTyped, NoHistoryTyped DEF Provide
<1> QED
  BY <1>3, <1>4, WorkerTyped

LEMMA EnsureHoldsTyped ==
  ASSUME AgentTypeOK, NEW k \in Named \cup ClusterScoped, NEW owner \in Nat, NEW holds \in Contents,
         EnsureHolds(k, owner, holds), UNCHANGED <<born, podPhase>>
  PROVE  AgentTypeOK'
<1>1. work.step \in Onward /\ k \in Kinds
  BY DEF EnsureHolds, Onward, Kinds, Owned
<1>2. Object(owner, holds) \in Objects
  BY ObjectTyped
<1>3. store[me][k].owner \in Nat
  BY <1>1, WorkTyped DEF AgentTypeOK, Objects
<1>4. Object(store[me][k].owner, holds) \in Objects
  BY <1>3, ObjectTyped
<1>5. CASE Found(k) /\ cache[me][k] = store[me][k]
  <2>1. CallTyped
    BY <1>1, <1>4, <1>5, WriteTyped DEF EnsureHolds
  <2>2. StateTyped
    BY <1>1, <1>5, GoOnStateTyped, WorkTyped DEF EnsureHolds
  <2>3. disturbed' \subseteq Agents /\ blind' \subseteq Agents /\ unreported' \subseteq Agents
    BY <1>5, WorkTyped DEF EnsureHolds, AgentTypeOK
  <2> QED
    BY <2>1, <2>2, <2>3, WorkerTyped
<1>6. CASE ~(Found(k) /\ cache[me][k] = store[me][k])
  <2>1. CallTyped /\ StateTyped
    BY <1>1, <1>2, <1>6, NoWriteTyped, StopTyped, CreateTyped DEF EnsureHolds
  <2>2. disturbed' \subseteq Agents /\ blind' \subseteq Agents /\ unreported' \subseteq Agents
    BY <1>6, NoHistoryTyped DEF EnsureHolds
  <2> QED
    BY <2>1, <2>2, WorkerTyped
<1> QED
  BY <1>5, <1>6
LEMMA InitTyped ==
  ASSUME AgentInit
  PROVE  AgentTypeOK
<1>1. MaxUids \in Nat /\ MaxTrouble \in Nat /\ 0 \in 0..MaxUids /\ 0 \in 0..MaxTrouble
  BY AgentAssumption
<1> QED
  BY <1>1, NoAgentTyped, ObjectTyped, JobTyped DEF AgentInit, AgentTypeOK

LEMMA NewIDTyped ==
  ASSUME AgentTypeOK
  PROVE  NewID \in AgentIds \ {agent[me].agentID}
<1>1. agent[me].agentID \in AgentIds \cup {NoId}
  BY WorkTyped DEF AgentTypeOK, AgentObject
<1>2. AgentIds \ {agent[me].agentID} # {}
  BY <1>1, IdAssumption
<1> QED
  BY <1>2 DEF NewID

LEMMA EnsureTyped ==
  ASSUME AgentTypeOK, Ensure, UNCHANGED born
  PROVE  AgentTypeOK'
<1>0. /\ NoRules \in Contents /\ mine.spec.rules \in Contents /\ mine.spec.cluster \in Contents
      /\ mine.spec.delegateTo \in Contents /\ mine.spec.account \in Contents
      /\ mine.uid \in Nat /\ 0 \in Nat
  BY WorkTyped DEF Contents, AgentSpec
<1>k. /\ {"role", "rb", "secret", "cr", "crb"} \subseteq Named \cup ClusterScoped
      /\ {"secret", "pvc", "svc", "pod"} \subseteq Kinds \cap Onward /\ Accounts \subseteq Kinds
  BY DEF Kinds, Owned, Named, ClusterScoped, Onward
<1>1. CASE AssignID
  <2>1. work.step \in Onward
    BY <1>1 DEF AssignID, Onward
  <2>2. WithID(mine, NewID) \in AgentObject
    BY NewIDTyped, WorkTyped DEF WithID, Agent, AgentObject
  <2>3. CallTyped /\ StateTyped
    BY <1>1, <2>1, <2>2, NothingToWriteTyped, UpdateTyped, ConflictTyped DEF AssignID
  <2> QED
    BY <1>1, <2>3, NoHistoryTyped, WorkerTyped DEF AssignID
<1>2. CASE AddFinalizer
  <2>1. work.step \in Onward
    BY <1>2 DEF AddFinalizer, Onward
  <2>2. WithFinalizer(mine) \in AgentObject
    BY WorkTyped DEF WithFinalizer, Agent, AgentObject
  <2>3. CallTyped /\ StateTyped
    BY <1>2, <2>1, <2>2, NothingToWriteTyped, UpdateTyped, ConflictTyped DEF AddFinalizer
  <2> QED
    BY <1>2, <2>3, NoHistoryTyped, WorkerTyped DEF AddFinalizer
<1>3. CASE EnsurePVC \/ EnsureService \/ EnsurePod
  BY <1>0, <1>k, <1>3, ProvideTyped DEF EnsurePVC, EnsureService, EnsurePod, EnsureExists
<1>7. CASE EnsureServiceAccount
  <2>1. work.step \in Onward
    BY <1>7 DEF EnsureServiceAccount, Onward
  <2> QED
    BY <1>0, <1>k, <1>7, <2>1, ProvideTyped DEF EnsureServiceAccount
<1>8. CASE EnsureKubeconfigSecret
  <2>1. CASE NothingToWrite /\ Accept("secret")
    <3>1. work.step \in Onward
      BY <1>k, <1>8 DEF EnsureKubeconfigSecret
    <3> QED
      BY <1>k, <1>8, <2>1, <3>1, NothingToWriteTyped, AcceptTyped, WorkerTyped DEF EnsureKubeconfigSecret
  <2>2. CASE EnsureHolds("secret", mine.uid, mine.spec.account)
    BY <1>0, <1>k, <1>8, <2>2, EnsureHoldsTyped DEF EnsureKubeconfigSecret
  <2> QED
    BY <1>8, <2>1, <2>2 DEF EnsureKubeconfigSecret
<1>4. CASE EnsureRole \/ EnsureRoleBinding \/ EnsureClusterRole \/ EnsureClusterRoleBinding
  BY <1>0, <1>k, <1>4, EnsureHoldsTyped
     DEF EnsureRole, EnsureRoleBinding, EnsureClusterRole, EnsureClusterRoleBinding
<1>5. CASE ReportPhase
  <2>1. PhaseOfPod(podPhase[me]) \in AgentPhases
    BY DEF PhaseOfPod, AgentPhases
  <2>2. WithPhase(mine, PhaseOfPod(podPhase[me])) \in AgentObject
    BY <2>1, WorkTyped DEF WithPhase, Agent, AgentObject
  <2>3. CallTyped /\ StateTyped
    <3>1. CASE PassOver
      <4>1. trouble' \in 0..MaxTrouble
        BY <3>1, SpendTyped, 1 \in Nat DEF PassOver, AgentTypeOK
      <4> QED
        BY <3>1, <4>1, NoCallTyped, StopTyped DEF PassOver, CallTyped
    <3>2. CASE Found("pod") /\ Conflict
      BY <3>2, ConflictTyped
    <3>3. CASE WriteAgent(WithPhase(mine, PhaseOfPod(podPhase[me]))) /\ (Stop \/ Retry)
      BY <3>3, <2>2, WriteAgentTyped, StopTyped
    <3> QED
      BY <1>5, <3>1, <3>2, <3>3 DEF ReportPhase
  <2>4. disturbed' \subseteq Agents /\ blind' \subseteq Agents /\ unreported' \subseteq Agents
    <3>1. CASE PassOver
      BY <3>1, WorkTyped DEF PassOver, AgentTypeOK
    <3>2. CASE NoHistory
      BY <3>2, NoHistoryTyped
    <3> QED
      BY <1>5, <3>1, <3>2 DEF ReportPhase
  <2> QED
    BY <1>5, <2>3, <2>4, WorkerTyped DEF ReportPhase
<1>6. CASE RemoveFinalizer
  <2>1. CallTyped /\ StateTyped
    BY <1>6, NoAgentTyped, WriteAgentTyped, StopTyped, ConflictTyped DEF RemoveFinalizer
  <2> QED
    BY <1>6, <2>1, NoHistoryTyped, WorkerTyped DEF RemoveFinalizer
<1> QED
  BY <1>1, <1>2, <1>3, <1>4, <1>5, <1>6, <1>7, <1>8 DEF Ensure

LEMMA RemoveTyped ==
  ASSUME AgentTypeOK, NEW k \in Kinds, work.step \in {"unbind", "unrole"}, Remove(k), UNCHANGED born
  PROVE  AgentTypeOK'
<1>1. work.step \in Onward
  BY DEF Onward
<1>2. StateTyped
  BY <1>1, GoOnStateTyped, WorkTyped DEF Remove
<1>3. CallTyped
  <2>1. CASE Write(k, Absent)
    BY <2>1, WriteTyped, ObjectTyped
  <2>2. CASE NoCall /\ (IF Found(k) THEN Spend(1) ELSE UNCHANGED trouble)
    <3>1. trouble' \in 0..MaxTrouble
      BY <2>2, SpendTyped, 1 \in Nat DEF AgentTypeOK
    <3> QED
      BY <2>2, <3>1, NoCallTyped DEF CallTyped
  <2> QED
    BY <2>1, <2>2 DEF Remove
<1>4. disturbed' \subseteq Agents /\ blind' \subseteq Agents /\ unreported' \subseteq Agents
  BY WorkTyped DEF Remove, AgentTypeOK
<1> QED
  BY <1>2, <1>3, <1>4, WorkerTyped DEF Remove

LEMMA ReconcileTyped ==
  ASSUME AgentTypeOK, ReconcileAgent
  PROVE  AgentTypeOK'
<1>1. CASE Ensure
  BY <1>1, EnsureTyped DEF ReconcileAgent
<1>2. CASE RemoveBinding \/ RemoveRole
  BY <1>2, RemoveTyped DEF ReconcileAgent, RemoveBinding, RemoveRole, Kinds, ClusterScoped
<1>3. CASE CallFails
  <2>1. trouble' \in 0..MaxTrouble
    BY <1>3, SpendTyped, 1 \in Nat DEF CallFails
  <2>2. CallTyped /\ StateTyped
    BY <1>3, <2>1, NoCallTyped, StopTyped DEF CallFails, CallTyped
  <2> QED
    BY <1>3, <2>2, NoHistoryTyped, WorkerTyped DEF CallFails, ReconcileAgent
<1> QED
  BY <1>1, <1>2, <1>3 DEF ReconcileAgent

LEMMA UserTyped ==
  ASSUME AgentTypeOK, NEW a \in Agents, CreateAgent(a) \/ EditAgent(a) \/ DeleteAgent(a)
  PROVE  AgentTypeOK'
<1>0. agent[a] \in AgentObject /\ born[a] \in 0..MaxUids /\ MaxUids \in Nat /\ 0 \in Nat /\ 1 \in Nat
  BY AgentAssumption DEF AgentTypeOK
<1>1. CASE CreateAgent(a)
  <2>1. PICK spec \in Specs : PutAgent(a, Agent(born[a] + 1, FALSE, FALSE, spec, NoId, ""), 0)
    BY <1>1 DEF CreateAgent
  <2>2. Agent(born[a] + 1, FALSE, FALSE, spec, NoId, "") \in AgentObject
    <3>1. born[a] + 1 \in Nat /\ spec \in AgentSpec
      BY <1>0, SpecTyped
    <3> QED
      BY <3>1, NewAgentTyped
  <2>3. born' \in [Agents -> 0..MaxUids]
    <3>1. born[a] < MaxUids
      BY <1>1 DEF CreateAgent
    <3>2. born[a] + 1 \in 0..MaxUids
      BY <1>0, <3>1
    <3> QED
      BY <1>1, <3>2 DEF CreateAgent, AgentTypeOK
  <2> QED
    BY <1>0, <1>1, <2>1, <2>2, <2>3, PutAgentTyped DEF CreateAgent, AgentTypeOK, objectVars, histories
<1>2. CASE EditAgent(a)
  <2>1. PICK spec \in Specs : PutAgent(a, WithSpec(agent[a], spec), 1)
    BY <1>2 DEF EditAgent
  <2>2. WithSpec(agent[a], spec) \in AgentObject
    BY <1>0, SpecTyped DEF WithSpec, Agent, AgentObject
  <2> QED
    BY <1>0, <1>2, <2>1, <2>2, PutAgentTyped DEF EditAgent, AgentTypeOK, objectVars, histories
<1>3. CASE DeleteAgent(a)
  <2>1. Deleting(agent[a]) \in AgentObject
    BY <1>0 DEF Deleting, Agent, AgentObject
  <2> QED
    BY <1>0, <1>3, <2>1, NoAgentTyped, PutAgentTyped DEF DeleteAgent, AgentTypeOK, objectVars, histories
<1> QED
  BY <1>1, <1>2, <1>3

LEMMA ClusterTyped ==
  ASSUME AgentTypeOK, NEW a \in Agents,
         \/ Collect(a) \/ StartPod(a) \/ FailPod(a) \/ LosePod(a)
         \/ CatchUpAgent(a) \/ CatchUpObjects(a) \/ FireAgentTimer(a) \/ StartAgent(a)
  PROVE  AgentTypeOK'
<1>1. CASE Collect(a)
  <2>1. [k \in Kinds |-> IF LeftBehind(a, k) THEN Absent ELSE store[a][k]] \in [Kinds -> Objects]
    BY ObjectTyped DEF AgentTypeOK
  <2>2. podPhase' \in [Agents -> {"Pending", "Running", "Failed"}]
    BY <1>1 DEF Collect, AgentTypeOK
  <2> QED
    BY <1>1, <2>1, <2>2, PutObjectsTyped, 0 \in Nat DEF Collect, AgentTypeOK, queueVars, histories
<1>2. CASE StartPod(a)
  BY <1>2 DEF StartPod, AgentTypeOK, queueVars, histories
<1>3. CASE FailPod(a)
  <2>1. trouble' \in 0..MaxTrouble
    BY <1>3, SpendTyped, 1 \in Nat DEF FailPod
  <2>2. podPhase' \in [Agents -> {"Pending", "Running", "Failed"}]
    BY <1>3 DEF FailPod, AgentTypeOK
  <2> QED
    BY <1>3, <2>1, <2>2 DEF FailPod, AgentTypeOK, queueVars, histories
<1>4. CASE LosePod(a)
  <2>1. "pod" \in Kinds
    BY DEF Kinds, Owned, Named
  <2>2. /\ store' \in [Agents -> [Kinds -> Objects]] /\ cache' \in [Agents -> [Kinds -> Objects]]
        /\ trouble' \in 0..MaxTrouble
    BY <1>4, <2>1, PutObjectTyped, ObjectTyped, 1 \in Nat DEF LosePod
  <2>3. podPhase' \in [Agents -> {"Pending", "Running", "Failed"}] /\ disturbed' \subseteq Agents
    BY <1>4 DEF LosePod, AgentTypeOK
  <2> QED
    BY <1>4, <2>2, <2>3 DEF LosePod, AgentTypeOK, queueVars
<1>5. CASE CatchUpAgent(a)
  BY <1>5 DEF CatchUpAgent, AgentTypeOK, objectVars, histories
<1>6. CASE CatchUpObjects(a)
  BY <1>6 DEF CatchUpObjects, AgentTypeOK, queueVars, histories
<1>7. CASE FireAgentTimer(a)
  BY <1>7 DEF FireAgentTimer, AgentTypeOK, objectVars, histories
<1>8. CASE StartAgent(a)
  <2>1. "id" \in Steps /\ "unbind" \in Steps /\ known[a] \in AgentObject
    BY DEF Steps, AgentTypeOK
  <2>2. work' \in Jobs
    BY <1>8, <2>1, JobTyped DEF StartAgent
  <2> QED
    BY <1>8, <2>2 DEF StartAgent, AgentTypeOK, objectVars, histories
<1> QED
  BY <1>1, <1>2, <1>3, <1>4, <1>5, <1>6, <1>7, <1>8

LEMMA RestartTyped ==
  ASSUME AgentTypeOK, RestartOperator
  PROVE  AgentTypeOK'
BY SpendTyped, JobTyped, 1 \in Nat DEF RestartOperator, AgentTypeOK, histories

LEMMA NextTyped ==
  ASSUME AgentTypeOK, AgentNext
  PROVE  AgentTypeOK'
BY UserTyped, ClusterTyped, RestartTyped, ReconcileTyped DEF AgentNext

LEMMA StutterTyped ==
  ASSUME AgentTypeOK, UNCHANGED agentVars
  PROVE  AgentTypeOK'
BY DEF AgentTypeOK, agentVars, objectVars, queueVars, histories

(* The variables of the agent controller keep their types, for any agents, *)
(* specs and bounds.                                                       *)
THEOREM AgentsTyped == AgentSpecification => []AgentTypeOK
<1>1. AgentInit => AgentTypeOK
  BY InitTyped
<1>2. AgentTypeOK /\ [AgentNext]_agentVars => AgentTypeOK'
  BY NextTyped, StutterTyped
<1> QED
  BY <1>1, <1>2, PTL DEF AgentSpecification
-----------------------------------------------------------------------------
(* The inductive invariant behind NoOrphans and AgentIDStable.             *)

(* A uid is that of an incarnation created so far, so that a new one is    *)
(* fresh; where there is no agent nothing is left of one.                  *)
UidsInv ==
  /\ \A a \in Agents :
       /\ agent[a].uid <= born[a] /\ known[a].uid <= born[a]
       /\ agent[a].uid = 0 => agent[a] = NoAgent
       /\ known[a].uid = 0 => known[a] = NoAgent
  /\ work.step # "idle" => mine.uid # 0 /\ mine.uid <= born[me]

(* A deletion cannot be taken back. *)
DeletingInv ==
  \A a \in Agents : known[a].deleting /\ known[a].uid = agent[a].uid => agent[a].deleting

(* Only the clean-up takes a finalizer off, so whoever saw one on an agent *)
(* that was not being deleted can rely on it.                              *)
KnownInv ==
  \A a \in Agents :
    known[a].uid # 0 /\ known[a].finalizer /\ ~known[a].deleting
      => agent[a].uid = known[a].uid /\ agent[a].finalizer

CleanUp == {"unbind", "unrole", "unfin"}
WorkInv ==
  /\ work.step \notin CleanUp \cup {"idle"} /\ mine.finalizer
       => agent[me].uid = mine.uid /\ agent[me].finalizer
  /\ work.step \in ClusterScoped => mine.finalizer

(* While the clean-up of the agent that is there goes on, no cache shows   *)
(* it alive; and what the clean-up has passed is gone.                     *)
CleanUpInv ==
  /\ work.step \in CleanUp /\ agent[me].uid = mine.uid
       => agent[me].deleting /\ (known[me].deleting \/ known[me].uid = 0)
  /\ work.step \in {"unrole", "unfin"} => me \in blind \/ ~store[me]["crb"].there
  /\ work.step = "unfin" => me \in blind \/ ~store[me]["cr"].there

OrphanInv == UidsInv /\ DeletingInv /\ KnownInv /\ WorkInv /\ CleanUpInv /\ NoOrphans
OrphanTyped == AgentTypeOK /\ OrphanInv

LEMMA NoAgentIs == NoAgent.uid = 0 /\ ~NoAgent.deleting /\ ~NoAgent.finalizer /\ NoAgent.agentID = NoId
BY DEF NoAgent, Agent

LEMMA GoOnEffect ==
  ASSUME NEW o, GoOn(o)
  PROVE  work'.step = After(work.step, o.spec) /\ me' = me /\ mine' = o
BY DEF GoOn, At, me, mine

LEMMA StopEffect ==
  ASSUME Stop \/ Retry
  PROVE  work'.step = "idle"
BY DEF Stop, Retry, Idle, At

LEMMA AfterFacts ==
  ASSUME NEW spec, NEW step \in Onward
  PROVE  /\ After(step, spec) \in ClusterScoped => step \in {"fin", "cr"}
         /\ step \notin {"unbind", "unrole"} => After(step, spec) \notin CleanUp \cup {"idle"}
         /\ After("unbind", spec) = "unrole" /\ After("unrole", spec) = "unfin"
BY DEF After, AfterBindings, Onward, Named, ClusterScoped, CleanUp

(* What an update of an agent by its reconcile leaves as it was. *)
Keeps(o, p) ==
  /\ p.uid = o.uid /\ p.deleting = o.deleting /\ (o.finalizer => p.finalizer)
  /\ o.agentID # NoId => p.agentID = o.agentID

LEMMA KeepsAll ==
  ASSUME NEW o \in AgentObject, NEW id, NEW phase
  PROVE  /\ o.agentID = NoId => Keeps(o, WithID(o, id))
         /\ Keeps(o, WithFinalizer(o)) /\ WithFinalizer(o).finalizer
         /\ Keeps(o, WithPhase(o, phase))
BY DEF Keeps, WithID, WithFinalizer, WithPhase, Agent, AgentObject

(* The cluster-scoped objects stay, and nothing new escapes a clean-up. *)
ClusterSame ==
  /\ blind' = blind
  /\ \A a \in Agents : \A k \in ClusterScoped : store'[a][k] = store[a][k]
AgentsSame == agent' = agent /\ known' = known

(* Nothing but the worker's step changes. *)
Rests == AgentsSame /\ ClusterSame /\ work'.step = "idle"
Passes ==
  /\ AgentsSame /\ ClusterSame
  /\ work.step \in Onward \ {"unbind", "unrole"} /\ (work.step = "fin" => mine.finalizer)
  /\ work'.step = After(work.step, mine.spec) /\ me' = me /\ mine' = mine
(* The agent is the one that was read, and is written. *)
Writes(o) ==
  /\ work.step # "idle"
  /\ o \in AgentObject /\ Keeps(mine, o)
  /\ agent[me] = mine /\ agent' = [agent EXCEPT ![me] = o]
  /\ known' = known \/ known' = [known EXCEPT ![me] = o]
  /\ ClusterSame
  /\ \/ work'.step = "idle"
     \/ /\ work.step \in Onward \ {"unbind", "unrole"} /\ (work.step = "fin" => o.finalizer)
        /\ work'.step = After(work.step, o.spec) /\ me' = me /\ mine' = o
(* A cluster-scoped object is written for an agent with the finalizer. *)
Binds ==
  /\ AgentsSame /\ blind' = blind
  /\ work.step \in ClusterScoped
  /\ \A a \in Agents \ {me} : store'[a] = store[a]
  /\ \/ work'.step = "idle"
     \/ work'.step = After(work.step, mine.spec) /\ me' = me /\ mine' = mine
Removes(k) ==
  /\ AgentsSame
  /\ work.step \in {"unbind", "unrole"} /\ k = (IF work.step = "unbind" THEN "crb" ELSE "cr")
  /\ blind \subseteq blind' /\ blind' \subseteq blind \cup {me}
  /\ ~store'[me][k].there \/ me \in blind'
  /\ \A a \in Agents : \A j \in ClusterScoped :
       store'[a][j] = store[a][j] \/ ~store'[a][j].there
  /\ work'.step = After(work.step, mine.spec) /\ me' = me /\ mine' = mine
Finishes ==
  /\ work.step = "unfin" /\ agent[me] = mine
  /\ agent' = [agent EXCEPT ![me] = NoAgent]
  /\ known' = known \/ known' = [known EXCEPT ![me] = NoAgent]
  /\ ClusterSame /\ work'.step = "idle"

LEMMA RestsInv ==
  ASSUME OrphanTyped, Rests, UNCHANGED born
  PROVE  OrphanInv'
<1> USE DEF OrphanTyped, OrphanInv, Rests, AgentsSame, ClusterSame
<1>1. UidsInv' /\ DeletingInv' /\ KnownInv'
  BY DEF UidsInv, DeletingInv, KnownInv
<1>2. WorkInv' /\ CleanUpInv'
  BY DEF WorkInv, CleanUpInv, CleanUp, ClusterScoped
<1>3. NoOrphans'
  BY DEF NoOrphans, Exists
<1> QED
  BY <1>1, <1>2, <1>3

LEMMA PassesInv ==
  ASSUME OrphanTyped, Passes, UNCHANGED born
  PROVE  OrphanInv'
<1> USE DEF OrphanTyped, OrphanInv, Passes, AgentsSame, ClusterSame
<1>0. /\ work.step \in Onward /\ work.step \notin CleanUp \cup {"idle"}
      /\ work'.step \notin CleanUp \cup {"idle"}
      /\ work'.step \in ClusterScoped => work.step \in {"fin", "cr"}
  BY AfterFacts DEF CleanUp, Onward, Named, ClusterScoped
<1>1. UidsInv' /\ DeletingInv' /\ KnownInv'
  BY <1>0 DEF UidsInv, DeletingInv, KnownInv
<1>2. WorkInv'
  BY <1>0 DEF WorkInv, ClusterScoped
<1>3. CleanUpInv'
  BY <1>0 DEF CleanUpInv, CleanUp
<1>4. NoOrphans'
  BY DEF NoOrphans, Exists
<1> QED
  BY <1>1, <1>2, <1>3, <1>4

LEMMA WritesInv ==
  ASSUME OrphanTyped, NEW o, Writes(o), UNCHANGED born
  PROVE  OrphanInv'
<1> USE DEF OrphanTyped, OrphanInv, ClusterSame
<1>0. /\ me \in Agents /\ agent' \in [Agents -> AgentObject] /\ known' \in [Agents -> AgentObject]
      /\ agent'[me] = o /\ known'[me] \in {known[me], o}
      /\ \A a \in Agents \ {me} : agent'[a] = agent[a] /\ known'[a] = known[a]
  BY WorkTyped DEF Writes, AgentTypeOK
<1>1. /\ agent[me] = mine /\ Keeps(mine, o) /\ mine.uid # 0 /\ mine.uid <= born[me]
  BY DEF Writes, UidsInv
<1>2. UidsInv'
  <2>1. \A a \in Agents :
          /\ agent'[a].uid <= born[a] /\ known'[a].uid <= born[a]
          /\ agent'[a].uid = 0 => agent'[a] = NoAgent
          /\ known'[a].uid = 0 => known'[a] = NoAgent
    BY <1>0, <1>1 DEF UidsInv, Keeps
  <2>2. work'.step # "idle" => mine'.uid # 0 /\ mine'.uid <= born[me']
    BY <1>1 DEF Writes, Keeps
  <2> QED
    BY <2>1, <2>2 DEF UidsInv
<1>3. DeletingInv'
  BY <1>0, <1>1 DEF DeletingInv, Keeps
<1>4. KnownInv'
  BY <1>0, <1>1 DEF KnownInv, Keeps
<1>5. NoOrphans'
  BY <1>0, <1>1 DEF NoOrphans, Exists, Keeps, Writes
<1>6. CASE work'.step = "idle"
  <2>1. WorkInv' /\ CleanUpInv'
    BY <1>6 DEF WorkInv, CleanUpInv, CleanUp, ClusterScoped
  <2> QED
    BY <1>2, <1>3, <1>4, <1>5, <2>1
<1>7. CASE work'.step # "idle"
  <2>1. /\ work.step \in Onward \ {"unbind", "unrole"} /\ (work.step = "fin" => o.finalizer)
        /\ work'.step = After(work.step, o.spec) /\ me' = me /\ mine' = o
    BY <1>7 DEF Writes
  <2>2. /\ work'.step \notin CleanUp \cup {"idle"}
        /\ work'.step \in ClusterScoped => work.step \in {"fin", "cr"}
    BY <2>1, AfterFacts
  <2>3. WorkInv'
    BY <1>0, <1>1, <2>1, <2>2 DEF WorkInv, Keeps, ClusterScoped
  <2>4. CleanUpInv'
    BY <2>2 DEF CleanUpInv, CleanUp
  <2> QED
    BY <1>2, <1>3, <1>4, <1>5, <2>3, <2>4
<1> QED
  BY <1>6, <1>7

LEMMA BindsInv ==
  ASSUME OrphanTyped, Binds, UNCHANGED born
  PROVE  OrphanInv'
<1> USE DEF OrphanTyped, OrphanInv, Binds, AgentsSame
<1>0. /\ work.step \in Onward /\ work.step \notin CleanUp \cup {"idle"}
      /\ work'.step \notin CleanUp
      /\ work'.step \in ClusterScoped => work.step \in {"fin", "cr"}
  BY AfterFacts DEF CleanUp, Onward, Named, ClusterScoped
<1>1. mine.finalizer /\ agent[me].uid = mine.uid /\ agent[me].finalizer /\ mine.uid # 0
  BY <1>0 DEF WorkInv, UidsInv
<1>2. UidsInv' /\ DeletingInv' /\ KnownInv'
  BY <1>0 DEF UidsInv, DeletingInv, KnownInv
<1>3. WorkInv'
  BY <1>0, <1>1 DEF WorkInv, ClusterScoped
<1>4. CleanUpInv'
  BY <1>0 DEF CleanUpInv, CleanUp
<1>5. NoOrphans'
  BY <1>1 DEF NoOrphans, Exists
<1> QED
  BY <1>2, <1>3, <1>4, <1>5

LEMMA RemovesInv ==
  ASSUME OrphanTyped, NEW k, Removes(k), UNCHANGED born
  PROVE  OrphanInv'
<1> USE DEF OrphanTyped, OrphanInv, Removes, AgentsSame
<1>0. /\ me \in Agents
      /\ \/ work.step = "unbind" /\ work'.step = "unrole" /\ k = "crb"
         \/ work.step = "unrole" /\ work'.step = "unfin" /\ k = "cr"
  <2>1. \A spec : After("unbind", spec) = "unrole" /\ After("unrole", spec) = "unfin"
    BY DEF After
  <2> QED
    BY <2>1, WorkTyped
<1>2. UidsInv' /\ DeletingInv' /\ KnownInv'
  BY <1>0 DEF UidsInv, DeletingInv, KnownInv
<1>3. WorkInv'
  BY <1>0 DEF WorkInv, ClusterScoped, CleanUp
<1>4. CleanUpInv'
  <2>1. work'.step \in CleanUp /\ agent'[me'].uid = mine'.uid
          => agent'[me'].deleting /\ (known'[me'].deleting \/ known'[me'].uid = 0)
    BY <1>0 DEF CleanUpInv, CleanUp
  <2>2. work'.step \in {"unrole", "unfin"} => me' \in blind' \/ ~store'[me']["crb"].there
    BY <1>0 DEF CleanUpInv, ClusterScoped
  <2>3. work'.step = "unfin" => me' \in blind' \/ ~store'[me']["cr"].there
    BY <1>0
  <2> QED
    BY <2>1, <2>2, <2>3 DEF CleanUpInv
<1>5. NoOrphans'
  BY DEF NoOrphans, Exists
<1> QED
  BY <1>2, <1>3, <1>4, <1>5

LEMMA FinishesInv ==
  ASSUME OrphanTyped, Finishes, UNCHANGED born
  PROVE  OrphanInv'
<1> USE DEF OrphanTyped, OrphanInv, ClusterSame
<1>0. /\ me \in Agents /\ agent'[me] = NoAgent /\ known'[me] \in {known[me], NoAgent}
      /\ \A a \in Agents \ {me} : agent'[a] = agent[a] /\ known'[a] = known[a]
  BY WorkTyped DEF Finishes, AgentTypeOK
<1>1. \A a \in Agents : born[a] \in Nat
  BY AgentAssumption DEF AgentTypeOK
<1>2. UidsInv'
  BY <1>0, <1>1, NoAgentIs DEF UidsInv, Finishes
<1>3. DeletingInv'
  <2>1. known[me].uid = 0 => ~known[me].deleting
    BY <1>0, NoAgentIs DEF UidsInv
  <2> QED
    BY <1>0, <2>1, NoAgentIs DEF DeletingInv
<1>4. KnownInv'
  <2>1. known[me].uid # 0 /\ known[me].finalizer => known[me].deleting
    BY <1>0 DEF KnownInv, CleanUpInv, CleanUp, Finishes
  <2> QED
    BY <1>0, <2>1, NoAgentIs DEF KnownInv
<1>5. WorkInv' /\ CleanUpInv'
  BY DEF WorkInv, CleanUpInv, CleanUp, ClusterScoped, Finishes
<1>6. NoOrphans'
  <2>1. me \notin blind => ~store[me]["crb"].there /\ ~store[me]["cr"].there
    BY DEF CleanUpInv, Finishes
  <2> QED
    BY <1>0, <2>1 DEF NoOrphans, Exists, ClusterScoped, Finishes
<1> QED
  BY <1>2, <1>3, <1>4, <1>5, <1>6

-----------------------------------------------------------------------------
(* Each step of the worker has one of these effects.                       *)

LEMMA NoWriteEffect ==
  ASSUME NoWrite \/ NoCall, blind' = blind
  PROVE  AgentsSame /\ ClusterSame
BY DEF NoWrite, NoCall, AgentsSame, ClusterSame

LEMMA NoHistoryEffect ==
  ASSUME NoHistory
  PROVE  blind' = blind
BY DEF NoHistory, histories

LEMMA NothingEffect ==
  ASSUME NothingToWrite, blind' = blind, work.step \in Onward \ {"unbind", "unrole"},
         work.step = "fin" => mine.finalizer
  PROVE  Passes
BY NoWriteEffect, GoOnEffect DEF NothingToWrite, Passes

LEMMA ConflictEffect ==
  ASSUME Conflict, blind' = blind
  PROVE  Rests
BY NoWriteEffect, StopEffect DEF Conflict, Rests

LEMMA WriteAgentEffect ==
  ASSUME NEW o, WriteAgent(o), blind' = blind
  PROVE  /\ agent' = [agent EXCEPT ![me] = o]
         /\ known' = known \/ known' = [known EXCEPT ![me] = o]
         /\ ClusterSame
BY DEF WriteAgent, PutAgent, ClusterSame

LEMMA UpdateEffect ==
  ASSUME NEW o \in AgentObject, UpdateAndGoOn(o), Keeps(mine, o), blind' = blind,
         work.step \in Onward \ {"unbind", "unrole"}, work.step = "fin" => o.finalizer
  PROVE  Writes(o)
<1>1. work.step # "idle"
  BY DEF Onward, Named, ClusterScoped
<1>2. agent[me] = mine /\ WriteAgent(o) /\ GoOn(o)
  BY DEF UpdateAndGoOn, Unchanged
<1> QED
  BY <1>1, <1>2, WriteAgentEffect, GoOnEffect DEF Writes

(* A write of an object of the agent. *)
LEMMA WriteEffect ==
  ASSUME AgentTypeOK, NEW k \in Kinds, NEW o, Write(k, o), blind' = blind
  PROVE  /\ AgentsSame
         /\ \A a \in Agents \ {me} : store'[a] = store[a]
         /\ store'[me] = [store[me] EXCEPT ![k] = o]
         /\ k \notin ClusterScoped => ClusterSame
<1>1. me \in Agents /\ store \in [Agents -> [Kinds -> Objects]] /\ ClusterScoped \subseteq Kinds
  BY WorkTyped DEF AgentTypeOK, Kinds
<1>2. store' = [store EXCEPT ![me] = [store[me] EXCEPT ![k] = o]]
  BY DEF Write, PutObject, PutObjects
<1>3. /\ \A a \in Agents \ {me} : store'[a] = store[a]
      /\ store'[me] = [store[me] EXCEPT ![k] = o]
  BY <1>1, <1>2
<1>4. \A j \in ClusterScoped \ {k} : store'[me][j] = store[me][j]
  BY <1>1, <1>3
<1> QED
  BY <1>1, <1>3, <1>4 DEF Write, AgentsSame, ClusterSame

LEMMA CreateEffect ==
  ASSUME AgentTypeOK, NEW k \in Kinds, NEW o, work.step \in Onward \ {"unbind", "unrole", "fin"},
         Create(k, o), blind' = blind
  PROVE  /\ k \notin ClusterScoped => Passes \/ Rests
         /\ k \in ClusterScoped /\ work.step = k => Binds
<1>1. CASE Write(k, o) /\ GoOn(mine)
  BY <1>1, WriteEffect, GoOnEffect DEF Passes, Binds
<1>2. CASE NoWrite /\ Retry
  <2>1. Rests
    BY <1>2, NoWriteEffect, StopEffect DEF Rests
  <2> QED
    BY <1>2, <2>1 DEF Rests, Binds, ClusterSame, NoWrite, NoCall
<1> QED
  BY <1>1, <1>2 DEF Create

LEMMA ProvideEffect ==
  ASSUME AgentTypeOK, NEW k \in Kinds \ ClusterScoped, NEW holds, Provide(k, holds),
         work.step \in Onward \ {"unbind", "unrole", "fin"}
  PROVE  Passes \/ Rests
<1>1. CASE NothingToWrite /\ Accept(k)
  BY <1>1, NothingEffect DEF Accept
<1>2. CASE Create(k, Object(mine.uid, holds)) /\ NoHistory
  BY <1>2, CreateEffect, NoHistoryEffect
<1> QED
  BY <1>1, <1>2 DEF Provide

LEMMA EnsureHoldsEffect ==
  ASSUME AgentTypeOK, NEW k \in Named \cup ClusterScoped, NEW owner, NEW holds, EnsureHolds(k, owner, holds)
  PROVE  /\ k \notin ClusterScoped => Passes \/ Rests
         /\ k \in ClusterScoped => Binds
<1>1. work.step = k /\ k \in Onward \ {"unbind", "unrole", "fin"} /\ k \in Kinds
  BY DEF EnsureHolds, Kinds, Owned, Named, ClusterScoped, Onward
<1>2. CASE Write(k, Object(store[me][k].owner, holds)) /\ GoOn(mine) /\ UNCHANGED blind
  BY <1>1, <1>2, WriteEffect, GoOnEffect DEF Passes, Binds
<1>3. CASE NoWrite /\ Retry /\ NoHistory
  <2>1. Rests
    BY <1>3, NoWriteEffect, StopEffect, NoHistoryEffect DEF Rests
  <2> QED
    BY <1>1, <1>3, <2>1 DEF Rests, Binds, ClusterSame, NoWrite, NoCall
<1>4. CASE Create(k, Object(owner, holds)) /\ NoHistory
  BY <1>1, <1>4, CreateEffect, NoHistoryEffect
<1> QED
  BY <1>2, <1>3, <1>4 DEF EnsureHolds

LEMMA RemoveEffect ==
  ASSUME AgentTypeOK, NEW k \in ClusterScoped, work.step \in {"unbind", "unrole"},
         k = (IF work.step = "unbind" THEN "crb" ELSE "cr"), Remove(k)
  PROVE  Removes(k)
<1>1. work'.step = After(work.step, mine.spec) /\ me' = me /\ mine' = mine
  BY GoOnEffect DEF Remove
<1>2. CASE Write(k, Absent) /\ UNCHANGED blind
  <2>1. k \in Kinds /\ me \in Agents /\ ClusterScoped \subseteq Kinds
    BY WorkTyped DEF Kinds
  <2>2. /\ AgentsSame
        /\ \A a \in Agents \ {me} : store'[a] = store[a]
        /\ store'[me] = [store[me] EXCEPT ![k] = Absent]
    BY <1>2, <2>1, WriteEffect
  <2>3. store[me] \in [Kinds -> Objects] /\ ~Absent.there
    BY <2>1 DEF AgentTypeOK, Absent
  <2>4. ~store'[me][k].there /\ \A j \in Kinds \ {k} : store'[me][j] = store[me][j]
    BY <2>1, <2>2, <2>3
  <2> QED
    BY <1>1, <1>2, <2>1, <2>2, <2>4 DEF Removes
<1>3. CASE NoCall /\ blind' = (IF store[me][k].there THEN blind \cup {me} ELSE blind)
  BY <1>1, <1>3 DEF Removes, NoCall, AgentsSame
<1> QED
  BY <1>2, <1>3 DEF Remove

LEMMA EnsureInv ==
  ASSUME OrphanTyped, Ensure, UNCHANGED born
  PROVE  OrphanInv'
<1> USE DEF OrphanTyped
<1>0. me \in Agents /\ mine \in AgentObject
  BY WorkTyped
<1>1. CASE AssignID
  <2>1. /\ blind' = blind /\ work.step = "id" /\ "id" \in Onward
    BY <1>1, NoHistoryEffect DEF AssignID, Onward
  <2>2. mine.agentID = NoId => WithID(mine, NewID) \in AgentObject /\ Keeps(mine, WithID(mine, NewID))
    BY <1>0, NewIDTyped, KeepsAll DEF WithID, Agent, AgentObject
  <2>3. Passes \/ Rests \/ Writes(WithID(mine, NewID))
    BY <1>1, <2>1, <2>2, NothingEffect, ConflictEffect, UpdateEffect DEF AssignID
  <2> QED
    BY <2>3, RestsInv, PassesInv, WritesInv
<1>2. CASE AddFinalizer
  <2>1. /\ blind' = blind /\ work.step = "fin" /\ "fin" \in Onward
    BY <1>2, NoHistoryEffect DEF AddFinalizer, Onward
  <2>2. /\ WithFinalizer(mine) \in AgentObject /\ Keeps(mine, WithFinalizer(mine))
        /\ WithFinalizer(mine).finalizer
    BY <1>0, KeepsAll DEF WithFinalizer, Agent, AgentObject
  <2>3. Passes \/ Rests \/ Writes(WithFinalizer(mine))
    BY <1>2, <2>1, <2>2, NothingEffect, ConflictEffect, UpdateEffect DEF AddFinalizer
  <2> QED
    BY <2>3, RestsInv, PassesInv, WritesInv
<1>3. CASE EnsureServiceAccount \/ EnsurePVC \/ EnsureService \/ EnsurePod
  <2>1. /\ Accounts \cup {"pvc", "svc", "pod"} \subseteq Kinds \ ClusterScoped
        /\ {"sa", "pvc", "svc", "pod"} \subseteq Onward
    BY AgentAssumption DEF Kinds, Owned, Named, ClusterScoped, Onward
  <2>2. Passes \/ Rests
    BY <1>3, <2>1, ProvideEffect
       DEF EnsureServiceAccount, EnsurePVC, EnsureService, EnsurePod, EnsureExists
  <2> QED
    BY <2>2, RestsInv, PassesInv
<1>8. CASE EnsureKubeconfigSecret
  <2>1. "secret" \in Named /\ "secret" \notin ClusterScoped /\ "secret" \in Onward
    BY DEF Named, ClusterScoped, Onward
  <2>2. CASE NothingToWrite /\ Accept("secret")
    <3>1. Passes
      BY <1>8, <2>1, <2>2, NothingEffect DEF Accept, EnsureKubeconfigSecret
    <3> QED
      BY <3>1, PassesInv
  <2>3. CASE EnsureHolds("secret", mine.uid, mine.spec.account)
    BY <2>1, <2>3, EnsureHoldsEffect, RestsInv, PassesInv
  <2> QED
    BY <1>8, <2>2, <2>3 DEF EnsureKubeconfigSecret
<1>4. CASE EnsureRole \/ EnsureRoleBinding
  <2>1. \A k \in {"role", "rb"} : k \in Named /\ k \notin ClusterScoped
    BY DEF Named, ClusterScoped
  <2>2. Passes \/ Rests
    BY <1>4, <2>1, EnsureHoldsEffect DEF EnsureRole, EnsureRoleBinding
  <2> QED
    BY <2>2, RestsInv, PassesInv
<1>5. CASE EnsureClusterRole \/ EnsureClusterRoleBinding
  <2>1. \A k \in {"cr", "crb"} : k \in ClusterScoped
    BY DEF ClusterScoped
  <2>2. Binds
    BY <1>5, <2>1, EnsureHoldsEffect DEF EnsureClusterRole, EnsureClusterRoleBinding
  <2> QED
    BY <2>2, BindsInv
<1>6. CASE ReportPhase
  <2> DEFINE o == WithPhase(mine, PhaseOfPod(podPhase[me]))
  <2>1. work.step = "status"
    BY <1>6 DEF ReportPhase
  <2>2. o \in AgentObject /\ Keeps(mine, o)
    BY <1>0, KeepsAll DEF WithPhase, Agent, AgentObject, PhaseOfPod, AgentPhases
  <2>3. CASE PassOver
    <3>1. Rests
      BY <2>3, NoWriteEffect, StopEffect DEF PassOver, Rests
    <3> QED
      BY <3>1, RestsInv
  <2>4. CASE Unchanged /\ WriteAgent(o) /\ (Stop \/ Retry) /\ NoHistory
    <3>1. Writes(o)
      BY <2>1, <2>2, <2>4, WriteAgentEffect, StopEffect, NoHistoryEffect DEF Writes, Unchanged
    <3> QED
      BY <3>1, WritesInv
  <2>5. CASE Conflict /\ NoHistory
    BY <2>5, ConflictEffect, NoHistoryEffect, RestsInv
  <2> QED
    BY <1>6, <2>3, <2>4, <2>5 DEF ReportPhase
<1>7. CASE RemoveFinalizer
  <2>1. work.step = "unfin" /\ blind' = blind
    BY <1>7, NoHistoryEffect DEF RemoveFinalizer
  <2>2. CASE Unchanged /\ WriteAgent(NoAgent) /\ Stop
    <3>1. Finishes
      BY <2>1, <2>2, WriteAgentEffect, StopEffect DEF Finishes, Unchanged
    <3> QED
      BY <3>1, FinishesInv
  <2>3. CASE Conflict
    BY <2>1, <2>3, ConflictEffect, RestsInv
  <2> QED
    BY <1>7, <2>2, <2>3 DEF RemoveFinalizer
<1> QED
  BY <1>1, <1>2, <1>3, <1>4, <1>5, <1>6, <1>7, <1>8 DEF Ensure

LEMMA ReconcileInv ==
  ASSUME OrphanTyped, ReconcileAgent
  PROVE  OrphanInv'
<1>1. CASE Ensure
  BY <1>1, EnsureInv DEF ReconcileAgent
<1>2. CASE RemoveBinding \/ RemoveRole
  <2>1. \E k \in ClusterScoped : Removes(k)
    BY <1>2, RemoveEffect DEF RemoveBinding, RemoveRole, ClusterScoped, OrphanTyped
  <2> QED
    BY <2>1, RemovesInv DEF ReconcileAgent
<1>3. CASE CallFails
  <2>1. Rests
    BY <1>3, NoWriteEffect, StopEffect, NoHistoryEffect DEF CallFails, Rests
  <2> QED
    BY <2>1, RestsInv DEF ReconcileAgent
<1> QED
  BY <1>1, <1>2, <1>3 DEF ReconcileAgent

(* What a write of an agent by its user leaves. *)
LEMMA PutAgentEffect ==
  ASSUME AgentTypeOK, NEW a \in Agents, NEW o, NEW n, PutAgent(a, o, n)
  PROVE  /\ agent'[a] = o /\ known'[a] \in {known[a], o}
         /\ \A b \in Agents \ {a} : agent'[b] = agent[b] /\ known'[b] = known[b]
BY DEF PutAgent, AgentTypeOK

(* Whatever else a user does, an agent with a finalizer keeps it and its   *)
(* uid, and a new one has a uid that nobody has seen.                      *)
UserWrites(a, o) ==
  /\ \/ o.uid = agent[a].uid /\ o.uid # 0 /\ (agent[a].deleting => o.deleting)
        /\ (agent[a].finalizer => o.finalizer)
     \/ o = NoAgent /\ ~agent[a].deleting /\ ~agent[a].finalizer /\ born'[a] = born[a]
     \/ agent[a].uid = 0 /\ o.uid = born[a] + 1 /\ born'[a] = born[a] + 1
  /\ born'[a] \in {born[a], born[a] + 1}
  /\ agent'[a] = o /\ known'[a] \in {known[a], o}
  /\ \A b \in Agents \ {a} : agent'[b] = agent[b] /\ known'[b] = known[b] /\ born'[b] = born[b]
  /\ UNCHANGED <<work, store, blind>>

LEMMA UserWritesInv ==
  ASSUME OrphanTyped, NEW a \in Agents, NEW o, UserWrites(a, o)
  PROVE  OrphanInv'
<1> USE DEF OrphanTyped, OrphanInv, UserWrites
<1>0. /\ \A b \in Agents : born[b] \in Nat /\ agent[b].uid \in Nat /\ known[b].uid \in Nat
      /\ me \in Agents /\ mine.uid \in Nat /\ me' = me /\ mine' = mine
  BY AgentAssumption, WorkTyped DEF AgentTypeOK, AgentObject, me, mine
<1>n. NoAgent.uid = 0 /\ ~NoAgent.deleting /\ ~NoAgent.finalizer
  BY NoAgentIs
<1>1. UidsInv'
  BY <1>0, <1>n DEF UidsInv
<1>2. DeletingInv'
  BY <1>0, <1>n DEF DeletingInv, UidsInv
<1>3. KnownInv'
  BY <1>0, <1>n DEF KnownInv, UidsInv
<1>4. WorkInv'
  BY <1>0, <1>n DEF WorkInv, UidsInv, CleanUp, ClusterScoped
<1>5. CleanUpInv'
  BY <1>0, <1>n DEF CleanUpInv, UidsInv, CleanUp
<1>6. NoOrphans'
  BY <1>0, <1>n DEF NoOrphans, Exists
<1> QED
  BY <1>1, <1>2, <1>3, <1>4, <1>5, <1>6

LEMMA UserInv ==
  ASSUME OrphanTyped, NEW a \in Agents, CreateAgent(a) \/ EditAgent(a) \/ DeleteAgent(a)
  PROVE  OrphanInv'
<1> USE DEF OrphanTyped
<1>0. agent[a] \in AgentObject /\ born[a] \in Nat /\ \A b \in Agents : born[b] \in Nat
  BY AgentAssumption DEF AgentTypeOK
<1>1. CASE CreateAgent(a)
  <2>1. PICK spec \in Specs : PutAgent(a, Agent(born[a] + 1, FALSE, FALSE, spec, NoId, ""), 0)
    BY <1>1 DEF CreateAgent
  <2> DEFINE o == Agent(born[a] + 1, FALSE, FALSE, spec, NoId, "")
  <2>2. o.uid = born[a] + 1 /\ agent[a].uid = 0
    BY <1>1 DEF Agent, CreateAgent, Exists
  <2>3. born'[a] = born[a] + 1 /\ \A b \in Agents \ {a} : born'[b] = born[b]
    BY <1>1 DEF CreateAgent, AgentTypeOK
  <2>4. UNCHANGED <<work, store, blind>>
    BY <1>1 DEF CreateAgent, objectVars, histories
  <2>5. /\ agent'[a] = o /\ known'[a] \in {known[a], o}
        /\ \A b \in Agents \ {a} : agent'[b] = agent[b] /\ known'[b] = known[b]
    BY <2>1, PutAgentEffect
  <2>6. UserWrites(a, o)
    BY <2>2, <2>3, <2>4, <2>5 DEF UserWrites
  <2> QED
    BY <2>6, UserWritesInv
<1>2. CASE EditAgent(a)
  <2>1. PICK spec \in Specs : PutAgent(a, WithSpec(agent[a], spec), 1)
    BY <1>2 DEF EditAgent
  <2> DEFINE o == WithSpec(agent[a], spec)
  <2>2. /\ o.uid = agent[a].uid /\ o.uid # 0 /\ o.deleting = agent[a].deleting
        /\ o.finalizer = agent[a].finalizer
    BY <1>0, <1>2 DEF WithSpec, Agent, EditAgent, Exists, AgentObject
  <2>3. UNCHANGED <<born, work, store, blind>>
    BY <1>2 DEF EditAgent, objectVars, histories
  <2>4. UserWrites(a, o)
    BY <2>1, <2>2, <2>3, PutAgentEffect DEF UserWrites
  <2> QED
    BY <2>4, UserWritesInv
<1>3. CASE DeleteAgent(a)
  <2> DEFINE o == IF agent[a].finalizer THEN Deleting(agent[a]) ELSE NoAgent
  <2>1. PutAgent(a, o, 0) /\ ~agent[a].deleting /\ agent[a].uid # 0
    BY <1>3 DEF DeleteAgent, Exists
  <2>2. agent[a].finalizer => o.uid = agent[a].uid /\ o.deleting /\ o.finalizer
    BY <1>0 DEF Deleting, Agent, AgentObject
  <2>3. UNCHANGED <<born, work, store, blind>>
    BY <1>3 DEF DeleteAgent, objectVars, histories
  <2>4. /\ agent'[a] = o /\ known'[a] \in {known[a], o}
        /\ \A b \in Agents \ {a} : agent'[b] = agent[b] /\ known'[b] = known[b]
    BY <2>1, PutAgentEffect
  <2>5. CASE agent[a].finalizer
    <3>1. UserWrites(a, o)
      BY <2>1, <2>2, <2>3, <2>4, <2>5 DEF UserWrites
    <3> QED
      BY <3>1, UserWritesInv
  <2>6. CASE ~agent[a].finalizer
    <3>1. o = NoAgent
      BY <2>6
    <3>2. UserWrites(a, o)
      BY <2>1, <2>3, <2>4, <2>6, <3>1 DEF UserWrites
    <3> QED
      BY <3>2, UserWritesInv
  <2> QED
    BY <2>5, <2>6
<1> QED
  BY <1>1, <1>2, <1>3

(* Objects only go, and the worker rests or goes on as it was. *)
Fades ==
  /\ AgentsSame /\ UNCHANGED <<born, blind, work>>
  /\ \A a \in Agents : \A k \in ClusterScoped :
       store'[a][k] = store[a][k] \/ ~store'[a][k].there

LEMMA FadesInv ==
  ASSUME OrphanTyped, Fades
  PROVE  OrphanInv'
<1> USE DEF OrphanTyped, OrphanInv, Fades, AgentsSame
<1>0. me' = me /\ mine' = mine /\ me \in Agents
  BY WorkTyped DEF me, mine
<1>1. UidsInv' /\ DeletingInv' /\ KnownInv' /\ WorkInv'
  BY <1>0 DEF UidsInv, DeletingInv, KnownInv, WorkInv
<1>2. CleanUpInv'
  BY <1>0 DEF CleanUpInv, ClusterScoped
<1>3. NoOrphans'
  BY DEF NoOrphans, Exists
<1> QED
  BY <1>1, <1>2, <1>3

LEMMA ClusterInv ==
  ASSUME OrphanTyped, NEW a \in Agents,
         \/ Collect(a) \/ StartPod(a) \/ FailPod(a) \/ LosePod(a)
         \/ CatchUpObjects(a) \/ FireAgentTimer(a)
  PROVE  OrphanInv'
<1> USE DEF OrphanTyped
<1>1. CASE Collect(a)
  <2> DEFINE objs == [k \in Kinds |-> IF LeftBehind(a, k) THEN Absent ELSE store[a][k]]
  <2>1. store' = [store EXCEPT ![a] = objs]
    BY <1>1 DEF Collect, PutObjects
  <2>2. \A k \in ClusterScoped : objs[k] = store[a][k] \/ ~objs[k].there
    BY DEF Kinds, Absent
  <2>3. \A b \in Agents : \A k \in ClusterScoped :
          store'[b][k] = store[b][k] \/ ~store'[b][k].there
    BY <2>1, <2>2 DEF AgentTypeOK
  <2>4. AgentsSame /\ UNCHANGED <<born, blind, work>>
    BY <1>1 DEF Collect, AgentsSame, queueVars, histories
  <2> QED
    BY <2>3, <2>4, FadesInv DEF Fades
<1>2. CASE LosePod(a)
  <2>1. store' = [store EXCEPT ![a] = [store[a] EXCEPT !["pod"] = Absent]]
    BY <1>2 DEF LosePod, PutObject, PutObjects
  <2>2. \A k \in ClusterScoped : k \in Kinds /\ k # "pod"
    BY DEF ClusterScoped, Kinds
  <2>3. \A b \in Agents : \A k \in ClusterScoped : store'[b][k] = store[b][k]
    BY <2>1, <2>2 DEF AgentTypeOK
  <2>4. AgentsSame /\ UNCHANGED <<born, blind, work>>
    BY <1>2 DEF LosePod, AgentsSame, queueVars
  <2> QED
    BY <2>3, <2>4, FadesInv DEF Fades
<1>3. CASE StartPod(a) \/ FailPod(a) \/ CatchUpObjects(a) \/ FireAgentTimer(a)
  <2>1. Fades
    BY <1>3 DEF StartPod, FailPod, CatchUpObjects, FireAgentTimer, Fades, AgentsSame,
       objectVars, queueVars, histories
  <2> QED
    BY <2>1, FadesInv
<1> QED
  BY <1>1, <1>2, <1>3

LEMMA CatchUpInv ==
  ASSUME OrphanTyped, NEW a \in Agents, CatchUpAgent(a)
  PROVE  OrphanInv'
<1> USE DEF OrphanTyped, OrphanInv
<1>0. /\ known'[a] = agent[a] /\ \A b \in Agents \ {a} : known'[b] = known[b]
      /\ agent' = agent /\ UNCHANGED <<born, work, store, blind>>
      /\ me' = me /\ mine' = mine /\ me \in Agents
  BY WorkTyped DEF CatchUpAgent, AgentTypeOK, objectVars, histories, me, mine
<1>1. UidsInv' /\ DeletingInv' /\ KnownInv' /\ WorkInv'
  BY <1>0 DEF UidsInv, DeletingInv, KnownInv, WorkInv
<1>2. CleanUpInv'
  BY <1>0 DEF CleanUpInv
<1>3. NoOrphans'
  BY <1>0 DEF NoOrphans, Exists
<1> QED
  BY <1>1, <1>2, <1>3

LEMMA StartInv ==
  ASSUME OrphanTyped, NEW a \in Agents, StartAgent(a)
  PROVE  OrphanInv'
<1> USE DEF OrphanTyped, OrphanInv
<1>0. AgentsSame /\ UNCHANGED <<born, store, blind>>
  BY DEF StartAgent, AgentsSame, objectVars, histories
<1>1. UNCHANGED <<agent, known, born, store, blind>>
  BY <1>0 DEF AgentsSame
<1>2. DeletingInv' /\ KnownInv' /\ NoOrphans'
  BY <1>1 DEF DeletingInv, KnownInv, NoOrphans, Exists
<1>3. CASE work'.step = "idle"
  <2>1. UidsInv' /\ WorkInv' /\ CleanUpInv'
    BY <1>1, <1>3 DEF UidsInv, WorkInv, CleanUpInv, CleanUp, ClusterScoped
  <2> QED
    BY <1>2, <2>1
<1>4. CASE work'.step # "idle"
  <2>1. /\ known[a].uid # 0 /\ me' = a /\ mine' = known[a]
        /\ work'.step = (IF known[a].deleting THEN "unbind" ELSE "id")
    BY <1>4 DEF StartAgent, Idle, At, me, mine
  <2>2. UidsInv'
    BY <1>1, <2>1 DEF UidsInv
  <2>3. WorkInv'
    BY <1>1, <2>1 DEF WorkInv, KnownInv, CleanUp, ClusterScoped
  <2>4. CleanUpInv'
    BY <1>1, <2>1 DEF CleanUpInv, DeletingInv, CleanUp
  <2> QED
    BY <1>2, <2>2, <2>3, <2>4
<1> QED
  BY <1>3, <1>4

LEMMA RestartInv ==
  ASSUME OrphanTyped, RestartOperator
  PROVE  OrphanInv'
<1> USE DEF OrphanTyped, OrphanInv
<1>1. known' = agent /\ work'.step = "idle" /\ UNCHANGED <<agent, born, store, blind>>
  BY DEF RestartOperator, Idle, At, histories
<1>2. UidsInv' /\ DeletingInv' /\ KnownInv'
  BY <1>1 DEF UidsInv, DeletingInv, KnownInv
<1>3. WorkInv' /\ CleanUpInv'
  BY <1>1 DEF WorkInv, CleanUpInv, CleanUp, ClusterScoped
<1>4. NoOrphans'
  BY <1>1 DEF NoOrphans, Exists
<1> QED
  BY <1>2, <1>3, <1>4

LEMMA OrphanInit ==
  ASSUME AgentInit
  PROVE  OrphanInv
<1>1. /\ \A a \in Agents : agent[a] = NoAgent /\ known[a] = NoAgent /\ born[a] = 0
      /\ \A a \in Agents : \A k \in ClusterScoped : ~store[a][k].there
      /\ work.step = "idle"
  BY DEF AgentInit, Idle, At, Absent, Kinds
<1> QED
  BY <1>1, NoAgentIs
     DEF OrphanInv, UidsInv, DeletingInv, KnownInv, WorkInv, CleanUpInv, NoOrphans, CleanUp, ClusterScoped

LEMMA OrphanNext ==
  ASSUME OrphanTyped, [AgentNext]_agentVars
  PROVE  OrphanInv'
<1>1. CASE UNCHANGED agentVars
  <2>1. Fades
    BY <1>1 DEF Fades, AgentsSame, agentVars, objectVars, queueVars, histories
  <2> QED
    BY <2>1, FadesInv
<1>2. CASE AgentNext
  BY <1>2, UserInv, ClusterInv, CatchUpInv, StartInv, RestartInv, ReconcileInv DEF AgentNext
<1> QED
  BY <1>1, <1>2

LEMMA OrphanAlways == AgentSpecification => []OrphanTyped
<1>1. AgentInit => OrphanTyped
  BY InitTyped, OrphanInit DEF OrphanTyped
<1>2. OrphanTyped /\ [AgentNext]_agentVars => OrphanTyped'
  BY NextTyped, StutterTyped, OrphanNext DEF OrphanTyped
<1> QED
  BY <1>1, <1>2, PTL DEF AgentSpecification

(* No cluster role and no binding outlives its agent (NoOrphans), however  *)
(* late the caches are, whatever fails and whenever the operator restarts. *)
THEOREM NoOrphansHold == AgentSpecification => []NoOrphans
<1>1. OrphanTyped => NoOrphans
  BY DEF OrphanTyped, OrphanInv
<1> QED
  BY <1>1, OrphanAlways, PTL

-----------------------------------------------------------------------------
(* The id of an agent. *)
IDStep(a) ==
  agent[a].agentID # NoId /\ agent'[a].uid = agent[a].uid => agent'[a].agentID = agent[a].agentID

LEMMA WriteKeepsID ==
  ASSUME AgentTypeOK, NEW o, WriteAgent(o), Unchanged, Keeps(mine, o), NEW a \in Agents
  PROVE  IDStep(a)
<1>1. agent' = [agent EXCEPT ![me] = o] /\ agent[me] = mine /\ me \in Agents
  BY WorkTyped DEF WriteAgent, PutAgent, Unchanged
<1> QED
  BY <1>1 DEF IDStep, Keeps, AgentTypeOK

LEMMA EnsureKeepsID ==
  ASSUME OrphanTyped, Ensure, NEW a \in Agents
  PROVE  IDStep(a)
<1> USE DEF OrphanTyped
<1>0. mine \in AgentObject /\ me \in Agents
  BY WorkTyped
<1>s. CASE agent' = agent
  BY <1>s DEF IDStep
<1>1. CASE AssignID
  <2>1. agent' = agent \/ (mine.agentID = NoId /\ UpdateAndGoOn(WithID(mine, NewID)))
    BY <1>1 DEF AssignID, NothingToWrite, NoWrite, NoCall, Conflict
  <2> QED
    BY <1>0, <1>s, <2>1, KeepsAll, WriteKeepsID DEF UpdateAndGoOn
<1>2. CASE AddFinalizer
  <2>1. agent' = agent \/ UpdateAndGoOn(WithFinalizer(mine))
    BY <1>2 DEF AddFinalizer, NothingToWrite, NoWrite, NoCall, Conflict
  <2> QED
    BY <1>0, <1>s, <2>1, KeepsAll, WriteKeepsID DEF UpdateAndGoOn
<1>3. CASE \/ EnsureServiceAccount \/ EnsureKubeconfigSecret \/ EnsurePVC
           \/ EnsureService \/ EnsurePod \/ EnsureRole \/ EnsureRoleBinding
           \/ EnsureClusterRole \/ EnsureClusterRoleBinding
  <2>1. agent' = agent
    BY <1>3 DEF EnsureServiceAccount, EnsureKubeconfigSecret, EnsurePVC, EnsureService, EnsurePod,
       EnsureRole, EnsureRoleBinding, EnsureClusterRole, EnsureClusterRoleBinding, EnsureExists,
       Provide, EnsureHolds, NothingToWrite, Create, Write, NoWrite, NoCall
  <2> QED
    BY <1>s, <2>1
<1>4. CASE ReportPhase
  <2> DEFINE o == WithPhase(mine, PhaseOfPod(podPhase[me]))
  <2>1. agent' = agent \/ (Unchanged /\ WriteAgent(o))
    BY <1>4 DEF ReportPhase, PassOver, NoWrite, NoCall, Conflict
  <2> QED
    BY <1>0, <1>s, <2>1, KeepsAll, WriteKeepsID
<1>5. CASE RemoveFinalizer
  <2>1. agent' = agent \/ (WriteAgent(NoAgent) /\ Unchanged /\ work.step = "unfin")
    BY <1>5 DEF RemoveFinalizer, NoWrite, NoCall, Conflict
  <2>2. CASE WriteAgent(NoAgent) /\ Unchanged /\ work.step = "unfin"
    <3>1. agent[me].uid # 0
      BY <2>2 DEF OrphanInv, UidsInv, Unchanged
    <3>2. agent' = [agent EXCEPT ![me] = NoAgent]
      BY <2>2 DEF WriteAgent, PutAgent
    <3> QED
      BY <1>0, <3>1, <3>2, NoAgentIs DEF IDStep, AgentTypeOK
  <2> QED
    BY <1>s, <2>1, <2>2
<1> QED
  BY <1>1, <1>2, <1>3, <1>4, <1>5 DEF Ensure

LEMMA UserKeepsID ==
  ASSUME OrphanTyped, NEW u \in Agents, CreateAgent(u) \/ EditAgent(u) \/ DeleteAgent(u),
         NEW a \in Agents
  PROVE  IDStep(a)
<1> USE DEF OrphanTyped
<1>0. agent[u] \in AgentObject
  BY DEF AgentTypeOK
<1>1. PICK o, n : PutAgent(u, o, n) /\ (agent[u].uid # 0 /\ o.uid = agent[u].uid => o.agentID = agent[u].agentID)
  <2>1. CASE CreateAgent(u)
    BY <2>1 DEF CreateAgent, Exists
  <2>2. CASE EditAgent(u)
    BY <1>0, <2>2 DEF EditAgent, WithSpec, Agent, AgentObject
  <2>3. CASE DeleteAgent(u)
    BY <1>0, <2>3, NoAgentIs DEF DeleteAgent, Deleting, Agent, AgentObject
  <2> QED
    BY <2>1, <2>2, <2>3
<1>2. agent[u].uid = 0 => agent[u].agentID = NoId
  BY NoAgentIs DEF OrphanInv, UidsInv
<1>3. agent'[u] = o /\ \A b \in Agents \ {u} : agent'[b] = agent[b]
  BY <1>1, PutAgentEffect
<1> QED
  BY <1>1, <1>2, <1>3 DEF IDStep

(* An agent keeps the id it was given (AgentIDStable). *)
THEOREM AgentIDIsStable == AgentSpecification => AgentIDStable
<1>1. OrphanTyped /\ [AgentNext]_agentVars =>
        [\A a \in Agents : IDStep(a)]_agentVars
  <2> SUFFICES ASSUME OrphanTyped, AgentNext, NEW a \in Agents
               PROVE  IDStep(a)
    OBVIOUS
  <2>1. CASE Ensure
    BY <2>1, EnsureKeepsID
  <2>2. CASE \E u \in Agents : CreateAgent(u) \/ EditAgent(u) \/ DeleteAgent(u)
    BY <2>2, UserKeepsID
  <2>3. CASE \/ RemoveBinding \/ RemoveRole \/ CallFails \/ RestartOperator
             \/ \E u \in Agents :
                  \/ StartPod(u) \/ FailPod(u) \/ LosePod(u) \/ CatchUpAgent(u)
                  \/ CatchUpObjects(u) \/ Collect(u) \/ FireAgentTimer(u) \/ StartAgent(u)
    <3>1. agent' = agent
      BY <2>3 DEF RemoveBinding, RemoveRole, Remove, Write, NoCall, CallFails, RestartOperator,
         StartPod, FailPod, LosePod, CatchUpAgent, CatchUpObjects, Collect, FireAgentTimer, StartAgent
    <3> QED
      BY <3>1 DEF IDStep
  <2> QED
    BY <2>1, <2>2, <2>3 DEF AgentNext, ReconcileAgent
<1>2. [\A a \in Agents : IDStep(a)]_agentVars =>
        [\A a \in Agents :
           agent[a].agentID # NoId /\ agent'[a].uid = agent[a].uid
             => agent'[a].agentID = agent[a].agentID]_agentVars
  BY DEF IDStep
<1> QED
  BY <1>1, <1>2, OrphanAlways, PTL DEF AgentSpecification, AgentIDStable

-----------------------------------------------------------------------------
(* The inductive invariant behind NoWorkLost.                              *)

(* A spec with rules names an account, by default one made of the agent's  *)
(* name.                                                                   *)
Consistent(spec) == spec.account # NoAccount \/ (spec.rules = NoRules /\ spec.cluster = NoRules)
SpecInv ==
  /\ \A a \in Agents : Consistent(agent[a].spec) /\ Consistent(known[a].spec)
  /\ work.step # "idle" => Consistent(mine.spec)

(* An agent that is not queued again is known as it was when the worker    *)
(* took it.                                                                *)
LinkInv ==
  work.step # "idle" /\ me \notin agentQueue => known[me].uid = mine.uid /\ known[me].spec = mine.spec

(* An object that stays with this incarnation and says what its spec says. *)
Good(k, obj, uid, spec) ==
  /\ obj.there /\ obj.owner \in {0, uid}
  /\ k = "role" => obj.holds = spec.rules
  /\ k = "cr" => obj.holds = spec.cluster
  /\ k \in {"rb", "crb", "secret"} => obj.holds = spec.account

(* The kinds that a reconcile has behind it. *)
Behind(step) ==
  CASE step \in {"id", "sa"} -> {}
    [] step = "role" -> Accounts
    [] step = "rb" -> Accounts \cup {"role"}
    [] step \in {"fin", "cr"} -> Accounts \cup {"role", "rb"}
    [] step = "crb" -> Accounts \cup {"role", "rb", "cr"}
    [] step = "secret" -> Accounts \cup {"role", "rb", "cr", "crb"}
    [] step = "pvc" -> Accounts \cup {"role", "rb", "cr", "crb", "secret"}
    [] step = "pod" -> Kinds \ {"pod", "svc"}
    [] step = "svc" -> Kinds \ {"svc"}
    [] step = "status" -> Kinds

(* What the worker has behind it is good, unless the agent has become      *)
(* another one meanwhile.                                                  *)
ProgInv ==
  work.step \notin CleanUp \cup {"idle"} /\ me \notin disturbed /\ agent[me].uid = mine.uid
    => \A k \in Behind(work.step) \cap Wanted(mine.spec) : Good(k, store[me][k], mine.uid, mine.spec)

(* An agent to which nothing will bring the worker back, as far as it      *)
(* knows, has what the spec that it knows asks for.                        *)
Quiet(a) ==
  /\ known[a].uid # 0 /\ ~known[a].deleting /\ agent[a].uid = known[a].uid
  /\ a \notin agentQueue \cup agentTimers /\ (work.step = "idle" \/ me # a)
QuietInv ==
  \A a \in Agents \ disturbed : Quiet(a) =>
    \A k \in Wanted(known[a].spec) : Good(k, store[a][k], known[a].uid, known[a].spec)

WorkLinks == LinkInv /\ ProgInv /\ QuietInv
Tracked == OrphanTyped /\ SpecInv /\ WorkLinks

LEMMA WantedKinds ==
  ASSUME NEW spec \in AgentSpec
  PROVE  Wanted(spec) \subseteq Kinds
<1>1. spec.account # NoAccount => spec.account \in Accounts
  BY DEF AgentSpec
<1> QED
  BY <1>1 DEF Wanted, Kinds, Owned, Named, ClusterScoped

(* The kinds a step deals with; behind the next step is nothing more. *)
Treated(step, spec) == CASE step = "sa" -> {spec.account} [] step \in {"id", "fin"} -> {} [] OTHER -> {step}

LEMMA BehindNext ==
  ASSUME NEW spec \in AgentSpec, Consistent(spec), NEW step \in Onward \ CleanUp,
         NEW k \in Behind(After(step, spec)) \cap Wanted(spec)
  PROVE  k \in Behind(step) \cup Treated(step, spec)
<1>a. /\ Accounts \cap (Named \cup ClusterScoped) = {} /\ NoAccount \notin Accounts
      /\ Kinds = Accounts \cup Named \cup ClusterScoped
      /\ k \in Accounts => k = spec.account
  BY AgentAssumption DEF Kinds, Owned, Wanted, Named, ClusterScoped
<1>n. Named = {"role", "rb", "secret", "pvc", "pod", "svc"} /\ ClusterScoped = {"cr", "crb"}
  BY DEF Named, ClusterScoped
<1>s. step \in {"id", "sa", "fin"} \cup Named \cup ClusterScoped
  BY DEF Onward, CleanUp
<1>1. CASE step = "id"
  <2>1. CASE spec.account # NoAccount
    BY <1>1, <2>1 DEF After, Behind
  <2>2. CASE spec.account = NoAccount
    <3>1. Wanted(spec) = {"pvc", "pod", "svc"}
      BY <2>2 DEF Wanted, Consistent
    <3>2. Behind("pvc") = Accounts \cup {"role", "rb", "cr", "crb", "secret"} /\ After(step, spec) = "pvc"
      BY <1>1, <2>2 DEF Behind, After
    <3> QED
      BY <1>a, <1>n, <3>1, <3>2
  <2> QED
    BY <2>1, <2>2
<1>2. CASE step = "sa"
  <2>1. "role" \in Wanted(spec) \/ "rb" \in Wanted(spec) => spec.rules # NoRules
    BY <1>a, <1>n DEF Wanted, AgentSpec
  <2>2. "cr" \in Wanted(spec) \/ "crb" \in Wanted(spec) => spec.cluster # NoRules
    BY <1>a, <1>n DEF Wanted, AgentSpec
  <2>3. Treated(step, spec) = {spec.account}
    BY <1>2 DEF Treated
  <2>4. CASE spec.rules # NoRules
    <3>1. Behind(After(step, spec)) = Accounts
      BY <1>2, <2>4 DEF After, Behind
    <3> QED
      BY <1>a, <2>3, <3>1
  <2>5. CASE spec.rules = NoRules /\ spec.cluster # NoRules
    <3>1. Behind(After(step, spec)) = Accounts \cup {"role", "rb"}
      BY <1>2, <2>5 DEF After, AfterBindings, Behind
    <3> QED
      BY <1>a, <2>1, <2>3, <2>5, <3>1
  <2>6. CASE spec.rules = NoRules /\ spec.cluster = NoRules
    <3>1. Behind(After(step, spec)) = Accounts \cup {"role", "rb", "cr", "crb"}
      BY <1>2, <2>6 DEF After, AfterBindings, Behind
    <3> QED
      BY <1>a, <2>1, <2>2, <2>3, <2>6, <3>1
  <2> QED
    BY <2>4, <2>5, <2>6
<1>3. CASE step = "rb"
  <2>1. "cr" \in Wanted(spec) \/ "crb" \in Wanted(spec) => spec.cluster # NoRules
    BY <1>a, <1>n DEF Wanted, AgentSpec
  <2>2. Treated(step, spec) = {"rb"} /\ Behind(step) = Accounts \cup {"role"}
    BY <1>3 DEF Treated, Behind
  <2>3. CASE spec.cluster # NoRules
    <3>1. Behind(After(step, spec)) = Accounts \cup {"role", "rb"}
      BY <1>3, <2>3 DEF After, AfterBindings, Behind
    <3> QED
      BY <2>2, <3>1
  <2>4. CASE spec.cluster = NoRules
    <3>1. Behind(After(step, spec)) = Accounts \cup {"role", "rb", "cr", "crb"}
      BY <1>3, <2>4 DEF After, AfterBindings, Behind
    <3> QED
      BY <2>1, <2>2, <2>4, <3>1
  <2> QED
    BY <2>3, <2>4
<1>4. CASE step \in {"role", "fin", "cr", "crb", "secret"}
  BY <1>4 DEF After, Behind, Treated
<1>5. CASE step \in {"pvc", "pod", "svc"}
  BY <1>a, <1>n, <1>5 DEF After, Behind, Treated
<1> QED
  BY <1>n, <1>s, <1>1, <1>2, <1>3, <1>4, <1>5

(* What every step but StartAgent and RestartOperator does. *)
QueueGrows ==
  /\ agentQueue \subseteq agentQueue' /\ agentQueue \cup agentTimers \subseteq agentQueue' \cup agentTimers'
  /\ \A a \in Agents : a \notin agentQueue' => known'[a] = known[a]
UidsGoOn == \A a \in Agents : agent'[a].uid \in {0, agent[a].uid} \/ agent'[a].uid > born[a]
Grows == QueueGrows /\ UidsGoOn /\ disturbed \subseteq disturbed'

LEMMA SameUid ==
  ASSUME OrphanTyped, UidsGoOn, NEW a \in Agents
  PROVE  /\ known[a].uid # 0 /\ agent'[a].uid = known[a].uid => agent[a].uid = known[a].uid
         /\ work.step # "idle" /\ agent'[me].uid = mine.uid => agent[me].uid = mine.uid
<1>1. /\ me \in Agents /\ mine.uid \in Nat /\ \A b \in Agents : known[b].uid \in Nat /\ born[b] \in Nat
  BY AgentAssumption, WorkTyped DEF OrphanTyped, AgentTypeOK, AgentObject
<1>2. /\ \A b \in Agents : known[b].uid <= born[b]
      /\ work.step # "idle" => mine.uid # 0 /\ mine.uid <= born[me]
  BY DEF OrphanTyped, OrphanInv, UidsInv
<1> QED
  BY <1>1, <1>2 DEF UidsGoOn

LEMMA QuietKept ==
  ASSUME Tracked, Grows, NEW a \in Agents \ disturbed', work.step = "idle" \/ me # a,
         known'[a].uid # 0, ~known'[a].deleting, agent'[a].uid = known'[a].uid,
         a \notin agentQueue' \cup agentTimers',
         \A k \in Kinds : store[a][k].there /\ store[a][k].owner \in {0, agent'[a].uid}
                            => store'[a][k] = store[a][k]
  PROVE  \A k \in Wanted(known'[a].spec) : Good(k, store'[a][k], known'[a].uid, known'[a].spec)
<1>1. known'[a] = known[a] /\ a \notin agentQueue \cup agentTimers /\ a \notin disturbed
  BY DEF Grows, QueueGrows
<1>2. Quiet(a)
  BY <1>1, SameUid DEF Quiet, Tracked, Grows
<1>3. known[a].spec \in AgentSpec
  BY DEF Tracked, OrphanTyped, AgentTypeOK, AgentObject
<1>4. \A k \in Wanted(known[a].spec) : k \in Kinds /\ Good(k, store[a][k], known[a].uid, known[a].spec)
  BY <1>1, <1>2, <1>3, WantedKinds DEF Tracked, WorkLinks, QuietInv
<1> QED
  BY <1>1, <1>4 DEF Good

(* The worker stays where it is. *)
Calm ==
  /\ Grows /\ work' = work
  /\ \A a \in Agents \ disturbed' : \A k \in Kinds :
       store[a][k].there /\ store[a][k].owner \in {0, agent'[a].uid} => store'[a][k] = store[a][k]

LEMMA CalmInv ==
  ASSUME Tracked, Calm
  PROVE  WorkLinks'
<1>0. me' = me /\ mine' = mine /\ me \in Agents /\ mine.spec \in AgentSpec
  BY WorkTyped DEF Calm, me, mine, Tracked, OrphanTyped
<1>1. LinkInv'
  BY <1>0 DEF Calm, Grows, QueueGrows, Tracked, WorkLinks, LinkInv
<1>2. ProgInv'
  <2> SUFFICES ASSUME work.step \notin CleanUp \cup {"idle"}, me \notin disturbed', agent'[me].uid = mine.uid,
                      NEW k \in Behind(work.step) \cap Wanted(mine.spec)
               PROVE  Good(k, store'[me][k], mine.uid, mine.spec)
    BY <1>0 DEF ProgInv, Calm
  <2>1. agent[me].uid = mine.uid /\ me \notin disturbed
    BY <1>0, SameUid DEF Calm, Grows, Tracked
  <2>2. Good(k, store[me][k], mine.uid, mine.spec) /\ k \in Kinds
    BY <1>0, <2>1, WantedKinds DEF Tracked, WorkLinks, ProgInv
  <2> QED
    BY <1>0, <2>2 DEF Calm, Good
<1>3. QuietInv'
  <2> SUFFICES ASSUME NEW a \in Agents \ disturbed', Quiet(a)'
               PROVE  \A k \in Wanted(known'[a].spec) : Good(k, store'[a][k], known'[a].uid, known'[a].spec)
    BY DEF QuietInv
  <2> QED
    BY <1>0, QuietKept DEF Quiet, Calm
<1> QED
  BY <1>1, <1>2, <1>3 DEF WorkLinks

(* How a step of the worker may end. *)
OthersStay == Grows /\ \A a \in Agents \ {me} : store'[a] = store[a]
GivesUp == OthersStay /\ work'.step = "idle" /\ (me \in agentTimers' \/ agent'[me].uid = 0)
Ends == OthersStay /\ work.step = "status" /\ work'.step = "idle" /\ store' = store
CleansOn == OthersStay /\ work.step \in CleanUp /\ work'.step \in CleanUp /\ me' = me /\ mine' = mine
Provides ==
  /\ OthersStay /\ work.step \in Onward \ CleanUp
  /\ work'.step = After(work.step, mine.spec) /\ me' = me /\ mine'.uid = mine.uid /\ mine'.spec = mine.spec
  /\ me \notin disturbed' =>
       \A k \in Kinds :
         IF k \in Treated(work.step, mine.spec) THEN Good(k, store'[me][k], mine.uid, mine.spec)
         ELSE store'[me][k] = store[me][k]

LEMMA QuietOthers ==
  ASSUME Tracked, OthersStay, NEW a \in Agents \ disturbed', a # me, Quiet(a)'
  PROVE  \A k \in Wanted(known'[a].spec) : Good(k, store'[a][k], known'[a].uid, known'[a].spec)
BY QuietKept DEF OthersStay, Quiet

LEMMA GivesUpInv ==
  ASSUME Tracked, GivesUp
  PROVE  WorkLinks'
<1>1. LinkInv' /\ ProgInv'
  BY DEF GivesUp, LinkInv, ProgInv, CleanUp
<1>2. QuietInv'
  <2> SUFFICES ASSUME NEW a \in Agents \ disturbed', Quiet(a)'
               PROVE  \A k \in Wanted(known'[a].spec) : Good(k, store'[a][k], known'[a].uid, known'[a].spec)
    BY DEF QuietInv
  <2>1. a # me
    BY DEF Quiet, GivesUp
  <2> QED
    BY <2>1, QuietOthers DEF GivesUp
<1> QED
  BY <1>1, <1>2 DEF WorkLinks

LEMMA EndsInv ==
  ASSUME Tracked, Ends
  PROVE  WorkLinks'
<1>0. me \in Agents /\ mine.spec \in AgentSpec
  BY WorkTyped DEF Tracked, OrphanTyped
<1>1. LinkInv' /\ ProgInv'
  BY DEF Ends, LinkInv, ProgInv, CleanUp
<1>2. QuietInv'
  <2> SUFFICES ASSUME NEW a \in Agents \ disturbed', Quiet(a)'
               PROVE  \A k \in Wanted(known'[a].spec) : Good(k, store'[a][k], known'[a].uid, known'[a].spec)
    BY DEF QuietInv
  <2>1. CASE a # me
    BY <2>1, QuietOthers DEF Ends
  <2>2. CASE a = me
    <3>1. me \notin agentQueue' /\ me \notin agentQueue /\ known'[me] = known[me] /\ me \notin disturbed
      BY <1>0, <2>2 DEF Quiet, Ends, OthersStay, Grows, QueueGrows
    <3>2. known[me].uid = mine.uid /\ known[me].spec = mine.spec
      BY <3>1 DEF Tracked, WorkLinks, LinkInv, Ends
    <3>3. agent[me].uid = mine.uid
      BY <2>2, <3>1, <3>2, SameUid DEF Quiet, Ends, OthersStay, Grows, Tracked
    <3>4. \A k \in Behind("status") \cap Wanted(mine.spec) : Good(k, store[me][k], mine.uid, mine.spec)
      BY <3>1, <3>3 DEF Tracked, WorkLinks, ProgInv, Ends, CleanUp
    <3>5. Behind("status") = Kinds
      BY DEF Behind
    <3> QED
      BY <1>0, <2>2, <3>1, <3>2, <3>4, <3>5, WantedKinds DEF Ends
  <2> QED
    BY <2>1, <2>2
<1> QED
  BY <1>1, <1>2 DEF WorkLinks

LEMMA WorkingOn ==
  ASSUME Tracked, OthersStay, work.step # "idle", work'.step # "idle", me' = me,
         mine'.uid = mine.uid, mine'.spec = mine.spec
  PROVE  LinkInv' /\ QuietInv'
<1>0. me \in Agents
  BY WorkTyped DEF Tracked, OrphanTyped
<1>1. LinkInv'
  BY <1>0 DEF OthersStay, Grows, QueueGrows, Tracked, WorkLinks, LinkInv
<1>2. QuietInv'
  <2> SUFFICES ASSUME NEW a \in Agents \ disturbed', Quiet(a)'
               PROVE  \A k \in Wanted(known'[a].spec) : Good(k, store'[a][k], known'[a].uid, known'[a].spec)
    BY DEF QuietInv
  <2>1. a # me
    BY DEF Quiet
  <2> QED
    BY <2>1, QuietOthers
<1> QED
  BY <1>1, <1>2

LEMMA CleansOnInv ==
  ASSUME Tracked, CleansOn
  PROVE  WorkLinks'
<1>1. work.step # "idle" /\ work'.step # "idle"
  BY DEF CleansOn, CleanUp
<1>2. LinkInv' /\ QuietInv'
  BY <1>1, WorkingOn DEF CleansOn
<1>3. ProgInv'
  BY DEF ProgInv, CleansOn
<1> QED
  BY <1>2, <1>3 DEF WorkLinks

LEMMA ProvidesInv ==
  ASSUME Tracked, Provides
  PROVE  WorkLinks'
<1>0. me \in Agents /\ mine.spec \in AgentSpec /\ Consistent(mine.spec)
  BY WorkTyped DEF Provides, Tracked, OrphanTyped, SpecInv, Onward, Named, ClusterScoped
<1>1. /\ work.step \in Onward \ CleanUp /\ work.step \notin CleanUp \cup {"idle"}
      /\ work'.step \notin CleanUp \cup {"idle"}
  BY AfterFacts DEF Provides, Onward, CleanUp, Named, ClusterScoped
<1>2. LinkInv' /\ QuietInv'
  BY <1>1, WorkingOn DEF Provides
<1>3. ASSUME me \notin disturbed', agent'[me].uid = mine.uid,
             NEW k \in Behind(After(work.step, mine.spec)) \cap Wanted(mine.spec)
      PROVE  Good(k, store'[me][k], mine.uid, mine.spec)
  <2>1. k \in Kinds /\ k \in Behind(work.step) \cup Treated(work.step, mine.spec)
    BY <1>0, <1>1, BehindNext, WantedKinds
  <2>2. CASE k \in Treated(work.step, mine.spec)
    BY <1>3, <2>1, <2>2 DEF Provides
  <2>3. CASE k \notin Treated(work.step, mine.spec)
    <3>1. agent[me].uid = mine.uid /\ me \notin disturbed
      BY <1>0, <1>1, <1>3, SameUid DEF Provides, OthersStay, Grows, Tracked
    <3>2. Good(k, store[me][k], mine.uid, mine.spec)
      BY <1>1, <2>1, <2>3, <3>1 DEF Tracked, WorkLinks, ProgInv
    <3> QED
      BY <1>3, <2>1, <2>3, <3>2 DEF Provides
  <2> QED
    BY <2>2, <2>3
<1>4. ProgInv'
  BY <1>3 DEF ProgInv, Provides
<1> QED
  BY <1>2, <1>4 DEF WorkLinks

(* The writes of the worker. *)
TimersGrow == agentTimers \subseteq agentTimers'
HistoryGrows == disturbed \subseteq disturbed'

LEMMA PutAgentGrows ==
  ASSUME AgentTypeOK, NEW a \in Agents, NEW o, NEW n, PutAgent(a, o, n), TimersGrow, HistoryGrows,
         o.uid \in {0, agent[a].uid} \/ o.uid > born[a]
  PROVE  Grows
<1>1. /\ agent'[a] = o /\ \A b \in Agents \ {a} : agent'[b] = agent[b] /\ known'[b] = known[b]
      /\ agentQueue \subseteq agentQueue' /\ (known' = known \/ a \in agentQueue')
  BY DEF PutAgent, AgentTypeOK
<1>2. UidsGoOn
  BY <1>1 DEF UidsGoOn
<1>3. QueueGrows
  BY <1>1 DEF QueueGrows, TimersGrow
<1> QED
  BY <1>2, <1>3 DEF Grows, HistoryGrows

LEMMA SameGrows ==
  ASSUME AgentTypeOK, UNCHANGED <<agent, known, agentQueue>>, TimersGrow, HistoryGrows
  PROVE  Grows
BY DEF Grows, QueueGrows, UidsGoOn, TimersGrow, HistoryGrows

LEMMA TimersThen ==
  ASSUME Stop \/ Retry \/ UNCHANGED agentTimers
  PROVE  TimersGrow /\ (Retry => me \in agentTimers')
BY DEF TimersGrow, Stop, Retry

LEMMA HistoryThen ==
  ASSUME NoHistory \/ \E k \in Kinds : Accept(k)
  PROVE  HistoryGrows
BY DEF HistoryGrows, NoHistory, histories, Accept

LEMMA RetryIs ==
  ASSUME AgentTypeOK, NoCall, Retry, HistoryGrows
  PROVE  GivesUp
<1>1. Grows
  BY SameGrows, TimersThen DEF NoCall
<1> QED
  BY <1>1, TimersThen, StopEffect DEF GivesUp, OthersStay, NoCall

(* The agent is written, or nothing is, and the reconcile goes on. *)
LEMMA WriteAgentGrows ==
  ASSUME AgentTypeOK, NEW o, WriteAgent(o), Stop \/ Retry \/ UNCHANGED agentTimers, HistoryGrows,
         o.uid \in {0, agent[me].uid}
  PROVE  OthersStay /\ store' = store /\ agent'[me] = o
<1>1. Grows
  BY WorkTyped, PutAgentGrows, TimersThen DEF WriteAgent
<1>2. agent'[me] = o
  BY WorkTyped, PutAgentEffect DEF WriteAgent
<1> QED
  BY <1>1, <1>2 DEF OthersStay, WriteAgent

LEMMA NothingIs ==
  ASSUME AgentTypeOK, NothingToWrite, HistoryGrows, work.step \in Onward \ CleanUp,
         me \notin disturbed' =>
           \A k \in Treated(work.step, mine.spec) : Good(k, store[me][k], mine.uid, mine.spec)
  PROVE  Provides
<1>1. Grows /\ store' = store
  BY SameGrows, TimersThen DEF NothingToWrite, NoWrite, NoCall
<1>2. work'.step = After(work.step, mine.spec) /\ me' = me /\ mine' = mine
  BY GoOnEffect DEF NothingToWrite
<1> QED
  BY <1>1, <1>2 DEF Provides, OthersStay

LEMMA UpdateIs ==
  ASSUME AgentTypeOK, NEW o \in AgentObject, UpdateAndGoOn(o), o.uid = mine.uid, o.spec = mine.spec,
         NoHistory, work.step \in {"id", "fin"}
  PROVE  Provides
<1>1. agent[me] = mine /\ WriteAgent(o) /\ GoOn(o) /\ UNCHANGED agentTimers
  BY DEF UpdateAndGoOn, Unchanged
<1>2. OthersStay /\ store' = store
  BY <1>1, WriteAgentGrows, HistoryThen
<1>3. work'.step = After(work.step, mine.spec) /\ me' = me /\ mine' = o
  BY <1>1, GoOnEffect
<1>4. work.step \in Onward \ CleanUp /\ Treated(work.step, mine.spec) = {}
  BY DEF Onward, CleanUp, Treated
<1> QED
  BY <1>2, <1>3, <1>4 DEF Provides

LEMMA WriteIs ==
  ASSUME AgentTypeOK, NEW k \in Kinds, NEW o, Write(k, o), GoOn(mine), UNCHANGED <<agentTimers, blind>>,
         HistoryGrows, work.step \in Onward \ CleanUp, Treated(work.step, mine.spec) = {k},
         me \notin disturbed' => Good(k, o, mine.uid, mine.spec)
  PROVE  Provides
<1>1. Grows
  BY SameGrows, TimersThen DEF Write
<1>2. work'.step = After(work.step, mine.spec) /\ me' = me /\ mine' = mine
  BY GoOnEffect
<1>3. /\ \A a \in Agents \ {me} : store'[a] = store[a]
      /\ store'[me] = [store[me] EXCEPT ![k] = o]
  BY WriteEffect
<1>4. store[me] \in [Kinds -> Objects]
  BY WorkTyped DEF AgentTypeOK
<1>5. store'[me][k] = o /\ \A j \in Kinds \ {k} : store'[me][j] = store[me][j]
  BY <1>3, <1>4
<1> QED
  BY <1>1, <1>2, <1>3, <1>5 DEF Provides, OthersStay

LEMMA CreateIs ==
  ASSUME AgentTypeOK, NEW k \in Kinds, NEW o, Create(k, o), NoHistory,
         work.step \in Onward \ CleanUp, Treated(work.step, mine.spec) = {k},
         Good(k, o, mine.uid, mine.spec)
  PROVE  Provides \/ GivesUp
<1>1. HistoryGrows /\ UNCHANGED blind
  BY HistoryThen, NoHistoryEffect
<1>2. CASE Write(k, o) /\ GoOn(mine) /\ UNCHANGED agentTimers
  BY <1>1, <1>2, WriteIs
<1>3. CASE NoWrite /\ Retry
  BY <1>1, <1>3, RetryIs DEF NoWrite
<1> QED
  BY <1>2, <1>3 DEF Create

(* What is only created holds nothing that may change. *)
Plain == Accounts \cup {"pvc", "pod", "svc"}

LEMMA ProvideIs ==
  ASSUME AgentTypeOK, NEW k \in Plain, NEW holds, Provide(k, holds),
         work.step \in Onward \ CleanUp, Treated(work.step, mine.spec) = {k}
  PROVE  Provides \/ GivesUp
<1>1. k \in Kinds /\ k \notin {"role", "cr", "rb", "crb", "secret"}
  BY AgentAssumption DEF Plain, Kinds, Owned, Named, ClusterScoped
<1>2. CASE NothingToWrite /\ Accept(k)
  <2>1. me \notin disturbed' => Good(k, store[me][k], mine.uid, mine.spec)
    BY <1>1, <1>2 DEF Accept, Foreign, Good
  <2> QED
    BY <1>1, <1>2, <2>1, NothingIs, HistoryThen
<1>3. CASE Create(k, Object(mine.uid, holds)) /\ NoHistory
  <2>1. Good(k, Object(mine.uid, holds), mine.uid, mine.spec)
    BY <1>1 DEF Good, Object
  <2> QED
    BY <1>1, <1>3, <2>1, CreateIs
<1> QED
  BY <1>2, <1>3 DEF Provide

LEMMA EnsureHoldsIs ==
  ASSUME AgentTypeOK, NEW k \in {"role", "rb", "secret", "cr", "crb"}, NEW owner \in {0, mine.uid}, NEW holds,
         EnsureHolds(k, owner, holds), holds = (CASE k = "role" -> mine.spec.rules [] k = "cr" -> mine.spec.cluster
                                                  [] OTHER -> mine.spec.account)
  PROVE  Provides \/ GivesUp
<1>1. /\ k \in Kinds /\ work.step = k /\ work.step \in Onward \ CleanUp
      /\ Treated(work.step, mine.spec) = {k} /\ me \in Agents
  BY WorkTyped DEF EnsureHolds, Kinds, Owned, Named, ClusterScoped, Onward, CleanUp, Treated
<1>2. \A own \in {0, mine.uid} : Good(k, Object(own, holds), mine.uid, mine.spec)
  BY DEF Good, Object
<1>3. CASE /\ Write(k, Object(store[me][k].owner, holds)) /\ GoOn(mine) /\ UNCHANGED <<agentTimers, blind>>
           /\ disturbed' = IF Foreign(store[me][k]) THEN disturbed \cup {me} ELSE disturbed
  <2>1. HistoryGrows
    BY <1>3 DEF HistoryGrows
  <2>2. me \notin disturbed' => store[me][k].owner \in {0, mine.uid}
    BY <1>3 DEF Foreign
  <2> QED
    BY <1>1, <1>2, <1>3, <2>1, <2>2, WriteIs
<1>4. CASE NoWrite /\ Retry /\ NoHistory
  BY <1>4, RetryIs, HistoryThen DEF NoWrite
<1>5. CASE Create(k, Object(owner, holds)) /\ NoHistory
  BY <1>1, <1>2, <1>5, CreateIs
<1> QED
  BY <1>3, <1>4, <1>5 DEF EnsureHolds

LEMMA EnsureIs ==
  ASSUME Tracked, Ensure
  PROVE  Provides \/ GivesUp \/ Ends
<1>0. /\ AgentTypeOK /\ me \in Agents /\ mine \in AgentObject
      /\ work.step # "idle" => agent[me].uid \in Nat
  BY WorkTyped DEF Tracked, OrphanTyped, AgentTypeOK, AgentObject
<1>h. NoHistory => HistoryGrows
  BY HistoryThen
<1>c. ASSUME Conflict, NoHistory
      PROVE  GivesUp
  BY <1>0, <1>c, RetryIs, HistoryThen DEF Conflict, NoWrite
<1>1. CASE AssignID
  <2>1. /\ work.step = "id" /\ work.step \in Onward \ CleanUp /\ NoHistory
        /\ Treated(work.step, mine.spec) = {}
    BY <1>1 DEF AssignID, Onward, CleanUp, Treated
  <2>2. /\ WithID(mine, NewID) \in AgentObject /\ WithID(mine, NewID).uid = mine.uid
        /\ WithID(mine, NewID).spec = mine.spec
    BY <1>0, NewIDTyped DEF WithID, Agent, AgentObject
  <2>3. CASE NothingToWrite
    BY <1>0, <1>h, <2>1, <2>3, NothingIs
  <2>4. CASE UpdateAndGoOn(WithID(mine, NewID))
    BY <1>0, <2>1, <2>2, <2>4, UpdateIs
  <2>5. CASE Conflict
    BY <1>c, <2>1, <2>5
  <2> QED
    BY <1>1, <2>3, <2>4, <2>5 DEF AssignID
<1>2. CASE AddFinalizer
  <2>1. /\ work.step = "fin" /\ work.step \in Onward \ CleanUp /\ NoHistory
        /\ Treated(work.step, mine.spec) = {}
    BY <1>2 DEF AddFinalizer, Onward, CleanUp, Treated
  <2>2. /\ WithFinalizer(mine) \in AgentObject /\ WithFinalizer(mine).uid = mine.uid
        /\ WithFinalizer(mine).spec = mine.spec
    BY <1>0 DEF WithFinalizer, Agent, AgentObject
  <2>3. CASE NothingToWrite
    BY <1>0, <1>h, <2>1, <2>3, NothingIs
  <2>4. CASE UpdateAndGoOn(WithFinalizer(mine))
    BY <1>0, <2>1, <2>2, <2>4, UpdateIs
  <2>5. CASE Conflict
    BY <1>c, <2>1, <2>5
  <2> QED
    BY <1>2, <2>3, <2>4, <2>5 DEF AddFinalizer
<1>3. CASE EnsureServiceAccount
  <2>1. /\ work.step = "sa" /\ work.step \in Onward \ CleanUp /\ Treated(work.step, mine.spec) = {mine.spec.account}
        /\ mine.spec.account \in Plain
    BY <1>3 DEF EnsureServiceAccount, Onward, CleanUp, Treated, Plain
  <2> QED
    BY <1>0, <1>3, <2>1, ProvideIs DEF EnsureServiceAccount
<1>4. ASSUME NEW k \in {"pvc", "pod", "svc"}, NEW holds, EnsureExists(k, holds)
      PROVE  Provides \/ GivesUp
  <2>1. work.step = k /\ work.step \in Onward \ CleanUp /\ Treated(work.step, mine.spec) = {k} /\ k \in Plain
    BY <1>4 DEF EnsureExists, Onward, CleanUp, Treated, Plain, Named
  <2> QED
    BY <1>0, <1>4, <2>1, ProvideIs DEF EnsureExists
<1>5. CASE EnsureRole \/ EnsureRoleBinding \/ EnsureClusterRole \/ EnsureClusterRoleBinding
  BY <1>0, <1>5, EnsureHoldsIs DEF EnsureRole, EnsureRoleBinding, EnsureClusterRole, EnsureClusterRoleBinding
<1>6. CASE EnsureKubeconfigSecret
  <2>1. CASE NothingToWrite /\ Accept("secret")
    <3>1. /\ work.step \in Onward \ CleanUp /\ Treated(work.step, mine.spec) = {"secret"} /\ "secret" \in Kinds
      BY <1>6 DEF EnsureKubeconfigSecret, Onward, CleanUp, Treated, Named, Kinds, Owned
    <3>2. me \notin disturbed' => Good("secret", store[me]["secret"], mine.uid, mine.spec)
      BY <2>1 DEF Accept, Foreign, Outdated, Good
    <3> QED
      BY <1>0, <2>1, <3>1, <3>2, NothingIs, HistoryThen
  <2>2. CASE EnsureHolds("secret", mine.uid, mine.spec.account)
    BY <1>0, <2>2, EnsureHoldsIs
  <2> QED
    BY <1>6, <2>1, <2>2 DEF EnsureKubeconfigSecret
<1>7. CASE ReportPhase
  <2> DEFINE o == WithPhase(mine, PhaseOfPod(podPhase[me]))
  <2>0. work.step = "status"
    BY <1>7 DEF ReportPhase
  <2>1. o.uid = mine.uid
    BY DEF WithPhase, Agent
  <2>2. CASE PassOver
    <3>1. Grows /\ store' = store
      BY <1>0, <2>2, SameGrows, TimersThen DEF PassOver, NoWrite, NoCall, HistoryGrows
    <3> QED
      BY <2>0, <2>2, <3>1, StopEffect DEF PassOver, Ends, OthersStay
  <2>3. CASE Unchanged /\ WriteAgent(o) /\ (Stop \/ Retry) /\ NoHistory
    <3>1. OthersStay /\ store' = store
      BY <1>0, <1>h, <2>1, <2>3, WriteAgentGrows DEF Unchanged
    <3> QED
      BY <2>0, <2>3, <3>1, StopEffect DEF Ends
  <2>4. CASE Conflict /\ NoHistory
    BY <1>c, <2>4
  <2> QED
    BY <1>7, <2>2, <2>3, <2>4 DEF ReportPhase
<1>8. CASE RemoveFinalizer
  <2>1. CASE WriteAgent(NoAgent) /\ Stop
    <3>1. OthersStay /\ agent'[me].uid = 0
      BY <1>0, <1>h, <1>8, <2>1, NoAgentIs, WriteAgentGrows DEF RemoveFinalizer
    <3> QED
      BY <2>1, <3>1, StopEffect DEF GivesUp
  <2>2. CASE Conflict
    BY <1>c, <1>8, <2>2 DEF RemoveFinalizer
  <2> QED
    BY <1>8, <2>1, <2>2 DEF RemoveFinalizer
<1> QED
  BY <1>1, <1>2, <1>3, <1>4, <1>5, <1>6, <1>7, <1>8 DEF Ensure, EnsurePVC, EnsurePod, EnsureService

LEMMA RemoveIs ==
  ASSUME Tracked, RemoveBinding \/ RemoveRole
  PROVE  CleansOn
<1>0. AgentTypeOK
  BY DEF Tracked, OrphanTyped
<1>1. PICK k \in ClusterScoped : Remove(k) /\ work.step \in {"unbind", "unrole"}
  BY DEF RemoveBinding, RemoveRole, ClusterScoped
<1>2. work'.step = After(work.step, mine.spec) /\ me' = me /\ mine' = mine
  BY <1>1, GoOnEffect DEF Remove
<1>3. work'.step \in CleanUp /\ work.step \in CleanUp
  BY <1>1, <1>2 DEF CleanUp, After
<1>4. Grows
  BY <1>0, <1>1, SameGrows, TimersThen DEF Remove, Write, NoCall, HistoryGrows
<1>5. \A a \in Agents \ {me} : store'[a] = store[a]
  BY <1>0, <1>1 DEF Remove, Write, PutObject, PutObjects, NoCall, AgentTypeOK
<1> QED
  BY <1>2, <1>3, <1>4, <1>5 DEF CleansOn, OthersStay

LEMMA ReconcileTracked ==
  ASSUME Tracked, ReconcileAgent
  PROVE  WorkLinks'
<1>1. CASE Ensure
  BY <1>1, EnsureIs, ProvidesInv, GivesUpInv, EndsInv
<1>2. CASE RemoveBinding \/ RemoveRole
  BY <1>2, RemoveIs, CleansOnInv
<1>3. CASE CallFails
  BY <1>3, RetryIs, HistoryThen, GivesUpInv DEF CallFails, Tracked, OrphanTyped
<1> QED
  BY <1>1, <1>2, <1>3 DEF ReconcileAgent

LEMMA OthersTracked ==
  ASSUME Tracked, NEW a \in Agents,
         \/ CreateAgent(a) \/ EditAgent(a) \/ DeleteAgent(a)
         \/ StartPod(a) \/ FailPod(a) \/ LosePod(a)
         \/ CatchUpAgent(a) \/ CatchUpObjects(a) \/ Collect(a) \/ FireAgentTimer(a)
  PROVE  WorkLinks'
<1>0. AgentTypeOK /\ agent[a].uid \in Nat /\ born[a] \in Nat
  BY AgentAssumption DEF Tracked, OrphanTyped, AgentTypeOK, AgentObject
<1>1. CASE CreateAgent(a)
  <2>1. PICK spec \in Specs : PutAgent(a, Agent(born[a] + 1, FALSE, FALSE, spec, NoId, ""), 0)
    BY <1>1 DEF CreateAgent
  <2>2. UNCHANGED <<store, work, agentTimers, disturbed>>
    BY <1>1 DEF CreateAgent, objectVars, histories
  <2>3. Agent(born[a] + 1, FALSE, FALSE, spec, NoId, "").uid > born[a]
    BY <1>0 DEF Agent
  <2>4. Grows
    BY <1>0, <2>1, <2>2, <2>3, PutAgentGrows DEF TimersGrow, HistoryGrows
  <2> QED
    BY <2>2, <2>4, CalmInv DEF Calm
<1>2. CASE EditAgent(a)
  <2>1. PICK spec \in Specs : PutAgent(a, WithSpec(agent[a], spec), 1)
    BY <1>2 DEF EditAgent
  <2>2. UNCHANGED <<store, work, agentTimers, disturbed>>
    BY <1>2 DEF EditAgent, objectVars, histories
  <2>3. WithSpec(agent[a], spec).uid = agent[a].uid
    BY DEF WithSpec, Agent
  <2>4. Grows
    BY <1>0, <2>1, <2>2, <2>3, PutAgentGrows DEF TimersGrow, HistoryGrows
  <2> QED
    BY <2>2, <2>4, CalmInv DEF Calm
<1>3. CASE DeleteAgent(a)
  <2>1. PICK o : PutAgent(a, o, 0) /\ o \in {Deleting(agent[a]), NoAgent}
    BY <1>3 DEF DeleteAgent
  <2>2. UNCHANGED <<store, work, agentTimers, disturbed>>
    BY <1>3 DEF DeleteAgent, objectVars, histories
  <2>3. o.uid \in {0, agent[a].uid}
    BY <2>1, NoAgentIs DEF Deleting, Agent
  <2>4. Grows
    BY <1>0, <2>1, <2>2, <2>3, PutAgentGrows DEF TimersGrow, HistoryGrows
  <2> QED
    BY <2>2, <2>4, CalmInv DEF Calm
<1>4. CASE StartPod(a) \/ FailPod(a) \/ CatchUpObjects(a)
  <2>1. UNCHANGED <<agent, known, agentQueue, agentTimers, work, store, disturbed>>
    BY <1>4 DEF StartPod, FailPod, CatchUpObjects, queueVars, histories
  <2>2. Grows
    BY <1>0, <2>1, SameGrows DEF TimersGrow, HistoryGrows
  <2> QED
    BY <2>1, <2>2, CalmInv DEF Calm
<1>5. CASE LosePod(a)
  <2>1. /\ UNCHANGED <<agent, known, agentQueue, agentTimers, work>> /\ disturbed' = disturbed \cup {a}
        /\ \A b \in Agents \ {a} : store'[b] = store[b]
    BY <1>0, <1>5 DEF LosePod, PutObject, PutObjects, queueVars, AgentTypeOK
  <2>2. Grows
    BY <1>0, <2>1, SameGrows DEF TimersGrow, HistoryGrows
  <2> QED
    BY <2>1, <2>2, CalmInv DEF Calm
<1>6. CASE CatchUpAgent(a)
  <2>1. /\ UNCHANGED <<agent, agentTimers, work, store, disturbed>> /\ agentQueue' = agentQueue \cup {a}
        /\ \A b \in Agents \ {a} : known'[b] = known[b]
    BY <1>0, <1>6 DEF CatchUpAgent, objectVars, histories, AgentTypeOK
  <2>2. Grows
    BY <2>1 DEF Grows, QueueGrows, UidsGoOn
  <2> QED
    BY <2>1, <2>2, CalmInv DEF Calm
<1>7. CASE Collect(a)
  <2> DEFINE objs == [k \in Kinds |-> IF LeftBehind(a, k) THEN Absent ELSE store[a][k]]
  <2>1. /\ UNCHANGED <<agent, known, agentQueue, agentTimers, work, disturbed>>
        /\ store' = [store EXCEPT ![a] = objs]
    BY <1>7 DEF Collect, PutObjects, queueVars, histories
  <2>2. /\ \A b \in Agents \ {a} : store'[b] = store[b]
        /\ store'[a] = objs
    BY <1>0, <2>1 DEF AgentTypeOK
  <2>3. \A k \in Kinds : store[a][k].owner \in {0, agent'[a].uid} => store'[a][k] = store[a][k]
    BY <2>1, <2>2 DEF LeftBehind
  <2>4. Grows
    BY <1>0, <2>1, SameGrows DEF TimersGrow, HistoryGrows
  <2> HIDE DEF objs
  <2>5. Calm
    BY <2>1, <2>2, <2>3, <2>4 DEF Calm
  <2> QED
    BY <2>5, CalmInv
<1>8. CASE FireAgentTimer(a)
  <2>1. /\ UNCHANGED <<agent, known, work, store, disturbed>>
        /\ agentTimers' = agentTimers \ {a} /\ agentQueue' = agentQueue \cup {a}
    BY <1>8 DEF FireAgentTimer, objectVars, histories
  <2>2. Grows
    BY <2>1 DEF Grows, QueueGrows, UidsGoOn
  <2> QED
    BY <2>1, <2>2, CalmInv DEF Calm
<1> QED
  BY <1>1, <1>2, <1>3, <1>4, <1>5, <1>6, <1>7, <1>8

LEMMA StartTracked ==
  ASSUME Tracked, NEW a \in Agents, StartAgent(a)
  PROVE  WorkLinks'
<1>1. /\ UNCHANGED <<agent, known, store, agentTimers, disturbed>> /\ agentQueue' = agentQueue \ {a}
      /\ work.step = "idle"
  BY DEF StartAgent, objectVars, histories
<1>2. ASSUME NEW b \in Agents \ disturbed', Quiet(b)', b # a
      PROVE  \A k \in Wanted(known'[b].spec) : Good(k, store'[b][k], known'[b].uid, known'[b].spec)
  <2>1. Quiet(b)
    BY <1>1, <1>2 DEF Quiet
  <2> QED
    BY <1>1, <2>1 DEF Tracked, WorkLinks, QuietInv
<1>3. CASE work'.step = "idle"
  <2>1. known[a].uid = 0 \/ known[a].deleting
    BY <1>3 DEF StartAgent, At
  <2>2. ~Quiet(a)'
    BY <1>1, <2>1 DEF Quiet
  <2>3. QuietInv'
    BY <1>2, <2>2 DEF QuietInv
  <2> QED
    BY <1>3, <2>3 DEF WorkLinks, LinkInv, ProgInv, CleanUp
<1>4. CASE work'.step # "idle"
  <2>1. me' = a /\ mine' = known[a] /\ work'.step \in {"unbind", "id"}
    BY <1>4 DEF StartAgent, Idle, At, me, mine
  <2>2. LinkInv'
    BY <1>1, <2>1 DEF LinkInv
  <2>3. Behind("id") = {}
    BY DEF Behind
  <2>4. ProgInv'
    BY <2>1, <2>3 DEF ProgInv, CleanUp
  <2>5. ~Quiet(a)'
    BY <1>4, <2>1 DEF Quiet
  <2>6. QuietInv'
    BY <1>2, <2>5 DEF QuietInv
  <2> QED
    BY <2>2, <2>4, <2>6 DEF WorkLinks
<1> QED
  BY <1>3, <1>4

LEMMA RestartTracked ==
  ASSUME RestartOperator
  PROVE  WorkLinks'
<1>1. work'.step = "idle" /\ agentQueue' = {a \in Agents : agent[a].uid # 0} /\ known' = agent /\ agent' = agent
  BY DEF RestartOperator, Idle, At, Exists
<1>2. \A a \in Agents : ~Quiet(a)'
  BY <1>1 DEF Quiet
<1> QED
  BY <1>1, <1>2 DEF WorkLinks, LinkInv, ProgInv, QuietInv, CleanUp

(* Where specs come from. *)
LEMMA ConsistentAre ==
  Consistent(NoAgent.spec) /\ \A spec \in Specs : Consistent(spec)
<1>1. \A spec \in Specs : spec.account # NoAccount \/ (spec.rules = NoRules /\ spec.cluster = NoRules)
  BY AgentAssumption
<1>2. NoAgent.spec = NoSpec
  BY DEF NoAgent, Agent
<1> QED
  BY <1>1, <1>2 DEF Consistent, NoSpec

LEMMA SpecNext ==
  ASSUME Tracked, AgentNext
  PROVE  SpecInv'
<1>0. AgentTypeOK /\ SpecInv /\ me \in Agents
  BY WorkTyped DEF Tracked, OrphanTyped
<1>p. ASSUME NEW a \in Agents, NEW o, NEW n, PutAgent(a, o, n), Consistent(o.spec)
      PROVE  \A b \in Agents : Consistent(agent'[b].spec) /\ Consistent(known'[b].spec)
  BY <1>0, <1>p, PutAgentEffect DEF SpecInv
<1>1. ASSUME NEW a \in Agents, CreateAgent(a)
      PROVE  SpecInv'
  <2>1. PICK spec \in Specs : PutAgent(a, Agent(born[a] + 1, FALSE, FALSE, spec, NoId, ""), 0)
    BY <1>1 DEF CreateAgent
  <2>2. Agent(born[a] + 1, FALSE, FALSE, spec, NoId, "").spec = spec /\ work' = work
    BY <1>1 DEF Agent, CreateAgent
  <2> QED
    BY <1>0, <1>p, <2>1, <2>2, ConsistentAre DEF SpecInv, mine
<1>2. ASSUME NEW a \in Agents, EditAgent(a)
      PROVE  SpecInv'
  <2>1. PICK spec \in Specs : PutAgent(a, WithSpec(agent[a], spec), 1)
    BY <1>2 DEF EditAgent
  <2>2. WithSpec(agent[a], spec).spec = spec /\ work' = work
    BY <1>2 DEF Agent, WithSpec, EditAgent
  <2> QED
    BY <1>0, <1>p, <2>1, <2>2, ConsistentAre DEF SpecInv, mine
<1>3. ASSUME NEW a \in Agents, DeleteAgent(a)
      PROVE  SpecInv'
  <2>1. PICK o : PutAgent(a, o, 0) /\ o \in {Deleting(agent[a]), NoAgent}
    BY <1>3 DEF DeleteAgent
  <2>2. Consistent(o.spec) /\ work' = work
    BY <1>0, <1>3, <2>1, ConsistentAre DEF Agent, Deleting, DeleteAgent, SpecInv
  <2> QED
    BY <1>0, <1>p, <2>1, <2>2 DEF SpecInv, mine
<1>4. ASSUME NEW a \in Agents,
             \/ StartPod(a) \/ FailPod(a) \/ LosePod(a)
             \/ CatchUpAgent(a) \/ CatchUpObjects(a) \/ Collect(a) \/ FireAgentTimer(a) \/ StartAgent(a)
      PROVE  SpecInv'
  <2>1. agent' = agent /\ (known' = known \/ known' = [known EXCEPT ![a] = agent[a]])
    BY <1>4 DEF StartPod, FailPod, LosePod, CatchUpAgent, CatchUpObjects, Collect, FireAgentTimer, StartAgent
  <2>2. work' = work \/ work'.step = "idle" \/ work'.obj = known[a]
    BY <1>4 DEF StartPod, FailPod, LosePod, CatchUpAgent, CatchUpObjects, Collect, FireAgentTimer, StartAgent,
                Idle, At, queueVars
  <2>3. \A b \in Agents : Consistent(agent'[b].spec) /\ Consistent(known'[b].spec)
    BY <1>0, <2>1 DEF SpecInv, AgentTypeOK
  <2>4. work'.step # "idle" => Consistent(mine'.spec)
    BY <1>0, <2>2 DEF SpecInv, mine
  <2> QED
    BY <2>3, <2>4 DEF SpecInv
<1>5. CASE RestartOperator
  BY <1>0, <1>5 DEF RestartOperator, SpecInv, Idle, At
<1>6. CASE ReconcileAgent
  <2>1. (agent' = agent /\ known' = known) \/ \E o :
         PutAgent(me, o, 0) /\ (o = NoAgent \/ (o.spec = mine.spec /\ work.step # "idle"))
    <3>1. CASE Ensure
      <4>1. \A o : UpdateAndGoOn(o) => PutAgent(me, o, 0)
        BY DEF UpdateAndGoOn, WriteAgent
      <4>2. \A id, phase : WithID(mine, id).spec = mine.spec /\ WithFinalizer(mine).spec = mine.spec
                             /\ WithPhase(mine, phase).spec = mine.spec
        BY DEF WithID, WithFinalizer, WithPhase, Agent
      <4>3. CASE AssignID \/ AddFinalizer
        BY <4>1, <4>2, <4>3 DEF AssignID, AddFinalizer, NothingToWrite, NoWrite, NoCall, Conflict
      <4>4. CASE ReportPhase \/ RemoveFinalizer
        BY <4>2, <4>4 DEF ReportPhase, RemoveFinalizer, PassOver, NoWrite, NoCall, Conflict, WriteAgent
      <4>5. CASE \/ EnsureServiceAccount \/ EnsureKubeconfigSecret \/ EnsurePVC
                 \/ EnsureService \/ EnsurePod \/ EnsureRole \/ EnsureRoleBinding
                 \/ EnsureClusterRole \/ EnsureClusterRoleBinding
        BY <4>5 DEF EnsureServiceAccount, EnsureKubeconfigSecret, EnsurePVC, EnsureService, EnsurePod,
           EnsureRole, EnsureRoleBinding, EnsureClusterRole, EnsureClusterRoleBinding, EnsureExists,
           Provide, EnsureHolds, NothingToWrite, Create, Write, NoWrite, NoCall
      <4> QED
        BY <3>1, <4>3, <4>4, <4>5 DEF Ensure
    <3>2. CASE RemoveBinding \/ RemoveRole \/ CallFails
      BY <3>2 DEF RemoveBinding, RemoveRole, Remove, Write, NoCall, CallFails
    <3> QED
      BY <1>6, <3>1, <3>2 DEF ReconcileAgent
  <2>2. \A b \in Agents : Consistent(agent'[b].spec) /\ Consistent(known'[b].spec)
    BY <1>0, <1>p, <2>1, ConsistentAre DEF SpecInv
  <2>3. work'.step # "idle" => Consistent(mine'.spec)
    <3>1. CASE Ensure
      <4>1. work'.step = "idle" \/ (mine'.spec = mine.spec /\ work.step # "idle")
        BY <3>1, EnsureIs DEF Provides, GivesUp, Ends, Onward, Named, ClusterScoped
      <4> QED
        BY <1>0, <4>1 DEF SpecInv
    <3>2. CASE RemoveBinding \/ RemoveRole
      <4>1. mine' = mine /\ work.step # "idle"
        BY <3>2, RemoveIs DEF CleansOn, CleanUp
      <4> QED
        BY <1>0, <4>1 DEF SpecInv
    <3>3. CASE CallFails
      BY <3>3, StopEffect DEF CallFails
    <3> QED
      BY <1>6, <3>1, <3>2, <3>3 DEF ReconcileAgent
  <2> QED
    BY <2>2, <2>3 DEF SpecInv
<1> QED
  BY <1>1, <1>2, <1>3, <1>4, <1>5, <1>6 DEF AgentNext

LEMMA TrackedInit ==
  ASSUME AgentInit
  PROVE  SpecInv /\ WorkLinks
<1>1. \A a \in Agents : agent[a] = NoAgent /\ known[a] = NoAgent
  BY DEF AgentInit
<1>2. work.step = "idle"
  BY DEF AgentInit, Idle, At
<1>3. \A a \in Agents : ~Quiet(a)
  BY <1>1, NoAgentIs DEF Quiet
<1> QED
  BY <1>1, <1>2, <1>3, ConsistentAre DEF SpecInv, WorkLinks, LinkInv, ProgInv, QuietInv, CleanUp

LEMMA TrackedNext ==
  ASSUME Tracked, [AgentNext]_agentVars
  PROVE  SpecInv' /\ WorkLinks'
<1>1. CASE UNCHANGED agentVars
  <2>1. Calm
    BY <1>1 DEF Calm, Grows, QueueGrows, UidsGoOn, agentVars, objectVars, queueVars, histories
  <2>2. SpecInv'
    BY <1>1 DEF SpecInv, Tracked, agentVars, queueVars, mine
  <2> QED
    BY <2>1, <2>2, CalmInv
<1>2. CASE AgentNext
  BY <1>2, SpecNext, OthersTracked, StartTracked, RestartTracked, ReconcileTracked DEF AgentNext
<1> QED
  BY <1>1, <1>2

LEMMA TrackedIsEnough ==
  ASSUME Tracked
  PROVE  NoWorkLost
<1> SUFFICES ASSUME NEW a \in Agents \ disturbed, Settled(a)
             PROVE  LET spec == agent[a].spec IN
                    /\ \A k \in Wanted(spec) : store[a][k].there
                    /\ spec.rules # NoRules => store[a]["role"].holds = spec.rules
                    /\ spec.cluster # NoRules => store[a]["cr"].holds = spec.cluster
                    /\ \A k \in {"rb", "crb", "secret"} \cap Wanted(spec) : store[a][k].holds = spec.account
  BY DEF NoWorkLost
<1>1. Quiet(a) /\ known[a] = agent[a]
  BY DEF Settled, Exists, Quiet
<1>2. \A k \in Wanted(agent[a].spec) : Good(k, store[a][k], agent[a].uid, agent[a].spec)
  BY <1>1 DEF Tracked, WorkLinks, QuietInv
<1>3. /\ agent[a].spec.rules # NoRules => "role" \in Wanted(agent[a].spec)
      /\ agent[a].spec.cluster # NoRules => "cr" \in Wanted(agent[a].spec)
  BY DEF Wanted
<1> QED
  BY <1>2, <1>3 DEF Good

(* However late the caches are and whatever fails or conflicts, though the *)
(* spec is edited, the agent deleted and created anew or the operator      *)
(* restarted in the midst of a reconcile: when nothing is left that would  *)
(* bring the worker back, what the spec asks for is there and says what    *)
(* the spec says now (NoWorkLost).                                         *)
THEOREM NoWorkIsLost == AgentSpecification => []NoWorkLost
<1>1. AgentInit => Tracked
  BY InitTyped, OrphanInit, TrackedInit DEF Tracked, OrphanTyped
<1>2. Tracked /\ [AgentNext]_agentVars => Tracked'
  BY NextTyped, StutterTyped, OrphanNext, TrackedNext DEF Tracked, OrphanTyped
<1>3. Tracked => NoWorkLost
  BY TrackedIsEnough
<1> QED
  BY <1>1, <1>2, <1>3, PTL DEF AgentSpecification
=============================================================================
