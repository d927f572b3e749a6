-------------------------- MODULE RequestPathProofs --------------------------
(***************************************************************************)
(* Proofs about RequestPath for every number of sends, agents, policies,   *)
(* cancels and queue ids, and every bound on edits and faults.             *)
(***************************************************************************)
EXTENDS RequestPathInv, AgentServerProofs

(* What Append does to a log. *)
LEMMA AppendFacts ==
  ASSUME NEW S, NEW sq \in Seq(S), NEW o \in S
  PROVE  /\ Append(sq, o) \in Seq(S)
         /\ Len(Append(sq, o)) = Len(sq) + 1
         /\ Append(sq, o)[Len(sq) + 1] = o
         /\ \A i \in 1..Len(sq) : Append(sq, o)[i] = sq[i]
OBVIOUS

(* The records the actions build have their types. *)
LEMMA NoJobTyped == NoJob \in Job /\ NoJob.pc = "idle"
BY DEF Job, NoJob, JobSteps, Phases, NoQueue

(* What becomes of the worker's record. *)
LEMMA DecideFacts ==
  ASSUME job \in Job, NEW ph \in Phases, NEW q \in QueueIds \cup {NoQueue}, Decide(ph, q)
  PROVE  /\ job' \in Job /\ job'.pc = "write" /\ job'.phase = ph /\ job'.q = q
         /\ job'.send = job.send /\ job'.ver = job.ver
BY DEF Decide, Job, JobSteps

LEMMA PassFacts ==
  ASSUME job \in Job, job' = [job EXCEPT !.pc = "post"]
  PROVE  /\ job' \in Job /\ job'.pc = "post" /\ job'.q = job.q
         /\ job'.send = job.send /\ job'.ver = job.ver
BY DEF Job, JobSteps

LEMMA CallFacts ==
  ASSUME job \in Job, NEW q \in QueueIds, job' = [job EXCEPT !.pc = "reply", !.q = q]
  PROVE  /\ job' \in Job /\ job'.pc = "reply" /\ job'.q = q
         /\ job'.send = job.send /\ job'.ver = job.ver
BY DEF Job, JobSteps

LEMMA StartFacts ==
  ASSUME NEW s \in Sends, NEW v \in Nat,
         job' = [NoJob EXCEPT !.pc = "evaluate", !.send = s, !.ver = v]
  PROVE  job' \in Job /\ job'.pc = "evaluate" /\ job'.q = NoQueue /\ job'.send = s /\ job'.ver = v
BY DEF Job, JobSteps, NoJob, Phases, NoQueue

LEMMA ObjectTyped ==
  ASSUME NEW o \in SendObject
  PROVE  /\ \A b \in BOOLEAN : [o EXCEPT !.approved = b] \in SendObject
         /\ \A b \in BOOLEAN : [o EXCEPT !.exists = b] \in SendObject
         /\ \A ph \in Phases, q \in QueueIds \cup {NoQueue} :
              [o EXCEPT !.phase = ph, !.queueID = IF q = NoQueue THEN @ ELSE q] \in SendObject
BY DEF SendObject

LEMMA NewObjectTyped ==
  ASSUME NEW b \in BOOLEAN
  PROVE  [exists |-> TRUE, phase |-> "", approved |-> b, queueID |-> NoQueue] \in SendObject
BY DEF SendObject, Phases

LEMMA CancelJobTyped ==
  /\ NoCancelJob \in CancelJob
  /\ NoCancelJob.pc = "idle"
  /\ \A c \in Cancels :
       [NoCancelJob EXCEPT !.pc = "write", !.cancel = c, !.phase = "Error"] \in CancelJob
  /\ \A c \in Cancels, q \in QueueIds \cup {NoQueue} :
       [NoCancelJob EXCEPT !.pc = "call", !.cancel = c, !.q = q] \in CancelJob
  /\ \A j \in CancelJob, ph \in CancelPhases : [j EXCEPT !.pc = "write", !.phase = ph] \in CancelJob
BY DEF CancelJob, NoCancelJob, CancelPhases, NoQueue

LEMMA InitTyped == Init => TypeOK
<1> SUFFICES ASSUME Init PROVE TypeOK
    OBVIOUS
<1>1. faults \in 0..MaxFaults
      BY ClusterAssumption DEF Init, ClusterAssumption
<1>2. PolicyTypeOK
      BY PolicyAssumption DEF Init, PolicyInit, PolicyTypeOK, PolicyAssumption
<1>3. SendTypeOK
      BY NoJobTyped, SendAssumption DEF SendAssumption, Init, SendInit, SendTypeOK, AgentPhases
<1>4. CancelTypeOK
      BY CancelJobTyped DEF Init, CancelInit, CancelTypeOK, CancelPhases
<1>5. ItemTypeOK
      BY MaxConcurrentAssumption DEF Init, ItemInit, ItemTypeOK, ItemStates, MaxConcurrentAssumption
<1> QED BY <1>1, <1>2, <1>3, <1>4, <1>5 DEF TypeOK

-----------------------------------------------------------------------------
(* Every step seen by the send controller's variables. *)
SendChange ==
  \/ UNCHANGED sendVars
  \/ \E s \in Sends : \/ CreateSend(s) \/ EditSend(s) \/ DeleteSend(s)
                      \/ DeliverSend(s) \/ ResyncSend(s) \/ FireTimer(s)
                      \/ SkipSend(s) \/ StartSend(s)
  \/ Evaluate \/ PostAsyncChat \/ AsyncChatReply \/ AsyncChatFails \/ WriteStatus
  \/ RestartSends

LEMMA NextIsSendChange == [Next]_vars => SendChange
BY DEF Next, vars, UserStep, EditPolicy, PolicyControl, SendKeyStep, DeliverEvent, ResyncKey,
       RequeueKey, BeginSend, ReconcileStep, EvaluateSend, WriteSend, CancelKeyStep, RequestCancel,
       WatchCancel, BeginCancel, CallCancel, CallCancelFails, WriteCancel, OperatorRestart, AgentStep,
       ChangeAgent, SendChange

(* Every step seen by the pod's variables. *)
LEMMA NextIsPodChange == IInv /\ [Next]_vars => PodChange
<1> SUFFICES ASSUME IInv, [Next]_vars PROVE PodChange
    OBVIOUS
<1>1. CASE PostAsyncChat
  <2>1. job.send \in Sends
        BY <1>1 DEF IInv, SnapshotInv, PostAsyncChat, CallAsyncChat
  <2> QED BY <1>1, <2>1 DEF PostAsyncChat, PodChange, ItemChange
<1>2. CASE CallCancel \/ CallCancelFails
  <2>1. cjob.q \in QueueIds
        BY <1>2 DEF IInv, CancelInv, CallCancel, CallCancelFails, CancelAnswered, CancelUnanswered
  <2> QED BY <1>2, <2>1 DEF CallCancel, CallCancelFails, CancelQueueItem, CancelNotFound,
                            CancelDisconnects, PodChange, ItemChange
<1>3. CASE AgentStep
      BY <1>3 DEF AgentStep, ServerStep, RunItem, PodChange, ItemChange
<1>4. CASE UNCHANGED itemVars
      BY <1>4 DEF PodChange
<1>5. PostAsyncChat \/ CallCancel \/ CallCancelFails \/ AgentStep \/ UNCHANGED itemVars
      BY DEF Next, vars, UserStep, EditPolicy, PolicyControl, SendKeyStep, DeliverEvent, ResyncKey,
         RequeueKey, BeginSend, ReconcileStep, EvaluateSend, AsyncChatReply, AsyncChatFails, WriteSend,
         CancelKeyStep, RequestCancel, WatchCancel, BeginCancel, WriteCancel, OperatorRestart
<1> QED BY <1>1, <1>2, <1>3, <1>4, <1>5

(* Items keep their send, and an accepted item stays accepted. *)
LEMMA ItemsPersist ==
  ASSUME ItemTypeOK, ItemInv, QueueHoldsTheQueued, PodChange, NEW r \in QueueIds
  PROVE  /\ istate[r] # "none" => istate'[r] # "none" /\ isend'[r] = isend[r]
         /\ Accepted(r) => Accepted(r)'
<1> USE DEF ItemTypeOK, Accepted
<1>1. CASE UNCHANGED itemVars
      BY <1>1 DEF itemVars
<1>2. ASSUME NEW q \in QueueIds, ItemChange(q)
      PROVE  /\ istate[r] # "none" => istate'[r] # "none" /\ isend'[r] = isend[r]
             /\ Accepted(r) => Accepted(r)'
      BY <1>2 DEF ItemChange, LosePost, AsyncChat, OpenSession, SessionIdle, SessionDeleted, Unregister,
           RunFails, PostResponse, LoseResponse, DisconnectSession, CancelDisconnectFails, Arrive
<1>3. ASSUME NEW a \in Agents, SpawnTask(a) \/ AcquirePermit(a)
      PROVE  /\ istate[r] # "none" => istate'[r] # "none" /\ isend'[r] = isend[r]
             /\ Accepted(r) => Accepted(r)'
      BY <1>3, HeadIsQueued, HeadIsWaiting DEF SpawnTask, AcquirePermit
<1>4. ASSUME NEW a \in Agents, AgentRestart(a)
      PROVE  /\ istate[r] # "none" => istate'[r] # "none" /\ isend'[r] = isend[r]
             /\ Accepted(r) => Accepted(r)'
      BY <1>4 DEF AgentRestart, ItemsOf
<1> QED BY <1>1, <1>2, <1>3, <1>4 DEF PodChange

-----------------------------------------------------------------------------
(* How a log can change: one version is appended to one log, by the user   *)
(* who creates, edits or deletes the send, or by the worker's update of    *)
(* the version it read.                                                    *)
Created(s, o) ==
  /\ log[s] = <<>>
  /\ o.exists /\ o.phase = "" /\ o.queueID = NoQueue

ByUser(s, o) ==
  /\ Stored(s)
  /\ o.phase = Latest(s).phase
  /\ o.queueID = Latest(s).queueID

ByWorker(s, o) ==
  /\ job.pc = "write"
  /\ s = job.send
  /\ job.ver = Len(log[s])
  /\ o.exists = Snapshot.exists
  /\ o.approved = Snapshot.approved
  /\ o.phase = job.phase
  /\ o.queueID = IF job.q = NoQueue THEN Snapshot.queueID ELSE job.q

Appended(s, o) == log' = [log EXCEPT ![s] = Append(log[s], o)]

LogChange ==
  \/ log' = log
  \/ \E s \in Sends, o \in SendObject :
       Appended(s, o) /\ (Created(s, o) \/ ByUser(s, o) \/ ByWorker(s, o))

LEMMA LatestTyped ==
  ASSUME SendTypeOK, NEW s \in Sends, log[s] # <<>>
  PROVE  Latest(s) \in SendObject /\ Len(log[s]) \in Nat \ {0}
BY DEF SendTypeOK, Latest

LEMMA UpdatedTyped ==
  ASSUME SendTypeOK, SnapshotInv, job.pc # "idle"
  PROVE  /\ Snapshot \in SendObject
         /\ Updated \in SendObject
         /\ Updated.exists = Snapshot.exists
         /\ Updated.approved = Snapshot.approved
         /\ Updated.phase = job.phase
         /\ Updated.queueID = IF job.q = NoQueue THEN Snapshot.queueID ELSE job.q
<1>1. /\ log[job.send] \in Seq(SendObject)
      /\ job.ver \in 1..Len(log[job.send])
      BY DEF SendTypeOK, SnapshotInv
<1>2. Snapshot \in SendObject
      BY <1>1 DEF Snapshot
<1>3. job.phase \in Phases /\ job.q \in QueueIds \cup {NoQueue}
      BY DEF SendTypeOK, Job
<1> QED BY <1>2, <1>3 DEF Updated, SendObject

LEMMA LogStep ==
  ASSUME IInv, SendChange
  PROVE  LogChange
<1>0. SendTypeOK /\ SnapshotInv
      BY DEF IInv, TypeOK
<1>1. ASSUME NEW s \in Sends, CreateSend(s) PROVE LogChange
  <2>1. PICK b \in BOOLEAN : log' = [log EXCEPT ![s] =
          <<[exists |-> TRUE, phase |-> "", approved |-> b, queueID |-> NoQueue]>>]
        BY <1>1 DEF CreateSend
  <2> DEFINE o == [exists |-> TRUE, phase |-> "", approved |-> b, queueID |-> NoQueue]
  <2>2. o \in SendObject
        BY NewObjectTyped
  <2>3. log[s] = <<>>
        BY <1>1 DEF CreateSend
  <2>4. Append(log[s], o) = <<o>>
        BY <2>3
  <2>5. Appended(s, o)
        BY <2>1, <2>4 DEF Appended
  <2>6. Created(s, o)
        BY <2>3 DEF Created
  <2> QED BY <2>2, <2>5, <2>6 DEF LogChange
<1>2. ASSUME NEW s \in Sends, EditSend(s) PROVE LogChange
  <2>1. PICK b \in BOOLEAN : log' = [log EXCEPT ![s] = Append(@, [Latest(s) EXCEPT !.approved = b])]
        BY <1>2 DEF EditSend
  <2> DEFINE o == [Latest(s) EXCEPT !.approved = b]
  <2>2. Latest(s) \in SendObject /\ Stored(s)
        BY <1>0, <1>2, LatestTyped DEF EditSend, Stored
  <2>3. o \in SendObject /\ o.phase = Latest(s).phase /\ o.queueID = Latest(s).queueID
        BY <2>2 DEF SendObject
  <2>4. Appended(s, o)
        BY <2>1 DEF Appended
  <2> QED BY <2>2, <2>3, <2>4 DEF LogChange, ByUser
<1>3. ASSUME NEW s \in Sends, DeleteSend(s) PROVE LogChange
  <2> DEFINE o == [Latest(s) EXCEPT !.exists = FALSE]
  <2>2. Latest(s) \in SendObject /\ Stored(s)
        BY <1>0, <1>3, LatestTyped DEF DeleteSend, Stored
  <2>3. o \in SendObject /\ o.phase = Latest(s).phase /\ o.queueID = Latest(s).queueID
        BY <2>2 DEF SendObject
  <2>4. Appended(s, o)
        BY <1>3 DEF Appended, DeleteSend
  <2> QED BY <2>2, <2>3, <2>4 DEF LogChange, ByUser
<1>4. CASE WriteStatus
  <2>1. CASE log' = log
        BY <2>1 DEF LogChange
  <2>2. CASE log' # log
    <3>1. /\ job.pc = "write"
          /\ Current
          /\ log' = [log EXCEPT ![job.send] = Append(@, Updated)]
          BY <1>4, <2>2 DEF WriteStatus, StatusUpdate, StatusConflict, StatusUpdateFails
    <3>2. job.send \in Sends
          BY <1>0, <3>1 DEF SnapshotInv
    <3>3. Appended(job.send, Updated)
          BY <3>1 DEF Appended
    <3>4. ByWorker(job.send, Updated) /\ Updated \in SendObject
          BY <1>0, <3>1, UpdatedTyped DEF ByWorker, Current
    <3> QED BY <3>2, <3>3, <3>4 DEF LogChange
  <2> QED BY <2>1, <2>2
<1>5. \/ log' = log \/ WriteStatus
      \/ \E s \in Sends : CreateSend(s) \/ EditSend(s) \/ DeleteSend(s)
      BY DEF SendChange, sendVars, DeliverSend, ResyncSend, FireTimer, SkipSend, StartSend, Evaluate,
         AgentMissing, AgentNotRunning, EvaluationFails, DenySend, PauseSend, SecretMissing,
         PassPolicies, PostAsyncChat, CallAsyncChat, AsyncChatReply, ReplyReceived, AsyncChatFails,
         NoReply, RestartSends
<1> QED BY <1>1, <1>2, <1>3, <1>4, <1>5 DEF LogChange

(* A log only grows. *)
LEMMA LogGrows ==
  ASSUME SendTypeOK, LogChange, NEW s \in Sends
  PROVE  /\ log' \in [Sends -> Seq(SendObject)]
         /\ Len(log[s]) \in Nat /\ Len(log'[s]) \in Nat
         /\ Len(log[s]) <= Len(log'[s])
         /\ \A i \in 1..Len(log[s]) : log'[s][i] = log[s][i]
<1>0. log \in [Sends -> Seq(SendObject)]
      BY DEF SendTypeOK
<1>1. CASE log' = log
      BY <1>0, <1>1
<1>2. ASSUME NEW t \in Sends, NEW o \in SendObject, Appended(t, o)
      PROVE  /\ log' \in [Sends -> Seq(SendObject)]
             /\ Len(log[s]) \in Nat /\ Len(log'[s]) \in Nat
             /\ Len(log[s]) <= Len(log'[s])
             /\ \A i \in 1..Len(log[s]) : log'[s][i] = log[s][i]
  <2>1. log[t] \in Seq(SendObject) /\ log[s] \in Seq(SendObject)
        BY <1>0
  <2>2. /\ Append(log[t], o) \in Seq(SendObject)
        /\ Len(Append(log[t], o)) = Len(log[t]) + 1
        /\ \A i \in 1..Len(log[t]) : Append(log[t], o)[i] = log[t][i]
        BY <2>1, AppendFacts
  <2>3. log' \in [Sends -> Seq(SendObject)]
        BY <1>0, <1>2, <2>2 DEF Appended
  <2>4. CASE s = t
    <3>1. log'[s] = Append(log[t], o)
          BY <1>0, <1>2, <2>4 DEF Appended
    <3> QED BY <2>1, <2>2, <2>3, <2>4, <3>1
  <2>5. CASE s # t
    <3>1. log'[s] = log[s]
          BY <1>0, <1>2, <2>5 DEF Appended
    <3> QED BY <2>1, <2>3, <3>1
  <2> QED BY <2>4, <2>5
<1> QED BY <1>1, <1>2 DEF LogChange

-----------------------------------------------------------------------------
(* Type correctness. *)
LEMMA SendTypeStep ==
  ASSUME IInv, [Next]_vars
  PROVE  SendTypeOK'
<1>0. /\ SendTypeOK /\ SnapshotInv /\ JobInv /\ SendChange /\ LogChange
      BY NextIsSendChange, LogStep DEF IInv, TypeOK
<1>1. log' \in [Sends -> Seq(SendObject)]
  <2>1. CASE Sends = {}
        BY <1>0, <2>1 DEF LogChange, SendTypeOK
  <2>2. CASE Sends # {}
        BY <1>0, <2>2, LogGrows
  <2> QED BY <2>1, <2>2
<1>2. seen' \in [Sends -> Nat]
  <2>1. CASE RestartSends
        BY <1>0, <2>1 DEF RestartSends, SendTypeOK
  <2>2. CASE \E s \in Sends : DeliverSend(s)
        BY <1>0, <2>2 DEF SendTypeOK, DeliverSend
  <2>3. seen' = seen \/ RestartSends \/ \E s \in Sends : DeliverSend(s)
        BY <1>0 DEF SendChange, sendVars, CreateSend, EditSend, DeleteSend,
           ResyncSend, FireTimer, SkipSend, StartSend, Evaluate, AgentMissing, AgentNotRunning,
           EvaluationFails, DenySend, PauseSend, SecretMissing, PassPolicies, PostAsyncChat,
           CallAsyncChat, AsyncChatReply, ReplyReceived, AsyncChatFails, NoReply, WriteStatus,
           StatusUpdate, StatusConflict, StatusUpdateFails
  <2> QED BY <1>0, <2>1, <2>2, <2>3 DEF SendTypeOK
<1>3. job.pc # "idle" => job.send \in Sends
      BY <1>0 DEF SnapshotInv
<1>4. sendQueue' \subseteq Sends /\ sendTimers' \subseteq Sends /\ disturbed' \subseteq Sends
      BY <1>0, <1>3 DEF SendTypeOK, SendChange, sendVars, CreateSend, EditSend, DeleteSend, DeliverSend,
         ResyncSend, FireTimer, SkipSend, StartSend, Evaluate, AgentMissing, AgentNotRunning,
         EvaluationFails, DenySend, PauseSend, SecretMissing, PassPolicies, PostAsyncChat,
         CallAsyncChat, AsyncChatReply, ReplyReceived, AsyncChatFails, NoReply, WriteStatus,
         StatusUpdate, StatusConflict, StatusUpdateFails, RestartSends, Retry
<1>5. stale' \in 0..MaxStale
  <2>1. stale' = stale \/ (stale < MaxStale /\ stale' = stale + 1)
        BY <1>0 DEF SendChange, sendVars, CreateSend, EditSend, DeleteSend, DeliverSend,
           ResyncSend, FireTimer, SkipSend, StartSend, Evaluate, AgentMissing, AgentNotRunning,
           EvaluationFails, DenySend, PauseSend, SecretMissing, PassPolicies, PostAsyncChat,
           CallAsyncChat, AsyncChatReply, ReplyReceived, AsyncChatFails, NoReply, WriteStatus,
           StatusUpdate, StatusConflict, StatusUpdateFails, RestartSends
  <2> QED BY <1>0, <2>1, SendAssumption DEF SendAssumption, SendTypeOK
<1>6. job' \in Job
  <2>0. job \in Job /\ job.q \in QueueIds \cup {NoQueue}
        BY <1>0 DEF SendTypeOK, Job
  <2>1. CASE \E s \in Sends : StartSend(s)
    <3>1. PICK s \in Sends : StartSend(s)
          BY <2>1
    <3>2. seen[s] \in Nat
          BY <1>0 DEF SendTypeOK
    <3> QED BY <3>1, <3>2, StartFacts DEF StartSend
  <2>2. CASE Evaluate
    <3>1. \/ \E ph \in {"Error", "Denied", "PendingApproval"} : Decide(ph, NoQueue)
          \/ job' = NoJob \/ job' = [job EXCEPT !.pc = "post"]
          BY <2>2 DEF Evaluate, AgentMissing, AgentNotRunning, EvaluationFails, DenySend, PauseSend,
               SecretMissing, PassPolicies, Retry
    <3> QED BY <2>0, <3>1, NoJobTyped, DecideFacts, PassFacts DEF Phases
  <2>3. CASE PostAsyncChat
        BY <2>0, <2>3, CallFacts DEF PostAsyncChat, CallAsyncChat
  <2>4. CASE AsyncChatReply \/ AsyncChatFails
    <3>1. Decide("Done", job.q) \/ Decide("Error", NoQueue)
          BY <2>4 DEF AsyncChatReply, AsyncChatFails, ReplyReceived, NoReply
    <3> QED BY <2>0, <3>1, DecideFacts DEF Phases
  <2>5. CASE WriteStatus
        BY <2>5, NoJobTyped DEF WriteStatus, StatusUpdate, StatusConflict, StatusUpdateFails, Retry
  <2>6. CASE RestartSends
        BY <2>6, NoJobTyped DEF RestartSends
  <2>7. \/ job' = job \/ Evaluate \/ PostAsyncChat \/ AsyncChatReply \/ AsyncChatFails \/ WriteStatus
        \/ RestartSends \/ \E s \in Sends : StartSend(s)
        BY <1>0 DEF SendChange, sendVars, CreateSend, EditSend, DeleteSend, DeliverSend, ResyncSend,
           FireTimer, SkipSend
  <2> QED BY <2>0, <2>1, <2>2, <2>3, <2>4, <2>5, <2>6, <2>7
<1>7. agentPhase' \in [Agents -> AgentPhases]
  <2>0. agentPhase \in [Agents -> AgentPhases]
        BY <1>0 DEF SendTypeOK
  <2>1. agentPhase' = agentPhase \/ \E a \in Agents : ChangeAgent(a)
        BY DEF Next, vars, UserStep, EditPolicy, PolicyControl, SendKeyStep, DeliverEvent, ResyncKey,
           RequeueKey, BeginSend, ReconcileStep, EvaluateSend, WriteSend, CancelKeyStep, RequestCancel,
           WatchCancel, BeginCancel, CallCancel, CallCancelFails, WriteCancel, OperatorRestart, AgentStep,
           CreateSend, EditSend, DeleteSend, DeliverSend, ResyncSend, FireTimer, SkipSend, StartSend,
           Evaluate, AgentMissing, AgentNotRunning, EvaluationFails, DenySend, PauseSend, SecretMissing,
           PassPolicies, PostAsyncChat, CallAsyncChat, AsyncChatReply, ReplyReceived, AsyncChatFails,
           NoReply, WriteStatus, StatusUpdate, StatusConflict, StatusUpdateFails, RestartSends
  <2> QED BY <2>0, <2>1 DEF ChangeAgent
<1> QED BY <1>1, <1>2, <1>4, <1>5, <1>6, <1>7 DEF SendTypeOK

(* The steps that leave the policies, or the budget of edits, alone. *)
LEMMA PolicyTypeStep ==
  ASSUME TypeOK, [Next]_vars
  PROVE  PolicyTypeOK'
<1>0. PolicyTypeOK
      BY DEF TypeOK
<1>1. edits' \in 0..MaxEdits
  <2>1. edits' = edits \/ Edit
        BY DEF Next, vars, UserStep, EditPolicy, PolicyControl, ApplyPolicy, DeletePolicy, DeliverPolicy,
           ReconcilePolicy, SendKeyStep, DeliverEvent, ResyncKey,
           RequeueKey, BeginSend, ReconcileStep, EvaluateSend, WriteSend, CancelKeyStep, RequestCancel,
           WatchCancel, BeginCancel, CallCancel, CallCancelFails, WriteCancel, OperatorRestart, AgentStep,
           CreateSend, EditSend, DeleteSend, DeliverSend, ResyncSend, FireTimer, SkipSend, StartSend,
           Evaluate, AgentMissing, AgentNotRunning, EvaluationFails, DenySend, PauseSend, SecretMissing,
           PassPolicies, PostAsyncChat, CallAsyncChat, AsyncChatReply, ReplyReceived, AsyncChatFails,
           NoReply, WriteStatus, StatusUpdate, StatusConflict, StatusUpdateFails, ChangeAgent
  <2> QED BY <1>0, <2>1, PolicyAssumption DEF PolicyTypeOK, PolicyAssumption, Edit
<1>2. CASE UNCHANGED policyVars
      BY <1>0, <1>1, <1>2 DEF PolicyTypeOK, policyVars
<1>3. ASSUME NEW p \in Policies, EditPolicy(p) \/ PolicyControl(p) PROVE PolicyTypeOK'
  <2>1. ASSUME NEW spec \in PolicySpecs, ApplyPolicy(p, spec) PROVE PolicyTypeOK'
    <3>1. [exists |-> TRUE, spec |-> spec, active |-> policies[p].exists /\ policies[p].active]
             \in PolicyObject
          BY PolicyAssumption DEF PolicyAssumption, PolicyObject
    <3> QED BY <1>0, <1>1, <2>1, <3>1 DEF ApplyPolicy, PolicyTypeOK
  <2>2. CASE DeletePolicy(p)
        BY <1>0, <1>1, <2>2 DEF DeletePolicy, PolicyTypeOK
  <2>3. CASE DeliverPolicy(p)
        BY <1>0, <1>1, <2>3 DEF DeliverPolicy, PolicyTypeOK
  <2>4. CASE ReconcilePolicy(p)
    <3>1. policies[p].exists => [exists |-> TRUE, spec |-> policies[p].spec,
                                 active |-> ValidPolicy(policies[p].spec)] \in PolicyObject
      <4>1. ValidPolicy(policies[p].spec) \in BOOLEAN
            BY DEF ValidPolicy
      <4>2. policies[p] \in PolicyObject \/ policies[p] = NoPolicy
            BY <1>0 DEF PolicyTypeOK
      <4>3. policies[p].exists => policies[p].spec \in PolicySpec
        <5>1. CASE policies[p] \in PolicyObject
              BY <5>1 DEF PolicyObject
        <5>2. CASE policies[p] = NoPolicy
          <6>1. ~NoPolicy.exists
                BY Zenon DEF NoPolicy
          <6> QED BY <5>2, <6>1
        <5> QED BY <4>2, <5>1, <5>2
      <4> QED BY <4>1, <4>3 DEF PolicyObject
    <3> QED BY <1>0, <1>1, <2>4, <3>1 DEF ReconcilePolicy, PolicyTypeOK
  <2> QED BY <1>3, <2>1, <2>2, <2>3, <2>4 DEF EditPolicy, PolicyControl
<1>4. CASE OperatorRestart
      BY <1>0, <1>1, <1>4 DEF OperatorRestart, PolicyTypeOK
<1>5. \/ UNCHANGED policyVars \/ OperatorRestart
      \/ \E p \in Policies : EditPolicy(p) \/ PolicyControl(p)
      BY DEF Next, vars, UserStep, SendKeyStep, DeliverEvent, ResyncKey,
           RequeueKey, BeginSend, ReconcileStep, EvaluateSend, WriteSend, CancelKeyStep, RequestCancel,
           WatchCancel, BeginCancel, CallCancel, CallCancelFails, WriteCancel, AgentStep,
           PostAsyncChat, AsyncChatReply, AsyncChatFails
<1> QED BY <1>2, <1>3, <1>4, <1>5

(* What the cache holds is a stored version. *)
LEMMA CachedTyped ==
  ASSUME SendTypeOK, CacheInv, NEW s \in Sends, seen[s] # 0
  PROVE  Cached(s) \in SendObject /\ seen[s] \in 1..Len(log[s])
<1>1. seen[s] \in Nat /\ seen[s] <= Len(log[s]) /\ log[s] \in Seq(SendObject)
      BY DEF SendTypeOK, CacheInv
<1>2. seen[s] \in 1..Len(log[s])
      BY <1>1
<1> QED BY <1>1, <1>2 DEF Cached

(* Every step seen by the cancel controller's variables. *)
CancelChange ==
  \/ UNCHANGED cancelVars
  \/ \E c \in Cancels : \/ CreateCancel(c) \/ DeliverCancel(c) \/ FireCancelTimer(c)
                        \/ ReconcileCancel(c)
  \/ CancelAnswered \/ CancelUnanswered
  \/ CancelUpdate \/ CancelConflict \/ CancelUpdateFails
  \/ RestartCancels

LEMMA NextIsCancelChange == [Next]_vars => CancelChange
BY DEF Next, vars, UserStep, EditPolicy, PolicyControl, SendKeyStep, DeliverEvent, ResyncKey,
       RequeueKey, BeginSend, ReconcileStep, EvaluateSend, PostAsyncChat, AsyncChatReply,
       AsyncChatFails, WriteSend, CancelKeyStep, RequestCancel, WatchCancel, BeginCancel, CallCancel,
       CallCancelFails, WriteCancel, OperatorRestart, AgentStep, CancelChange

LEMMA CancelTypeStep ==
  ASSUME TypeOK, CacheInv, CancelInv, [Next]_vars
  PROVE  CancelTypeOK'
<1>0. CancelTypeOK /\ SendTypeOK /\ CancelChange
      BY NextIsCancelChange DEF TypeOK
<1>1. cjob.pc # "idle" => cjob.cancel \in Cancels
      BY DEF CancelInv
<1>2. cjob.phase \in CancelPhases
      BY <1>0 DEF CancelTypeOK, CancelJob
<1>3. cphase' \in [Cancels -> CancelPhases]
      BY <1>0, <1>1, <1>2 DEF CancelTypeOK, CancelChange, cancelVars, CreateCancel, DeliverCancel,
         FireCancelTimer, ReconcileCancel, TakeCancel, SkipCancel, SendNotFound, NoQueueIDYet,
         CancelAgentMissing, StartCancel, CancelAnswered, CancelUnanswered, CancelUpdate,
         CancelConflict, CancelUpdateFails, RestartCancels, CancelPhases
<1>4. cseen' \in [Cancels -> CancelPhases]
      BY <1>0 DEF CancelTypeOK, CancelChange, cancelVars, CreateCancel, DeliverCancel,
         FireCancelTimer, ReconcileCancel, TakeCancel, SkipCancel, SendNotFound, NoQueueIDYet,
         CancelAgentMissing, StartCancel, CancelAnswered, CancelUnanswered, CancelUpdate,
         CancelConflict, CancelUpdateFails, RestartCancels
<1>5. cancelQueue' \subseteq Cancels /\ cancelTimers' \subseteq Cancels
      BY <1>0, <1>1 DEF CancelTypeOK, CancelChange, cancelVars, CreateCancel, DeliverCancel,
         FireCancelTimer, ReconcileCancel, TakeCancel, SkipCancel, SendNotFound, NoQueueIDYet,
         CancelAgentMissing, StartCancel, CancelAnswered, CancelUnanswered, CancelUpdate,
         CancelConflict, CancelUpdateFails, RestartCancels
<1>6. cjob' \in CancelJob
  <2>0. cjob \in CancelJob
        BY <1>0 DEF CancelTypeOK
  <2>1. CASE \E c \in Cancels : StartCancel(c)
    <3>1. PICK c \in Cancels : StartCancel(c)
          BY <2>1
    <3>2. Cached(SendOf[c]).queueID \in QueueIds \cup {NoQueue}
      <4>1. SendOf[c] \in Sends /\ seen[SendOf[c]] # 0
            BY <3>1, CancelAssumption DEF CancelAssumption, StartCancel, InCache
      <4>2. Cached(SendOf[c]) \in SendObject
            BY <1>0, <4>1, CachedTyped
      <4> QED BY <4>2 DEF SendObject
    <3> QED BY <3>1, <3>2, CancelJobTyped DEF StartCancel
  <2>2. CASE \E c \in Cancels : SendNotFound(c) \/ CancelAgentMissing(c)
        BY <2>2, CancelJobTyped DEF SendNotFound, CancelAgentMissing
  <2>3. CASE CancelAnswered \/ CancelUnanswered
        BY <2>0, <2>3, CancelJobTyped DEF CancelAnswered, CancelUnanswered, CancelPhases
  <2>4. CASE CancelUpdate \/ CancelConflict \/ CancelUpdateFails \/ RestartCancels
        BY <2>4, CancelJobTyped DEF CancelUpdate, CancelConflict, CancelUpdateFails, RestartCancels
  <2>5. \/ cjob' = cjob
        \/ \E c \in Cancels : StartCancel(c) \/ SendNotFound(c) \/ CancelAgentMissing(c)
        \/ CancelAnswered \/ CancelUnanswered
        \/ CancelUpdate \/ CancelConflict \/ CancelUpdateFails \/ RestartCancels
        BY <1>0 DEF CancelChange, cancelVars, CreateCancel, DeliverCancel, FireCancelTimer,
           ReconcileCancel, SkipCancel, NoQueueIDYet
  <2> QED BY <2>0, <2>1, <2>2, <2>3, <2>4, <2>5
<1> QED BY <1>3, <1>4, <1>5, <1>6 DEF CancelTypeOK

LEMMA TypeStep ==
  ASSUME IInv, [Next]_vars
  PROVE  TypeOK'
<1>0. TypeOK /\ CacheInv /\ CancelInv /\ ItemInv /\ PodChange
      BY NextIsPodChange DEF IInv
<1>1. faults' \in 0..MaxFaults
  <2>1. faults \in 0..MaxFaults
        BY <1>0 DEF TypeOK
  <2>2. faults' = faults \/ Fault
        BY DEF Next, vars, UserStep, EditPolicy, PolicyControl, SendKeyStep, DeliverEvent, ResyncKey,
           RequeueKey, BeginSend, ReconcileStep, EvaluateSend, WriteSend, CancelKeyStep, RequestCancel,
           WatchCancel, BeginCancel, CallCancel, CallCancelFails, WriteCancel, OperatorRestart, AgentStep,
           Evaluate, AgentMissing, AgentNotRunning, EvaluationFails, DenySend, PauseSend, SecretMissing,
           PassPolicies, PostAsyncChat, AsyncChatReply, AsyncChatFails, WriteStatus, StatusUpdate,
           StatusConflict, StatusUpdateFails, CancelQueueItem, CancelNotFound, CancelDisconnects,
           CancelDisconnectFails, ServerStep, Arrive, LosePost, AsyncChat, SpawnTask,
           AcquirePermit, AgentRestart, RunItem, OpenSession, SessionIdle, SessionDeleted, Unregister, RunFails, PostResponse,
           LoseResponse
  <2> QED BY <2>1, <2>2, FaultsBounded
<1>2. PolicyTypeOK' /\ SendTypeOK' /\ CancelTypeOK'
      BY <1>0, PolicyTypeStep, SendTypeStep, CancelTypeStep
<1>3. ItemTypeOK'
      BY <1>0, ItemTypeStep DEF TypeOK
<1> QED BY <1>1, <1>2, <1>3 DEF TypeOK

-----------------------------------------------------------------------------
(* What a step does to one log. *)
LEMMA LogCases ==
  ASSUME SendTypeOK, LogChange, NEW s \in Sends
  PROVE  \/ log'[s] = log[s]
         \/ \E o \in SendObject :
              /\ Len(log'[s]) = Len(log[s]) + 1
              /\ log'[s][Len(log[s]) + 1] = o
              /\ \A i \in 1..Len(log[s]) : log'[s][i] = log[s][i]
              /\ Created(s, o) \/ ByUser(s, o) \/ ByWorker(s, o)
<1>0. log \in [Sends -> Seq(SendObject)]
      BY DEF SendTypeOK
<1>1. CASE log' = log
      BY <1>1
<1>2. ASSUME NEW t \in Sends, NEW o \in SendObject, Appended(t, o), t # s
      PROVE  log'[s] = log[s]
      BY <1>0, <1>2 DEF Appended
<1>3. ASSUME NEW o \in SendObject, Appended(s, o)
      PROVE  /\ Len(log'[s]) = Len(log[s]) + 1
             /\ log'[s][Len(log[s]) + 1] = o
             /\ \A i \in 1..Len(log[s]) : log'[s][i] = log[s][i]
  <2>1. log[s] \in Seq(SendObject) /\ log'[s] = Append(log[s], o)
        BY <1>0, <1>3 DEF Appended
  <2> QED BY <2>1, AppendFacts
<1> QED BY <1>1, <1>2, <1>3 DEF LogChange

(* How the worker moves on. *)
Rejected == {"Error", "Denied", "PendingApproval"}

JobMoves ==
  \/ job' = job
  \/ job'.pc = "idle"
  \/ \E s \in Sends :
       /\ job.pc = "idle" /\ ~NothingToDo(s)
       /\ job'.pc = "evaluate" /\ job'.q = NoQueue /\ job'.send = s /\ job'.ver = seen[s]
  \/ /\ job.pc # "idle" /\ job'.send = job.send /\ job'.ver = job.ver
     /\ \/ job.pc = "evaluate" /\ job'.pc = "post" /\ job'.q = job.q
        \/ /\ job.pc = "post" /\ job'.pc = "reply"
           /\ job'.q \in QueueIds /\ Arrive(job'.q, job.send)
        \/ /\ job.pc = "evaluate" /\ job'.pc = "write" /\ job'.q = NoQueue
           /\ job'.phase \in Rejected
           /\ job'.phase = "PendingApproval" => ~Snapshot.approved
        \/ /\ job.pc = "reply" /\ job'.pc = "write" /\ job'.q = job.q /\ job'.phase = "Done"
           /\ Accepted(job.q)
        \/ job.pc = "reply" /\ job'.pc = "write" /\ job'.q = NoQueue /\ job'.phase = "Error"

LEMMA JobStep ==
  ASSUME IInv, SendChange
  PROVE  JobMoves
<1>0. SendTypeOK /\ job \in Job /\ job.q \in QueueIds \cup {NoQueue}
      BY DEF IInv, TypeOK, SendTypeOK, Job
<1>1. CASE \E s \in Sends : StartSend(s)
  <2>1. PICK s \in Sends : StartSend(s)
        BY <1>1
  <2>2. seen[s] \in Nat
        BY <1>0 DEF SendTypeOK
  <2>3. job'.pc = "evaluate" /\ job'.q = NoQueue /\ job'.send = s /\ job'.ver = seen[s]
        BY <2>1, <2>2, StartFacts DEF StartSend
  <2> QED BY <2>1, <2>3 DEF JobMoves, StartSend
<1>2. CASE Evaluate
  <2>0. job.pc = "evaluate"
        BY <1>2 DEF Evaluate, AgentMissing, AgentNotRunning, EvaluationFails, DenySend, PauseSend,
             SecretMissing, PassPolicies
  <2>1. \/ Decide("Error", NoQueue) \/ Decide("Denied", NoQueue)
        \/ Decide("PendingApproval", NoQueue) /\ ~Snapshot.approved
        \/ job' = NoJob \/ job' = [job EXCEPT !.pc = "post"]
        BY <1>2 DEF Evaluate, AgentMissing, AgentNotRunning, EvaluationFails, DenySend, PauseSend,
             SecretMissing, PassPolicies, Retry
  <2>2. "Error" \in Phases /\ "Denied" \in Phases /\ "PendingApproval" \in Phases
        BY DEF Phases
  <2>3. CASE Decide("Error", NoQueue) \/ Decide("Denied", NoQueue)
        BY <1>0, <2>0, <2>2, <2>3, DecideFacts DEF JobMoves, Rejected
  <2>4. CASE Decide("PendingApproval", NoQueue) /\ ~Snapshot.approved
        BY <1>0, <2>0, <2>2, <2>4, DecideFacts DEF JobMoves, Rejected
  <2>5. CASE job' = NoJob \/ job' = [job EXCEPT !.pc = "post"]
        BY <1>0, <2>0, <2>5, NoJobTyped, PassFacts DEF JobMoves
  <2> QED BY <2>1, <2>3, <2>4, <2>5
<1>3. CASE PostAsyncChat
  <2>1. PICK q \in QueueIds : CallAsyncChat(q) /\ Arrive(q, job.send)
        BY <1>3 DEF PostAsyncChat
  <2>2. job'.pc = "reply" /\ job'.q = q /\ job'.send = job.send /\ job'.ver = job.ver
        BY <1>0, <2>1, CallFacts DEF CallAsyncChat
  <2> QED BY <2>1, <2>2 DEF JobMoves, CallAsyncChat
<1>4. CASE AsyncChatReply \/ AsyncChatFails
  <2>1. /\ job.pc = "reply"
        /\ \/ Decide("Done", job.q) /\ Accepted(job.q)
           \/ Decide("Error", NoQueue)
        BY <1>4 DEF AsyncChatReply, AsyncChatFails, ReplyReceived, NoReply
  <2>2. "Done" \in Phases /\ "Error" \in Phases
        BY DEF Phases
  <2> QED BY <1>0, <2>1, <2>2, DecideFacts DEF JobMoves
<1>5. CASE WriteStatus \/ RestartSends
      BY <1>5, NoJobTyped DEF WriteStatus, StatusUpdate, StatusConflict, StatusUpdateFails, Retry,
           RestartSends, JobMoves
<1>6. \/ job' = job \/ Evaluate \/ PostAsyncChat \/ AsyncChatReply \/ AsyncChatFails \/ WriteStatus
      \/ RestartSends \/ \E s \in Sends : StartSend(s)
      BY DEF SendChange, sendVars, CreateSend, EditSend, DeleteSend, DeliverSend, ResyncSend,
         FireTimer, SkipSend
<1> QED BY <1>1, <1>2, <1>3, <1>4, <1>5, <1>6 DEF JobMoves

-----------------------------------------------------------------------------
(* One lemma per remaining conjunct of the invariant. *)
LEMMA CacheStep ==
  ASSUME IInv, [Next]_vars
  PROVE  CacheInv'
<1>0. /\ SendTypeOK /\ CacheInv /\ SnapshotInv /\ SendChange /\ LogChange
      BY NextIsSendChange, LogStep DEF IInv, TypeOK
<1> SUFFICES ASSUME NEW s \in Sends
             PROVE  /\ seen'[s] <= Len(log'[s])
                    /\ s \in sendQueue' \cup sendTimers' => log'[s] # <<>>
    BY DEF CacheInv
<1>1. /\ log'[s] \in Seq(SendObject) /\ log[s] \in Seq(SendObject)
      /\ Len(log[s]) \in Nat /\ Len(log'[s]) \in Nat /\ Len(log[s]) <= Len(log'[s])
      BY <1>0, LogGrows DEF SendTypeOK
<1>2. log[s] # <<>> => log'[s] # <<>>
      BY <1>1
<1>3. seen[s] \in Nat /\ seen[s] <= Len(log[s]) /\ (s \in sendQueue \cup sendTimers => log[s] # <<>>)
      BY <1>0 DEF SendTypeOK, CacheInv
<1>4. seen'[s] <= Len(log'[s])
  <2>1. CASE RestartSends
        BY <1>1, <2>1 DEF RestartSends
  <2>2. CASE \E t \in Sends : DeliverSend(t)
        BY <1>0, <1>1, <1>3, <2>2 DEF SendTypeOK, DeliverSend
  <2>3. seen' = seen \/ RestartSends \/ \E t \in Sends : DeliverSend(t)
        BY <1>0 DEF SendChange, sendVars, CreateSend, EditSend, DeleteSend,
           ResyncSend, FireTimer, SkipSend, StartSend, Evaluate, AgentMissing, AgentNotRunning,
           EvaluationFails, DenySend, PauseSend, SecretMissing, PassPolicies, PostAsyncChat,
           CallAsyncChat, AsyncChatReply, ReplyReceived, AsyncChatFails, NoReply, WriteStatus,
           StatusUpdate, StatusConflict, StatusUpdateFails
  <2> QED BY <1>1, <1>3, <2>1, <2>2, <2>3
<1>5. s \in sendQueue' \cup sendTimers' => log[s] # <<>>
  <2>1. job.pc # "idle" /\ job.send = s => log[s] # <<>>
    <3>1. job.pc # "idle" => job.ver \in 1..Len(log[job.send])
          BY <1>0 DEF SnapshotInv
    <3>2. ASSUME job.pc # "idle", job.send = s PROVE 1..Len(log[s]) # {}
          BY <3>1, <3>2
    <3> QED BY <1>1, <3>2
  <2>2. DeliverSend(s) \/ ResyncSend(s) => log[s] # <<>>
        BY <1>1, <1>3 DEF DeliverSend, ResyncSend, InCache
  <2>3. RestartSends /\ s \in sendQueue' => log[s] # <<>>
        BY DEF RestartSends, Stored
  <2>4. \/ s \in sendQueue' \cup sendTimers' => s \in sendQueue \cup sendTimers
        \/ DeliverSend(s) \/ ResyncSend(s) \/ RestartSends \/ (job.pc # "idle" /\ job.send = s)
        BY <1>0 DEF SendChange, sendVars, CreateSend, EditSend, DeleteSend, DeliverSend,
           ResyncSend, FireTimer, SkipSend, StartSend, Evaluate, AgentMissing, AgentNotRunning,
           EvaluationFails, DenySend, PauseSend, SecretMissing, PassPolicies, PostAsyncChat,
           CallAsyncChat, AsyncChatReply, ReplyReceived, AsyncChatFails, NoReply, WriteStatus,
           StatusUpdate, StatusConflict, StatusUpdateFails, Retry
  <2>5. RestartSends => sendTimers' = {}
        BY DEF RestartSends
  <2> QED BY <1>3, <2>1, <2>2, <2>3, <2>4, <2>5
<1> QED BY <1>2, <1>4, <1>5

LEMMA SnapshotStep ==
  ASSUME IInv, [Next]_vars
  PROVE  SnapshotInv'
<1>0. /\ SendTypeOK /\ CacheInv /\ SnapshotInv /\ StoredPhasesInv /\ LogChange /\ JobMoves
      BY NextIsSendChange, LogStep, JobStep DEF IInv, TypeOK
<1>1. ASSUME job.pc # "idle", job'.send = job.send, job'.ver = job.ver
      PROVE  SnapshotInv'
  <2>1. /\ job.send \in Sends /\ job.ver \in 1..Len(log[job.send])
        /\ Snapshot.exists /\ Snapshot.phase \in {"", "PendingApproval"}
        /\ Snapshot.phase = "PendingApproval" => Snapshot.approved
        BY <1>0, <1>1 DEF SnapshotInv
  <2>2. /\ Len(log[job.send]) \in Nat /\ Len(log'[job.send]) \in Nat
        /\ Len(log[job.send]) <= Len(log'[job.send])
        /\ log'[job.send][job.ver] = log[job.send][job.ver]
        BY <1>0, <2>1, LogGrows
  <2>3. Snapshot' = Snapshot
        BY <1>1, <2>2 DEF Snapshot
  <2>4. job'.send \in Sends /\ job'.ver \in 1..Len(log'[job'.send])
    <3>0. ASSUME NEW m \in Nat, NEW n \in Nat, m <= n, NEW k \in 1..m PROVE k \in 1..n
          BY <3>0
    <3>1. job.ver \in 1..Len(log'[job.send])
          BY <2>1, <2>2, <3>0
    <3>2. Len(log'[job'.send]) = Len(log'[job.send])
          BY <1>1
    <3> QED BY <1>1, <2>1, <3>1, <3>2
  <2> QED BY <2>1, <2>3, <2>4 DEF SnapshotInv
<1>2. ASSUME NEW s \in Sends, ~NothingToDo(s), job'.send = s, job'.ver = seen[s]
      PROVE  SnapshotInv'
  <2>1. /\ seen[s] # 0 /\ Cached(s).exists
        /\ Cached(s).phase \notin TerminalSend
        /\ Cached(s).phase = "PendingApproval" => Cached(s).approved
        BY <1>2 DEF NothingToDo, InCache
  <2>2. seen[s] \in 1..Len(log[s])
        BY <1>0, <2>1, CachedTyped
  <2>3. Cached(s).phase \in {"", "PendingApproval"}
        BY <1>0, <2>1, <2>2 DEF StoredPhasesInv, Cached
  <2>4. /\ Len(log[s]) \in Nat /\ Len(log'[s]) \in Nat
        /\ Len(log[s]) <= Len(log'[s])
        /\ log'[s][seen[s]] = log[s][seen[s]]
        BY <1>0, <2>2, LogGrows
  <2>5. Snapshot' = Cached(s)
        BY <1>2, <2>4 DEF Snapshot, Cached
  <2>6. job'.send \in Sends /\ job'.ver \in 1..Len(log'[job'.send])
        BY <1>2, <2>2, <2>4
  <2> QED BY <2>1, <2>3, <2>5, <2>6 DEF SnapshotInv
<1>3. CASE job'.pc = "idle"
      BY <1>3 DEF SnapshotInv
<1> QED BY <1>0, <1>1, <1>2, <1>3 DEF JobMoves

LEMMA JobInvStep ==
  ASSUME IInv, [Next]_vars
  PROVE  JobInv'
<1>0. /\ SendTypeOK /\ SnapshotInv /\ JobInv /\ JobMoves /\ LogChange
      /\ ItemTypeOK /\ ItemInv /\ QueueHoldsTheQueued /\ PodChange
      BY NextIsSendChange, NextIsPodChange, LogStep, JobStep DEF IInv, TypeOK
<1>1. job.q \in QueueIds \cup {NoQueue}
      BY <1>0 DEF SendTypeOK, Job
<1>2. NoQueue \notin QueueIds
      BY ClusterAssumption DEF ClusterAssumption, NoQueue
<1>3. ASSUME job.q \in QueueIds
      PROVE  /\ istate[job.q] # "none" => istate'[job.q] # "none" /\ isend'[job.q] = isend[job.q]
             /\ Accepted(job.q) => istate'[job.q] \notin {"none", "posted"}
  <2>1. \A r \in QueueIds : /\ istate[r] # "none" => istate'[r] # "none" /\ isend'[r] = isend[r]
                            /\ Accepted(r) => Accepted(r)'
        BY <1>0, ItemsPersist
  <2> QED BY <1>3, <2>1 DEF Accepted
<1>4. CASE job' = job
  <2>1. CASE job.pc = "write"
    <3>1. Snapshot' = Snapshot
      <4>1. job.send \in Sends /\ job.ver \in 1..Len(log[job.send])
            BY <1>0, <2>1 DEF SnapshotInv
      <4>2. log'[job.send][job.ver] = log[job.send][job.ver]
            BY <1>0, <4>1, LogGrows
      <4> QED BY <1>4, <4>2 DEF Snapshot
    <3>2. job.q # NoQueue => isend[job.q] = job.send /\ Accepted(job.q)
          BY <1>0, <2>1 DEF JobInv
    <3>3. job.q # NoQueue => isend'[job.q] = job.send /\ istate'[job.q] \notin {"none", "posted"}
          BY <1>1, <1>3, <3>2 DEF Accepted
    <3> QED BY <1>0, <1>4, <2>1, <3>1, <3>3 DEF JobInv, Accepted
  <2>2. CASE job.pc # "write"
        BY <1>0, <1>3, <1>4, <2>2 DEF JobInv
  <2> QED BY <2>1, <2>2
<1>5. CASE job'.pc = "idle"
      BY <1>5 DEF JobInv
<1>6. CASE job'.pc \in {"evaluate", "post"} /\ job'.q = NoQueue
      BY <1>6 DEF JobInv
<1>7. CASE /\ job'.pc = "reply" /\ job'.q \in QueueIds /\ job'.send = job.send
           /\ Arrive(job'.q, job.send)
      BY <1>0, <1>7 DEF JobInv, Arrive, ItemTypeOK
<1>8. CASE /\ job.pc = "evaluate" /\ job'.pc = "write" /\ job'.q = NoQueue
           /\ job'.send = job.send /\ job'.ver = job.ver
           /\ job'.phase \in Rejected
           /\ job'.phase = "PendingApproval" => ~Snapshot.approved
  <2>1. job.send \in Sends /\ job.ver \in 1..Len(log[job.send])
        BY <1>0, <1>8 DEF SnapshotInv
  <2>2. log'[job.send][job.ver] = log[job.send][job.ver]
        BY <1>0, <2>1, LogGrows
  <2>3. Snapshot' = Snapshot
        BY <1>8, <2>2 DEF Snapshot
  <2> QED BY <1>8, <2>3 DEF JobInv, Rejected, TerminalSend
<1>9. CASE /\ job.pc = "reply" /\ job'.pc = "write" /\ job'.q = job.q /\ job'.phase = "Done"
           /\ job'.send = job.send /\ Accepted(job.q)
  <2>1. job.q \in QueueIds /\ isend[job.q] = job.send /\ istate[job.q] # "none"
        BY <1>0, <1>9 DEF JobInv
  <2>2. isend'[job.q] = job.send /\ istate'[job.q] \notin {"none", "posted"}
        BY <1>3, <1>9, <2>1
  <2>3. job.q # NoQueue
        BY <1>2, <2>1
  <2> QED BY <1>9, <2>2, <2>3 DEF JobInv, Accepted, TerminalSend
<1>10. CASE job'.pc = "write" /\ job'.q = NoQueue /\ job'.phase = "Error"
      BY <1>10 DEF JobInv, TerminalSend
<1>11. job.pc = "evaluate" => job.q = NoQueue
      BY <1>0 DEF JobInv
<1> QED BY <1>0, <1>4, <1>5, <1>6, <1>7, <1>8, <1>9, <1>10, <1>11 DEF JobMoves

LEMMA StoredPhasesStep ==
  ASSUME IInv, [Next]_vars
  PROVE  StoredPhasesInv'
<1>0. /\ SendTypeOK /\ SnapshotInv /\ JobInv /\ StoredPhasesInv /\ LogChange
      BY NextIsSendChange, LogStep DEF IInv, TypeOK
<1> DEFINE P == TerminalSend \cup {"", "PendingApproval"}
<1> SUFFICES ASSUME NEW s \in Sends, NEW i \in 1..Len(log'[s]) PROVE log'[s][i].phase \in P
    BY DEF StoredPhasesInv
<1>1. log[s] \in Seq(SendObject) /\ Len(log[s]) \in Nat
      BY <1>0 DEF SendTypeOK
<1>2. \A k \in 1..Len(log[s]) : log[s][k].phase \in P
      BY <1>0 DEF StoredPhasesInv
<1>3. CASE log'[s] = log[s]
      BY <1>2, <1>3
<1>4. ASSUME NEW o \in SendObject,
             Len(log'[s]) = Len(log[s]) + 1,
             log'[s][Len(log[s]) + 1] = o,
             \A k \in 1..Len(log[s]) : log'[s][k] = log[s][k],
             Created(s, o) \/ ByUser(s, o) \/ ByWorker(s, o)
      PROVE  log'[s][i].phase \in P
  <2>1. CASE i \in 1..Len(log[s])
        BY <1>2, <1>4, <2>1
  <2>2. CASE i = Len(log[s]) + 1
    <3>1. CASE Created(s, o)
          BY <1>4, <2>2, <3>1 DEF Created
    <3>2. CASE ByUser(s, o)
      <4>1. Len(log[s]) \in 1..Len(log[s])
            BY <1>1, <3>2 DEF ByUser, Stored
      <4>2. Latest(s).phase \in P
            BY <1>2, <4>1 DEF Latest
      <4> QED BY <1>4, <2>2, <3>2, <4>2 DEF ByUser
    <3>3. CASE ByWorker(s, o)
      <4>1. job.phase \in P
            BY <1>0, <3>3 DEF ByWorker, JobInv
      <4> QED BY <1>4, <2>2, <3>3, <4>1 DEF ByWorker
    <3> QED BY <1>4, <3>1, <3>2, <3>3
  <2>3. i \in 1..Len(log[s]) \/ i = Len(log[s]) + 1
        BY <1>1, <1>4
  <2> QED BY <2>1, <2>2, <2>3
<1> QED BY <1>0, <1>3, <1>4, LogCases

(* The worker's update replaces the last version, which left something to do. *)
LEMMA WorkerReplacesOpen ==
  ASSUME SendTypeOK, SnapshotInv, NEW s \in Sends, NEW o, ByWorker(s, o)
  PROVE  /\ log[s] # <<>> /\ Len(log[s]) \in 1..Len(log[s])
         /\ Snapshot = log[s][Len(log[s])]
         /\ log[s][Len(log[s])].phase \notin TerminalSend
<1>1. /\ job.pc # "idle" /\ job.send = s /\ job.ver = Len(log[s])
      BY DEF ByWorker
<1>2. job.ver \in 1..Len(log[job.send]) /\ Snapshot.phase \in {"", "PendingApproval"}
      BY <1>1 DEF SnapshotInv
<1>3. Snapshot = log[s][Len(log[s])]
      BY <1>1 DEF Snapshot
<1>4. Len(log[s]) \in 1..Len(log[s])
      BY <1>1, <1>2
<1>5. log[s] # <<>>
      BY <1>4
<1> QED BY <1>2, <1>3, <1>4, <1>5 DEF TerminalSend

LEMMA OutcomeStep ==
  ASSUME IInv, [Next]_vars
  PROVE  OutcomeIsFinal'
<1>0. /\ SendTypeOK /\ SnapshotInv /\ OutcomeIsFinal /\ LogChange
      BY NextIsSendChange, LogStep DEF IInv, TypeOK
<1> SUFFICES ASSUME NEW s \in Sends, NEW i \in 1..Len(log'[s]), NEW j \in 1..Len(log'[s]),
                    i < j, log'[s][i].phase \in TerminalSend
             PROVE  /\ log'[s][j].phase = log'[s][i].phase
                    /\ log'[s][j].queueID = log'[s][i].queueID
    BY DEF OutcomeIsFinal
<1>1. log[s] \in Seq(SendObject) /\ Len(log[s]) \in Nat
      BY <1>0 DEF SendTypeOK
<1>2. \A k, m \in 1..Len(log[s]) :
        k < m /\ log[s][k].phase \in TerminalSend
          => log[s][m].phase = log[s][k].phase /\ log[s][m].queueID = log[s][k].queueID
      BY <1>0 DEF OutcomeIsFinal
<1>3. CASE log'[s] = log[s]
      BY <1>2, <1>3
<1>4. ASSUME NEW o \in SendObject,
             Len(log'[s]) = Len(log[s]) + 1,
             log'[s][Len(log[s]) + 1] = o,
             \A k \in 1..Len(log[s]) : log'[s][k] = log[s][k],
             Created(s, o) \/ ByUser(s, o) \/ ByWorker(s, o)
      PROVE  /\ log'[s][j].phase = log'[s][i].phase
             /\ log'[s][j].queueID = log'[s][i].queueID
  <2>1. i \in 1..Len(log[s])
        BY <1>1, <1>4
  <2>2. log[s][i].phase \in TerminalSend /\ log'[s][i] = log[s][i]
        BY <1>4, <2>1
  <2>3. CASE j \in 1..Len(log[s])
        BY <1>2, <1>4, <2>1, <2>2, <2>3
  <2>4. CASE j = Len(log[s]) + 1
    <3>0. Len(log[s]) \in 1..Len(log[s])
          BY <1>1, <2>1
    <3>1. /\ log[s][Len(log[s])].phase = log[s][i].phase
          /\ log[s][Len(log[s])].queueID = log[s][i].queueID
      <4>1. CASE i = Len(log[s])
            BY <4>1
      <4>2. CASE i < Len(log[s])
            BY <1>2, <2>1, <2>2, <3>0, <4>2
      <4> QED BY <1>1, <2>1, <4>1, <4>2
    <3>2. ~Created(s, o)
      <4>1. Len(log[s]) # 0
            BY <1>1, <2>1
      <4>2. log[s] # <<>>
            BY <4>1
      <4> QED BY <4>2 DEF Created
    <3>3. ~ByWorker(s, o)
          BY <1>0, <2>2, <3>1, WorkerReplacesOpen
    <3>4. o.phase = log[s][Len(log[s])].phase /\ o.queueID = log[s][Len(log[s])].queueID
          BY <1>4, <3>2, <3>3 DEF ByUser, Latest
    <3> QED BY <1>4, <2>2, <2>4, <3>1, <3>4
  <2>5. j \in 1..Len(log[s]) \/ j = Len(log[s]) + 1
        BY <1>1, <1>4
  <2> QED BY <2>3, <2>4, <2>5
<1> QED BY <1>0, <1>3, <1>4, LogCases

LEMMA DoneStep ==
  ASSUME IInv, [Next]_vars
  PROVE  DoneHasItsOwnItem'
<1>0. /\ SendTypeOK /\ SnapshotInv /\ JobInv /\ DoneHasItsOwnItem /\ LogChange
      /\ ItemTypeOK /\ ItemInv /\ QueueHoldsTheQueued /\ PodChange
      BY NextIsSendChange, NextIsPodChange, LogStep DEF IInv, TypeOK
<1> DEFINE Own(s, o) == /\ (o.phase = "Done") <=> (o.queueID # NoQueue)
                        /\ o.queueID # NoQueue => isend[o.queueID] = s /\ Accepted(o.queueID)
<1> SUFFICES ASSUME NEW s \in Sends, NEW i \in 1..Len(log'[s])
             PROVE  /\ (log'[s][i].phase = "Done") <=> (log'[s][i].queueID # NoQueue)
                    /\ log'[s][i].queueID # NoQueue =>
                         /\ isend'[log'[s][i].queueID] = s
                         /\ istate'[log'[s][i].queueID] \notin {"none", "posted"}
    BY DEF DoneHasItsOwnItem, Accepted
<1>1. log[s] \in Seq(SendObject) /\ Len(log[s]) \in Nat
      BY <1>0 DEF SendTypeOK
<1>2. \A k \in 1..Len(log[s]) : Own(s, log[s][k])
      BY <1>0 DEF DoneHasItsOwnItem
<1>3. ASSUME NEW o \in SendObject, Own(s, o), log'[s][i] = o
      PROVE  /\ (log'[s][i].phase = "Done") <=> (log'[s][i].queueID # NoQueue)
             /\ log'[s][i].queueID # NoQueue =>
                  /\ isend'[log'[s][i].queueID] = s
                  /\ istate'[log'[s][i].queueID] \notin {"none", "posted"}
  <2>1. o.queueID \in QueueIds \cup {NoQueue}
        BY DEF SendObject
  <2>2. \A r \in QueueIds : /\ istate[r] # "none" => istate'[r] # "none" /\ isend'[r] = isend[r]
                            /\ Accepted(r) => Accepted(r)'
        BY <1>0, ItemsPersist
  <2>3. \A r \in QueueIds : Accepted(r) => istate'[r] \notin {"none", "posted"} /\ isend'[r] = isend[r]
        BY <2>2 DEF Accepted
  <2> QED BY <1>3, <2>1, <2>3
<1>4. CASE log'[s] = log[s]
  <2>1. log[s][i] \in SendObject /\ Own(s, log[s][i])
        BY <1>1, <1>2, <1>4
  <2> QED BY <1>3, <1>4, <2>1
<1>5. ASSUME NEW o \in SendObject,
             Len(log'[s]) = Len(log[s]) + 1,
             log'[s][Len(log[s]) + 1] = o,
             \A k \in 1..Len(log[s]) : log'[s][k] = log[s][k],
             Created(s, o) \/ ByUser(s, o) \/ ByWorker(s, o)
      PROVE  \E v \in SendObject : Own(s, v) /\ log'[s][i] = v
  <2>1. CASE i \in 1..Len(log[s])
        BY <1>1, <1>2, <1>5, <2>1
  <2>2. CASE i = Len(log[s]) + 1
    <3>1. CASE Created(s, o)
          BY <1>5, <2>2, <3>1 DEF Created
    <3>2. CASE ByUser(s, o)
      <4>1. Len(log[s]) \in 1..Len(log[s])
            BY <1>1, <3>2 DEF ByUser, Stored
      <4>2. Own(s, Latest(s))
            BY <1>2, <4>1 DEF Latest
      <4>3. Own(s, o)
            BY <3>2, <4>2 DEF ByUser
      <4> QED BY <1>5, <2>2, <4>3
    <3>3. CASE ByWorker(s, o)
      <4>1. /\ Len(log[s]) \in 1..Len(log[s])
            /\ Snapshot = log[s][Len(log[s])]
            /\ Snapshot.phase \notin TerminalSend
            BY <1>0, <3>3, WorkerReplacesOpen
      <4>2. Snapshot.queueID = NoQueue
        <5>1. Own(s, Snapshot)
              BY <1>2, <4>1
        <5> QED BY <4>1, <5>1 DEF TerminalSend
      <4>3. o.queueID = job.q /\ o.phase = job.phase
            BY <3>3, <4>2 DEF ByWorker
      <4>4. /\ (job.phase = "Done") <=> (job.q # NoQueue)
            /\ job.q # NoQueue => isend[job.q] = job.send /\ Accepted(job.q)
            BY <1>0, <3>3 DEF ByWorker, JobInv
      <4>5. Own(s, o)
            BY <3>3, <4>3, <4>4 DEF ByWorker
      <4> QED BY <1>5, <2>2, <4>5
    <3> QED BY <1>5, <3>1, <3>2, <3>3
  <2>3. i \in 1..Len(log[s]) \/ i = Len(log[s]) + 1
        BY <1>1, <1>5
  <2> QED BY <2>1, <2>2, <2>3
<1>6. log'[s] = log[s] \/ \E v \in SendObject : Own(s, v) /\ log'[s][i] = v
      BY <1>0, <1>5, LogCases
<1> QED BY <1>3, <1>4, <1>6

-----------------------------------------------------------------------------
(* The sends nobody disturbed. *)
LEMMA DisturbedGrows ==
  ASSUME IInv, SendChange
  PROVE  disturbed \subseteq disturbed'
BY DEF IInv, TypeOK, SendTypeOK, SendChange, sendVars, CreateSend, EditSend, DeleteSend, DeliverSend,
   ResyncSend, FireTimer, SkipSend, StartSend, Evaluate, AgentMissing, AgentNotRunning,
   EvaluationFails, DenySend, PauseSend, SecretMissing, PassPolicies, PostAsyncChat,
   CallAsyncChat, AsyncChatReply, ReplyReceived, AsyncChatFails, NoReply, WriteStatus,
   StatusUpdate, StatusConflict, StatusUpdateFails, RestartSends

OnePlace(s) ==
  /\ Len(log[s]) <= seen[s] + 1
  /\ InWork(s) => seen[s] = Len(log[s])
  /\ ~(s \in sendQueue /\ s \in sendTimers)
  /\ job.pc # "idle" /\ job.send = s =>
       s \notin sendQueue /\ s \notin sendTimers /\ job.ver = Len(log[s])

(* A call or a decision keeps the worker on its key. *)
SameKey == /\ UNCHANGED <<log, seen, sendQueue, sendTimers>>
           /\ job.pc # "idle" /\ job'.send = job.send /\ job'.ver = job.ver

GivesUp == /\ UNCHANGED <<log, seen, sendQueue>>
           /\ job.pc # "idle" /\ job'.pc = "idle"
           /\ sendTimers' = sendTimers \cup {job.send}

LEMMA ReconcileMoves ==
  ASSUME IInv, Evaluate \/ PostAsyncChat \/ AsyncChatReply \/ AsyncChatFails
  PROVE  SameKey \/ GivesUp
<1>0. job \in Job /\ job.q \in QueueIds \cup {NoQueue}
      BY DEF IInv, TypeOK, SendTypeOK, Job
<1>1. CASE Evaluate
  <2>1. /\ job.pc = "evaluate"
        /\ UNCHANGED <<log, seen, sendQueue>>
        /\ \/ /\ UNCHANGED sendTimers
              /\ \/ \E ph \in {"Error", "Denied", "PendingApproval"} : Decide(ph, NoQueue)
                 \/ job' = [job EXCEPT !.pc = "post"]
           \/ Retry
        BY <1>1 DEF Evaluate, AgentMissing, AgentNotRunning, EvaluationFails, DenySend, PauseSend,
             SecretMissing, PassPolicies
  <2>2. CASE Retry
        BY <2>1, <2>2, NoJobTyped DEF Retry, GivesUp
  <2>3. ASSUME NEW ph \in {"Error", "Denied", "PendingApproval"}, Decide(ph, NoQueue)
        PROVE  job'.send = job.send /\ job'.ver = job.ver
        BY <1>0, <2>3, DecideFacts DEF Phases
  <2>4. (job'.send = job.send /\ job'.ver = job.ver) \/ Retry
        BY <1>0, <2>1, <2>3, PassFacts
  <2> QED BY <2>1, <2>2, <2>4 DEF SameKey
<1>2. CASE PostAsyncChat
  <2>1. PICK q \in QueueIds : CallAsyncChat(q)
        BY <1>2 DEF PostAsyncChat
  <2> QED BY <1>0, <2>1, CallFacts DEF CallAsyncChat, SameKey
<1>3. CASE AsyncChatReply \/ AsyncChatFails
  <2>1. /\ job.pc = "reply"
        /\ UNCHANGED <<log, seen, sendQueue, sendTimers>>
        /\ Decide("Done", job.q) \/ Decide("Error", NoQueue)
        BY <1>3 DEF AsyncChatReply, AsyncChatFails, ReplyReceived, NoReply
  <2>2. "Done" \in Phases /\ "Error" \in Phases
        BY DEF Phases
  <2> QED BY <1>0, <2>1, <2>2, DecideFacts DEF SameKey
<1> QED BY <1>1, <1>2, <1>3

LEMMA OnePlaceStep ==
  ASSUME IInv, [Next]_vars
  PROVE  OnePlaceInv'
<1>0. /\ SendTypeOK /\ CacheInv /\ SnapshotInv /\ SendChange /\ LogChange /\ OnePlaceInv
      BY NextIsSendChange, LogStep DEF IInv, TypeOK
<1> SUFFICES ASSUME NEW s \in Sends, s \notin disturbed' PROVE OnePlace(s)'
    BY DEF OnePlaceInv, OnePlace
<1>1. s \notin disturbed /\ OnePlace(s)
      BY <1>0, DisturbedGrows DEF OnePlaceInv, OnePlace
<1>2. /\ log \in [Sends -> Seq(SendObject)] /\ seen \in [Sends -> Nat]
      /\ Len(log[s]) \in Nat /\ seen[s] \in Nat /\ seen[s] <= Len(log[s])
      /\ s \in sendQueue \cup sendTimers => log[s] # <<>>
      /\ sendQueue \subseteq Sends /\ sendTimers \subseteq Sends /\ disturbed \subseteq Sends
      BY <1>0 DEF SendTypeOK, CacheInv
<1>3. job.pc # "idle" => job.send \in Sends /\ job.ver \in 1..Len(log[job.send])
      BY <1>0 DEF SnapshotInv
<1> USE DEF OnePlace, InWork
<1>4. CASE UNCHANGED sendVars
      BY <1>1, <1>4 DEF sendVars
<1>5. ASSUME NEW t \in Sends, CreateSend(t) PROVE OnePlace(s)'
  <2>1. CASE t = s
    <3>0. log[s] = <<>> /\ UNCHANGED <<seen, sendQueue, sendTimers, job>>
          BY <1>5, <2>1, Zenon DEF CreateSend
    <3>1. log[s] = <<>> /\ Len(log[s]) = 0
          BY <3>0
    <3>2. s \notin sendQueue /\ s \notin sendTimers /\ ~(job.pc # "idle" /\ job.send = s)
          BY <1>2, <1>3, <3>1
    <3>3. seen[s] = 0
          BY <1>2, <3>1
    <3>4. \E o : log'[s] = <<o>>
          BY <1>2, <1>5, <2>1 DEF CreateSend
    <3>5. Len(log'[s]) = 1
          BY <3>4
    <3> QED BY <3>0, <3>2, <3>3, <3>5
  <2>2. CASE t # s
    <3>1. log'[s] = log[s]
          BY <1>2, <1>5, <2>2 DEF CreateSend
    <3> QED BY <1>1, <1>5, <3>1 DEF CreateSend
  <2> QED BY <2>1, <2>2
<1>6. ASSUME NEW t \in Sends, EditSend(t) \/ DeleteSend(t) \/ ResyncSend(t) PROVE OnePlace(s)'
  <2>1. t # s
        BY <1>6 DEF EditSend, DeleteSend, ResyncSend
  <2>2. /\ UNCHANGED <<seen, sendTimers, job>> /\ (s \in sendQueue' <=> s \in sendQueue)
        BY <1>6, <2>1 DEF EditSend, DeleteSend, ResyncSend
  <2>3. log'[s] = log[s]
        BY <1>2, <1>6, <2>1 DEF EditSend, DeleteSend, ResyncSend
  <2> QED BY <1>1, <2>2, <2>3
<1>7. ASSUME NEW t \in Sends, DeliverSend(t) PROVE OnePlace(s)'
  <2>1. CASE t = s
    <3>1. ~InWork(s)
          BY <1>1, <1>2, <1>7, <2>1 DEF DeliverSend
    <3>2. seen'[s] = Len(log[s])
          BY <1>1, <1>2, <1>7, <2>1 DEF DeliverSend
    <3> QED BY <1>2, <1>7, <3>1, <3>2 DEF DeliverSend
  <2>2. CASE t # s
        BY <1>1, <1>2, <1>7, <2>2 DEF DeliverSend
  <2> QED BY <2>1, <2>2
<1>8. ASSUME NEW t \in Sends, FireTimer(t) PROVE OnePlace(s)'
      BY <1>1, <1>8 DEF FireTimer
<1>9. ASSUME NEW t \in Sends, SkipSend(t) PROVE OnePlace(s)'
      BY <1>1, <1>9 DEF SkipSend
<1>10. ASSUME NEW t \in Sends, StartSend(t) PROVE OnePlace(s)'
  <2>1. /\ job.pc = "idle" /\ t \in sendQueue /\ sendQueue' = sendQueue \ {t}
        /\ UNCHANGED <<log, seen, sendTimers>>
        BY <1>10 DEF StartSend
  <2>2. job'.send = t /\ job'.ver = seen[t]
        BY <1>2, <1>10, StartFacts DEF StartSend
  <2> QED BY <1>1, <2>1, <2>2
<1>11. CASE Evaluate \/ PostAsyncChat \/ AsyncChatReply \/ AsyncChatFails
      BY <1>1, <1>11, ReconcileMoves DEF SameKey, GivesUp
<1>12. CASE WriteStatus
  <2>1. CASE job.send = s
    <3>1. job.pc = "write" /\ Current
          BY <1>1, <1>12, <2>1 DEF WriteStatus, StatusUpdate, StatusConflict, StatusUpdateFails, Current
    <3>2. StatusUpdate
          BY <1>12, <2>1, <3>1 DEF WriteStatus, StatusConflict, StatusUpdateFails
    <3>3. log'[s] = Append(log[s], Updated)
          BY <1>2, <2>1, <3>2 DEF StatusUpdate
    <3>4. Len(log'[s]) = Len(log[s]) + 1
          BY <1>2, <3>3
    <3> QED BY <1>1, <2>1, <3>1, <3>2, <3>4, NoJobTyped DEF StatusUpdate
  <2>2. CASE job.send # s
    <3>1. log'[s] = log[s]
          BY <1>2, <1>12, <2>2 DEF WriteStatus, StatusUpdate, StatusConflict, StatusUpdateFails
    <3> QED BY <1>1, <1>12, <2>2, <3>1, NoJobTyped
            DEF WriteStatus, StatusUpdate, StatusConflict, StatusUpdateFails, Retry
  <2> QED BY <2>1, <2>2
<1>13. CASE RestartSends
      BY <1>13 DEF RestartSends
<1> QED BY <1>0, <1>4, <1>5, <1>6, <1>7, <1>8, <1>9, <1>10, <1>11, <1>12, <1>13 DEF SendChange

(* Only the POST gives an item to a send. *)
LEMMA OnlyPostsAddItems == [Next]_vars => isend' = isend \/ PostAsyncChat
BY DEF Next, vars, UserStep, EditPolicy, PolicyControl, SendKeyStep, DeliverEvent, ResyncKey,
   RequeueKey, BeginSend, ReconcileStep, EvaluateSend, WriteSend, CancelKeyStep, RequestCancel,
   WatchCancel, BeginCancel, CallCancel, CallCancelFails, WriteCancel, OperatorRestart, AgentStep,
   AsyncChatReply, AsyncChatFails, CancelQueueItem, CancelNotFound, CancelDisconnects,
   DisconnectSession, CancelDisconnectFails, ServerStep, LosePost, AsyncChat, SpawnTask, AcquirePermit,
   AgentRestart, RunItem, OpenSession, SessionIdle, SessionDeleted, Unregister, RunFails,
   PostResponse, LoseResponse, itemVars

(* What a POST does. *)
LEMMA PostFacts ==
  ASSUME IInv, PostAsyncChat
  PROVE  \E q \in QueueIds :
           /\ job.pc = "post" /\ job.send \in Sends /\ UNCHANGED <<log, disturbed>>
           /\ job'.pc = "reply" /\ job'.send = job.send
           /\ istate[q] = "none" /\ isend[q] = NoSend
           /\ isend' = [isend EXCEPT ![q] = job.send]
<1>0. job \in Job /\ ItemInv /\ SnapshotInv /\ isend \in [QueueIds -> Sends \cup {NoSend}]
      BY DEF IInv, TypeOK, SendTypeOK, ItemTypeOK
<1>1. PICK q \in QueueIds : CallAsyncChat(q) /\ Arrive(q, job.send)
      BY DEF PostAsyncChat
<1>2. job.pc = "post" /\ UNCHANGED <<log, disturbed>>
      BY <1>1 DEF CallAsyncChat
<1>3. job'.pc = "reply" /\ job'.send = job.send
      BY <1>0, <1>1, CallFacts DEF CallAsyncChat
<1>4. job.send \in Sends
      BY <1>0, <1>2 DEF SnapshotInv
<1>5. istate[q] = "none" /\ isend' = [isend EXCEPT ![q] = job.send]
      BY <1>1 DEF Arrive
<1>6. isend[q] = NoSend
      BY <1>0, <1>5 DEF ItemInv
<1> QED BY <1>2, <1>3, <1>4, <1>5, <1>6

(* A terminal outcome stays in the log. *)
LEMMA TerminalStays ==
  ASSUME SendTypeOK, SnapshotInv, LogChange, NEW s \in Sends,
         log[s] # <<>>, Latest(s).phase \in TerminalSend
  PROVE  log'[s] # <<>> /\ Latest(s)'.phase \in TerminalSend
<1>1. Latest(s) = log[s][Len(log[s])] /\ Len(log[s]) \in Nat \ {0}
      BY DEF Latest, SendTypeOK
<1>2. CASE log'[s] = log[s]
      BY <1>2 DEF Latest
<1>3. ASSUME NEW o \in SendObject,
             Len(log'[s]) = Len(log[s]) + 1,
             log'[s][Len(log[s]) + 1] = o,
             Created(s, o) \/ ByUser(s, o) \/ ByWorker(s, o)
      PROVE  log'[s] # <<>> /\ Latest(s)'.phase \in TerminalSend
  <2>1. ~Created(s, o)
        BY DEF Created
  <2>2. ~ByWorker(s, o)
        BY <1>1, WorkerReplacesOpen
  <2>3. o.phase \in TerminalSend
        BY <1>3, <2>1, <2>2 DEF ByUser
  <2>4. Len(log'[s]) # 0
        BY <1>1, <1>3
  <2>5. log'[s] # <<>>
        BY <2>4
  <2>6. Latest(s)' = o
        BY <1>3 DEF Latest
  <2> QED BY <2>3, <2>5, <2>6
<1> QED BY <1>2, <1>3, LogCases

Posted(s) ==
  /\ job.send = s
  /\ \/ job.pc = "reply"
     \/ job.pc = "write" /\ job.phase \in TerminalSend

LEMMA PostedStep ==
  ASSUME IInv, [Next]_vars
  PROVE  PostedInv'
<1>0. /\ SendTypeOK /\ SnapshotInv /\ SendChange /\ LogChange /\ PostedInv /\ JobMoves
      /\ OnePlaceInv
      BY NextIsSendChange, LogStep, JobStep DEF IInv, TypeOK
<1> SUFFICES ASSUME NEW s \in Sends, s \notin disturbed', Items(s)' # {}
             PROVE  Posted(s)' \/ (log'[s] # <<>> /\ Latest(s)'.phase \in TerminalSend)
    BY DEF PostedInv, Posted
<1>1. s \notin disturbed
      BY <1>0, DisturbedGrows
<1>2. Items(s) # {} => Posted(s) \/ (log[s] # <<>> /\ Latest(s).phase \in TerminalSend)
      BY <1>0, <1>1 DEF PostedInv, Posted
<1>3. CASE PostAsyncChat
  <2>1. PICK q \in QueueIds :
           /\ job.pc = "post" /\ job.send \in Sends /\ UNCHANGED <<log, disturbed>>
           /\ job'.pc = "reply" /\ job'.send = job.send
           /\ istate[q] = "none" /\ isend[q] = NoSend
           /\ isend' = [isend EXCEPT ![q] = job.send]
        BY <1>3, PostFacts
  <2>2. CASE job.send = s
        BY <2>1, <2>2 DEF Posted
  <2>3. CASE job.send # s
    <3>1. isend \in [QueueIds -> Sends \cup {NoSend}]
          BY DEF IInv, TypeOK, ItemTypeOK
    <3>2. Items(s) # {}
          BY <2>1, <2>3, <3>1 DEF Items
    <3>3. log[s] # <<>> /\ Latest(s).phase \in TerminalSend
          BY <1>2, <2>3, <3>2 DEF Posted
    <3> QED BY <1>0, <3>3, TerminalStays
  <2> QED BY <2>2, <2>3
<1>4. CASE isend' = isend
  <2>1. Items(s) # {}
        BY <1>4 DEF Items
  <2>2. CASE log[s] # <<>> /\ Latest(s).phase \in TerminalSend
        BY <1>0, <2>2, TerminalStays
  <2>3. CASE Posted(s)
    <3>1. \/ job' = job
          \/ job.pc = "reply" /\ (AsyncChatReply \/ AsyncChatFails)
          \/ job.pc = "write" /\ WriteStatus
          \/ RestartSends
          BY <1>0, <2>3 DEF Posted, SendChange, sendVars, CreateSend, EditSend, DeleteSend, DeliverSend,
             ResyncSend, FireTimer, SkipSend, StartSend, Evaluate, AgentMissing, AgentNotRunning,
             EvaluationFails, DenySend, PauseSend, SecretMissing, PassPolicies, PostAsyncChat,
             CallAsyncChat, AsyncChatReply, ReplyReceived, AsyncChatFails, NoReply, WriteStatus,
             StatusUpdate, StatusConflict, StatusUpdateFails
    <3>2. CASE job' = job
          BY <2>3, <3>2 DEF Posted
    <3>3. CASE job.pc = "reply" /\ (AsyncChatReply \/ AsyncChatFails)
      <4>1. Decide("Done", job.q) \/ Decide("Error", NoQueue)
            BY <3>3 DEF AsyncChatReply, AsyncChatFails, ReplyReceived, NoReply
      <4>2. /\ job \in Job /\ job.q \in QueueIds \cup {NoQueue}
            /\ "Done" \in Phases /\ "Error" \in Phases
            BY <1>0 DEF SendTypeOK, Job, Phases
      <4>3. job'.pc = "write" /\ job'.send = job.send /\ job'.phase \in {"Done", "Error"}
            BY <4>1, <4>2, DecideFacts
      <4> QED BY <2>3, <4>3 DEF Posted, TerminalSend
    <3>4. CASE job.pc = "write" /\ WriteStatus
      <4>1. job.send = s /\ job.phase \in TerminalSend
            BY <2>3, <3>4 DEF Posted
      <4>2. Current
            BY <1>0, <1>1, <3>4, <4>1 DEF OnePlaceInv, Current
      <4>3. StatusUpdate
            BY <3>4, <4>1, <4>2 DEF WriteStatus, StatusConflict, StatusUpdateFails
      <4>4. log[s] \in Seq(SendObject) /\ log'[s] = Append(log[s], Updated)
            BY <1>0, <4>1, <4>3 DEF StatusUpdate, SendTypeOK
      <4>5. Updated \in SendObject /\ Updated.phase = job.phase
            BY <1>0, <3>4, UpdatedTyped
      <4>6. Len(log'[s]) = Len(log[s]) + 1 /\ log'[s][Len(log[s]) + 1] = Updated
            BY <4>4, <4>5, AppendFacts
      <4>7. log'[s] # <<>>
        <5>1. Len(log'[s]) # 0
              BY <4>4, <4>6
        <5> QED BY <5>1
      <4>8. Latest(s)' = Updated
            BY <4>6 DEF Latest
      <4> QED BY <4>1, <4>5, <4>7, <4>8
    <3>5. CASE RestartSends
          BY <3>5 DEF RestartSends
    <3> QED BY <3>1, <3>2, <3>3, <3>4, <3>5
  <2> QED BY <1>2, <2>1, <2>2, <2>3
<1> QED BY <1>3, <1>4, OnlyPostsAddItems

LEMMA UndisturbedStep ==
  ASSUME IInv, [Next]_vars
  PROVE  UndisturbedDispatchedOnce'
<1>0. /\ SnapshotInv /\ SendChange /\ PostedInv /\ OnePlaceInv /\ UndisturbedDispatchedOnce
      /\ isend \in [QueueIds -> Sends \cup {NoSend}]
      BY NextIsSendChange DEF IInv, TypeOK, ItemTypeOK
<1> SUFFICES ASSUME NEW s \in Sends, s \notin disturbed',
                    NEW q \in QueueIds, NEW r \in QueueIds, isend'[q] = s, isend'[r] = s
             PROVE  q = r
    BY DEF UndisturbedDispatchedOnce, Items
<1>1. s \notin disturbed
      BY <1>0, DisturbedGrows
<1>2. isend[q] = s /\ isend[r] = s => q = r
      BY <1>0, <1>1 DEF UndisturbedDispatchedOnce, Items
<1>3. CASE PostAsyncChat
  <2>1. PICK u \in QueueIds :
           /\ job.pc = "post" /\ job.send \in Sends /\ UNCHANGED <<log, disturbed>>
           /\ job'.pc = "reply" /\ job'.send = job.send
           /\ istate[u] = "none" /\ isend[u] = NoSend
           /\ isend' = [isend EXCEPT ![u] = job.send]
        BY <1>3, PostFacts
  <2>2. CASE job.send = s
    <3>1. Latest(s).phase \notin TerminalSend
      <4>1. job.ver = Len(log[s])
            BY <1>0, <1>1, <2>1, <2>2 DEF OnePlaceInv
      <4>2. Snapshot.phase \in {"", "PendingApproval"}
            BY <1>0, <2>1 DEF SnapshotInv
      <4>3. Snapshot = Latest(s)
            BY <2>2, <4>1 DEF Snapshot, Latest
      <4> QED BY <4>2, <4>3 DEF TerminalSend
    <3>2. Items(s) = {}
          BY <1>0, <1>1, <2>1, <3>1 DEF PostedInv
    <3>3. isend[q] # s /\ isend[r] # s
          BY <3>2 DEF Items
    <3> QED BY <1>0, <2>1, <3>3
  <2>3. CASE job.send # s
        BY <1>0, <1>2, <2>1, <2>3
  <2> QED BY <2>2, <2>3
<1>4. CASE isend' = isend
      BY <1>2, <1>4
<1> QED BY <1>3, <1>4, OnlyPostsAddItems

-----------------------------------------------------------------------------
(* Cancels.  A queue id stored for a send stays in its log. *)
Recorded(c, q) == \E i \in 1..Len(log[SendOf[c]]) : log[SendOf[c]][i].queueID = q

LEMMA RecordedStays ==
  ASSUME SendTypeOK, LogChange, NEW c \in Cancels, NEW q, Recorded(c, q)
  PROVE  Recorded(c, q)'
<1>1. SendOf[c] \in Sends
      BY CancelAssumption DEF CancelAssumption
<1>2. PICK i \in 1..Len(log[SendOf[c]]) : log[SendOf[c]][i].queueID = q
      BY DEF Recorded
<1>3. /\ Len(log[SendOf[c]]) \in Nat /\ Len(log'[SendOf[c]]) \in Nat
      /\ Len(log[SendOf[c]]) <= Len(log'[SendOf[c]])
      /\ log'[SendOf[c]][i] = log[SendOf[c]][i]
      BY <1>1, LogGrows
<1>4. i \in 1..Len(log'[SendOf[c]])
      BY <1>3
<1> QED BY <1>2, <1>3, <1>4 DEF Recorded

LEMMA CancelErrorFacts ==
  ASSUME NEW c \in Cancels, cjob' = [NoCancelJob EXCEPT !.pc = "write", !.cancel = c, !.phase = "Error"]
  PROVE  cjob'.pc = "write" /\ cjob'.cancel = c /\ cjob'.phase = "Error"
BY DEF NoCancelJob

LEMMA CancelStartFacts ==
  ASSUME NEW c \in Cancels, NEW q, cjob' = [NoCancelJob EXCEPT !.pc = "call", !.cancel = c, !.q = q]
  PROVE  cjob'.pc = "call" /\ cjob'.cancel = c /\ cjob'.q = q
BY DEF NoCancelJob

LEMMA CancelCallFacts ==
  ASSUME cjob \in CancelJob, NEW ph, cjob' = [cjob EXCEPT !.pc = "write", !.phase = ph]
  PROVE  cjob'.pc = "write" /\ cjob'.cancel = cjob.cancel /\ cjob'.phase = ph
BY DEF CancelJob

(* A cancel that was created is not uncreated. *)
LEMMA CancelsStay ==
  ASSUME CancelTypeOK, CancelInv, CancelChange, NEW c \in Cancels, cphase[c] # "absent"
  PROVE  cphase'[c] # "absent"
BY DEF CancelTypeOK, CancelInv, CancelSettled, CancelChange, cancelVars, CreateCancel,
   DeliverCancel, FireCancelTimer, ReconcileCancel, TakeCancel, SkipCancel, SendNotFound,
   NoQueueIDYet, CancelAgentMissing, StartCancel, CancelAnswered, CancelUnanswered,
   CancelUpdate, CancelConflict, CancelUpdateFails, RestartCancels

LEMMA CancelStep ==
  ASSUME IInv, [Next]_vars
  PROVE  CancelInv'
<1>0. /\ SendTypeOK /\ CancelTypeOK /\ CacheInv /\ CancelInv /\ CancelChange /\ LogChange
      BY NextIsCancelChange, NextIsSendChange, LogStep DEF IInv, TypeOK
<1>1. /\ cphase \in [Cancels -> CancelPhases] /\ cseen \in [Cancels -> CancelPhases]
      /\ cjob \in CancelJob
      BY <1>0 DEF CancelTypeOK
<1>2. ASSUME NEW c \in Cancels, cphase[c] # "absent" PROVE cphase'[c] # "absent"
      BY <1>0, <1>2, CancelsStay
<1>3. ASSUME NEW c \in Cancels,
             c \in cancelQueue' \cup cancelTimers' \/ cseen'[c] # "absent"
      PROVE  cphase[c] # "absent" \/ cphase'[c] # "absent"
      BY <1>0, <1>1, <1>3 DEF CancelInv, CancelChange, cancelVars, CreateCancel,
         DeliverCancel, FireCancelTimer, ReconcileCancel, TakeCancel, SkipCancel, SendNotFound,
         NoQueueIDYet, CancelAgentMissing, StartCancel, CancelAnswered, CancelUnanswered,
         CancelUpdate, CancelConflict, CancelUpdateFails, RestartCancels
<1>4. /\ cjob'.pc # "idle" => cjob'.cancel \in Cancels /\ cphase[cjob'.cancel] # "absent"
      /\ cjob'.pc = "write" => cjob'.phase \in CancelSettled
      /\ cjob'.pc = "call" => cjob'.q \in QueueIds /\ Recorded(cjob'.cancel, cjob'.q)
  <2>1. CASE cjob' = cjob
        BY <1>0, <2>1 DEF CancelInv, Recorded
  <2>2. ASSUME NEW c \in Cancels, StartCancel(c)
        PROVE  /\ cjob'.pc = "call" /\ cjob'.cancel = c /\ cphase[c] # "absent"
               /\ cjob'.q \in QueueIds /\ Recorded(c, cjob'.q)
    <3>1. SendOf[c] \in Sends /\ seen[SendOf[c]] # 0
          BY <2>2, CancelAssumption DEF CancelAssumption, StartCancel, InCache
    <3>2. /\ Cached(SendOf[c]) \in SendObject
          /\ seen[SendOf[c]] \in 1..Len(log[SendOf[c]])
          BY <1>0, <3>1, CachedTyped
    <3>3. Cached(SendOf[c]).queueID \in QueueIds
          BY <2>2, <3>2 DEF StartCancel, SendObject
    <3>4. Recorded(c, Cached(SendOf[c]).queueID)
          BY <3>2 DEF Recorded, Cached
    <3>5. cphase[c] # "absent"
          BY <1>0, <2>2 DEF StartCancel, TakeCancel, CancelInv
    <3>6. cjob'.pc = "call" /\ cjob'.cancel = c /\ cjob'.q = Cached(SendOf[c]).queueID
          BY <2>2, CancelStartFacts DEF StartCancel
    <3> QED BY <3>3, <3>4, <3>5, <3>6
  <2>3. ASSUME NEW c \in Cancels, SendNotFound(c) \/ CancelAgentMissing(c)
        PROVE  cjob'.pc = "write" /\ cjob'.cancel = c /\ cphase[c] # "absent" /\ cjob'.phase = "Error"
    <3>1. cjob' = [NoCancelJob EXCEPT !.pc = "write", !.cancel = c, !.phase = "Error"]
          BY <2>3 DEF SendNotFound, CancelAgentMissing
    <3>2. cphase[c] # "absent"
          BY <1>0, <2>3 DEF SendNotFound, CancelAgentMissing, TakeCancel, CancelInv
    <3> QED BY <3>1, <3>2, CancelErrorFacts
  <2>4. CASE CancelAnswered \/ CancelUnanswered
    <3>1. /\ cjob.pc = "call"
          /\ \/ cjob' = [cjob EXCEPT !.pc = "write", !.phase = "Cancelled"]
             \/ cjob' = [cjob EXCEPT !.pc = "write", !.phase = "Error"]
          BY <2>4 DEF CancelAnswered, CancelUnanswered
    <3>2. cjob'.pc = "write" /\ cjob'.cancel = cjob.cancel /\ cjob'.phase \in {"Cancelled", "Error"}
          BY <1>1, <3>1, CancelCallFacts
    <3> QED BY <1>0, <3>1, <3>2 DEF CancelInv, CancelSettled
  <2>5. CASE CancelUpdate \/ CancelConflict \/ CancelUpdateFails \/ RestartCancels
        BY <2>5, CancelJobTyped DEF CancelUpdate, CancelConflict, CancelUpdateFails, RestartCancels
  <2>6. \/ cjob' = cjob
        \/ \E c \in Cancels : StartCancel(c) \/ SendNotFound(c) \/ CancelAgentMissing(c)
        \/ CancelAnswered \/ CancelUnanswered
        \/ CancelUpdate \/ CancelConflict \/ CancelUpdateFails \/ RestartCancels
        BY <1>0 DEF CancelChange, cancelVars, CreateCancel, DeliverCancel, FireCancelTimer,
           ReconcileCancel, SkipCancel, NoQueueIDYet
  <2> QED BY <2>1, <2>2, <2>3, <2>4, <2>5, <2>6 DEF CancelSettled
<1>5. cjob'.pc # "idle" => cjob'.cancel \in Cancels /\ cphase'[cjob'.cancel] # "absent"
      BY <1>2, <1>4
<1>6. ASSUME cjob'.pc = "call"
      PROVE  \E i \in 1..Len(log'[SendOf[cjob'.cancel]]) :
               log'[SendOf[cjob'.cancel]][i].queueID = cjob'.q
  <2>1. cjob'.cancel \in Cancels /\ Recorded(cjob'.cancel, cjob'.q)
        BY <1>4, <1>6
  <2>2. \A d \in Cancels : \A r : Recorded(d, r) =>
          \E i \in 1..Len(log'[SendOf[d]]) : log'[SendOf[d]][i].queueID = r
        BY <1>0, RecordedStays DEF Recorded
  <2> QED BY <2>1, <2>2
<1> QED BY <1>2, <1>3, <1>4, <1>5, <1>6 DEF CancelInv

(* Which items are disconnected or end with the notice: those before the   *)
(* step, and the one a call to the agent names.                            *)
LEMMA DisconnectedStep ==
  ASSUME IInv, [Next]_vars, NEW q \in QueueIds, q \in detached' \/ kind'[q] = "cancelled"
  PROVE  \/ q \in detached \/ kind[q] = "cancelled"
         \/ cjob.pc = "call" /\ q = cjob.q
<1>0. kind \in [QueueIds -> {"none", "answer", "cancelled"}]
      BY DEF IInv, TypeOK, ItemTypeOK
<1>1. CASE CallCancel \/ CallCancelFails
      BY <1>0, <1>1 DEF CallCancel, CallCancelFails, CancelAnswered, CancelUnanswered, CancelQueueItem,
         CancelNotFound, CancelDisconnects, DisconnectSession, CancelDisconnectFails, itemVars
<1>2. CASE AgentStep
      BY <1>0, <1>2 DEF AgentStep, ServerStep, LosePost, AsyncChat, SpawnTask, AcquirePermit,
         AgentRestart, RunItem, OpenSession, SessionIdle, SessionDeleted, Unregister, RunFails, PostResponse,
         LoseResponse
<1>3. CASE PostAsyncChat
      BY <1>3 DEF PostAsyncChat, Arrive
<1>4. CASE UNCHANGED itemVars
      BY <1>4 DEF itemVars
<1>5. PostAsyncChat \/ CallCancel \/ CallCancelFails \/ AgentStep \/ UNCHANGED itemVars
      BY DEF Next, vars, UserStep, EditPolicy, PolicyControl, SendKeyStep, DeliverEvent, ResyncKey,
         RequeueKey, BeginSend, ReconcileStep, EvaluateSend, AsyncChatReply, AsyncChatFails, WriteSend,
         CancelKeyStep, RequestCancel, WatchCancel, BeginCancel, WriteCancel, OperatorRestart
<1> QED BY <1>1, <1>2, <1>3, <1>4, <1>5

LEMMA CancelHitsStep ==
  ASSUME IInv, [Next]_vars
  PROVE  CancelHitsItsSend'
<1>0. /\ SendTypeOK /\ CancelTypeOK /\ CancelInv /\ CancelChange /\ LogChange /\ DoneHasItsOwnItem
      /\ ItemTypeOK /\ ItemInv /\ QueueHoldsTheQueued /\ PodChange /\ CancelHitsItsSend
      BY NextIsCancelChange, NextIsSendChange, NextIsPodChange, LogStep DEF IInv, TypeOK
<1> SUFFICES ASSUME NEW q \in QueueIds, q \in detached' \/ kind'[q] = "cancelled"
             PROVE  \E c \in Cancels :
                      /\ cphase'[c] # "absent"
                      /\ SendOf[c] = isend'[q]
                      /\ \E i \in 1..Len(log'[SendOf[c]]) : log'[SendOf[c]][i].queueID = q
    BY DEF CancelHitsItsSend
<1>1. \E c \in Cancels : cphase[c] # "absent" /\ SendOf[c] = isend[q] /\ Recorded(c, q)
  <2>1. CASE q \in detached \/ kind[q] = "cancelled"
        BY <1>0, <2>1 DEF CancelHitsItsSend, Recorded
  <2>2. CASE cjob.pc = "call" /\ q = cjob.q
    <3>1. cjob.cancel \in Cancels /\ cphase[cjob.cancel] # "absent" /\ Recorded(cjob.cancel, q)
          BY <1>0, <2>2 DEF CancelInv, Recorded
    <3>2. SendOf[cjob.cancel] \in Sends
          BY <3>1, CancelAssumption DEF CancelAssumption
    <3>3. q # NoQueue
          BY ClusterAssumption DEF ClusterAssumption, NoQueue
    <3>4. isend[q] = SendOf[cjob.cancel]
          BY <1>0, <3>1, <3>2, <3>3 DEF DoneHasItsOwnItem, Recorded
    <3> QED BY <3>1, <3>4
  <2> QED BY <2>1, <2>2, DisconnectedStep
<1>2. PICK c \in Cancels : cphase[c] # "absent" /\ SendOf[c] = isend[q] /\ Recorded(c, q)
      BY <1>1
<1>3. cphase'[c] # "absent"
      BY <1>0, <1>2, CancelsStay
<1>4. istate[q] # "none"
      BY <1>0, <1>2, CancelAssumption, ClusterAssumption
         DEF ItemInv, CancelAssumption, ClusterAssumption
<1>5. isend'[q] = isend[q]
      BY <1>0, <1>4, ItemsPersist
<1>6. \E i \in 1..Len(log'[SendOf[c]]) : log'[SendOf[c]][i].queueID = q
      BY <1>0, <1>2, RecordedStays DEF Recorded
<1> QED BY <1>2, <1>3, <1>5, <1>6

-----------------------------------------------------------------------------
(* The initial states satisfy the invariant. *)
LEMMA InitInv == Init => IInv
<1> SUFFICES ASSUME Init PROVE IInv
    OBVIOUS
<1>1. TypeOK
      BY InitTyped
<1>2. /\ log = [s \in Sends |-> <<>>] /\ seen = [s \in Sends |-> 0]
      /\ sendQueue = {} /\ sendTimers = {} /\ job = NoJob
      BY DEF Init, SendInit
<1>3. \A s \in Sends : log[s] = <<>> /\ Len(log[s]) = 0 /\ seen[s] = 0
      BY <1>2
<1>4. job.pc = "idle"
      BY <1>2, NoJobTyped
<1>5. ItemInv /\ QueueHoldsTheQueued
      BY ServerInitInv DEF Init
<1>6. CacheInv
      BY <1>2, <1>3 DEF CacheInv
<1>7. SnapshotInv /\ JobInv
      BY <1>4 DEF SnapshotInv, JobInv
<1>8. StoredPhasesInv /\ OutcomeIsFinal /\ DoneHasItsOwnItem
  <2>1. \A s \in Sends : 1..Len(log[s]) = {}
        BY <1>3
  <2> QED BY <2>1, Zenon DEF StoredPhasesInv, OutcomeIsFinal, DoneHasItsOwnItem
<1>9. OnePlaceInv
      BY <1>2, <1>3, <1>4 DEF OnePlaceInv, InWork
<1>10. \A q \in QueueIds : isend[q] = NoSend /\ kind[q] = "none" /\ q \notin detached
      BY DEF Init, ItemInit
<1>11. \A s \in Sends : Items(s) = {}
      BY <1>10, ClusterAssumption DEF ClusterAssumption, Items
<1>12. PostedInv /\ UndisturbedDispatchedOnce
      BY <1>11 DEF PostedInv, UndisturbedDispatchedOnce
<1>13. CancelInv
      BY CancelJobTyped DEF Init, CancelInit, CancelInv
<1>14. CancelHitsItsSend
      BY <1>10 DEF CancelHitsItsSend
<1> QED BY <1>1, <1>5, <1>6, <1>7, <1>8, <1>9, <1>12, <1>13, <1>14 DEF IInv

(* The invariant is inductive. *)
LEMMA StepInv == IInv /\ [Next]_vars => IInv'
<1> SUFFICES ASSUME IInv, [Next]_vars PROVE IInv'
    OBVIOUS
<1>1. TypeOK' /\ CacheInv' /\ SnapshotInv' /\ JobInv' /\ StoredPhasesInv'
      BY TypeStep, CacheStep, SnapshotStep, JobInvStep, StoredPhasesStep
<1>2. ItemInv' /\ QueueHoldsTheQueued'
      BY NextIsPodChange, ItemInvStep, QueueStep DEF IInv, TypeOK
<1>3. OutcomeIsFinal' /\ DoneHasItsOwnItem' /\ OnePlaceInv' /\ PostedInv' /\ UndisturbedDispatchedOnce'
      BY OutcomeStep, DoneStep, OnePlaceStep, PostedStep, UndisturbedStep
<1>4. CancelInv' /\ CancelHitsItsSend'
      BY CancelStep, CancelHitsStep
<1> QED BY <1>1, <1>2, <1>3, <1>4 DEF IInv

(* The invariant of the request path: the caches, the worker's job, the    *)
(* stored versions, the items and the cancels agree in every reachable     *)
(* state of every instance.                                                *)
THEOREM PathInvariant == Spec => []IInv
BY InitInv, StepInv, PTL DEF Spec

(* Every variable keeps its type. *)
THEOREM PathTyped == Spec => []TypeOK
<1>1. IInv => TypeOK
      BY DEF IInv
<1> QED BY <1>1, PathInvariant, PTL

(* The outcome of a send is never rewritten, whichever reconciles were     *)
(* still under way when it was stored.                                     *)
THEOREM OutcomesAreFinal == Spec => []OutcomeIsFinal
<1>1. IInv => OutcomeIsFinal
      BY DEF IInv
<1> QED BY <1>1, PathInvariant, PTL

(* A send is Done exactly when it carries the queue id of an item that the *)
(* agent accepted for this send.                                           *)
THEOREM DoneSendsOwnTheirItems == Spec => []DoneHasItsOwnItem
<1>1. IInv => DoneHasItsOwnItem
      BY DEF IInv
<1> QED BY <1>1, PathInvariant, PTL

(* A send that met no edit, resync, failed write or restart has at most    *)
(* one item, however its reconciles and cache events interleave.           *)
THEOREM UndisturbedSendsRunOnce == Spec => []UndisturbedDispatchedOnce
<1>1. IInv => UndisturbedDispatchedOnce
      BY DEF IInv
<1> QED BY <1>1, PathInvariant, PTL

(* A cancel stops only an item recorded for the send it names. *)
THEOREM CancelsHitTheirSends == Spec => []CancelHitsItsSend
<1>1. IInv => CancelHitsItsSend
      BY DEF IInv
<1> QED BY <1>1, PathInvariant, PTL
=============================================================================
