---------------------------- MODULE RequestPath ----------------------------
(***************************************************************************)
(* A request from end to end: users and the web UI create sends, policies  *)
(* and cancels; the operator's controllers act on their cached copies; the *)
(* agent pod queues and runs the items and reports back to the operator's  *)
(* webhook.  The parts meet in the HTTP calls: CallAsyncChat with Arrive,  *)
(* the reply with the item's acceptance, DELETE /cancel with               *)
(* CancelQueueItem.                                                        *)
(***************************************************************************)
EXTENDS CancelController, AgentServer

vars == <<faults, edits, agentPhase, policyVars, sendVars, cancelVars, itemVars>>

Init ==
  /\ faults = 0
  /\ PolicyInit
  /\ SendInit
  /\ CancelInit
  /\ ItemInit

-----------------------------------------------------------------------------
(* What users do. *)
UserStep ==
  /\ \/ \E s \in Sends : CreateSend(s) \/ EditSend(s) \/ DeleteSend(s)
     \/ \E a \in Agents : ChangeAgent(a)
  /\ UNCHANGED <<faults, policyVars, cancelVars, itemVars>>

EditPolicy(p) ==
  /\ (\E spec \in PolicySpecs : ApplyPolicy(p, spec)) \/ DeletePolicy(p)
  /\ UNCHANGED <<faults, agentPhase, sendVars, cancelVars, itemVars>>

PolicyControl(p) ==
  /\ DeliverPolicy(p) \/ ReconcilePolicy(p)
  /\ UNCHANGED <<faults, agentPhase, sendVars, cancelVars, itemVars>>

(* A step of the operator that concerns the sends' keys only. *)
SendKeyStep(A) == A /\ UNCHANGED <<faults, policyVars, cancelVars, itemVars>>

(* The informer, the timers and the start of a reconcile. *)
DeliverEvent(s) == SendKeyStep(DeliverSend(s))
ResyncKey(s) == SendKeyStep(ResyncSend(s))
RequeueKey(s) == SendKeyStep(FireTimer(s))
BeginSend(s) == SendKeyStep(SkipSend(s) \/ StartSend(s))

(* The reconcile itself. *)
EvaluateSend ==
  /\ Evaluate
  /\ UNCHANGED <<policyVars, cancelVars, itemVars>>

PostAsyncChat ==
  /\ \E q \in QueueIds : CallAsyncChat(q) /\ Arrive(q, job.send)
  /\ UNCHANGED <<policyVars, cancelVars>>

AsyncChatReply ==
  /\ ReplyReceived
  /\ Accepted(job.q)
  /\ istate[job.q] # "lost"
  /\ UNCHANGED <<faults, policyVars, cancelVars, itemVars>>

(* The request was lost on the way, or the reply is late, an error status  *)
(* or unreadable; the item may be queued now or later all the same.        *)
AsyncChatFails ==
  /\ NoReply
  /\ \/ istate[job.q] = "lost" /\ UNCHANGED faults
     \/ istate[job.q] # "lost" /\ Fault
  /\ UNCHANGED <<policyVars, cancelVars, itemVars>>

WriteSend ==
  /\ WriteStatus
  /\ UNCHANGED <<policyVars, cancelVars, itemVars>>

-----------------------------------------------------------------------------
CancelKeyStep(A) ==
  A /\ UNCHANGED <<faults, edits, agentPhase, policyVars, sendVars, itemVars>>

RequestCancel(c) == CancelKeyStep(CreateCancel(c))
WatchCancel(c) == CancelKeyStep(DeliverCancel(c) \/ FireCancelTimer(c))
BeginCancel(c) == CancelKeyStep(ReconcileCancel(c))

CallCancel ==
  /\ CancelAnswered
  /\ CancelQueueItem(cjob.q)
  /\ UNCHANGED <<edits, agentPhase, policyVars, sendVars>>

(* The call fails; the pod may or may not have acted on it. *)
CallCancelFails ==
  /\ CancelUnanswered
  /\ Fault
  /\ \/ UNCHANGED itemVars
     \/ DisconnectSession(cjob.q)
  /\ UNCHANGED <<edits, agentPhase, policyVars, sendVars>>

WriteCancel ==
  /\ \/ (CancelUpdate \/ CancelConflict) /\ UNCHANGED faults
     \/ CancelUpdateFails /\ Fault
  /\ UNCHANGED <<edits, agentPhase, policyVars, sendVars, itemVars>>

-----------------------------------------------------------------------------
OperatorRestart ==
  /\ Fault
  /\ RestartSends
  /\ RestartCancels
  /\ policyCache' = policies
  /\ policyQueue' = {p \in Policies : policies[p].exists}
  /\ UNCHANGED <<edits, policies, itemVars>>

AgentStep ==
  /\ ServerStep
  /\ UNCHANGED <<edits, agentPhase, policyVars, sendVars, cancelVars>>

ReconcileStep ==
  \/ EvaluateSend \/ PostAsyncChat \/ AsyncChatReply \/ AsyncChatFails \/ WriteSend

Next ==
  \/ UserStep
  \/ \E p \in Policies : EditPolicy(p) \/ PolicyControl(p)
  \/ \E s \in Sends : DeliverEvent(s) \/ ResyncKey(s) \/ RequeueKey(s) \/ BeginSend(s)
  \/ ReconcileStep
  \/ \E c \in Cancels : RequestCancel(c) \/ WatchCancel(c) \/ BeginCancel(c)
  \/ CallCancel \/ CallCancelFails \/ WriteCancel
  \/ OperatorRestart \/ AgentStep

Spec == Init /\ [][Next]_vars

(* A step of the pod, the operator's state apart. *)
PodStep(A) == A /\ UNCHANGED <<edits, agentPhase, policyVars, sendVars, cancelVars>>

(* Fairness: watches deliver, timers fire, workers go on.  Each work queue *)
(* is first in first out and never drops a key, so a key that is waiting   *)
(* gets the worker in the end although other keys keep taking it (SF).     *)
(* asyncio runs every task that can go on, and a session ends some day.    *)
Fairness ==
  /\ \A s \in Sends : /\ WF_vars(DeliverEvent(s)) /\ WF_vars(RequeueKey(s))
                      /\ SF_vars(BeginSend(s))
  /\ \A p \in Policies : WF_vars(PolicyControl(p))
  /\ WF_vars(ReconcileStep)
  /\ \A c \in Cancels : WF_vars(WatchCancel(c)) /\ SF_vars(BeginCancel(c))
  /\ WF_vars(CallCancel \/ CallCancelFails) /\ WF_vars(WriteCancel)
  /\ \A q \in QueueIds : WF_vars(PodStep(AsyncChat(q))) /\ WF_vars(PodStep(RunItem(q)))
  /\ \A a \in Agents : WF_vars(PodStep(SpawnTask(a))) /\ WF_vars(PodStep(AcquirePermit(a)))

FairSpec == Spec /\ Fairness

-----------------------------------------------------------------------------
(* Properties. *)

(* The type of every variable. *)
TypeOK ==
  /\ faults \in 0..MaxFaults
  /\ PolicyTypeOK
  /\ SendTypeOK
  /\ CancelTypeOK
  /\ ItemTypeOK

(* Once a version of a send has a terminal phase, every later version has  *)
(* the same phase and queue id, whatever reconciles were under way from    *)
(* older versions: the conflict check on Status().Update and the early     *)
(* return at the top of Reconcile protect the outcome together.            *)
OutcomeIsFinal ==
  \A s \in Sends : \A i, j \in 1..Len(log[s]) :
    i < j /\ log[s][i].phase \in TerminalSend
      => /\ log[s][j].phase = log[s][i].phase
         /\ log[s][j].queueID = log[s][i].queueID

(* A send is recorded as Done exactly when it carries a queue id, and that *)
(* id is one the agent gave to an item of this very send: no reply is ever *)
(* recorded against another send or from another attempt.                  *)
DoneHasItsOwnItem ==
  \A s \in Sends : \A i \in 1..Len(log[s]) :
    LET q == log[s][i].queueID
    IN /\ (log[s][i].phase = "Done") <=> (q # NoQueue)
       /\ q # NoQueue => isend[q] = s /\ Accepted(q)

Items(s) == {q \in QueueIds : isend[q] = s}

(* A send that no user touched after creating it, that was not resynced    *)
(* and met no failed write or operator restart is dispatched at most once: *)
(* retry timers, the events of the controller's own writes and a lagging   *)
(* cache never start a second POST on their own.                           *)
UndisturbedDispatchedOnce ==
  \A s \in Sends \ disturbed : \A q, r \in Items(s) : q = r

(* A running session is disconnected, and a run ends with the cancellation *)
(* notice, only if a cancel names the item's send and the send's status    *)
(* carries that very queue id: a cancel never stops another send's item.   *)
CancelHitsItsSend ==
  \A q \in QueueIds : q \in detached \/ kind[q] = "cancelled" =>
    \E c \in Cancels : /\ cphase[c] # "absent"
                       /\ SendOf[c] = isend[q]
                       /\ \E i \in 1..Len(log[SendOf[c]]) : log[SendOf[c]][i].queueID = q

DeniedNow(s) == EvaluatePolicies(CachedPolicies, AgentOf[s], MessageOf[s]) = "deny"

(* A send that the cached policies deny all along never reaches the agent, *)
(* whatever is approved, retried, resynced or restarted.                   *)
StandingDeny ==
  \A s \in Sends : [](log[s] # <<>> => DeniedNow(s)) => [](Items(s) = {})

NeedsApproval(s) ==
  /\ EvaluatePolicies(CachedPolicies, AgentOf[s], MessageOf[s]) = "require-approval"
  /\ \A i \in 1..Len(log[s]) : ~log[s][i].approved

(* A send that needs approval all along and is never approved never        *)
(* reaches the agent.                                                      *)
StandingPause ==
  \A s \in Sends : [](log[s] # <<>> => NeedsApproval(s)) => [](Items(s) = {})

-----------------------------------------------------------------------------
(* The last stored version of each send, as a watcher of the status sees it. *)
StatusOf(s) ==
  IF log[s] = <<>> THEN [exists |-> FALSE, phase |-> "", approved |-> FALSE, queueID |-> NoQueue]
  ELSE Latest(s)

Lifecycle == INSTANCE SendLifecycle WITH status <- [s \in Sends |-> StatusOf(s)]

(* Through lagging caches, conflicts, retries and restarts, the stored     *)
(* status of a send goes through the phases of SendLifecycle: it is paused *)
(* only while unapproved, leaves PendingApproval only while approved, is   *)
(* decided once, and never shares its queue id.                            *)
ImplementsLifecycle == Lifecycle!Spec

-----------------------------------------------------------------------------
(* Liveness. *)

(* The controller still owes the send a decision. *)
Waiting(s) ==
  /\ Stored(s)
  /\ Latest(s).phase \notin TerminalSend
  /\ Latest(s).phase = "PendingApproval" => Latest(s).approved
  /\ agentPhase[AgentOf[s]] \in {"missing", "Running"}

(* No send is left waiting: whatever the cache missed, whichever update    *)
(* conflicted or failed, and if the operator restarted, the send is        *)
(* decided or paused, unless the agent stops running.                      *)
NoSendLeftWaiting == \A s \in Sends : Waiting(s) ~> ~Waiting(s)

(* A cancel reaches Cancelled or Error once its send has a queue id or is  *)
(* gone, whichever of its calls and updates failed.                        *)
CancelSettles ==
  \A c \in Cancels :
    (/\ cphase[c] = ""
     /\ ~Stored(SendOf[c]) \/ Latest(SendOf[c]).queueID # NoQueue)
      ~> cphase[c] \in CancelSettled

-----------------------------------------------------------------------------
(* What the code's comments and documents say and the code does not do. *)

(* api/v1/kubecopilotpolicy_types.go:28, "blocks the send request          *)
(* entirely": a send whose status is Denied would not be with the agent.   *)
DeniedIsBlocked ==
  \A s \in Sends : Stored(s) /\ Latest(s).phase = "Denied" => Items(s) = {}

(* api/v1/kubecopilotcancel_types.go:51, "cancels an in-flight             *)
(* KubeCopilotSend request": once it says Cancelled, the recorded item     *)
(* would no longer be waiting for its turn to run.                         *)
CancelledIsStopped ==
  \A c \in Cancels : cphase[c] = "Cancelled" =>
    istate[Latest(SendOf[c]).queueID] \notin {"queued", "waiting", "starting"}
=============================================================================
