--------------------------- MODULE SendController ---------------------------
(***************************************************************************)
(* KubeCopilotSendReconciler (kubecopilotsend_controller.go) with what     *)
(* controller-runtime puts around it: the API server's versions of each    *)
(* send, an informer cache that lags behind them, a work queue with timers *)
(* for retries, and one worker.                                            *)
(*                                                                         *)
(* log[s] is every version of send s the API server has stored.  The cache *)
(* holds version seen[s].  A status update carries the version it was read *)
(* at and fails with a conflict unless that is still the last one.         *)
(***************************************************************************)
EXTENDS PolicyController

CONSTANTS
  MessageOf,        \* spec.message of each send
  ProviderSends,    \* sends whose session config names a provider secret
  MaxStale          \* bound: reconciles started from an out-of-date cache

ASSUME SendAssumption ==
  /\ MessageOf \in [Sends -> Messages]
  /\ ProviderSends \subseteq Sends
  /\ MaxStale \in Nat

VARIABLES
  log,              \* log[s]: versions of s stored by the API server
  seen,             \* seen[s]: the version in the cache, 0 before the first event
  sendQueue,        \* keys waiting for the worker
  sendTimers,       \* keys to be queued again later (RequeueAfter, retry after an error)
  job,              \* what the worker is doing
  agentPhase,       \* agent status.phase in the cache, or "missing"
  stale,            \* reconciles started from an out-of-date cache so far
  disturbed         \* history: sends edited, resynced or hit by an operator fault

sendVars == <<log, seen, sendQueue, sendTimers, job, stale, disturbed>>

SendObject == [exists : BOOLEAN, phase : Phases, approved : BOOLEAN,
               queueID : QueueIds \cup {NoQueue}]

JobSteps == {"idle", "evaluate", "post", "reply", "write"}

(* send: the key; ver: the version read; phase, q: the status to write. *)
Job == [pc : JobSteps, send : Sends \cup {NoSend}, ver : Nat, phase : Phases,
        q : QueueIds \cup {NoQueue}]

NoJob == [pc |-> "idle", send |-> NoSend, ver |-> 0, phase |-> "", q |-> NoQueue]

AgentPhases == {"missing", "Pending", "Running", "Error"}

SendTypeOK ==
  /\ log \in [Sends -> Seq(SendObject)]
  /\ seen \in [Sends -> Nat]
  /\ sendQueue \subseteq Sends
  /\ sendTimers \subseteq Sends
  /\ job \in Job
  /\ agentPhase \in [Agents -> AgentPhases]
  /\ stale \in 0..MaxStale
  /\ disturbed \subseteq Sends

SendInit ==
  /\ log = [s \in Sends |-> <<>>]
  /\ seen = [s \in Sends |-> 0]
  /\ sendQueue = {}
  /\ sendTimers = {}
  /\ job = NoJob
  /\ agentPhase = [a \in Agents |-> "Running"]
  /\ stale = 0
  /\ disturbed = {}

Latest(s) == log[s][Len(log[s])]
Stored(s) == log[s] # <<>> /\ Latest(s).exists
Cached(s) == log[s][seen[s]]
InCache(s) == seen[s] # 0 /\ Cached(s).exists
(* The object the worker read. *)
Snapshot == log[job.send][job.ver]

-----------------------------------------------------------------------------
(* Users: the web UI's create_send, kubectl create and kubectl patch. *)
CreateSend(s) ==
  /\ log[s] = <<>>
  /\ \E approved \in BOOLEAN :
       log' = [log EXCEPT ![s] =
         <<[exists |-> TRUE, phase |-> "", approved |-> approved, queueID |-> NoQueue]>>]
  /\ UNCHANGED <<seen, sendQueue, sendTimers, job, agentPhase, stale, disturbed, edits>>

(* A user sets spec.approved, or touches a field the controller ignores. *)
EditSend(s) ==
  /\ Stored(s)
  /\ Edit
  /\ \E approved \in BOOLEAN :
       log' = [log EXCEPT ![s] = Append(@, [Latest(s) EXCEPT !.approved = approved])]
  /\ disturbed' = disturbed \cup {s}
  /\ UNCHANGED <<seen, sendQueue, sendTimers, job, agentPhase, stale>>

(* delete_session removes the sends of a session. *)
DeleteSend(s) ==
  /\ Stored(s)
  /\ Edit
  /\ log' = [log EXCEPT ![s] = Append(@, [Latest(s) EXCEPT !.exists = FALSE])]
  /\ disturbed' = disturbed \cup {s}
  /\ UNCHANGED <<seen, sendQueue, sendTimers, job, agentPhase, stale>>

(* The cached agent changes: its controller reports another pod phase, or  *)
(* it is created or deleted.                                               *)
ChangeAgent(a) ==
  /\ Edit
  /\ \E phase \in AgentPhases \ {agentPhase[a]} :
       agentPhase' = [agentPhase EXCEPT ![a] = phase]
  /\ UNCHANGED sendVars

-----------------------------------------------------------------------------
(* controller-runtime: the watch, the periodic resync, the retry timers. *)
DeliverSend(s) ==
  /\ seen[s] < Len(log[s])
  /\ seen' = [seen EXCEPT ![s] = @ + 1]
  /\ sendQueue' = sendQueue \cup {s}
  /\ UNCHANGED <<log, sendTimers, job, agentPhase, stale, disturbed, edits>>

ResyncSend(s) ==
  /\ InCache(s)
  /\ Edit
  /\ sendQueue' = sendQueue \cup {s}
  /\ disturbed' = disturbed \cup {s}
  /\ UNCHANGED <<log, seen, sendTimers, job, agentPhase, stale>>

FireTimer(s) ==
  /\ s \in sendTimers
  /\ sendTimers' = sendTimers \ {s}
  /\ sendQueue' = sendQueue \cup {s}
  /\ UNCHANGED <<log, seen, job, agentPhase, stale, disturbed, edits>>

-----------------------------------------------------------------------------
(* Reconcile.  It leaves early when the send is gone, already terminal, or *)
(* paused and not approved.                                                *)
(* Mutant: a paused send is not left alone. *)
NothingToDoUnpaused(s) == ~InCache(s) \/ Cached(s).phase \in TerminalSend

NothingToDo(s) ==
  \/ ~InCache(s)
  \/ Cached(s).phase \in TerminalSend
  \/ Cached(s).phase = "PendingApproval" /\ ~Cached(s).approved

SkipSend(s) ==
  /\ job.pc = "idle"
  /\ s \in sendQueue
  /\ NothingToDo(s)
  /\ sendQueue' = sendQueue \ {s}
  /\ UNCHANGED <<log, seen, sendTimers, job, agentPhase, stale, disturbed, edits>>

StartSend(s) ==
  /\ job.pc = "idle"
  /\ s \in sendQueue
  /\ ~NothingToDo(s)
  /\ \/ seen[s] = Len(log[s]) /\ UNCHANGED stale
     \/ seen[s] < Len(log[s]) /\ stale < MaxStale /\ stale' = stale + 1
  /\ sendQueue' = sendQueue \ {s}
  /\ job' = [NoJob EXCEPT !.pc = "evaluate", !.send = s, !.ver = seen[s]]
  /\ UNCHANGED <<log, seen, sendTimers, agentPhase, disturbed, edits>>

(* The worker decides on a status and goes on to write it. *)
Decide(phase, q) == job' = [job EXCEPT !.pc = "write", !.phase = phase, !.q = q]

(* The worker ends with an error or a RequeueAfter: the key comes back. *)
Retry == /\ job' = NoJob
         /\ sendTimers' = sendTimers \cup {job.send}

MyAgent == AgentOf[job.send]

Verdict == EvaluatePolicies(CachedPolicies, MyAgent, MessageOf[job.send])

AgentMissing ==
  /\ job.pc = "evaluate"
  /\ agentPhase[MyAgent] = "missing"
  /\ Decide("Error", NoQueue)
  /\ UNCHANGED <<log, seen, sendQueue, sendTimers, agentPhase, stale, disturbed, edits, faults>>

AgentNotRunning ==
  /\ job.pc = "evaluate"
  /\ agentPhase[MyAgent] \notin {"missing", "Running"}
  /\ Retry
  /\ UNCHANGED <<log, seen, sendQueue, agentPhase, stale, disturbed, edits, faults>>

EvaluationFails ==
  /\ job.pc = "evaluate"
  /\ agentPhase[MyAgent] = "Running"
  /\ Fault
  /\ Decide("Error", NoQueue)
  /\ UNCHANGED <<log, seen, sendQueue, sendTimers, agentPhase, stale, disturbed, edits>>

DenySend ==
  /\ job.pc = "evaluate"
  /\ agentPhase[MyAgent] = "Running"
  /\ Verdict = "deny"
  /\ Decide("Denied", NoQueue)
  /\ UNCHANGED <<log, seen, sendQueue, sendTimers, agentPhase, stale, disturbed, edits, faults>>

PauseSend ==
  /\ job.pc = "evaluate"
  /\ agentPhase[MyAgent] = "Running"
  /\ Verdict = "require-approval"
  /\ ~Snapshot.approved
  /\ Decide("PendingApproval", NoQueue)
  /\ UNCHANGED <<log, seen, sendQueue, sendTimers, agentPhase, stale, disturbed, edits, faults>>

(* Mutant: an approval overrides every rule. *)
MayDispatchApproved == Verdict = "allow" \/ Snapshot.approved

(* Mutant: only deny rules stop a send. *)
MayDispatchUnlessDenied == Verdict # "deny"

MayDispatch ==
  \/ Verdict = "allow"
  \/ Verdict = "require-approval" /\ Snapshot.approved

(* The provider secret cannot be read. *)
SecretMissing ==
  /\ job.pc = "evaluate"
  /\ agentPhase[MyAgent] = "Running"
  /\ MayDispatch
  /\ job.send \in ProviderSends
  /\ Decide("Error", NoQueue)
  /\ UNCHANGED <<log, seen, sendQueue, sendTimers, agentPhase, stale, disturbed, edits, faults>>

PassPolicies ==
  /\ job.pc = "evaluate"
  /\ agentPhase[MyAgent] = "Running"
  /\ MayDispatch
  /\ job' = [job EXCEPT !.pc = "post"]
  /\ UNCHANGED <<log, seen, sendQueue, sendTimers, agentPhase, stale, disturbed, edits, faults>>

Evaluate ==
  \/ AgentMissing \/ AgentNotRunning \/ EvaluationFails \/ DenySend \/ PauseSend
  \/ SecretMissing \/ PassPolicies

(* The worker's half of POST /asyncchat: the call, its reply, its failure. *)
CallAsyncChat(q) ==
  /\ job.pc = "post"
  /\ job' = [job EXCEPT !.pc = "reply", !.q = q]
  /\ UNCHANGED <<log, seen, sendQueue, sendTimers, agentPhase, stale, disturbed, edits>>

(* Mutant: the phase named in the comment on the status type is written. *)
ReplyReceivedQueued ==
  /\ job.pc = "reply"
  /\ Decide("Queued", job.q)
  /\ UNCHANGED <<log, seen, sendQueue, sendTimers, agentPhase, stale, disturbed, edits>>

ReplyReceived ==
  /\ job.pc = "reply"
  /\ Decide("Done", job.q)
  /\ UNCHANGED <<log, seen, sendQueue, sendTimers, agentPhase, stale, disturbed, edits>>

(* Mutant: the error of the call is not looked at. *)
NoReplyIgnored ==
  /\ job.pc = "reply"
  /\ Decide("Done", NoQueue)
  /\ UNCHANGED <<log, seen, sendQueue, sendTimers, agentPhase, stale, disturbed, edits>>

NoReply ==
  /\ job.pc = "reply"
  /\ Decide("Error", NoQueue)
  /\ UNCHANGED <<log, seen, sendQueue, sendTimers, agentPhase, stale, disturbed, edits>>

(* Mutant: the update is sent without a resourceVersion. *)
CurrentUnchecked == TRUE

(* r.Status().Update *)
Current == job.ver = Len(log[job.send])

Updated == [Snapshot EXCEPT !.phase = job.phase,
                            !.queueID = IF job.q = NoQueue THEN @ ELSE job.q]

(* Mutant: the key is queued again after the update. *)
StatusUpdateRequeues ==
  /\ job.pc = "write"
  /\ Current
  /\ log' = [log EXCEPT ![job.send] = Append(@, Updated)]
  /\ Retry
  /\ UNCHANGED <<seen, sendQueue, agentPhase, stale, disturbed, edits, faults>>

StatusUpdate ==
  /\ job.pc = "write"
  /\ Current
  /\ log' = [log EXCEPT ![job.send] = Append(@, Updated)]
  /\ job' = NoJob
  /\ UNCHANGED <<seen, sendQueue, sendTimers, agentPhase, stale, disturbed, edits, faults>>

StatusConflict ==
  /\ job.pc = "write"
  /\ ~Current
  /\ Retry
  /\ UNCHANGED <<log, seen, sendQueue, agentPhase, stale, disturbed, edits, faults>>

(* Mutant: the error of the update is swallowed. *)
StatusUpdateFailsSilently ==
  /\ job.pc = "write"
  /\ Fault
  /\ job' = NoJob
  /\ disturbed' = disturbed \cup {job.send}
  /\ UNCHANGED <<log, seen, sendQueue, sendTimers, agentPhase, stale, edits>>

(* The API server cannot be reached; the update may have been applied. *)
StatusUpdateFails ==
  /\ job.pc = "write"
  /\ Fault
  /\ \/ UNCHANGED log
     \/ Current /\ log' = [log EXCEPT ![job.send] = Append(@, Updated)]
  /\ Retry
  /\ disturbed' = disturbed \cup {job.send}
  /\ UNCHANGED <<seen, sendQueue, agentPhase, stale, edits>>

WriteStatus == StatusUpdate \/ StatusConflict \/ StatusUpdateFails

(* The operator process restarts: its caches are listed afresh and every   *)
(* object is queued once.                                                  *)
RestartSends ==
  /\ seen' = [s \in Sends |-> Len(log[s])]
  /\ sendQueue' = {s \in Sends : Stored(s)}
  /\ sendTimers' = {}
  /\ job' = NoJob
  /\ disturbed' = Sends
  /\ UNCHANGED <<log, agentPhase, stale>>
=============================================================================
