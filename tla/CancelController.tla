-------------------------- MODULE CancelController --------------------------
(***************************************************************************)
(* KubeCopilotCancelReconciler (kubecopilotcancel_controller.go).  It      *)
(* looks up the send's queue id in the cache, calls DELETE /cancel on the  *)
(* agent and records the outcome.  Only this controller writes a cancel    *)
(* after its creation, so its versions are told apart by their phase.      *)
(***************************************************************************)
EXTENDS SendController

CONSTANTS
  Cancels,        \* names of KubeCopilotCancel objects
  SendOf,         \* spec.sendRef of each cancel
  NoCancel

ASSUME CancelAssumption == NoCancel \notin Cancels /\ SendOf \in [Cancels -> Sends]

VARIABLES
  cphase,         \* status.phase at the API server, "absent" before creation
  cseen,          \* the phase in the cache
  cancelQueue,    \* keys waiting for the worker
  cancelTimers,   \* keys to be queued again later
  cjob            \* what the worker is doing

cancelVars == <<cphase, cseen, cancelQueue, cancelTimers, cjob>>

CancelPhases == {"absent", "", "Cancelled", "Error"}

CancelJob == [pc : {"idle", "call", "write"}, cancel : Cancels \cup {NoCancel},
              q : QueueIds \cup {NoQueue}, phase : CancelPhases]

NoCancelJob == [pc |-> "idle", cancel |-> NoCancel, q |-> NoQueue, phase |-> ""]

CancelTypeOK ==
  /\ cphase \in [Cancels -> CancelPhases]
  /\ cseen \in [Cancels -> CancelPhases]
  /\ cancelQueue \subseteq Cancels
  /\ cancelTimers \subseteq Cancels
  /\ cjob \in CancelJob

CancelInit ==
  /\ cphase = [c \in Cancels |-> "absent"]
  /\ cseen = cphase
  /\ cancelQueue = {}
  /\ cancelTimers = {}
  /\ cjob = NoCancelJob

CancelSettled == {"Cancelled", "Error"}

(* create_cancel of the web UI: it names a send that was created. *)
CreateCancel(c) ==
  /\ cphase[c] = "absent"
  /\ log[SendOf[c]] # <<>>
  /\ cphase' = [cphase EXCEPT ![c] = ""]
  /\ UNCHANGED <<cseen, cancelQueue, cancelTimers, cjob>>

DeliverCancel(c) ==
  /\ cseen[c] # cphase[c]
  /\ cseen' = [cseen EXCEPT ![c] = cphase[c]]
  /\ cancelQueue' = cancelQueue \cup {c}
  /\ UNCHANGED <<cphase, cancelTimers, cjob>>

FireCancelTimer(c) ==
  /\ c \in cancelTimers
  /\ cancelTimers' = cancelTimers \ {c}
  /\ cancelQueue' = cancelQueue \cup {c}
  /\ UNCHANGED <<cphase, cseen, cjob>>

(* Reconcile, up to the call to the agent. *)
TakeCancel(c) ==
  /\ cjob.pc = "idle"
  /\ c \in cancelQueue
  /\ cancelQueue' = cancelQueue \ {c}
  /\ UNCHANGED <<cphase, cseen>>

SkipCancel(c) ==
  /\ TakeCancel(c)
  /\ cseen[c] \in CancelSettled
  /\ UNCHANGED <<cancelTimers, cjob>>

SendNotFound(c) ==
  /\ TakeCancel(c)
  /\ cseen[c] = ""
  /\ ~InCache(SendOf[c])
  /\ cjob' = [NoCancelJob EXCEPT !.pc = "write", !.cancel = c, !.phase = "Error"]
  /\ UNCHANGED cancelTimers

NoQueueIDYet(c) ==
  /\ TakeCancel(c)
  /\ cseen[c] = ""
  /\ InCache(SendOf[c])
  /\ Cached(SendOf[c]).queueID = NoQueue
  /\ cancelTimers' = cancelTimers \cup {c}
  /\ UNCHANGED cjob

CancelAgentMissing(c) ==
  /\ TakeCancel(c)
  /\ cseen[c] = ""
  /\ InCache(SendOf[c])
  /\ Cached(SendOf[c]).queueID # NoQueue
  /\ agentPhase[AgentOf[SendOf[c]]] = "missing"
  /\ cjob' = [NoCancelJob EXCEPT !.pc = "write", !.cancel = c, !.phase = "Error"]
  /\ UNCHANGED cancelTimers

StartCancel(c) ==
  /\ TakeCancel(c)
  /\ cseen[c] = ""
  /\ InCache(SendOf[c])
  /\ Cached(SendOf[c]).queueID # NoQueue
  /\ agentPhase[AgentOf[SendOf[c]]] # "missing"
  /\ cjob' = [NoCancelJob EXCEPT !.pc = "call", !.cancel = c, !.q = Cached(SendOf[c]).queueID]
  /\ UNCHANGED cancelTimers

ReconcileCancel(c) ==
  \/ SkipCancel(c) \/ SendNotFound(c) \/ NoQueueIDYet(c) \/ CancelAgentMissing(c)
  \/ StartCancel(c)

(* The worker's half of DELETE /cancel/{queue_id}: any 200 counts. *)
CancelAnswered ==
  /\ cjob.pc = "call"
  /\ cjob' = [cjob EXCEPT !.pc = "write", !.phase = "Cancelled"]
  /\ UNCHANGED <<cphase, cseen, cancelQueue, cancelTimers>>

CancelUnanswered ==
  /\ cjob.pc = "call"
  /\ cjob' = [cjob EXCEPT !.pc = "write", !.phase = "Error"]
  /\ UNCHANGED <<cphase, cseen, cancelQueue, cancelTimers>>

(* Status().Update: the worker read the phase "", any other is newer. *)
CancelUpdate ==
  /\ cjob.pc = "write"
  /\ cphase[cjob.cancel] = ""
  /\ cphase' = [cphase EXCEPT ![cjob.cancel] = cjob.phase]
  /\ cjob' = NoCancelJob
  /\ UNCHANGED <<cseen, cancelQueue, cancelTimers>>

CancelConflict ==
  /\ cjob.pc = "write"
  /\ cphase[cjob.cancel] # ""
  /\ cjob' = NoCancelJob
  /\ cancelTimers' = cancelTimers \cup {cjob.cancel}
  /\ UNCHANGED <<cphase, cseen, cancelQueue>>

(* Mutant: the error of the update is swallowed. *)
CancelUpdateFailsSilently ==
  /\ cjob.pc = "write"
  /\ cjob' = NoCancelJob
  /\ UNCHANGED <<cphase, cseen, cancelQueue, cancelTimers>>

(* The API server cannot be reached; the update may have been applied. *)
CancelUpdateFails ==
  /\ cjob.pc = "write"
  /\ \/ UNCHANGED cphase
     \/ /\ cphase[cjob.cancel] = ""
        /\ cphase' = [cphase EXCEPT ![cjob.cancel] = cjob.phase]
  /\ cjob' = NoCancelJob
  /\ cancelTimers' = cancelTimers \cup {cjob.cancel}
  /\ UNCHANGED <<cseen, cancelQueue>>

(* The operator restarts: see RestartSends. *)
RestartCancels ==
  /\ cseen' = cphase
  /\ cancelQueue' = {c \in Cancels : cphase[c] # "absent"}
  /\ cancelTimers' = {}
  /\ cjob' = NoCancelJob
  /\ UNCHANGED cphase
=============================================================================
