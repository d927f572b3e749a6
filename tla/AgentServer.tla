---------------------------- MODULE AgentServer ----------------------------
(***************************************************************************)
(* The agent pod's request queue (agent-server-container/github-copilot/   *)
(* server.py): POST /asyncchat puts an item on an in-memory queue; a       *)
(* worker spawns one asyncio task per item; a task takes a permit of a     *)
(* semaphore, registers its SDK session so that DELETE /cancel can         *)
(* disconnect it, waits for the session to go idle or be deleted, and      *)
(* POSTs the result to the operator's webhook, which creates a             *)
(* KubeCopilotResponse.                                                    *)
(*                                                                         *)
(* asyncio is cooperative: an action here runs from one await to the next. *)
(*                                                                         *)
(* Life of an item:                                                        *)
(*   none -> posted -> queued -> waiting -> starting -> running ->         *)
(*   settled -> posting -> ended, or lost.                                 *)
(***************************************************************************)
EXTENDS Cluster

CONSTANT MaxConcurrent        \* MAX_CONCURRENT_SESSIONS

ASSUME MaxConcurrentAssumption == MaxConcurrent \in Nat \ {0}

VARIABLES
  istate,       \* istate[q]: where the item with queue id q is
  isend,        \* isend[q]: the item's send_ref
  kind,         \* kind[q]: the text the run ended with, an answer or the cancel notice
  queue,        \* queue[a]: _queue of agent a
  waiters,      \* waiters[a]: items whose tasks wait for the semaphore, in order
  free,         \* free[a]: the value of the semaphore _concurrency
  active,       \* keys of _active_sessions
  detached,     \* items whose session was disconnected by /cancel
  responses     \* queue ids of the KubeCopilotResponse objects created

itemVars == <<istate, isend, kind, queue, waiters, free, active, detached, responses>>

ItemStates == {"none", "posted", "queued", "waiting", "starting", "running",
               "settled", "posting", "ended", "lost"}

(* The items inside `async with _concurrency`. *)
Holding == {"starting", "running", "settled", "posting"}

ItemTypeOK ==
  /\ istate \in [QueueIds -> ItemStates]
  /\ isend \in [QueueIds -> Sends \cup {NoSend}]
  /\ kind \in [QueueIds -> {"none", "answer", "cancelled"}]
  /\ queue \in [Agents -> Seq(QueueIds)] /\ waiters \in [Agents -> Seq(QueueIds)]
  /\ free \in [Agents -> Nat]
  /\ active \subseteq QueueIds
  /\ detached \subseteq QueueIds
  /\ responses \subseteq QueueIds

ItemInit ==
  /\ istate = [q \in QueueIds |-> "none"]
  /\ isend = [q \in QueueIds |-> NoSend]
  /\ kind = [q \in QueueIds |-> "none"]
  /\ queue = [a \in Agents |-> <<>>] /\ waiters = queue
  /\ free = [a \in Agents |-> MaxConcurrent]
  /\ active = {}
  /\ detached = {}
  /\ responses = {}

(* The items of an agent that are in one of the given states. *)
ItemsOf(a, states) ==
  {q \in QueueIds : istate[q] \in states /\ isend[q] \in Sends /\ AgentOf[isend[q]] = a}

(* The pod has queued the item: the POST has reached async_chat. *)
Accepted(q) == istate[q] \notin {"none", "posted"}

-----------------------------------------------------------------------------
(* The network: a POST /asyncchat for send s is on its way.  Queue ids are *)
(* given out in increasing order; the uuid is only known to the caller     *)
(* once the reply arrives.                                                 *)
Arrive(q, s) ==
  /\ istate[q] = "none"
  /\ \A r \in QueueIds : istate[r] = "none" => q <= r
  /\ istate' = [istate EXCEPT ![q] = "posted"]
  /\ isend' = [isend EXCEPT ![q] = s]
  /\ UNCHANGED <<kind, queue, waiters, free, active, detached, responses, faults>>

(* The request never reaches the pod, or is refused before it is queued. *)
LosePost(q) ==
  /\ istate[q] = "posted"
  /\ Fault
  /\ istate' = [istate EXCEPT ![q] = "lost"]
  /\ UNCHANGED <<isend, kind, queue, waiters, free, active, detached, responses>>

(* async_chat: the item goes on _queue and the queue id into the reply. *)
AsyncChat(q) ==
  /\ istate[q] = "posted"
  /\ istate' = [istate EXCEPT ![q] = "queued"]
  /\ queue' = [queue EXCEPT ![AgentOf[isend[q]]] = Append(@, q)]
  /\ UNCHANGED <<isend, kind, waiters, free, active, detached, responses, faults>>

(* Mutant: an item that finds no permit is dropped.                        *)
SpawnTaskWhenFree(a) ==
  /\ queue[a] # <<>>
  /\ istate' = [istate EXCEPT ![Head(queue[a])] = "waiting"]
  /\ queue' = [queue EXCEPT ![a] = Tail(@)]
  /\ waiters' = [waiters EXCEPT ![a] = IF free[a] > 0 THEN Append(@, Head(queue[a])) ELSE @]
  /\ UNCHANGED <<isend, kind, free, active, detached, responses, faults>>

(* _process_queue: a task of its own for every item, at once. *)
SpawnTask(a) ==
  /\ queue[a] # <<>>
  /\ istate' = [istate EXCEPT ![Head(queue[a])] = "waiting"]
  /\ queue' = [queue EXCEPT ![a] = Tail(@)]
  /\ waiters' = [waiters EXCEPT ![a] = Append(@, Head(queue[a]))]
  /\ UNCHANGED <<isend, kind, free, active, detached, responses, faults>>

(* `async with _concurrency` is entered: the semaphore's value goes down,  *)
(* or a release hands its permit on; asyncio wakes the waiters in order.   *)
AcquirePermit(a) ==
  /\ waiters[a] # <<>> /\ free[a] > 0
  /\ istate' = [istate EXCEPT ![Head(waiters[a])] = "starting"]
  /\ waiters' = [waiters EXCEPT ![a] = Tail(@)]
  /\ free' = [free EXCEPT ![a] = @ - 1]
  /\ UNCHANGED <<isend, kind, queue, active, detached, responses, faults>>

(* `async with _concurrency` is left. *)
ReleasePermit(q) == free' = [free EXCEPT ![AgentOf[isend[q]]] = @ + 1]

(* _run_sdk_streaming up to the registration in _active_sessions. *)
OpenSession(q) ==
  /\ istate[q] = "starting"
  /\ istate' = [istate EXCEPT ![q] = "running"]
  /\ active' = active \cup {q}
  /\ UNCHANGED <<isend, kind, queue, waiters, free, detached, responses, faults>>

(* on_event, session.idle: the answer is complete and `done` is set.  The  *)
(* event may have been on its way when the session was disconnected.       *)
SessionIdle(q) ==
  /\ istate[q] = "running"
  /\ istate' = [istate EXCEPT ![q] = "settled"]
  /\ kind' = [kind EXCEPT ![q] = "answer"]
  /\ UNCHANGED <<isend, queue, waiters, free, active, detached, responses, faults>>

(* on_event, session.deleted: `cancelled` and `done` are set; it wins over *)
(* an idle event that the waiting task has not seen yet.                   *)
SessionDeleted(q) ==
  /\ istate[q] \in {"running", "settled"}
  /\ q \in detached
  /\ istate' = [istate EXCEPT ![q] = "settled"]
  /\ kind' = [kind EXCEPT ![q] = "cancelled"]
  /\ UNCHANGED <<isend, queue, waiters, free, active, detached, responses, faults>>

(* Mutant: the `finally` that pops the session is missing. *)
UnregisterNoPop(q) ==
  /\ istate[q] = "settled"
  /\ istate' = [istate EXCEPT ![q] = "posting"]
  /\ UNCHANGED <<isend, kind, queue, waiters, free, active, detached, responses, faults>>

(* done.wait returns: the task unregisters the session and goes on to save *)
(* the history and build the payload.                                      *)
Unregister(q) ==
  /\ istate[q] = "settled"
  /\ istate' = [istate EXCEPT ![q] = "posting"]
  /\ active' = active \ {q}
  /\ UNCHANGED <<isend, kind, queue, waiters, free, detached, responses, faults>>

(* Mutant: a failed run is reported like a finished one. *)
RunFailsButPosts(q) ==
  /\ istate[q] \in {"starting", "running", "posting"}
  /\ Fault
  /\ istate' = [istate EXCEPT ![q] = "ended"]
  /\ ReleasePermit(q)
  /\ active' = active \ {q}
  /\ responses' = responses \cup {q}
  /\ UNCHANGED <<isend, kind, queue, waiters, detached>>

(* _handle_async_item's `except Exception`: the SDK, the session or the    *)
(* history file raised; nothing is posted and the permit is released.      *)
RunFails(q) ==
  /\ istate[q] \in {"starting", "running", "posting"}
  /\ Fault
  /\ istate' = [istate EXCEPT ![q] = "ended"]
  /\ ReleasePermit(q)
  /\ active' = active \ {q}
  /\ UNCHANGED <<isend, kind, queue, waiters, detached, responses>>

(* Mutant: acquire() and release() in place of the `async with`, and the   *)
(* release forgotten on the way that posts.                                *)
PostResponseKeepsPermit(q) ==
  /\ istate[q] = "posting"
  /\ istate' = [istate EXCEPT ![q] = "ended"]
  /\ active' = active \ {q}
  /\ responses' = responses \cup {q}
  /\ UNCHANGED <<isend, kind, queue, waiters, free, detached, faults>>

(* The POST to WEBHOOK_URL and the operator's handleResponse: a            *)
(* KubeCopilotResponse named after the queue id is created.                *)
PostResponse(q) ==
  /\ istate[q] = "posting"
  /\ istate' = [istate EXCEPT ![q] = "ended"]
  /\ ReleasePermit(q)
  /\ active' = active \ {q}
  /\ responses' = responses \cup {q}
  /\ UNCHANGED <<isend, kind, queue, waiters, detached, faults>>

(* The POST fails, or the webhook answers 500: printed, never retried. *)
LoseResponse(q) ==
  /\ istate[q] = "posting"
  /\ Fault
  /\ istate' = [istate EXCEPT ![q] = "ended"]
  /\ ReleasePermit(q)
  /\ active' = active \ {q}
  /\ UNCHANGED <<isend, kind, queue, waiters, detached, responses>>

(* cancel_queue_item: only a registered session can be disconnected; an    *)
(* item that is still queued answers not_found, with HTTP 200 as well.     *)
CancelNotFound(q) ==
  /\ q \notin active
  /\ UNCHANGED <<itemVars, faults>>

(* Mutant: the handler disconnects whatever session it finds. *)
DisconnectAnySession(q) ==
  \E r \in active :
    /\ active' = active \ {r}
    /\ detached' = detached \cup {r}
    /\ UNCHANGED <<istate, isend, kind, queue, waiters, free, responses>>

(* Mutant: the handler gives the permit back, and so does the task. *)
DisconnectReleases(q) ==
  /\ q \in active
  /\ active' = active \ {q}
  /\ detached' = detached \cup {q}
  /\ ReleasePermit(q)
  /\ UNCHANGED <<istate, isend, kind, queue, waiters, responses>>

DisconnectSession(q) ==
  /\ q \in active
  /\ active' = active \ {q}
  /\ detached' = detached \cup {q}
  /\ UNCHANGED <<istate, isend, kind, queue, waiters, free, responses>>

CancelDisconnects(q) == DisconnectSession(q) /\ UNCHANGED faults

(* session.disconnect raised: the key is popped and 200 returned all the   *)
(* same, while the session keeps running.                                  *)
CancelDisconnectFails(q) ==
  /\ q \in active
  /\ Fault
  /\ active' = active \ {q}
  /\ UNCHANGED <<istate, isend, kind, queue, waiters, free, detached, responses>>

CancelQueueItem(q) ==
  CancelNotFound(q) \/ CancelDisconnects(q) \/ CancelDisconnectFails(q)

(* The pod restarts: queue, semaphore and sessions are in memory only. *)
AgentRestart(a) ==
  LET gone == ItemsOf(a, {"queued", "waiting"} \cup Holding)
  IN /\ gone # {}
     /\ Fault
     /\ istate' = [q \in QueueIds |-> IF q \in gone THEN "lost" ELSE istate[q]]
     /\ queue' = [queue EXCEPT ![a] = <<>>] /\ waiters' = [waiters EXCEPT ![a] = <<>>]
     /\ free' = [free EXCEPT ![a] = MaxConcurrent]
     /\ active' = active \ gone
     /\ UNCHANGED <<isend, kind, detached, responses>>

(* A step of the item's own task. *)
RunItem(q) ==
  \/ OpenSession(q) \/ SessionIdle(q) \/ SessionDeleted(q) \/ Unregister(q)
  \/ RunFails(q) \/ PostResponse(q) \/ LoseResponse(q)

ServerStep ==
  \/ \E q \in QueueIds : LosePost(q) \/ AsyncChat(q) \/ RunItem(q)
  \/ \E a \in Agents : SpawnTask(a) \/ AcquirePermit(a) \/ AgentRestart(a)

-----------------------------------------------------------------------------
(* The server on its own, against callers that may POST and cancel at any  *)
(* time.                                                                   *)
ServerInit == ItemInit /\ faults = 0

ServerNext ==
  \/ ServerStep
  \/ \E q \in QueueIds : CancelQueueItem(q) \/ \E s \in Sends : Arrive(q, s)

serverVars == <<itemVars, faults>>

ServerSpec == ServerInit /\ [][ServerNext]_serverVars

(* asyncio runs every task that can go on, and a session ends some day.    *)
FairServerSpec ==
  /\ ServerSpec
  /\ \A q \in QueueIds : WF_serverVars(RunItem(q))
  /\ \A a \in Agents : WF_serverVars(SpawnTask(a)) /\ WF_serverVars(AcquirePermit(a))

-----------------------------------------------------------------------------
(* The type of the state, faults included. *)
ServerTypeOK == ItemTypeOK /\ faults \in 0..MaxFaults

(* Every permit is free or with one item inside `async with`: none leaks,  *)
(* whichever way a run ends, none is given back twice, and a restart       *)
(* starts from all of them.  So never more than MAX_CONCURRENT_SESSIONS    *)
(* items of one agent run, and the queue cannot jam for want of permits.   *)
PermitsAddUp ==
  \A a \in Agents : Cardinality(ItemsOf(a, Holding)) + free[a] = MaxConcurrent

(* _active_sessions holds only items whose task is between opening its     *)
(* session and seeing it settle: /cancel never disconnects a session whose *)
(* run is over, and no path of the run leaves its key behind.              *)
ActiveSessionsAreLive ==
  \A q \in active : istate[q] \in {"running", "settled"}

HoldsEach(line, items) ==
  /\ {line[i] : i \in 1..Len(line)} = items
  /\ \A i, j \in 1..Len(line) : line[i] = line[j] => i = j

(* An accepted item without a permit waits in _queue or, when its task was *)
(* spawned, at the semaphore, once and in one of them: none is dropped or  *)
(* doubled on its way, whatever is cancelled, fails or restarts.           *)
QueueHoldsTheQueued ==
  \A a \in Agents :
    /\ HoldsEach(queue[a], ItemsOf(a, {"queued"}))
    /\ HoldsEach(waiters[a], ItemsOf(a, {"waiting"}))

(* A KubeCopilotResponse is created only for an item whose run settled and *)
(* is over, and a cancellation notice only for a disconnected session.     *)
ResponsesAreEarned ==
  \A q \in responses :
    /\ istate[q] = "ended"
    /\ kind[q] # "none"
    /\ kind[q] = "cancelled" => q \in detached

(* Every item the pod accepts is run to its end, unless the pod restarts,  *)
(* however many are accepted, fail or are cancelled: no path of a run      *)
(* keeps its permit, and no item is left at the semaphore.                 *)
ItemsDrain ==
  \A q \in QueueIds : Accepted(q) ~> istate[q] \in {"ended", "lost"}

(* Strengthening for the proofs: unused queue ids belong to nobody and     *)
(* used ones to a send; a settled run has a result, and only disconnected  *)
(* sessions end with the cancellation notice.                              *)
ItemInv == \A q \in QueueIds :
  /\ (istate[q] = "none") <=> (isend[q] = NoSend)
  /\ istate[q] \in {"settled", "posting"} => kind[q] # "none"
  /\ kind[q] = "cancelled" => q \in detached

(* The inductive invariant of the server. *)
ServerInv ==
  /\ ServerTypeOK
  /\ ItemInv
  /\ ActiveSessionsAreLive
  /\ QueueHoldsTheQueued
  /\ ResponsesAreEarned
  /\ PermitsAddUp
=============================================================================
