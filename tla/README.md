# kubecopilot-core in TLA+

kubecopilot-core is a Kubernetes operator that runs GitHub Copilot agents in
pods. Users ask for work by creating objects; controllers in the operator turn
them into HTTP calls to the agent pods; the pods post answers back to a webhook
of the operator, which creates more objects for users to read.

This directory holds the verification project for it: TLA+ modules of the
operator's controllers, of the agent server and of those who read its output,
TLC configurations that check them on small instances, and theorems about them
checked by TLAPS. `PROJECT.json` lists the runs, the mutants
that show each property can fail, the source lines behind each definition, the
hazards, the findings and the theorems.

## 1. Inventory

| Component (source) | State it keeps | Operations | Talks to |
|---|---|---|---|
| Send controller (`internal/controller/kubecopilotsend_controller.go`) | status of `KubeCopilotSend` objects: phase, queueID | one reconcile: skip, check agent, evaluate policies, read provider secret, `POST /asyncchat`, update status | API server, agent pod |
| Policy controller, evaluator (`kubecopilotpolicy_controller.go`, `policy_evaluator.go`) | status.active of `KubeCopilotPolicy` | validate and activate; match and decide | API server; called by the send controller |
| Cancel controller (`kubecopilotcancel_controller.go`) | status of `KubeCopilotCancel` | one reconcile: find the send's queue id, `DELETE /cancel/{id}`, update status | API server, agent pod |
| Agent server, requests (`agent-server-container/github-copilot/server.py:43-52, 215-476, 808-838`) | `_queue`, `_concurrency`, `_active_sessions`, all in memory | accept, take a permit, run a session, cancel, post the answer | operator, webhook, Copilot SDK |
| Webhook server (`internal/webhook/server.go`) | `KubeCopilotResponse`, `KubeCopilotChunk`, `KubeCopilotNotification` objects | one handler for each | called by pods, writes to the API server |
| Web UI (`web-ui/app/`), CLI (`cmd/cli/`) | none | create sends and cancels, delete sessions, poll for chunks and responses | API server |
| Message controller (`kubecopilotmessage_controller.go`) | status of `KubeCopilotMessage` | synchronous `POST /chat` | API server, agent pod |
| Agent controller (`kubecopilotagent_controller.go`) | pods, services, volumes, roles, finalizer, phase | ensure each of them; clean up | API server |
| Session controller (`kubecopilotsession_controller.go`) | a namespace per tenant session, finalizer | ensure and delete | API server |
| Team controller (`kubecopilotagentteam_controller.go`) | `delegateTo` of a coordinator agent | validate members, write the list | API server |
| Tool server controller (`kubecopilottoolserver_controller.go`) | status.phase | one write | API server |
| Background tasks (`server.py:479-750, 911-995`) | `_background_tasks`, `tasks.json` | register, run, delete, restore, notify | webhook |
| Activity chunks (`server.py:_post_chunk`, webhook, UI, CLI) | chunk objects, sequence numbers | post, store, read | webhook, API server |
| Charts, manifests, generated code, console plugin | | | |

What is hard about it, and what correctness means:

- **Reconciles read a cache that lags.** A send's reconcile may start from a
  version that is out of date, and its only protection is the conflict check on
  the status update. The outcome must nevertheless be decided once and for all.
- **The call to the pod and its record are two steps.** A conflict, a failed
  update or a restart of the operator between them leads to a second call. A
  send nobody disturbed must be posted once; where the code allows a second
  call, the record must still name an item of this send.
- **The gate.** Policies are evaluated from the cache in every attempt; no
  retry, approval or restart may lead around a rule that is in force.
- **Cancels race with the queue.** The queue id comes from the cache, the item
  may be waiting, running, settling or over, and `/cancel` answers 200 in every
  case. A cancel must never stop somebody else's item.
- **Permits and the session table.** A run has many ways to end; each must
  release its permit and its key.
- **Lost wake-ups.** Failed updates, conflicts and requeues must leave every
  send and cancel where something picks it up again.
- **Loss.** The pod's queue is in memory and the answer is posted once.
- **Background tasks survive restarts, with holes.** The table, the file, the
  runner of a task and the notifications at the operator are four places that change at
  different moments: between them lie awaits, deletions and restarts. A task must
  come to one verdict, be notified of once, and stay deleted.

- **Objects of two scopes.** Most objects an agent needs go with it by garbage
  collection; the cluster role and its binding, and the namespace of a session,
  only by a finalizer. Neither may be left behind by a crash, a conflict or a
  deletion between two steps, and no step may be skipped for good by an error.
- **Objects several write.** A team writes the spec of its coordinator, which
  users, other teams and the agent controller write too. A session's namespace is
  named after the session alone.
- **Chunks overtake each other.** The pod numbers them and posts them from
  concurrent tasks; a post that timed out may still arrive. Readers keep a cursor
  or a set of numbers.

The full list, line by line, is under `hazards` in `PROJECT.json`, with the
properties that cover each and a note where none does yet.

## 2. Modules

```
Cluster                 names, phases, the fault budget
PolicyEvaluator         rules, matching, the decision
  \ PolicyController    policy objects, activation, the cached list
      SendController    versions, cache, work queue, the send reconcile
        CancelController  the cancel reconcile
AgentServer             the pod: queue, permits, sessions, cancel, responses
RequestPath             all of the above together; the properties
  RequestPathInv        the inductive invariant, in named parts
  SendLifecycle         what the status of a send promises (abstract)
BackgroundTasks         the pod's monitors: table, file, runners, notifications
AgentResources          the agent controller and the objects it keeps
ControllerRuntime       objects, cache, queues and workers of the small controllers
  TenantSession, AgentTeam, MessageController, ToolServer
    Dependents          the four of them in one operator
      DependentsInv     the inductive invariant, in named parts
ActivityChunks          runs that post chunks, the webhook, and the two readers
MCRequestPath, MCAgentServer, MCBackgroundTasks, MCAgentResources, MCDependents,
MCActivityChunks        instances for TLC
AgentServerProofs, RequestPathProofs, LifecycleProofs, GateProofs,
BackgroundTasksProofs, AgentResourcesProofs, DependentsProofs, ActivityChunksProofs
```

### Cluster, PolicyEvaluator, PolicyController

A command pattern is the set of messages it matches, a policy the spec and
status of one object. `EvaluatePolicies` follows the loop of
`policy_evaluator.go:53-107`: inactive policies and those of other agents are
skipped, the first deny rule returns, an approval rule is remembered; since a
deny met later still wins, the order of the list is immaterial and the policies
are a set. `ReconcilePolicy` is the policy controller's whole reconcile: it
validates the cached spec and writes `active` back. It takes effect only when the
cached object is the stored one; otherwise the API server reports a conflict and
the key is retried, which is the same as the reconcile coming later. `Edit` counts
the changes made from outside.

### SendController

`log[s]` is the sequence of versions of send `s` that the API server has stored;
a deletion is a version of its own, so an update against a deleted object fails
like any other conflict. `seen[s]` is the version in the informer cache and
`sendQueue`, `sendTimers` the work queue and the keys that come back later
(`RequeueAfter`, or the backoff after an error). One worker (controller-runtime's
default) holds `job`: the key, the version it read, and what it is going to write.

`Reconcile` is cut at its calls, since others can act between them:

| Code | Action |
|---|---|
| get, terminal and paused returns (92-105) | `SkipSend`, `StartSend` |
| agent missing, not running (107-118) | `AgentMissing`, `AgentNotRunning` |
| policies (120-153) | `EvaluationFails`, `DenySend`, `PauseSend`, `PassPolicies` |
| provider secret (183-197) | `SecretMissing` |
| POST (224-225) | `CallAsyncChat` |
| error, status, decoding (226-245); success (247-248) | `NoReply`; `ReplyReceived` |
| every `return ctrl.Result{}, r.Status().Update(ctx, send)` | `StatusUpdate`, `StatusConflict`, `StatusUpdateFails` |

A failed update may or may not have been applied. `RestartSends` is what a new
manager does: it lists everything afresh and queues every object once. `disturbed`
is a history variable: the sends a user edited or deleted, that were resynced, or
that a failed write or an operator restart hit. `stale` counts reconciles started
from an out-of-date cache.

### CancelController

The same shape for `KubeCopilotCancel`. Only this controller writes a cancel after
its creation, so its versions are told apart by the phase. Any of 200, 204 and 404
counts as success (`CancelAnswered`), as in the code at line 103.

### AgentServer

One action per stretch from one `await` to the next; asyncio is cooperative, so
nothing else runs inside it. An item goes from `_queue` (`queue[a]`) to a task of its
own, which `_process_queue` spawns at once (`SpawnTask`), and waits in the line of the
semaphore (`waiters[a]`), which `asyncio.Semaphore` serves in order. `free[a]` is the
semaphore's value, a variable apart from the states of the items: `AcquirePermit` takes
one, and each of the three actions that end a run (`RunFails`, `PostResponse`,
`LoseResponse`) gives it back (`ReleasePermit`), since `async with _concurrency` encloses
all of `_handle_async_item`. That permits and items agree is `PermitsAddUp`. `active` is `_active_sessions`; `detached` remembers which sessions
`/cancel` disconnected. The `session.idle` and `session.deleted` events are
`SessionIdle` and `SessionDeleted`; either may come first, and a deletion that
arrives before the waiting task resumes wins. `AgentRestart` loses everything in
memory.

`server.py` does not parse as it stands: `finally:` at line 396 has no `try:`. The
model takes the evident intent, that the wait for the end of the session is
enclosed by it. The disconnect and the removal of the key in `cancel_queue_item`
are one step: the task of the item may remove the key in between, which has the
same result. `ServerSpec` runs the server alone against callers that post and
cancel whatever they like; `FairServerSpec` adds that asyncio runs every task that can go
on and that sessions end.

### RequestPath

Composes the operator and the pods. The parts meet in the HTTP calls:
`PostAsyncChat` is `CallAsyncChat` of the worker with `Arrive` at the network;
the request then reaches the pod (`AsyncChat`) or not (`LosePost`), and the worker
sees the reply (`AsyncChatReply`), or an error (`AsyncChatFails`) with the item
queued all the same or later. `CallCancel` joins the cancel worker to
`CancelQueueItem`.

### SendLifecycle

What a watcher of a send may rely on, without caches, versions or retries: a send
is paused only while unapproved, leaves `PendingApproval` only while approved, is
decided once, and is `Done` together with a queue id that no other send has.
`ImplementsLifecycle` is the refinement, with the last stored version of each send
as its status.

### BackgroundTasks

The monitors share nothing with the request path but the pod and the webhook, so
they are a specification of their own. `memory` is the status of each task in
`_background_tasks`, `file` the one in `tasks.json`, `runner` the coroutine of the
task, cut at its awaits:

| Code | Action |
|---|---|
| `create_monitor_task` (911-942) | `CreateTask` |
| `_run_background_task` up to the first sleep (669-693) | `BeginTask`, `TimeOutAtOnce`, `QuitDeleted` |
| after a sleep (694-701) | `WakeUp`, `QuitDeleted` |
| after the checker (702-709, 726-729) | `ConditionMet`, `ConditionNotMet` |
| `_post_notification` and `handleNotification` | `NoticeCreated`, `NoticeRefused`, `NoticeFails`, `AnswerLost`, `BackoffOver` |
| `delete_task` (983-991) | `DeleteTask` |
| process start, `_restore_tasks` (741-750) | `RestartPod` |

`Rounds[t]` is the number of rounds of the loop that fit in the task's timeout, zero
for a timeout that is not positive. The answer of a checker is a nondeterministic choice.
A runner holds the dict of its task: after `delete_task` it still writes into that dict, but
the table does not show it any more (`Record`). `SaveTasks` writes the whole table
at once (`os.replace`) or fails and goes on; `spoiled` remembers that a save
failed, and the safety properties are stated for histories without one.
`Refused` says which notices the webhook answers with 400. `unheard` and `interrupted` are
history variables for the two exceptions the properties state: a POST whose answer
was lost, and a restart while the runner posted or before the file says that the task
began (`Unsaved`). `faults` bounds restarts, failed
saves and failed POSTs together.

### AgentResources

The agent controller and the cluster around it. `agent[a]` and `store[a][k]` are
what the API server holds, `known[a]` and `cache[a][k]` what the informers show.
An informer learns of a change in the same step or, within `MaxTrouble`, later
(`CatchUpAgent`, `CatchUpObjects`). The cache of the objects of one agent is
caught up as a whole. `work` is the one worker: the step it is at, and the agent
as it read it.

| Code | Action |
|---|---|
| get, deletion without our finalizer (78-107) | `StartAgent` |
| agentID (109-115) | `AssignID` |
| service account, role, binding (119-136) | `EnsureServiceAccount`, `EnsureRole`, `EnsureRoleBinding` |
| finalizer, cluster role, binding (138-157) | `AddFinalizer`, `EnsureClusterRole`, `EnsureClusterRoleBinding` |
| kubeconfig (159-163) | `EnsureKubeconfigSecret` |
| volume, pod, service (166-182) | `EnsurePVC`, `EnsurePod`, `EnsureService` |
| phase (184-204) | `ReportPhase`, `PassOver` |
| clean-up and finalizer (95-106, 810-828) | `RemoveBinding`, `RemoveRole`, `RemoveFinalizer` |
| any `return err` | `CallFails`, and the conflicts inside the actions |

Four helpers get an object from the cache and create it if it is missing
(`EnsureExists`), the others also overwrite it (`EnsureHolds`); the kubeconfig is
overwritten only if the cached one differs. A name can be used again: `uid` tells
the incarnations of an agent apart, and an object of a former one may be taken by
`Collect` at any time. `PassOver` is the report that could not read the pod, whatever the reason: the code
returns without an error (185). The check for mutually exclusive fields (86-92) is left out,
since the CRD's validation rule (`kubecopilotagent_types.go:28`) admits no such
object. Three history variables are the exceptions the properties state:
`disturbed` (an agent whose pod was lost, or that took another's or an outdated
object for its own), `blind` (a clean-up that did not see an object) and
`unreported` (a phase report that did not read the pod).

### ControllerRuntime, TenantSession, AgentTeam, MessageController, ToolServer, Dependents

The four small controllers watch objects that refer to agents by name.
`ControllerRuntime` has what they share: the objects with their finalizer, spec
and phase, the cache, the queue, the timers, one worker each, conflicts, failed
calls and restarts; agents are objects too, with their `delegateTo` as spec. Each
of the others adds the steps of one reconciler and the state only it has:

| Module | State of its own | Steps |
|---|---|---|
| `TenantSession` | namespaces with policy, role and binding, and their cache | finalizer, agent, `ensureNamespace`, `ensureNetworkPolicy` or its removal, role, binding, status; `MarkTerminating`, `DeleteNamespace`, `NamespaceGone`, `RemoveSessionFinalizer` |
| `AgentTeam` | none | `ValidateTeam`, `Delegate` (second read and write of the coordinator), `ActivateTeam` |
| `MessageController` | how often the pod was handed a message, the reply | `CheckAgent`, `CallChat`, `ChatAnswers` (the pod), `ReadReply`, `ChatTimesOut`, `WriteMessage` |
| `ToolServer` | none | `MarkAvailable` |

`NameOf` is `sessionNamespaceName`, which drops the namespace of the session. The
cluster deletes a terminating namespace in two steps, its content first. `Dependents`
composes the four with users, agents and restarts. `ReportAgent` stands for the
agent controller as the other controllers see it: it changes the phase of an agent.
`misled` (a session that believed the cache), `blind` (a namespace a clean-up did
not see), `overruled` (a team whose coordinator another one wrote since) and
`disturbed` are the exceptions of its properties. A write for one team overrules every
other one that names the coordinator, in its stored spec or in the one the cache shows
(`TeamsOf`); a team whose own reconcile has looked at the coordinator since is overruled
no longer.

`DependentsInv` states what workers, cache and API server know of each other, one part
for each property that section 5 proves.

### ActivityChunks

A run is one item of the pod's queue. `StartRun` to `EndSilently` follow
`_run_sdk_streaming`: the first chunk is awaited before the session starts, those of
`on_event` are tasks of their own, the last one (of a cancelled session, or left-over
reasoning) is awaited after it. `posts` holds what is on the wire, in no order; a
post whose client timed out stays there and may arrive. `HandleChunk` refuses a
chunk whose name exists, as the API server does: the name is the tail of the send's name with the
number. The send controller appears as what `RequestPath` shows of it: a send is
handed to a run before it is Done, an error may hide a run, and a repeated
dispatch makes a second run (`Dispatch`, `DecideSend`).

`kubecopilot invoke` alternates a list and a get (`ListChunks`, `GetSend`) and keeps
the cursor `printed`. `sort.Slice` is not stable, so `InOrder` allows every sorted order,
and of chunks with one number only one is printed, whichever comes first
(`OnePerNumber`); the browser's stream takes one of a number too. The browser has one conversation: `/chat/stream` waits for the
response (`ChatStream`, `ChatDone`), the activity log follows first the chunks of the
send, then those of the session (`stream`, `seen`, `shown`). The kinds and texts of chunks
are left out; the SDK's many events are one action, since each counts once for each
post.

## 3. Runs

All runs use one agent unless said otherwise, and small sets of sends. Deadlock
is not checked: users stop, the budgets of edits and faults are finite, and a
finished system has nothing to do.

| Run | Instance | Shows |
|---|---|---|
| `dispatch` | 1 send, 1 policy with 3 specs, 2 changes, 1 fault, 1 stale reconcile, 2 queue ids | `OutcomeIsFinal`, `DoneHasItsOwnItem`, `UndisturbedDispatchedOnce`, `ImplementsLifecycle`, `StandingDeny`, `StandingPause`, `TypeOK` |
| `live` | 1 send with a provider secret, 1 cancel, 3 queue ids, 1 change, 1 fault, fair | `NoSendLeftWaiting`, `CancelHitsItsSend`, `CancelSettles` |
| `server` | 2 agents with a send each, 3 items, 2 permits, 1 fault, fair | `PermitsAddUp`, `ActiveSessionsAreLive`, `QueueHoldsTheQueued`, `ResponsesAreEarned`, `ItemsDrain` |
| `tasks` | 2 tasks, one with two rounds, one with none and refused notices; 2 faults, fair | `OneVerdict`, `DeletedStaysDeleted`, `NoticeOnce`, `TaskIsTold`, `TaskTypeOK` |
| `resources` | 1 agent, 2 incarnations, 2 specs that differ in everything, 2 accounts, 2 ids, 1 trouble, fair | `NoOrphans`, `NoWorkLost`, `AgentIDStable`, `ComesUp`, `DeletionCompletes` |
| `dependents` | 7 scenarios of at most two new objects, 1 trouble, fair | `NoOrphanNamespace`, `ActiveSessionIsReady`, `NoKeyLost`, `ActiveTeamDelegates`, `UndisturbedPostedOnce`, `MessageOutcomeIsFinal`, `MessagesAreDecided`, `SessionsEnd`, `TypeOK` |
| `chunks` | 2 runs, numbers 0 to 2, three scenarios of sends, 1 trouble, fair | `LoneRunNeverRefused`, `OutputInOrder`, `OnlyLateMissed`, `ActivityIsShown`, `AskedIsAnswered`, `ChunkTypeOK` |
| `denied_but_run` | 1 send, 1 deny policy, 2 changes, 1 fault | finding 1 |
| `cancelled_but_run` | 2 sends, 1 permit, 1 cancel | finding 2 |
| `tenants` | 2 sessions of one name and two tenants | finding 3 |
| `cli_returns` | 1 send of `invoke`, 2 runs, no trouble | finding 4 |
| `cluster_role_left` | as `resources` | finding 5 |

**Bounds.** `MaxEdits` bounds what users, the agent controller and resyncs do,
`MaxFaults` crashes, lost and failed calls, `MaxStale` reconciles that start from an
old version, `QueueIds` the items. The hazards need one conflict (one edit or one
stale start), one loss between the POST and its record, and a second POST after
it: one of each and two queue ids reach them all. Two faults are what the
three attempts of a notification absorb, as `TaskIsTold` says; with them a runner can be
restarted and fail once, or lose an answer and fail. The server needs more items than permits: with three items of one agent and two permits,
a permit that leaked is missed by the third. In the
fair runs there are as many ids as POSTs the budgets allow (one per send, and one more
for each stale start, edit and fault), so that no send waits for want of an id.
The safety properties of the runs do not rest on the bounds: all of them are
proved for every value of them (section 5).

`MaxTrouble` counts, in each of the newer specifications, every change an informer
learns of late, every edit of a spec, every failed call and every restart, and in
`AgentResources` lost and failed pods, in `Dependents` agents that change and namespaces
that are deleted by hand, in `ActivityChunks` repeated dispatches, timeouts, losses and
reconnections. One is enough for a retry from every step, and for a stale read at
every step; deletions, the garbage collector, the order in which posts arrive and the
order of all steps are free. (The invariants of `resources` also hold with two, on 1.85
million states.) `MaxUids` lets a name be used
twice, `Plans` are the sets of objects users create: two objects of a kind that can meet
(two sessions of one name, two teams of one coordinator, two messages of one worker), and
one of each kind whose agent may come later or never. `chats` stops counting at two.
`MaxSequence` gives a run a first, a middle and a last chunk, which can overtake each
other in every order.

**Fairness** (`Fairness` in `RequestPath`). Watches deliver, timers fire, policies
are reconciled and a worker that has begun goes on (weak fairness). controller-runtime's
work queues are first in, first out and drop no key, so a key that is
waiting gets the worker although others take it first: strong fairness of
`BeginSend` and `BeginCancel`, whose enabling comes and goes with the worker.
On the pod, asyncio runs every task that can run, requests on the wire arrive or
are lost, and a session ends some day. Nothing is assumed of users, faults,
restarts or resyncs. `FairServerSpec` is the part of it that concerns the pod. `FairSpec` of `BackgroundTasks` lets every runner go on: sleeps
end, and the checkers' and the notification's calls have a timeout of ten seconds.
`AgentFairness` and `Fairness` of `Dependents` say the same of their queues, timers,
caches and workers, and that the kubelet starts a pod and the cluster empties a namespace;
`StartAgent` is strongly fair for the reason given above. A pod need not answer `/chat`:
`MessagesAreDecided` rests on the client's timeout. `ChunkFairness` lets runs
go on and end, posts arrive or get lost, and the browser poll; it says nothing of
`invoke`, of events, or of users.

**Mutants.** For every property of a passing run there is a plausible mistake
in the code (an update without its version, a swallowed error, a missing
`finally`, an approval that overrides a deny rule, a permit kept or given back twice) that makes
TLC report the property as violated under the same configuration.

## 4. Findings

Each is a run that TLC ends with a counterexample against what a comment or
document of the repository says.

1. *Denied does not mean blocked.* POST, then a failed status update, then a deny
   policy becomes active: the retry records `Denied` for a message the agent already
   has (`denied_but_run`).
2. *Cancelled does not mean stopped.* An item that waits for a permit has no
   session; `/cancel` answers `not_found` with 200, the controller records
   `Cancelled`, and the item runs later (`cancelled_but_run`).
3. *Tenants may share a namespace.* Sessions of one name in two namespaces use the
   same `kc-session-` namespace; both become Active in it, the second without a
   binding for its tenant, and deleting one deletes the other's (`tenants`).
4. *`invoke` does not stream the response.* The send is Done as soon as the item is
   queued, and `invoke` returns on Done, before the run has begun (`cli_returns`).
5. *The finalizer does not ensure the clean-up.* `cleanupClusterRBAC` skips what it
   cannot read and reports success: after a failed read, or one from a late cache, the
   finalizer goes and the cluster role stays (`cluster_role_left`).

Two more statements have no counterpart in the code, and are not shown by a run:
`api/v1/kubecopilotsession_types.go:35-36` says that an agent's configuration is cloned
into the session namespace, which nothing does; and `docs/agent-to-agent.md:27-29` says
that the agent controller injects the `delegateTo` list into the coordinator's pod once the
team controller has written it, while `ensurePod` leaves a pod that exists alone
(`kubecopilotagent_controller.go:243-245`).

Other behaviour a reader may not expect is a stated exception of a property, which
therefore does not speak of it; where nothing else covers it, the hazard that names it in
`PROJECT.json` has a note instead of a property:

- A send whose status update conflicts or fails, or whose reconcile starts from an old
  cache, is posted to the agent again (`UndisturbedDispatchedOnce`, `disturbed`); the
  chunks of its second run are refused, as their names exist (`LoneRunNeverRefused`). The
  same holds for messages (`UndisturbedPostedOnce`).
- A cancel of a send that ended without a queue id is requeued every two seconds for
  ever (`CancelSettles` asks for a queue id or a deleted send).
- Items accepted before a pod restarts vanish while their sends say Done (`ItemsDrain`).
- A policy binds only once its controller has set it active; an edited one goes by its
  old status until then (the gate properties are about policies in force).
- A notification's name is cut to 63 characters, so that a long session id can drop the
  timestamp and every attempt of a second notification fails (`TaskIsTold`, `faults`).
- Rules removed from an agent's spec leave its roles in place (`NoWorkLost` asks for
  what the spec wants only). A late cache that shows the old kubeconfig as current keeps
  it (`disturbed`).
- A task deleted while its checker is awaited, or while it posts, still notifies.
- `NoOrphans` excepts finding 5 (`blind`). A session's clean-up with a late cache
  leaves its namespace behind likewise (`NoOrphanNamespace`, `blind`).
- An agent created again under its name may take its predecessor's pod for its own
  and lose it to the garbage collector; nothing watches the pods (`NoWorkLost`,
  `disturbed`; `ComesUp`, `unreported`).
- Two teams with one coordinator overwrite each other, and the loser stays Active
  (`ActiveTeamDelegates`, `overruled`).
- In session mode the browser's stream never shows a chunk whose number another send
  of the session used (`ActivityIsShown`); and it waits for ever for the answer of a
  run that failed, or of a send that never got one (`AskedIsAnswered`).

Two losses are the stated exceptions of `TaskIsTold` (`interrupted`). A task is saved as
`pending` and made `running` by its runner a step later; `_restore_tasks` takes over
running and finished tasks only, so a pod that restarts in between forgets the task,
although line 499 of `server.py` speaks of "pod restart survival". And a task whose pod
restarts between the save of `completed` and the POST is not notified of, since finished
tasks get no runner.

## 5. Proofs

The theorems hold for every set of sends, agents, policies, cancels and queue
ids, every set of policy specs and every bound, under the named assumptions on
the constants (`ClusterAssumption`: queue ids are a finite set of positive
numbers and each send has an agent; `PolicyAssumption`, `SendAssumption`,
`CancelAssumption`, `TaskAssumption`: types; `AgentAssumption`, `IdAssumption`: types,
names of accounts that are no kinds of object, no RBAC rules without an account, and that a
fresh uuid can always be had; `MaxConcurrentAssumption`: at least one permit).

- **`AgentServerProofs`** proves `ServerInv` inductive: the type, the agreement of
  the session table with the states of the items, the two lines (queue and semaphore)
  holding exactly the items that wait in them, the earned responses, and the count of
  permits. The lines need what `Append` and `Tail` do to a sequence without duplicates
  (`AppendHolds`, `TailHolds`). `PermitsAddUp` needs the cardinality of the holders before
  and after each step that takes or returns a permit, the lines to say that the first
  waiter does not hold one yet and is of the agent that pays, and `ItemInv` (used ids
  belong to a send) to say that the permit of an item that ends goes back to its agent.
  That no more than MAX_CONCURRENT_SESSIONS items run, and that a used-up semaphore is used
  by someone, follows (`AWaiterWaitsForSomeone`).
- **`RequestPathProofs`** proves `IInv` inductive, one lemma per part of the state.
  `OutcomeIsFinal` alone is not inductive: an update is harmless only because the
  worker read a version that left something to do (`SnapshotInv`) and because the
  conflict check makes that version the last one. `DoneHasItsOwnItem` needs what
  the worker carries from the call to the update (`JobInv`).
  `UndisturbedDispatchedOnce` is the hardest: the key of an undisturbed send is in
  one place at a time (queue, timer or worker) and only while the cache holds the
  last version (`OnePlaceInv`), and once the send was posted its key is past the POST
  or the outcome is stored (`PostedInv`); so no second reconcile can get as far
  as the POST. `CancelHitsItsSend` needs that the queue id a cancel took from
  the cache was stored for its send (`CancelInv`), and that stored ids are of
  items of the send (`DoneHasItsOwnItem`).
- **`LifecycleProofs`** proves the refinement: under `IInv` every step maps to a
  step of `SendLifecycle` or to a stutter. The freshness of the queue id is
  `DoneHasItsOwnItem` for the other sends.
- **`GateProofs`** proves the two gate properties: while the hypothesis holds, the
  worker never passes the policies with that send, so no item of it appears.

- **`BackgroundTasksProofs`** proves `TasksInv` inductive, for any tasks, rounds,
  refusals and number of faults (`TaskAssumption`: types only). It says what each
  place knows of the others: a runner below its verdict, and a task whose table or file entry
  a restart would run again, has notified nobody (`WorkingIsSilent`); a runner
  that posts finds its verdict in the table, or its task deleted
  (`PostingIsRecorded`); the file agrees with the table but for tasks that had not
  begun at a restart (`FileAgrees`). `OneVerdict` and `NoticeOnce` need all three,
  since a restart turns the file into the table and only `FileAgrees` says that this
  does not bring an earlier status back.

- **`AgentResourcesProofs`** proves the types, `NoOrphans` and `AgentIDStable` for any
  agents, specs, accounts and bounds. `NoOrphans` is not inductive: the cluster role
  is created several steps after the finalizer was stored, and removed several
  steps before it goes. `OrphanInv` adds what the worker may rely on meanwhile. The
  uids of stored, cached and remembered agents never exceed those given out, and uid
  0 means no agent (`UidsInv`). A deletion is never taken back: if the cache shows the
  present incarnation deleting, it is (`DeletingInv`); and whoever the cache shows alive
  with the finalizer still has it (`KnownInv`). Outside a clean-up, a worker whose copy
  has the finalizer works for an agent that is stored with it, and at the steps that write
  cluster-scoped objects its copy does have it (`WorkInv`). During the clean-up of the
  present incarnation the agent is deleting and no cache shows it alive, and past the
  removal of an object that object is gone or the clean-up was blind (`CleanUpInv`). The
  conflict check of the last update then turns what the worker remembers into
  what is stored. `AgentIDStable` needs only that an update is refused unless the
  stored agent is the one that was read.

  `NoWorkLost` is about objects that nothing will look at again, so its invariant says
  what a reconcile that is over has left behind. What the steps before the worker's
  own wrote (`Behind`) is there, belongs to the agent and agrees with the spec the worker
  read (`ProgInv`); an agent whose key is not queued again is known as the worker
  took it (`LinkInv`), so that the spec it worked from is the one in force when it
  stops; and an agent to which nothing brings the worker back has all that its known
  spec wants (`QuietInv`). The last report turns the second of these into the third,
  and every change to the agent queues its key. `SpecInv` (rules need an account) carries
  the RBAC steps, which an agent without an account skips.

- **`DependentsProofs`** proves every safety property of the `dependents` run, for any
  objects, names, specs, plans of users and any number of faults
  (`RuntimeAssumption`: the kinds of objects are disjoint; `SessionAssumption`,
  `TeamAssumption`, `MessageAssumption`: types, and that a team has members, as its CRD
  asks). The proofs are laid out by writer: each part of the invariant is shown to
  survive its own controller's steps and, once, everything the others and the cluster
  do (`Others`). Each rests on `ObjectsInv` and `WorkersInv`: the cache of an object
  nothing befell is current, a worker is at an object of its kind that was there, and if
  the cache has another spec by now, the key is queued again.
  `NoOrphanNamespace` needs `OrphanInv`, the argument of `OrphanInv` above for
  namespaces. `NoKeyLost` needs that an object which is undecided, both in store and in
  the cache, has its key queued, delayed or at the worker (`UndecidedInv`), and
  that a deletion the cache shows does so too (`DeletedInv`). `ActiveTeamDelegates` needs
  what the worker knows between its write to the coordinator and its own status
  (`ToldInv`), and that a team that is Active in store and cache delegates or is about
  to be looked at (`TeamsInv`). `ActiveSessionIsReady` needs the steps the worker has
  behind it (`ProgressInv`), that a namespace begins and ends with its session
  (`UnseenInv`, `EndInv`) and that what is in it is the tenant's (`TenantInv`). An edit of the
  tenant would leave the old binding (`kubecopilotsession_controller.go:298`), so the
  property is stated for sessions whose specs have one tenant (`OneTenant`).
  `UndisturbedPostedOnce` needs that whoever was handed a message
  still has it in hand, or has decided it (`PostedInv`), and that the worker's copy of an
  undisturbed message is the stored one (`MessageInv`); `MessageOutcomeIsFinal` is an
  action property, by the conflict check and `MessageInv`.

- **`ActivityChunksProofs`** proves every safety property of the `chunks` run, for any
  runs, sends and names (`ChunksAssumption`: finite sets of runs and sends, types,
  and that no send is both `invoke`'s and the browser's). `LoneRunNeverRefused` needs that
  a run never posts a number twice: all it has posted is below its counter (`PostInv`), though
  a post may time out and still be on the wire. `OutputInOrder` needs that all
  numbers printed are below the cursor (`OutputInv`); since a sorted output may have any
  length, its lemmas are about sequences without duplicates of a finite set
  (`PrintedIs`). `OnlyLateMissed` needs that the chunks of one send in store have
  different numbers (`NameInv`): of two with one number `invoke` prints one.

With this every safety property and action property of the passing runs is a
theorem; the type invariants `ServerTypeOK` (part of `ServerInv`) and `AgentTypeOK` are proved
and not checked again by the runs.

Only model-checked: the liveness properties (`NoSendLeftWaiting`, `ItemsDrain`,
`CancelSettles`, `TaskIsTold`, `ComesUp`, `DeletionCompletes`, `MessagesAreDecided`,
`SessionsEnd`, `ActivityIsShown`, `AskedIsAnswered`), since fairness and `ENABLED` are
outside what the prover handles; and the findings, which are counterexamples.

## 6. Choices and what is left out

- A cancel names its send's agent, as the web UI writes it
  (`web-ui/app/k8s_client.py:235-255`). The controller would use the cancel's own
  `agentRef`.
- A deleted send is not created again under the same name: the UI and the CLI use
  fresh random names. Cancels are not deleted: nothing in the repository does.
- The agent's phase is read from a cache that changes at any time (`ChangeAgent`);
  its own versions are not kept, since the controllers write nothing to it on this path.
- Reading the provider secret either succeeds or fails for good
  (`ProviderSends`, both outcomes possible).
- Request bodies, session configuration, texts of error messages, status conditions,
  logging and HTTP details do not affect the control flow.
- An agent of `AgentResources` is alone with its names: that two agents may share
  a cluster role's name (`namespace-name`), or a service account by
  `serviceAccountName`, is left out. Its pod is told its delegates when it is
  created and never again (`holds` of the pod).
- What a tenant or user edits inside a session namespace, and edits of a session's tenant or
  a team's coordinator, are outside `SpecsOf` in the instances; `ActiveSessionIsReady` excludes the first in its statement.
- In `Dependents` agents are `Pending` or `Running`: the controllers compare the phase
  with `Running` only. An agent's deletion counts as trouble.
- One browser with one conversation; `sessionID` appears only as "the first chunk of
  a new session carries none". Sends of the browser keep no phase, since the web UI
  never reads it. The SDK delivers no events after `session.deleted` or after the
  session was disconnected.
- Not modelled: how a glob matches a command (`containsPattern`: words and slashes as
  strings), file, model and configuration endpoints of the pod, lists, forms and the
  notification stream of the UI, the CLI's printing commands, flags and leader election of
  the manager, generated code, manifests.

## 7. Plan

Done: the request path, the background tasks, the agent controller, the small
controllers and the activity chunks. Possible next steps:

1. `SessionLifecycle` and `MessageLifecycle`: what a watcher of these objects may rely
   on, as abstract specifications that `Dependents` refines, in the manner of
   `SendLifecycle`.
2. The safety halves of the liveness properties as theorems: that a key which is
   waiting stays where something takes it up (`NoSendLeftWaiting`, `CancelSettles`), in the
   manner of `NoKeyLost`.
3. `PolicyMatch`: words and globs as short sequences, `containsPattern` against what
   `docs/policy-guardrails.md` says of patterns; with recursion over words it would stay
   with TLC.
4. Cancels with an agent of their own, and agents that share names.
