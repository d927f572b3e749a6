------------------------- MODULE ControllerRuntime -------------------------
(***************************************************************************)
(* What the small controllers of the operator share: the objects they      *)
(* watch, the informers' cache of them, the keys that wait, and one worker *)
(* for each controller (controller-runtime's default).                     *)
(*                                                                         *)
(* obj[k] is what the API server holds, known[k] what the cache holds.  An *)
(* informer learns of a change at once, except for some it learns of later *)
(* (CatchUp).  An agent is an object that the others refer to by name: it  *)
(* may be missing, and its own controller is AgentResources.               *)
(***************************************************************************)
EXTENDS Integers, FiniteSets, Sequences

CONSTANTS
  Agents, Sessions, Teams, Messages, ToolServers,   \* names, as keys
  SpecsOf,          \* the specs that users give to each key
  NoSpec,           \* the spec of what is not there
  Plans,            \* bound: the agents that are there and the objects that users
                    \* create, in a behaviour
  MaxTrouble        \* bound: changes that an informer learns of late, edits,
                    \* agents that change, failed calls, lost namespaces, restarts

Watched == Sessions \cup Teams \cup Messages \cup ToolServers
Keys == Agents \cup Watched
(* The spec of an agent is its delegateTo. *)
Delegates == Seq(Agents)

ASSUME RuntimeAssumption ==
  /\ Watched # {}
  /\ Agents \cap Watched = {}
  /\ Sessions \cap (Teams \cup Messages \cup ToolServers) = {}
  /\ Teams \cap (Messages \cup ToolServers) = {}
  /\ Messages \cap ToolServers = {}
  /\ DOMAIN SpecsOf = Keys
  /\ \A a \in Agents : SpecsOf[a] \subseteq Delegates
  /\ Plans \subseteq [agents : SUBSET Agents, create : SUBSET Keys]
  /\ \A p \in Plans : p.agents \cap p.create = {}
  /\ MaxTrouble \in Nat

VARIABLES
  obj, known,       \* the objects; the operator's cache of them
  plan,             \* the objects users are still going to create
  queue,            \* keys waiting for a worker
  timers,           \* keys that come back: RequeueAfter, or an error
  work,             \* what the worker of each controller is doing
  trouble,          \* counted against its bound
  disturbed         \* history: keys that anything of that befell

queueVars == <<queue, timers, work>>
runtimeVars == <<obj, known, plan, queueVars, trouble, disturbed>>

Controllers == {"session", "team", "message", "toolserver"}
Phases == {"", "Active", "Terminating", "Available", "Pending", "Running",
           "Done", "Error"}

(* metadata, spec and status. *)
Missing == [there |-> FALSE, deleting |-> FALSE, finalizer |-> FALSE, spec |-> NoSpec, phase |-> ""]
Objects(specs) == [there : {TRUE}, deleting : BOOLEAN, finalizer : BOOLEAN, spec : specs, phase : Phases]
ObjectsOf(k) == Objects(IF k \in Agents THEN Delegates ELSE SpecsOf[k]) \cup {Missing}
Object(deleting, finalizer, spec, phase) ==
  [there |-> TRUE, deleting |-> deleting, finalizer |-> finalizer, spec |-> spec, phase |-> phase]
Fresh(spec) == Object(FALSE, FALSE, spec, "")
WithPhase(o, phase) == Object(o.deleting, o.finalizer, o.spec, phase)
WithSpec(o, spec) == Object(o.deleting, o.finalizer, spec, o.phase)
WithFinalizer(o, finalizer) == Object(o.deleting, finalizer, o.spec, o.phase)

Steps == {"idle", "begin", "read", "namespace", "policy", "role", "binding", "active",
          "terminating", "remove", "unfin", "delegate", "call", "wait", "error", "done"}
(* mine: the object as the worker has it in memory. *)
At(step, k, mine) == [step |-> step, key |-> k, mine |-> mine]
Idle == At("idle", CHOOSE k \in Watched : TRUE, Missing)

RuntimeTypeOK ==
  /\ obj = [k \in Keys |-> obj[k]] /\ known = [k \in Keys |-> known[k]]
  /\ \A k \in Keys : obj[k] \in ObjectsOf(k) /\ known[k] \in ObjectsOf(k)
  /\ plan \subseteq Keys
  /\ queue \subseteq Watched /\ timers \subseteq Watched
  /\ work = [c \in Controllers |-> work[c]]
  /\ \A c \in Controllers : \E k \in Watched : work[c] \in [step : Steps, key : {k}, mine : ObjectsOf(k)]
  /\ trouble \in 0..MaxTrouble
  /\ disturbed \subseteq Keys

(* Some agents have been there for long. *)
RuntimeInit ==
  /\ \E p \in Plans :
       /\ plan = p.create
       /\ obj = [k \in Keys |-> IF k \in p.agents THEN WithPhase(Fresh(<<>>), "Running") ELSE Missing]
  /\ known = obj
  /\ queue = {} /\ timers = {}
  /\ work = [c \in Controllers |-> Idle]
  /\ trouble = 0 /\ disturbed = {}

-----------------------------------------------------------------------------
Spend(n) == trouble + n <= MaxTrouble /\ trouble' = trouble + n

Wake(k) == queue' = queue \cup ({k} \cap Watched)

(* The API server stores o; the informer sees it now or, within the bound, *)
(* later.  A write that changes nothing is no event.  n is what the write  *)
(* itself counts for against the bound.                                    *)
Put(k, o, n) ==
  /\ obj' = [obj EXCEPT ![k] = o]
  /\ \/ o = obj[k] /\ Spend(n) /\ UNCHANGED <<known, queue>>
     \/ o # obj[k] /\ Spend(n) /\ known' = [known EXCEPT ![k] = o] /\ Wake(k)
     \/ o # obj[k] /\ Spend(n + 1) /\ UNCHANGED <<known, queue>>
  /\ disturbed' = IF trouble' = trouble THEN disturbed ELSE disturbed \cup {k}

CatchUp(k) ==
  /\ known[k] # obj[k]
  /\ known' = [known EXCEPT ![k] = obj[k]] /\ Wake(k)
  /\ UNCHANGED <<obj, plan, timers, work, trouble, disturbed>>

(* Users, and for an agent its own controller. *)
CreateObject(k) ==
  /\ k \in plan
  /\ plan' = plan \ {k}
  /\ \E spec \in SpecsOf[k] : Put(k, Fresh(spec), 0)
  /\ UNCHANGED <<timers, work>>

EditObject(k) ==
  /\ obj[k].there
  /\ \E spec \in SpecsOf[k] : Put(k, WithSpec(obj[k], spec), 1)
  /\ UNCHANGED <<plan, timers, work>>

(* A deletion waits for the finalizer.  Agents are not deleted for nothing. *)
DeleteObject(k) ==
  /\ obj[k].there /\ ~obj[k].deleting
  /\ Put(k, IF obj[k].finalizer THEN Object(TRUE, TRUE, obj[k].spec, obj[k].phase) ELSE Missing,
         IF k \in Agents THEN 1 ELSE 0)
  /\ UNCHANGED <<plan, timers, work>>

ReportAgent(k) ==
  /\ k \in Agents /\ obj[k].there
  /\ \E phase \in {"Pending", "Running"} \ {obj[k].phase} :
       Put(k, WithPhase(obj[k], phase), IF obj[k].phase = "Running" THEN 1 ELSE 0)
  /\ UNCHANGED <<plan, timers, work>>

FireTimer(k) ==
  /\ k \in timers
  /\ timers' = timers \ {k} /\ queue' = queue \cup {k}
  /\ UNCHANGED <<obj, known, plan, work, trouble, disturbed>>

(* A new operator process lists everything afresh and queues each object. *)
RestartRuntime ==
  /\ Spend(1)
  /\ known' = obj
  /\ queue' = {k \in Watched : obj[k].there} /\ timers' = {}
  /\ work' = [c \in Controllers |-> Idle]
  /\ disturbed' = disturbed \cup {work[c].key : c \in {d \in Controllers : work[d].step # "idle"}}
  /\ UNCHANGED <<obj, plan>>

-----------------------------------------------------------------------------
(* Parts of the reconcilers.  The worker of controller c holds the object  *)
(* it read from the cache.                                                 *)
Me(c) == work[c].key
Mine(c) == work[c].mine

(* The worker takes a key and begins at a step, or has nothing to do. *)
Begin(c, k, step) ==
  /\ work[c].step = "idle"
  /\ k \in queue /\ queue' = queue \ {k}
  /\ work' = [work EXCEPT ![c] = IF step = "idle" THEN Idle ELSE At(step, k, known[k])]
  /\ UNCHANGED <<obj, known, plan, timers, trouble, disturbed>>

NoCall == UNCHANGED <<obj, known, plan, queue, disturbed>>
NoWrite == NoCall /\ UNCHANGED trouble
GoOn(c, step, o) == work' = [work EXCEPT ![c] = At(step, Me(c), o)] /\ UNCHANGED timers
Return(c) == work' = [work EXCEPT ![c] = Idle] /\ UNCHANGED timers
Requeue(c) == work' = [work EXCEPT ![c] = Idle] /\ timers' = timers \cup {Me(c)}

(* Update and Status().Update: refused when the stored object is no longer *)
(* the one that was read.                                                  *)
Unchanged(c) == obj[Me(c)] = Mine(c)
Update(c, o) == Unchanged(c) /\ Put(Me(c), o, 0) /\ UNCHANGED plan
Conflict(c) == ~Unchanged(c) /\ NoWrite /\ Requeue(c)
UpdateAndReturn(c, o) == (Update(c, o) /\ Return(c)) \/ Conflict(c)
UpdateAndGoOn(c, o, step) == (Update(c, o) /\ GoOn(c, step, o)) \/ Conflict(c)

(* Mutant: the error is logged and not returned. *)
CallFailsQuietly(c) ==
  /\ work[c].step # "idle"
  /\ Spend(1) /\ Return(c)
  /\ disturbed' = disturbed \cup {Me(c)}
  /\ UNCHANGED <<obj, known, plan, queue>>

(* A call to the API server fails, and the reconcile with it. *)
CallFails(c) ==
  /\ work[c].step # "idle"
  /\ Spend(1) /\ Requeue(c)
  /\ disturbed' = disturbed \cup {Me(c)}
  /\ UNCHANGED <<obj, known, plan, queue>>

RuntimeStep ==
  \/ \E k \in Keys : CatchUp(k) \/ CreateObject(k) \/ EditObject(k) \/ DeleteObject(k) \/ ReportAgent(k)
  \/ \E k \in Watched : FireTimer(k)

(* An object nothing would bring a worker back to. *)
Settled(k) ==
  /\ obj[k].there /\ known[k] = obj[k]
  /\ k \notin queue \cup timers
  /\ \A c \in Controllers : work[c].step = "idle" \/ Me(c) # k
=============================================================================
