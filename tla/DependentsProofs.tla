-------------------------- MODULE DependentsProofs --------------------------
(***************************************************************************)
(* Proofs about Dependents: types, and the safety properties of sessions,  *)
(* teams, messages and tool servers, for any objects, specs, plans and     *)
(* bounds.                                                                 *)
(***************************************************************************)
EXTENDS DependentsInv, TLAPS

-----------------------------------------------------------------------------
(* Keys, objects and workers. *)

LEMMA KeysAre ==
  /\ Keys = Agents \cup Watched /\ Agents \cap Watched = {}
  /\ Sessions \subseteq Watched /\ Teams \subseteq Watched
  /\ Messages \subseteq Watched /\ ToolServers \subseteq Watched
BY RuntimeAssumption DEF Keys, Watched

LEMMA KindsAre ==
  /\ KeysOf["session"] = Sessions /\ KeysOf["team"] = Teams
  /\ KeysOf["message"] = Messages /\ KeysOf["toolserver"] = ToolServers
  /\ StepsOf["session"] = {"idle", "begin"} \cup Building \cup CleanUp
  /\ StepsOf["team"] = {"idle", "begin", "delegate", "active"}
  /\ StepsOf["message"] = {"idle", "begin", "call", "wait", "error", "done"}
  /\ StepsOf["toolserver"] = {"idle", "begin"}
<1>1. /\ "session" \in Controllers /\ "team" \in Controllers
      /\ "message" \in Controllers /\ "toolserver" \in Controllers
  BY DEF Controllers
<1> QED
  BY <1>1 DEF KeysOf, StepsOf

LEMMA KindsApart ==
  ASSUME NEW c \in Controllers, NEW d \in Controllers, NEW k \in KeysOf[c], k \in KeysOf[d]
  PROVE  c = d
BY KindsAre, RuntimeAssumption DEF Controllers

LEMMA KindWatched ==
  ASSUME NEW c \in Controllers
  PROVE  KeysOf[c] \subseteq Watched
BY KindsAre, KeysAre DEF Controllers

LEMMA MissingIs ==
  /\ Missing.there = FALSE /\ Missing.deleting = FALSE /\ Missing.finalizer = FALSE
  /\ Missing.phase = "" /\ Missing.spec = NoSpec
BY DEF Missing

LEMMA ObjectTyped ==
  ASSUME NEW k \in Keys, NEW o \in ObjectsOf(k)
  PROVE  /\ o.there \in BOOLEAN /\ o.deleting \in BOOLEAN /\ o.finalizer \in BOOLEAN
         /\ o.phase \in Phases
         /\ o.there \/ o = Missing
         /\ o.there /\ k \in Watched => o.spec \in SpecsOf[k]
         /\ o.there /\ k \in Agents => o.spec \in Delegates
         /\ o.there => o = Object(o.deleting, o.finalizer, o.spec, o.phase)
<1>1. CASE o = Missing
  BY <1>1, MissingIs DEF Phases
<1>2. CASE o # Missing
  <2>1. o \in Objects(IF k \in Agents THEN Delegates ELSE SpecsOf[k])
    BY <1>2 DEF ObjectsOf
  <2> QED
    BY <2>1, KeysAre DEF Objects, Object
<1> QED
  BY <1>1, <1>2

LEMMA MadeTyped ==
  ASSUME NEW k \in Keys, NEW deleting \in BOOLEAN, NEW finalizer \in BOOLEAN,
         NEW spec \in (IF k \in Agents THEN Delegates ELSE SpecsOf[k]), NEW phase \in Phases
  PROVE  Object(deleting, finalizer, spec, phase) \in ObjectsOf(k)
BY DEF Object, ObjectsOf, Objects

LEMMA SpecTyped ==
  ASSUME NEW k \in Keys
  PROVE  SpecsOf[k] \subseteq (IF k \in Agents THEN Delegates ELSE SpecsOf[k])
BY RuntimeAssumption

(* What the operators on objects change. *)
LEMMA MadeIs ==
  ASSUME NEW deleting, NEW finalizer, NEW spec, NEW phase
  PROVE  LET o == Object(deleting, finalizer, spec, phase) IN
         /\ o.there /\ o.deleting = deleting /\ o.finalizer = finalizer
         /\ o.spec = spec /\ o.phase = phase
BY DEF Object

LEMMA ChangedTyped ==
  ASSUME NEW k \in Keys, NEW o \in ObjectsOf(k), o.there
  PROVE  /\ \A phase \in Phases : WithPhase(o, phase) \in ObjectsOf(k)
         /\ \A finalizer \in BOOLEAN : WithFinalizer(o, finalizer) \in ObjectsOf(k)
         /\ \A spec \in SpecsOf[k] : WithSpec(o, spec) \in ObjectsOf(k)
         /\ k \in Agents => \A spec \in Delegates : WithSpec(o, spec) \in ObjectsOf(k)
         /\ \A deleting, finalizer \in BOOLEAN : Object(deleting, finalizer, o.spec, o.phase) \in ObjectsOf(k)
<1>1. /\ o.deleting \in BOOLEAN /\ o.finalizer \in BOOLEAN /\ o.phase \in Phases
      /\ o.spec \in (IF k \in Agents THEN Delegates ELSE SpecsOf[k])
  BY ObjectTyped, KeysAre
<1> QED
  BY <1>1, MadeTyped, SpecTyped DEF WithPhase, WithFinalizer, WithSpec

LEMMA FreshIs ==
  ASSUME NEW spec
  PROVE  /\ Fresh(spec).there /\ ~Fresh(spec).deleting /\ ~Fresh(spec).finalizer
         /\ Fresh(spec).spec = spec /\ Fresh(spec).phase = ""
BY DEF Fresh, Object

LEMMA WorkTyped ==
  ASSUME RuntimeTypeOK, NEW c \in Controllers
  PROVE  /\ Me(c) \in Watched /\ Me(c) \in Keys /\ Mine(c) \in ObjectsOf(Me(c))
         /\ work[c].step \in Steps /\ work[c] = At(work[c].step, Me(c), Mine(c))
<1>1. PICK k \in Watched : work[c] \in [step : Steps, key : {k}, mine : ObjectsOf(k)]
  BY DEF RuntimeTypeOK
<1>2. Me(c) = k
  BY <1>1 DEF Me
<1> QED
  BY <1>1, <1>2, KeysAre DEF Me, Mine, At

LEMMA AtTyped ==
  ASSUME NEW step \in Steps, NEW k \in Watched, NEW o \in ObjectsOf(k)
  PROVE  /\ At(step, k, o) \in [step : Steps, key : {k}, mine : ObjectsOf(k)]
         /\ At(step, k, o).step = step /\ At(step, k, o).key = k /\ At(step, k, o).mine = o
BY DEF At

LEMMA IdleTyped ==
  /\ Idle.step = "idle"
  /\ \E k \in Watched : Idle \in [step : Steps, key : {k}, mine : ObjectsOf(k)]
<1> DEFINE k == CHOOSE j \in Watched : TRUE
<1>1. k \in Watched
  BY RuntimeAssumption
<1>2. "idle" \in Steps /\ Missing \in ObjectsOf(k)
  BY DEF Steps, ObjectsOf
<1>3. Idle = At("idle", k, Missing)
  BY DEF Idle
<1> HIDE DEF k
<1> QED
  BY <1>1, <1>2, <1>3, AtTyped

-----------------------------------------------------------------------------
(* What the steps do to the objects, the cache and the workers: each has   *)
(* one of a few effects.                                                   *)

(* An object is stored, and the cache shows it now or later. *)
Stored(k, o) ==
  /\ obj' = [obj EXCEPT ![k] = o]
  /\ \/ known' = known /\ queue' = queue
     \/ known' = [known EXCEPT ![k] = o] /\ queue' = queue \cup ({k} \cap Watched)
  /\ disturbed' \in {disturbed, disturbed \cup {k}}
  /\ k \in disturbed' \/ known'[k] = o \/ (known' = known /\ o = obj[k])

(* Users, and for an agent its own controller. *)
UserWrites(k, o) ==
  /\ Stored(k, o) /\ UNCHANGED <<timers, work>>
  /\ \/ k \in plan /\ plan' = plan \ {k} /\ \E spec \in SpecsOf[k] : o = Fresh(spec)
     \/ /\ plan' = plan /\ obj[k].there /\ k \in disturbed'
        /\ \E spec \in SpecsOf[k] : o = WithSpec(obj[k], spec)
     \/ /\ plan' = plan /\ obj[k].there /\ ~obj[k].deleting /\ (k \in Agents => k \in disturbed')
        /\ o = IF obj[k].finalizer THEN Object(TRUE, TRUE, obj[k].spec, obj[k].phase) ELSE Missing
     \/ /\ plan' = plan /\ obj[k].there /\ k \in Agents
        /\ \E phase \in Phases : o = WithPhase(obj[k], phase)

AllSame == UNCHANGED <<obj, known, plan, queue, timers, work, disturbed>>

(* A worker takes a key, passes on, gives up, or writes its own object and *)
(* goes on (step) or returns ("idle").                                     *)
Marks(c) == disturbed' \in {disturbed, disturbed \cup {Me(c)}}
Passes(c, step) ==
  /\ Busy(c) /\ step # "idle" /\ Marks(c)
  /\ UNCHANGED <<obj, known, plan, queue, timers>>
  /\ work' = [work EXCEPT ![c] = At(step, Me(c), Mine(c))]
GivesUp(c) ==
  /\ Busy(c) /\ Marks(c)
  /\ UNCHANGED <<obj, known, plan, queue>>
  /\ work' = [work EXCEPT ![c] = Idle] /\ timers' = timers \cup {Me(c)}
Writes(c, o, step) ==
  /\ Busy(c)
  /\ obj[Me(c)] = Mine(c) /\ Stored(Me(c), o) /\ UNCHANGED <<plan, timers>>
  /\ work' = [work EXCEPT ![c] = IF step = "idle" THEN Idle ELSE At(step, Me(c), o)]

LEMMA SpendTyped ==
  ASSUME RuntimeTypeOK, NEW n \in Nat, Spend(n)
  PROVE  /\ trouble' \in 0..MaxTrouble
         /\ n > 0 => trouble' # trouble
<1>1. MaxTrouble \in Nat
  BY RuntimeAssumption
<1> QED
  BY <1>1 DEF RuntimeTypeOK, Spend

LEMMA PutStores ==
  ASSUME RuntimeTypeOK, NEW k \in Keys, NEW o, NEW n \in Nat, Put(k, o, n)
  PROVE  /\ Stored(k, o) /\ trouble' \in 0..MaxTrouble
         /\ n > 0 => k \in disturbed'
<1>1. n + 1 \in Nat /\ n + 1 > 0
  OBVIOUS
<1>2. trouble' \in 0..MaxTrouble /\ (n > 0 => trouble' # trouble)
  BY <1>1, SpendTyped DEF Put
<1>3. /\ obj' = [obj EXCEPT ![k] = o]
      /\ disturbed' = IF trouble' = trouble THEN disturbed ELSE disturbed \cup {k}
  BY DEF Put
<1>4. CASE o = obj[k] /\ Spend(n) /\ UNCHANGED <<known, queue>>
  BY <1>2, <1>3, <1>4 DEF Stored
<1>5. CASE o # obj[k] /\ Spend(n) /\ known' = [known EXCEPT ![k] = o] /\ Wake(k)
  <2>1. known'[k] = o
    BY <1>5 DEF RuntimeTypeOK
  <2> QED
    BY <1>2, <1>3, <1>5, <2>1 DEF Stored, Wake
<1>6. CASE o # obj[k] /\ Spend(n + 1) /\ UNCHANGED <<known, queue>>
  <2>1. trouble' # trouble
    BY <1>1, <1>6, SpendTyped
  <2> QED
    BY <1>2, <1>3, <1>6, <2>1 DEF Stored
<1> QED
  BY <1>4, <1>5, <1>6 DEF Put

LEMMA StoredIs ==
  ASSUME RuntimeTypeOK, NEW k \in Keys, NEW o, Stored(k, o)
  PROVE  /\ obj'[k] = o
         /\ \A j \in Keys \ {k} : obj'[j] = obj[j] /\ known'[j] = known[j]
         /\ known'[k] = known[k] \/ (known'[k] = o /\ (k \in Watched => k \in queue'))
         /\ queue \subseteq queue' /\ queue' \subseteq queue \cup ({k} \cap Watched)
         /\ disturbed \subseteq disturbed' /\ disturbed' \subseteq disturbed \cup {k}
         /\ k \in disturbed' \/ known'[k] = obj'[k] \/ (known'[k] = known[k] /\ o = obj[k])
BY DEF Stored, RuntimeTypeOK

(* The worker of a controller after a step, and the others. *)
LEMMA NowAt ==
  ASSUME RuntimeTypeOK, NEW c \in Controllers, NEW step, NEW k, NEW o,
         work' = [work EXCEPT ![c] = At(step, k, o)]
  PROVE  /\ work'[c].step = step /\ Me(c)' = k /\ Mine(c)' = o
         /\ \A d \in Controllers \ {c} : work'[d] = work[d]
         /\ Busy(c)' <=> step # "idle"
BY DEF RuntimeTypeOK, At, Me, Mine, Busy

LEMMA NowIdle ==
  ASSUME RuntimeTypeOK, NEW c \in Controllers, work' = [work EXCEPT ![c] = Idle]
  PROVE  /\ work'[c].step = "idle" /\ ~Busy(c)'
         /\ \A d \in Controllers \ {c} : work'[d] = work[d]
BY IdleTyped DEF RuntimeTypeOK, Busy

LEMMA OthersSame ==
  ASSUME NEW d \in Controllers, work'[d] = work[d]
  PROVE  Me(d)' = Me(d) /\ Mine(d)' = Mine(d) /\ (Busy(d)' <=> Busy(d)) /\ work'[d].step = work[d].step
BY DEF Me, Mine, Busy

(* What an update by a worker keeps of its object. *)
Kept(o, p) ==
  p.there /\ p.spec = o.spec /\ p.deleting = o.deleting /\ (o.finalizer => p.finalizer)
Updates(c, o, step) ==
  /\ Writes(c, o, step) /\ step \in StepsOf[c]
  /\ o \in ObjectsOf(Me(c)) /\ WellFormed(Me(c), o)
  /\ Kept(Mine(c), o) \/ (c = "session" /\ o = Missing /\ step = "idle")
  /\ step = "idle" => o = Missing \/ o.phase \in Verdicts
Takes(c, k, step) ==
  /\ Begin(c, k, step) /\ k \in KeysOf[c] /\ step \in StepsOf[c]
  /\ IF step = "idle" THEN ~known[k].there \/ known[k].phase \in Verdicts ELSE known[k].there
(* A team writes its coordinator. *)
Tells(a) ==
  /\ a \in Agents /\ Busy("team") /\ team.spec \in TeamSpec /\ a = coordinator
  /\ known[a].there /\ obj[a] = known[a]
  /\ Stored(a, WithSpec(known[a], team.spec.members)) /\ UNCHANGED <<plan, timers>>
  /\ work' = [work EXCEPT !["team"] = At("active", Me("team"), Mine("team"))]

Effect ==
  \/ \E k \in Keys : \E o \in ObjectsOf(k) : UserWrites(k, o)
  \/ \E k \in Keys : CatchUp(k)
  \/ \E k \in Watched : FireTimer(k)
  \/ RestartRuntime
  \/ AllSame
  \/ \E c \in Controllers :
       \/ \E k \in Watched, step \in Steps : Takes(c, k, step)
       \/ \E step \in StepsOf[c] : Passes(c, step)
       \/ GivesUp(c)
       \/ \E o, step : Updates(c, o, step)
  \/ \E a \in Agents : Tells(a)

(* Types, what is created, and the workers: what the rest builds upon. *)
Base == RuntimeTypeOK /\ ObjectsInv /\ WorkersInv

LEMMA StepsTyped == \A c \in Controllers : StepsOf[c] \subseteq Steps
BY KindsAre DEF Controllers, Steps, Building, CleanUp

LEMMA BusyIs ==
  ASSUME Base, NEW c \in Controllers, Busy(c)
  PROVE  /\ Me(c) \in KeysOf[c] /\ Me(c) \notin plan /\ Me(c) \in Watched /\ Me(c) \in Keys
         /\ Mine(c) \in ObjectsOf(Me(c)) /\ Mine(c).there /\ WellFormed(Me(c), Mine(c))
         /\ Mine(c).spec \in SpecsOf[Me(c)]
BY WorkTyped, ObjectTyped DEF Base, WorkersInv

(* The parts of the reconcilers have these effects. *)
LEMMA GoOnPasses ==
  ASSUME Base, NEW c \in Controllers, Busy(c), NEW step, step # "idle",
         NoWrite, GoOn(c, step, Mine(c))
  PROVE  Passes(c, step)
BY DEF NoWrite, NoCall, GoOn, Passes, Marks

LEMMA RequeueGivesUp ==
  ASSUME Base, NEW c \in Controllers, Busy(c), NoWrite, Requeue(c)
  PROVE  GivesUp(c)
BY DEF NoWrite, NoCall, Requeue, GivesUp, Marks

LEMMA CallFailsGivesUp ==
  ASSUME Base, NEW c \in Controllers, CallFails(c)
  PROVE  GivesUp(c) /\ trouble' \in 0..MaxTrouble
BY SpendTyped, 1 \in Nat DEF CallFails, Requeue, GivesUp, Marks, Busy, Base

LEMMA UpdateWrites ==
  ASSUME Base, NEW c \in Controllers, Busy(c), NEW o, Update(c, o)
  PROVE  /\ obj[Me(c)] = Mine(c) /\ Stored(Me(c), o) /\ UNCHANGED plan
         /\ trouble' \in 0..MaxTrouble
BY PutStores, BusyIs, 0 \in Nat DEF Base, Update, Unchanged

LEMMA ReturnEffect ==
  ASSUME Base, NEW c \in Controllers, Busy(c), NEW o, UpdateAndReturn(c, o)
  PROVE  /\ GivesUp(c) \/ Writes(c, o, "idle")
         /\ trouble' \in 0..MaxTrouble
<1>1. CASE Update(c, o) /\ Return(c)
  BY <1>1, UpdateWrites DEF Return, Writes
<1>2. CASE Conflict(c)
  BY <1>2, RequeueGivesUp DEF Conflict, NoWrite, Base, RuntimeTypeOK
<1> QED
  BY <1>1, <1>2 DEF UpdateAndReturn

LEMMA GoOnEffect ==
  ASSUME Base, NEW c \in Controllers, Busy(c), NEW o, NEW step, step # "idle",
         UpdateAndGoOn(c, o, step)
  PROVE  /\ GivesUp(c) \/ Writes(c, o, step)
         /\ trouble' \in 0..MaxTrouble
<1>1. CASE Update(c, o) /\ GoOn(c, step, o)
  BY <1>1, UpdateWrites DEF GoOn, Writes
<1>2. CASE Conflict(c)
  BY <1>2, RequeueGivesUp DEF Conflict, NoWrite, Base, RuntimeTypeOK
<1> QED
  BY <1>1, <1>2 DEF UpdateAndGoOn

LEMMA PhaseKept ==
  ASSUME Base, NEW c \in Controllers, Busy(c), NEW phase \in Phases
  PROVE  /\ WithPhase(Mine(c), phase) \in ObjectsOf(Me(c))
         /\ WellFormed(Me(c), WithPhase(Mine(c), phase))
         /\ Kept(Mine(c), WithPhase(Mine(c), phase))
         /\ WithPhase(Mine(c), phase).phase = phase
BY BusyIs, ChangedTyped, MadeIs DEF WithPhase, WellFormed, Kept

LEMMA FinalizerKept ==
  ASSUME Base, Busy("session")
  PROVE  LET o == WithFinalizer(Mine("session"), TRUE) IN
         /\ o \in ObjectsOf(Me("session")) /\ WellFormed(Me("session"), o)
         /\ Kept(Mine("session"), o) /\ o.finalizer /\ o.phase = Mine("session").phase
<1>1. "session" \in Controllers
  BY DEF Controllers
<1>2. Me("session") \in Sessions /\ Me("session") \in Keys
      /\ Mine("session") \in ObjectsOf(Me("session")) /\ Mine("session").there
  BY <1>1, BusyIs, KindsAre
<1>3. WithFinalizer(Mine("session"), TRUE) \in ObjectsOf(Me("session"))
  BY <1>2, ChangedTyped
<1> QED
  BY <1>2, <1>3 DEF WithFinalizer, Object, WellFormed, Kept

LEMMA PhaseUpdates ==
  ASSUME Base, NEW c \in Controllers, Busy(c), NEW phase \in Phases, NEW step \in StepsOf[c],
         Writes(c, WithPhase(Mine(c), phase), step), step = "idle" => phase \in Verdicts
  PROVE  Updates(c, WithPhase(Mine(c), phase), step)
BY PhaseKept DEF Updates

LEMMA PutOnlyTrouble ==
  ASSUME Base, NEW n, NEW o, NEW m \in Nat, PutNamespace(n, o, m)
  PROVE  trouble' \in 0..MaxTrouble
<1>1. m + 1 \in Nat
  OBVIOUS
<1> QED
  BY <1>1, SpendTyped DEF Base, PutNamespace

Works(c) ==
  \/ \E step \in StepsOf[c] : Passes(c, step)
  \/ GivesUp(c)
  \/ \E o, step : Updates(c, o, step)
TroubleTyped == trouble' \in 0..MaxTrouble

LEMMA NoWriteTyped ==
  ASSUME Base, NoWrite
  PROVE  TroubleTyped
BY DEF Base, RuntimeTypeOK, NoWrite, TroubleTyped

LEMMA SkipEffect ==
  ASSUME Base, NEW next, next # "idle", NEW there, Busy("session"), Skip(next, there)
  PROVE  Passes("session", next) /\ TroubleTyped
BY GoOnPasses, NoWriteTyped DEF Skip, mine, Controllers

LEMMA CreateInEffect ==
  ASSUME Base, NEW o, NEW allowed, NEW next, next # "idle", Busy("session"), CreateIn(o, allowed, next)
  PROVE  (Passes("session", next) \/ GivesUp("session")) /\ TroubleTyped
<1>1. "session" \in Controllers
  BY DEF Controllers
<1>2. CASE NoWrite /\ Requeue("session")
  BY <1>1, <1>2, RequeueGivesUp, NoWriteTyped
<1>3. CASE /\ PutNamespace(myName, o, 0) /\ UNCHANGED <<obj, known, plan, queue, disturbed>>
           /\ GoOn("session", next, mine)
  BY <1>1, <1>3, PutOnlyTrouble, 0 \in Nat DEF GoOn, Passes, Marks, mine, TroubleTyped
<1> QED
  BY <1>2, <1>3 DEF CreateIn

(* The steps of the worker of the sessions. *)
SessionMove ==
  \/ GivesUp("session")
  \/ \E next :
       /\ Passes("session", next)
       /\ \/ AtStep("begin") /\ next = "read" /\ mine.finalizer
          \/ work["session"].step \in Building /\ next \in Building
          \/ AtStep("remove") /\ next = "unfin" /\ (stored.state = "none" \/ myName \in blind')
  \/ \E o :
       /\ Kept(mine, o)
       /\ \/ AtStep("begin") /\ o.finalizer /\ Updates("session", o, "read")
          \/ AtStep("terminating") /\ o.phase = "Terminating" /\ Updates("session", o, "remove")
          \/ /\ work["session"].step \in Building /\ Updates("session", o, "idle")
             /\ o.phase = "Error" \/ (AtStep("active") /\ o.phase = "Active")
  \/ AtStep("unfin") /\ Updates("session", Missing, "idle")

LEMMA SessionEffect ==
  ASSUME Base, ReconcileSession
  PROVE  SessionMove /\ TroubleTyped
<1>c. "session" \in Controllers
  BY DEF Controllers
<1>s. /\ {"begin", "read", "namespace", "policy", "role", "binding", "active", "terminating",
           "remove", "unfin", "idle"} \subseteq StepsOf["session"]
      /\ {"Error", "Active", "Terminating"} \subseteq Phases /\ {"Error", "Active"} \subseteq Verdicts
      /\ Building = {"read", "namespace", "policy", "role", "binding", "active"}
  BY KindsAre DEF Building, CleanUp, Phases, Verdicts
<1>1. CASE AddSessionFinalizer
  <2>1. Busy("session") /\ AtStep("begin")
    BY <1>1 DEF AddSessionFinalizer, AtStep, Busy
  <2>2. CASE mine.finalizer /\ NoWrite /\ GoOn("session", "read", mine)
    BY <1>c, <2>1, <2>2, GoOnPasses, NoWriteTyped DEF SessionMove, mine
  <2>3. CASE UpdateAndGoOn("session", WithFinalizer(mine, TRUE), "read")
    <3>1. /\ GivesUp("session") \/ Writes("session", WithFinalizer(mine, TRUE), "read")
          /\ TroubleTyped
      BY <1>c, <2>1, <2>3, GoOnEffect DEF TroubleTyped
    <3>2. /\ WithFinalizer(mine, TRUE) \in ObjectsOf(me) /\ WellFormed(me, WithFinalizer(mine, TRUE))
          /\ Kept(mine, WithFinalizer(mine, TRUE)) /\ WithFinalizer(mine, TRUE).finalizer
      BY <2>1, FinalizerKept DEF me, mine
    <3> QED
      BY <1>s, <2>1, <3>1, <3>2 DEF SessionMove, Updates, me, mine
  <2> QED
    BY <1>1, <2>2, <2>3 DEF AddSessionFinalizer
<1>2. CASE CheckSessionAgent
  <2>1. Busy("session") /\ work["session"].step = "read"
    BY <1>2 DEF CheckSessionAgent, AtStep, Busy
  <2>2. CASE NoWrite /\ GoOn("session", "namespace", mine)
    BY <1>c, <1>s, <2>1, <2>2, GoOnPasses, NoWriteTyped DEF SessionMove, mine
  <2>3. CASE UpdateAndReturn("session", WithPhase(mine, "Error"))
    BY <1>c, <1>s, <2>1, <2>3, ReturnEffect, PhaseUpdates, PhaseKept DEF SessionMove, TroubleTyped, mine
  <2> QED
    BY <1>2, <2>2, <2>3 DEF CheckSessionAgent
<1>3. CASE ensureNamespace \/ ensureNetworkPolicy \/ EnsureTenantRole \/ EnsureTenantBinding
  <2>1. Busy("session") /\ work["session"].step \in Building
    BY <1>s, <1>3 DEF ensureNamespace, ensureNetworkPolicy, EnsureTenantRole, EnsureTenantBinding, AtStep, Busy
  <2>2. \E next \in {"policy", "role", "binding", "active"} :
          \/ \E there : Skip(next, there)
          \/ \E o, allowed : CreateIn(o, allowed, next)
    BY <1>3 DEF ensureNamespace, ensureNetworkPolicy, EnsureTenantRole, EnsureTenantBinding
  <2> QED
    BY <1>s, <2>1, <2>2, SkipEffect, CreateInEffect DEF SessionMove
<1>4. CASE RemoveNetworkPolicy
  <2>1. Busy("session") /\ work["session"].step \in Building
    BY <1>s, <1>4 DEF RemoveNetworkPolicy, AtStep, Busy
  <2>2. CASE Skip("role", ~stored.policy)
    BY <1>s, <2>1, <2>2, SkipEffect DEF SessionMove
  <2>3. CASE /\ PutNamespace(myName, WithPolicy(stored, FALSE), 0)
             /\ UNCHANGED <<obj, known, plan, queue, disturbed, misled, blind>>
             /\ GoOn("session", "role", mine)
    <3>1. Passes("session", "role") /\ TroubleTyped
      BY <2>1, <2>3, PutOnlyTrouble, 0 \in Nat DEF GoOn, Passes, Marks, mine, TroubleTyped
    <3> QED
      BY <1>s, <2>1, <3>1 DEF SessionMove
  <2> QED
    BY <1>4, <2>2, <2>3 DEF RemoveNetworkPolicy
<1>5. CASE ActivateSession
  <2>1. Busy("session") /\ AtStep("active") /\ work["session"].step \in Building
    BY <1>s, <1>5 DEF ActivateSession, AtStep, Busy
  <2> QED
    BY <1>c, <1>s, <1>5, <2>1, ReturnEffect, PhaseUpdates, PhaseKept
       DEF ActivateSession, SessionMove, TroubleTyped, mine
<1>6. CASE MarkTerminating
  <2>1. Busy("session") /\ AtStep("terminating")
    BY <1>6 DEF MarkTerminating, AtStep, Busy
  <2> QED
    BY <1>c, <1>s, <1>6, <2>1, GoOnEffect, PhaseUpdates, PhaseKept
       DEF MarkTerminating, SessionMove, TroubleTyped, mine
<1>7. CASE DeleteNamespace
  <2>1. Busy("session")
    BY <1>7 DEF DeleteNamespace, AtStep, Busy
  <2>2. UNCHANGED <<obj, known, plan, queue, disturbed>> /\ TroubleTyped
    BY <1>7, PutOnlyTrouble, NoWriteTyped, 0 \in Nat DEF DeleteNamespace, NoWrite, NoCall, TroubleTyped
  <2> QED
    BY <1>7, <2>1, <2>2 DEF DeleteNamespace, Requeue, GivesUp, Marks, SessionMove
<1>8. CASE NamespaceGone
  <2>1. Busy("session") /\ AtStep("remove")
    BY <1>8 DEF NamespaceGone, AtStep, Busy
  <2>2. stored.state = "none" \/ myName \in blind'
    BY <1>8 DEF NamespaceGone
  <2> QED
    BY <1>c, <1>8, <2>1, <2>2, GoOnPasses, NoWriteTyped DEF NamespaceGone, SessionMove, mine
<1>9. CASE RemoveSessionFinalizer
  <2>1. Busy("session") /\ AtStep("unfin")
    BY <1>9 DEF RemoveSessionFinalizer, AtStep, Busy
  <2>2. Missing \in ObjectsOf(me) /\ WellFormed(me, Missing)
    BY MissingIs DEF ObjectsOf, WellFormed
  <2> QED
    BY <1>c, <1>s, <1>9, <2>1, <2>2, ReturnEffect
       DEF RemoveSessionFinalizer, SessionMove, Updates, TroubleTyped, me
<1>10. CASE SessionCallFails
  BY <1>c, <1>10, CallFailsGivesUp DEF SessionCallFails, SessionMove, TroubleTyped
<1> QED
  BY <1>1, <1>2, <1>3, <1>4, <1>5, <1>6, <1>7, <1>8, <1>9, <1>10 DEF ReconcileSession

LEMMA SessionWorks ==
  ASSUME Base, SessionMove
  PROVE  Works("session")
<1>1. "read" \in StepsOf["session"] /\ "unfin" \in StepsOf["session"] /\ Building \subseteq StepsOf["session"]
  BY KindsAre DEF Building, CleanUp
<1> QED
  BY <1>1 DEF SessionMove, Works

LEMMA TeamSpecTyped ==
  ASSUME Base, Busy("team")
  PROVE  team.spec \in TeamSpec /\ coordinator \in Agents /\ team.spec.members \in Delegates
<1>1. "team" \in Controllers
  BY DEF Controllers
<1>2. team.spec \in SpecsOf[Me("team")] /\ Me("team") \in Teams
  BY <1>1, BusyIs, KindsAre DEF team
<1> QED
  BY <1>2, TeamAssumption DEF TeamSpec, coordinator, Delegates

LEMMA TeamEffect ==
  ASSUME Base, ReconcileTeam
  PROVE  /\ Works("team") \/ Tells(coordinator)
         /\ TroubleTyped
<1>c. "team" \in Controllers
  BY DEF Controllers
<1>s. /\ {"idle", "begin", "delegate", "active"} \subseteq StepsOf["team"]
      /\ {"Error", "Active"} \subseteq Phases \cap Verdicts
  BY KindsAre DEF Phases, Verdicts
<1>1. CASE ValidateTeam
  <2>1. Busy("team")
    BY <1>1 DEF ValidateTeam, TeamAt, Busy
  <2>2. CASE NoWrite /\ GoOn("team", "delegate", team)
    BY <1>c, <1>s, <2>1, <2>2, GoOnPasses, NoWriteTyped DEF Works, team
  <2>3. CASE UpdateAndReturn("team", WithPhase(team, "Error"))
    BY <1>c, <1>s, <2>1, <2>3, ReturnEffect, PhaseUpdates DEF Works, TroubleTyped, team
  <2> QED
    BY <1>1, <2>2, <2>3 DEF ValidateTeam
<1>2. CASE Delegate
  <2>1. Busy("team")
    BY <1>2 DEF Delegate, TeamAt, Busy
  <2>2. CASE NoWrite /\ GoOn("team", "active", team)
    BY <1>c, <1>s, <2>1, <2>2, GoOnPasses, NoWriteTyped DEF Works, team
  <2>3. CASE NoWrite /\ Requeue("team")
    BY <1>c, <2>1, <2>3, RequeueGivesUp, NoWriteTyped DEF Works
  <2>4. CASE WriteDelegates
    <3>1. coordinator \in Agents /\ coordinator \in Keys /\ team.spec \in TeamSpec
      BY <2>1, TeamSpecTyped, KeysAre
    <3>2. Put(coordinator, WithSpec(known[coordinator], team.spec.members), 0)
      BY <2>4 DEF WriteDelegates, ReadCoordinator
    <3>3. Stored(coordinator, WithSpec(known[coordinator], team.spec.members)) /\ TroubleTyped
      BY <3>1, <3>2, PutStores, 0 \in Nat DEF Base, TroubleTyped
    <3> QED
      BY <2>1, <2>4, <3>1, <3>3 DEF WriteDelegates, ReadCoordinator, GoOn, Tells, team
  <2> QED
    BY <1>2, <2>2, <2>3, <2>4 DEF Delegate
<1>3. CASE ActivateTeam
  <2>1. Busy("team")
    BY <1>3 DEF ActivateTeam, TeamAt, Busy
  <2> QED
    BY <1>c, <1>s, <1>3, <2>1, ReturnEffect, PhaseUpdates DEF ActivateTeam, Works, TroubleTyped, team
<1>4. CASE TeamCallFails
  BY <1>c, <1>4, CallFailsGivesUp DEF TeamCallFails, Works, TroubleTyped
<1> QED
  BY <1>1, <1>2, <1>3, <1>4 DEF ReconcileTeam

LEMMA MessageEffect ==
  ASSUME Base, ReconcileMessage
  PROVE  Works("message") /\ TroubleTyped
<1>c. "message" \in Controllers
  BY DEF Controllers
<1>s. /\ {"idle", "begin", "call", "wait", "error", "done"} \subseteq StepsOf["message"]
      /\ {"Error", "Done"} \subseteq Phases \cap Verdicts
  BY KindsAre DEF Phases, Verdicts
<1>0. Busy("message")
  BY DEF ReconcileMessage, CheckAgent, AgentUnreadable, CallChat, CallChatFails, ReadReply, ChatTimesOut,
         WriteMessage, MessageCallFails, MessageAt, Busy
<1>1. CASE CheckAgent
  <2>1. CASE UpdateAndReturn("message", WithPhase(message, "Error"))
    BY <1>c, <1>s, <1>0, <2>1, ReturnEffect, PhaseUpdates DEF Works, TroubleTyped, message
  <2>2. CASE NoWrite /\ Requeue("message")
    BY <1>c, <1>0, <2>2, RequeueGivesUp, NoWriteTyped DEF Works
  <2>3. CASE NoWrite /\ GoOn("message", "call", message)
    BY <1>c, <1>s, <1>0, <2>3, GoOnPasses, NoWriteTyped DEF Works, message
  <2> QED
    BY <1>1, <2>1, <2>2, <2>3 DEF CheckAgent
<1>2. CASE AgentUnreadable \/ CallChatFails
  <2>1. Passes("message", "error")
    BY <1>0, <1>2 DEF AgentUnreadable, CallChatFails, GoOn, Passes, Marks, message
  <2>2. TroubleTyped
    BY <1>2, SpendTyped, 1 \in Nat DEF AgentUnreadable, CallChatFails, Base, TroubleTyped
  <2> QED
    BY <1>s, <2>1, <2>2 DEF Works
<1>3. CASE CallChat \/ ReadReply \/ ChatTimesOut
  <2>1. \E step \in {"wait", "done", "error"} : NoWrite /\ GoOn("message", step, message)
    BY <1>3 DEF CallChat, ReadReply, ChatTimesOut
  <2> QED
    BY <1>c, <1>s, <1>0, <2>1, GoOnPasses, NoWriteTyped DEF Works, message
<1>4. CASE WriteMessage
  BY <1>c, <1>s, <1>0, <1>4, ReturnEffect, PhaseUpdates DEF WriteMessage, Works, TroubleTyped, message
<1>5. CASE MessageCallFails
  BY <1>c, <1>5, CallFailsGivesUp DEF MessageCallFails, Works, TroubleTyped
<1> QED
  BY <1>1, <1>2, <1>3, <1>4, <1>5 DEF ReconcileMessage

LEMMA ToolServerEffect ==
  ASSUME Base, ReconcileToolServer
  PROVE  Works("toolserver") /\ TroubleTyped
<1>c. "toolserver" \in Controllers
  BY DEF Controllers
<1>s. "idle" \in StepsOf["toolserver"] /\ "Available" \in Phases \cap Verdicts
  BY KindsAre DEF Phases, Verdicts
<1>1. CASE MarkAvailable
  <2>1. Busy("toolserver")
    BY <1>1 DEF MarkAvailable, Busy
  <2> QED
    BY <1>c, <1>s, <1>1, <2>1, ReturnEffect, PhaseUpdates DEF MarkAvailable, Works, TroubleTyped, toolServer
<1>2. CASE ToolServerCallFails
  BY <1>c, <1>2, CallFailsGivesUp DEF ToolServerCallFails, Works, TroubleTyped
<1> QED
  BY <1>1, <1>2 DEF ReconcileToolServer

(* A worker takes a key. *)
Starts ==
  \/ \E s \in Sessions : StartSession(s)
  \/ \E t \in Teams : StartTeam(t)
  \/ \E m \in Messages : StartMessage(m)
  \/ \E x \in ToolServers : StartToolServer(x)

LEMMA StartTakes ==
  ASSUME Base
  PROVE  /\ \A s \in Sessions : StartSession(s) => \E step \in Steps : Takes("session", s, step)
         /\ \A t \in Teams : StartTeam(t) => \E step \in Steps : Takes("team", t, step)
         /\ \A m \in Messages : StartMessage(m) => \E step \in Steps : Takes("message", m, step)
         /\ \A x \in ToolServers : StartToolServer(x) => \E step \in Steps : Takes("toolserver", x, step)
<1>s. /\ {"idle", "begin", "terminating"} \subseteq StepsOf["session"]
      /\ {"idle", "begin"} \subseteq StepsOf["team"] /\ {"idle", "begin"} \subseteq StepsOf["message"]
      /\ {"idle", "begin"} \subseteq StepsOf["toolserver"]
      /\ {"idle", "begin", "terminating"} \subseteq Steps
  BY KindsAre DEF CleanUp, Steps
<1>1. ASSUME NEW s \in Sessions, StartSession(s)
      PROVE  \E step \in Steps : Takes("session", s, step)
  <2>1. known[s].deleting => known[s].finalizer
    BY KeysAre DEF Base, ObjectsInv, WellFormed
  <2>2. \E step \in {"idle", "begin", "terminating"} :
          /\ Begin("session", s, step)
          /\ IF step = "idle" THEN ~known[s].there ELSE known[s].there
    BY <1>1, <2>1 DEF StartSession
  <2> QED
    BY <1>s, <2>2, KindsAre DEF Takes
<1>2. ASSUME NEW t \in Teams, StartTeam(t)
      PROVE  \E step \in Steps : Takes("team", t, step)
  <2>1. \E step \in {"idle", "begin"} :
          Begin("team", t, step) /\ IF step = "idle" THEN ~known[t].there ELSE known[t].there
    BY <1>2 DEF StartTeam
  <2> QED
    BY <1>s, <2>1, KindsAre DEF Takes
<1>3. ASSUME NEW m \in Messages, StartMessage(m)
      PROVE  \E step \in Steps : Takes("message", m, step)
  <2>1. \E step \in {"idle", "begin"} :
          /\ Begin("message", m, step)
          /\ IF step = "idle" THEN ~known[m].there \/ TerminalMessage(known[m]) ELSE known[m].there
    BY <1>3 DEF StartMessage
  <2> QED
    BY <1>s, <2>1, KindsAre DEF Takes, TerminalMessage, Verdicts
<1>4. ASSUME NEW x \in ToolServers, StartToolServer(x)
      PROVE  \E step \in Steps : Takes("toolserver", x, step)
  <2>1. \E step \in {"idle", "begin"} :
          /\ Begin("toolserver", x, step)
          /\ IF step = "idle" THEN ~known[x].there \/ known[x].phase = "Available" ELSE known[x].there
    BY <1>4 DEF StartToolServer
  <2> QED
    BY <1>s, <2>1, KindsAre DEF Takes, Verdicts
<1> QED
  BY <1>1, <1>2, <1>3, <1>4

LEMMA StartEffect ==
  ASSUME Base, Starts
  PROVE  /\ \E c \in Controllers : \E k \in Watched, step \in Steps : Takes(c, k, step)
         /\ TroubleTyped
<1>1. TroubleTyped
  BY DEF Starts, StartSession, StartTeam, StartMessage, StartToolServer, Begin, Base, RuntimeTypeOK,
         TroubleTyped
<1>2. {"session", "team", "message", "toolserver"} = Controllers
  BY DEF Controllers
<1> QED
  BY <1>1, <1>2, StartTakes, KeysAre DEF Starts

LEMMA UserEffect ==
  ASSUME Base, NEW k \in Keys,
         CreateObject(k) \/ EditObject(k) \/ DeleteObject(k) \/ ReportAgent(k)
  PROVE  (\E o \in ObjectsOf(k) : UserWrites(k, o)) /\ TroubleTyped
<1>0. obj[k] \in ObjectsOf(k) /\ 0 \in Nat /\ 1 \in Nat /\ 1 > 0
  BY DEF Base, RuntimeTypeOK
<1>1. CASE CreateObject(k)
  <2>1. PICK spec \in SpecsOf[k] : Put(k, Fresh(spec), 0)
    BY <1>1 DEF CreateObject
  <2>2. Fresh(spec) \in ObjectsOf(k)
    BY SpecTyped, MadeTyped DEF Fresh, Phases
  <2> QED
    BY <1>0, <1>1, <2>1, <2>2, PutStores DEF CreateObject, UserWrites, Base, TroubleTyped
<1>2. CASE EditObject(k)
  <2>1. PICK spec \in SpecsOf[k] : Put(k, WithSpec(obj[k], spec), 1)
    BY <1>2 DEF EditObject
  <2>2. WithSpec(obj[k], spec) \in ObjectsOf(k)
    BY <1>0, <1>2, ChangedTyped DEF EditObject
  <2> QED
    BY <1>0, <1>2, <2>1, <2>2, PutStores DEF EditObject, UserWrites, Base, TroubleTyped
<1>3. CASE DeleteObject(k)
  <2> DEFINE o == IF obj[k].finalizer THEN Object(TRUE, TRUE, obj[k].spec, obj[k].phase) ELSE Missing
  <2>1. o \in ObjectsOf(k)
    BY <1>0, <1>3, ChangedTyped DEF DeleteObject, ObjectsOf
  <2>2. Put(k, o, IF k \in Agents THEN 1 ELSE 0)
    BY <1>3 DEF DeleteObject
  <2>3. Stored(k, o) /\ TroubleTyped /\ (k \in Agents => k \in disturbed')
    BY <1>0, <2>2, PutStores DEF Base, TroubleTyped
  <2> QED
    BY <1>3, <2>1, <2>3 DEF DeleteObject, UserWrites
<1>4. CASE ReportAgent(k)
  <2>1. PICK phase \in Phases, n \in {0, 1} : Put(k, WithPhase(obj[k], phase), n)
    BY <1>4 DEF ReportAgent, Phases
  <2>2. WithPhase(obj[k], phase) \in ObjectsOf(k)
    BY <1>0, <1>4, ChangedTyped DEF ReportAgent
  <2> QED
    BY <1>0, <1>4, <2>1, <2>2, PutStores DEF ReportAgent, UserWrites, Base, TroubleTyped
<1> QED
  BY <1>1, <1>2, <1>3, <1>4
(* Every step has one of the effects. *)
LEMMA EveryEffect ==
  ASSUME Base, Next
  PROVE  Effect /\ TroubleTyped
<1>c. {"session", "team", "message", "toolserver"} = Controllers
  BY DEF Controllers
<1>1. CASE \E k \in Keys : CatchUp(k) \/ CreateObject(k) \/ EditObject(k) \/ DeleteObject(k) \/ ReportAgent(k)
  <2>1. ASSUME NEW k \in Keys, CatchUp(k)
        PROVE  Effect /\ TroubleTyped
    BY <2>1 DEF CatchUp, Effect, Base, RuntimeTypeOK, TroubleTyped
  <2> QED
    BY <1>1, <2>1, UserEffect DEF Effect
<1>2. CASE \E k \in Watched : FireTimer(k)
  BY <1>2 DEF FireTimer, Effect, Base, RuntimeTypeOK, TroubleTyped
<1>3. CASE Starts
  BY <1>3, StartEffect DEF Effect
<1>4. CASE ReconcileSession \/ ReconcileTeam \/ ReconcileMessage \/ ReconcileToolServer
  <2>1. (\E c \in Controllers : Works(c)) \/ Tells(coordinator)
    BY <1>c, <1>4, SessionEffect, SessionWorks, TeamEffect, MessageEffect, ToolServerEffect
  <2>2. TroubleTyped
    BY <1>4, SessionEffect, TeamEffect, MessageEffect, ToolServerEffect
  <2> QED
    BY <2>1, <2>2 DEF Effect, Works, Tells
<1>5. CASE \E n \in Names : CatchUpNamespace(n) \/ DrainNamespace(n) \/ LoseNamespace(n)
  <2>1. PICK n \in Names : CatchUpNamespace(n) \/ DrainNamespace(n) \/ LoseNamespace(n)
    BY <1>5
  <2>2. CASE CatchUpNamespace(n)
    BY <2>2 DEF CatchUpNamespace, runtimeVars, queueVars, Effect, AllSame, Base, RuntimeTypeOK, TroubleTyped
  <2>3. CASE DrainNamespace(n) \/ LoseNamespace(n)
    <3>1. TroubleTyped
      BY <2>3, PutOnlyTrouble, 0 \in Nat, 1 \in Nat DEF DrainNamespace, LoseNamespace, TroubleTyped
    <3> QED
      BY <2>3, <3>1 DEF DrainNamespace, LoseNamespace, queueVars, Effect, AllSame
  <2> QED
    BY <2>1, <2>2, <2>3
<1>6. CASE ChatAnswers
  BY <1>6 DEF ChatAnswers, runtimeVars, queueVars, Effect, AllSame, Base, RuntimeTypeOK, TroubleTyped
<1>7. CASE RestartRuntime
  BY <1>7, SpendTyped, 1 \in Nat DEF RestartRuntime, Effect, Base, TroubleTyped
<1> QED
  BY <1>1, <1>2, <1>3, <1>4, <1>5, <1>6, <1>7
     DEF Next, RuntimeDoes, SessionDoes, TeamDoes, MessageDoes, Restart, RuntimeStep, ToolServerStep,
         SessionStep, TeamStep, MessageStep, Starts

-----------------------------------------------------------------------------
(* The base is inductive. *)

LEMMA StoredTyped ==
  ASSUME RuntimeTypeOK, NEW k \in Keys, NEW o \in ObjectsOf(k), Stored(k, o)
  PROVE  /\ obj' = [j \in Keys |-> obj'[j]] /\ known' = [j \in Keys |-> known'[j]]
         /\ \A j \in Keys : obj'[j] \in ObjectsOf(j) /\ known'[j] \in ObjectsOf(j)
         /\ queue' \subseteq Watched /\ disturbed' \subseteq Keys
<1>1. obj' = [j \in Keys |-> obj'[j]] /\ known' = [j \in Keys |-> known'[j]]
  BY DEF RuntimeTypeOK, Stored
<1>2. \A j \in Keys : obj'[j] \in ObjectsOf(j) /\ known'[j] \in ObjectsOf(j)
  BY StoredIs DEF RuntimeTypeOK
<1>3. queue' \subseteq Watched /\ disturbed' \subseteq Keys
  BY StoredIs DEF RuntimeTypeOK
<1> QED
  BY <1>1, <1>2, <1>3

JobsTyped ==
  /\ work = [c \in Controllers |-> work[c]]
  /\ \A c \in Controllers : \E k \in Watched : work[c] \in [step : Steps, key : {k}, mine : ObjectsOf(k)]

LEMMA IdleJobs ==
  ASSUME RuntimeTypeOK, NEW c \in Controllers, work' = [work EXCEPT ![c] = Idle]
  PROVE  JobsTyped'
<1>1. work' = [d \in Controllers |-> work'[d]]
  BY DEF RuntimeTypeOK
<1>2. \A d \in Controllers : work'[d] = IF d = c THEN Idle ELSE work[d]
  BY DEF RuntimeTypeOK
<1> QED
  BY <1>1, <1>2, IdleTyped DEF JobsTyped, RuntimeTypeOK

LEMMA AtJobs ==
  ASSUME RuntimeTypeOK, NEW c \in Controllers, NEW step \in Steps, NEW k \in Watched,
         NEW o \in ObjectsOf(k), work' = [work EXCEPT ![c] = At(step, k, o)]
  PROVE  JobsTyped'
<1>1. work' = [d \in Controllers |-> work'[d]]
  BY DEF RuntimeTypeOK
<1>2. \A d \in Controllers : work'[d] = IF d = c THEN At(step, k, o) ELSE work[d]
  BY DEF RuntimeTypeOK
<1> QED
  BY <1>1, <1>2, AtTyped DEF JobsTyped, RuntimeTypeOK
LEMMA EffectTyped ==
  ASSUME Base, Effect, TroubleTyped
  PROVE  RuntimeTypeOK'
<1> USE DEF Base
<1>0. JobsTyped
  BY DEF RuntimeTypeOK, JobsTyped
<1> DEFINE Store ==
      /\ obj' = [j \in Keys |-> obj'[j]] /\ known' = [j \in Keys |-> known'[j]]
      /\ \A j \in Keys : obj'[j] \in ObjectsOf(j) /\ known'[j] \in ObjectsOf(j)
      /\ queue' \subseteq Watched /\ disturbed' \subseteq Keys
    Workers == JobsTyped' /\ timers' \subseteq Watched /\ plan' \subseteq Keys
<1>q. Store /\ Workers => RuntimeTypeOK'
  BY DEF RuntimeTypeOK, JobsTyped, TroubleTyped
<1>s. AllSame => Store /\ Workers
  BY <1>0 DEF AllSame, RuntimeTypeOK, JobsTyped
<1>1. ASSUME NEW k \in Keys, NEW o \in ObjectsOf(k), UserWrites(k, o)
      PROVE  Store /\ Workers
  <2>1. Store
    BY <1>1, StoredTyped DEF UserWrites
  <2>2. Workers
    BY <1>0, <1>1 DEF UserWrites, RuntimeTypeOK, JobsTyped
  <2> QED
    BY <2>1, <2>2
<1>2. ASSUME NEW k \in Keys, CatchUp(k)
      PROVE  Store /\ Workers
  <2>1. Workers
    BY <1>0, <1>2 DEF CatchUp, RuntimeTypeOK, JobsTyped
  <2>2. Store
    BY <1>2 DEF CatchUp, Wake, RuntimeTypeOK
  <2> QED
    BY <2>1, <2>2
<1>3. ASSUME NEW k \in Watched, FireTimer(k)
      PROVE  Store /\ Workers
  <2>1. Workers
    BY <1>0, <1>3 DEF FireTimer, RuntimeTypeOK, JobsTyped
  <2>2. Store
    BY <1>3 DEF FireTimer, RuntimeTypeOK
  <2> QED
    BY <2>1, <2>2
<1>4. ASSUME RestartRuntime
      PROVE  Store /\ Workers
  <2>1. JobsTyped'
    BY <1>4, IdleTyped DEF RestartRuntime, JobsTyped
  <2>2. {work[c].key : c \in {d \in Controllers : work[d].step # "idle"}} \subseteq Keys
    BY WorkTyped DEF Me
  <2> QED
    BY <1>4, <2>1, <2>2 DEF RestartRuntime, RuntimeTypeOK
<1>5. ASSUME NEW c \in Controllers, NEW k \in Watched, NEW step \in Steps, Takes(c, k, step)
      PROVE  Store /\ Workers
  <2>1. Store
    BY <1>5 DEF Takes, Begin, RuntimeTypeOK
  <2>2. known[k] \in ObjectsOf(k)
    BY KeysAre DEF RuntimeTypeOK
  <2>3. JobsTyped'
    BY <1>5, <2>2, IdleJobs, AtJobs DEF Takes, Begin
  <2> QED
    BY <1>5, <2>1, <2>3 DEF Takes, Begin, RuntimeTypeOK
<1>6. ASSUME NEW c \in Controllers, NEW step \in StepsOf[c], Passes(c, step)
      PROVE  Store /\ Workers
  <2>1. Me(c) \in Watched /\ Me(c) \in Keys /\ Mine(c) \in ObjectsOf(Me(c)) /\ step \in Steps
    BY WorkTyped, StepsTyped
  <2>2. JobsTyped'
    BY <1>6, <2>1, AtJobs DEF Passes
  <2> QED
    BY <1>6, <2>1, <2>2 DEF Passes, Marks, RuntimeTypeOK
<1>7. ASSUME NEW c \in Controllers, GivesUp(c)
      PROVE  Store /\ Workers
  <2>1. Me(c) \in Watched /\ Me(c) \in Keys
    BY WorkTyped
  <2>2. JobsTyped'
    BY <1>7, IdleJobs DEF GivesUp
  <2> QED
    BY <1>7, <2>1, <2>2 DEF GivesUp, Marks, RuntimeTypeOK
<1>8. ASSUME NEW c \in Controllers, NEW o, NEW step, Updates(c, o, step)
      PROVE  Store /\ Workers
  <2>1. Me(c) \in Watched /\ Me(c) \in Keys /\ o \in ObjectsOf(Me(c)) /\ step \in Steps
    BY <1>8, WorkTyped, StepsTyped DEF Updates
  <2>2. Store
    BY <1>8, <2>1, StoredTyped DEF Updates, Writes
  <2>3. JobsTyped'
    BY <1>8, <2>1, IdleJobs, AtJobs DEF Updates, Writes
  <2> QED
    BY <1>8, <2>2, <2>3 DEF Updates, Writes, RuntimeTypeOK
<1>9. ASSUME NEW a \in Agents, Tells(a)
      PROVE  Store /\ Workers
  <2>1. /\ a \in Keys /\ known[a] \in ObjectsOf(a) /\ known[a].there /\ team.spec.members \in Delegates
        /\ "team" \in Controllers /\ "active" \in Steps
    BY <1>9, KeysAre DEF Tells, RuntimeTypeOK, TeamSpec, Delegates, Controllers, Steps
  <2>2. WithSpec(known[a], team.spec.members) \in ObjectsOf(a)
    BY <1>9, <2>1, ChangedTyped
  <2>3. Store
    BY <1>9, <2>1, <2>2, StoredTyped DEF Tells
  <2>4. JobsTyped'
    BY <1>9, <2>1, AtJobs, WorkTyped DEF Tells
  <2> QED
    BY <1>9, <2>3, <2>4 DEF Tells, RuntimeTypeOK
<1> HIDE DEF Store, Workers
<1> QED
  BY <1>q, <1>s, <1>1, <1>2, <1>3, <1>4, <1>5, <1>6, <1>7, <1>8, <1>9 DEF Effect
LEMMA StoredObjects ==
  ASSUME Base, NEW k \in Keys, NEW o, Stored(k, o), WellFormed(k, o),
         plan' \subseteq plan, k \notin plan'
  PROVE  ObjectsInv'
<1>1. \A j \in Keys \ {k} : obj'[j] = obj[j] /\ known'[j] = known[j] /\ (j \in disturbed' <=> j \in disturbed)
  BY StoredIs DEF Base
<1>2. /\ obj'[k] = o /\ known'[k] \in {known[k], o}
      /\ k \notin disturbed' => known'[k] = obj'[k]
  BY StoredIs DEF Base, ObjectsInv
<1>3. ASSUME NEW j \in Keys
      PROVE  /\ WellFormed(j, obj'[j]) /\ WellFormed(j, known'[j])
             /\ j \in plan' => obj'[j] = Missing /\ known'[j] = Missing
             /\ j \notin disturbed' => known'[j] = obj'[j]
  BY <1>1, <1>2 DEF Base, ObjectsInv
<1> QED
  BY <1>3 DEF ObjectsInv, WellFormed

WorkerOK(c) ==
  /\ work[c].step \in StepsOf[c]
  /\ Busy(c) =>
       /\ Me(c) \in KeysOf[c] \ plan
       /\ Mine(c).there /\ WellFormed(Me(c), Mine(c))
       /\ Me(c) \in queue \/ (known[Me(c)].spec = Mine(c).spec /\ known[Me(c)].deleting = Mine(c).deleting)

LEMMA WorkerIs == WorkersInv <=> \A c \in Controllers : WorkerOK(c)
BY DEF WorkersInv, WorkerOK

(* The worker of another controller than the one that takes a step. *)
LEMMA OtherWorker ==
  ASSUME Base, NEW d \in Controllers, work'[d] = work[d], plan' \subseteq plan,
         Busy(d) => /\ Me(d) \in queue => Me(d) \in queue'
                    /\ Me(d) \in queue' \/ known'[Me(d)] = known[Me(d)]
  PROVE  WorkerOK(d)'
<1>1. WorkerOK(d)
  BY WorkerIs DEF Base
<1>2. Me(d)' = Me(d) /\ Mine(d)' = Mine(d) /\ (Busy(d)' <=> Busy(d)) /\ work'[d].step = work[d].step
  BY OthersSame
<1> QED
  BY <1>1, <1>2 DEF WorkerOK, WellFormed

LEMMA OtherWorkerStored ==
  ASSUME Base, NEW d \in Controllers, work'[d] = work[d], plan' \subseteq plan,
         NEW k \in Keys, NEW o, Stored(k, o)
  PROVE  WorkerOK(d)'
<1>1. Busy(d) => Me(d) \in Watched /\ Me(d) \in Keys
  BY BusyIs
<1>2. Busy(d) => /\ Me(d) \in queue => Me(d) \in queue'
                 /\ Me(d) \in queue' \/ known'[Me(d)] = known[Me(d)]
  BY <1>1, StoredIs DEF Base
<1> QED
  BY <1>2, OtherWorker

LEMMA IdleWorker ==
  ASSUME RuntimeTypeOK, NEW c \in Controllers, work'[c].step = "idle"
  PROVE  WorkerOK(c)'
BY KindsAre DEF WorkerOK, Busy, Controllers

LEMMA BaseUser ==
  ASSUME Base, NEW k \in Keys, NEW o \in ObjectsOf(k), UserWrites(k, o)
  PROVE  ObjectsInv' /\ WorkersInv'
<1>1. /\ plan' \subseteq plan /\ k \notin plan'
      /\ WellFormed(k, o)
  <2>0. WellFormed(k, obj[k]) /\ (k \in plan => ~obj[k].there)
    BY MissingIs DEF Base, ObjectsInv
  <2>1. CASE k \in plan /\ plan' = plan \ {k} /\ \E spec \in SpecsOf[k] : o = Fresh(spec)
    <3>1. plan' \subseteq plan /\ k \notin plan'
      BY <2>1
    <3>2. ~o.finalizer /\ ~o.deleting
      BY <2>1, FreshIs
    <3> QED
      BY <3>1, <3>2 DEF WellFormed
  <2>2. CASE plan' = plan /\ obj[k].there /\ \E spec \in SpecsOf[k] : o = WithSpec(obj[k], spec)
    BY <2>0, <2>2 DEF WithSpec, Object, WellFormed
  <2>3. CASE /\ plan' = plan /\ obj[k].there
             /\ o = IF obj[k].finalizer THEN Object(TRUE, TRUE, obj[k].spec, obj[k].phase) ELSE Missing
    BY <2>0, <2>3 DEF Missing, Object, WellFormed
  <2>4. CASE plan' = plan /\ obj[k].there /\ \E phase \in Phases : o = WithPhase(obj[k], phase)
    BY <2>0, <2>4 DEF WithPhase, Object, WellFormed
  <2> QED
    BY <2>1, <2>2, <2>3, <2>4 DEF UserWrites
<1>2. ObjectsInv'
  BY <1>1, StoredObjects DEF UserWrites
<1>3. \A d \in Controllers : WorkerOK(d)'
  BY <1>1, OtherWorkerStored DEF UserWrites
<1> QED
  BY <1>2, <1>3 DEF WorkersInv, WorkerOK

LEMMA BaseCatchUp ==
  ASSUME Base, NEW k \in Keys, CatchUp(k)
  PROVE  ObjectsInv' /\ WorkersInv'
<1>1. /\ known' = [known EXCEPT ![k] = obj[k]] /\ queue' = queue \cup ({k} \cap Watched)
      /\ obj' = obj /\ plan' = plan /\ work' = work /\ disturbed' = disturbed
  BY DEF CatchUp, Wake
<1>2. ObjectsInv'
  BY <1>1 DEF Base, ObjectsInv, WellFormed, RuntimeTypeOK
<1>3. ASSUME NEW d \in Controllers
      PROVE  WorkerOK(d)'
  <2>1. Busy(d) => /\ Me(d) \in queue => Me(d) \in queue'
                   /\ Me(d) \in queue' \/ known'[Me(d)] = known[Me(d)]
    BY <1>1, BusyIs DEF Base, RuntimeTypeOK
  <2> QED
    BY <1>1, <2>1, OtherWorker
<1> QED
  BY <1>2, <1>3 DEF WorkersInv, WorkerOK

LEMMA BaseRestart ==
  ASSUME Base, RestartRuntime
  PROVE  ObjectsInv' /\ WorkersInv'
<1>1. ObjectsInv'
  BY DEF RestartRuntime, Base, ObjectsInv, WellFormed
<1>2. \A c \in Controllers : work'[c].step = "idle"
  BY IdleTyped DEF RestartRuntime
<1>3. \A c \in Controllers : WorkerOK(c)'
  BY <1>2, IdleWorker DEF Base
<1> QED
  BY <1>1, <1>3 DEF WorkersInv, WorkerOK

LEMMA BaseTakes ==
  ASSUME Base, NEW c \in Controllers, NEW k \in Watched, NEW step \in Steps, Takes(c, k, step)
  PROVE  ObjectsInv' /\ WorkersInv'
<1>1. /\ obj' = obj /\ known' = known /\ plan' = plan /\ disturbed' = disturbed /\ queue' = queue \ {k}
      /\ work' = [work EXCEPT ![c] = IF step = "idle" THEN Idle ELSE At(step, k, known[k])]
      /\ k \in KeysOf[c] /\ step \in StepsOf[c] /\ (step # "idle" => known[k].there) /\ k \in Keys
  BY KeysAre DEF Takes, Begin
<1>2. ObjectsInv'
  BY <1>1 DEF Base, ObjectsInv, WellFormed
<1>3. ASSUME NEW d \in Controllers \ {c}
      PROVE  WorkerOK(d)'
  <2>1. work'[d] = work[d]
    BY <1>1 DEF Base, RuntimeTypeOK
  <2>2. Busy(d) => Me(d) # k
    BY <1>1, BusyIs, KindsApart
  <2> QED
    BY <1>1, <2>1, <2>2, OtherWorker
<1>4. WorkerOK(c)'
  <2>1. CASE step = "idle"
    BY <1>1, <2>1, NowIdle, IdleWorker DEF Base
  <2>2. CASE step # "idle"
    <3>1. work'[c].step = step /\ Me(c)' = k /\ Mine(c)' = known[k]
      BY <1>1, <2>2, NowAt DEF Base
    <3>2. k \notin plan /\ WellFormed(k, known[k])
      BY <1>1, <2>2, MissingIs DEF Base, ObjectsInv
    <3> QED
      BY <1>1, <2>2, <3>1, <3>2 DEF WorkerOK, WellFormed
  <2> QED
    BY <2>1, <2>2
<1> QED
  BY <1>2, <1>3, <1>4 DEF WorkersInv, WorkerOK

LEMMA BasePasses ==
  ASSUME Base, NEW c \in Controllers, NEW step \in StepsOf[c], Passes(c, step)
  PROVE  ObjectsInv' /\ WorkersInv'
<1>1. ObjectsInv'
  BY DEF Passes, Marks, Base, ObjectsInv, WellFormed
<1>2. ASSUME NEW d \in Controllers \ {c}
      PROVE  WorkerOK(d)'
  BY OtherWorker DEF Passes, Base, RuntimeTypeOK
<1>3. work'[c].step = step /\ Me(c)' = Me(c) /\ Mine(c)' = Mine(c)
  BY NowAt DEF Passes, Base
<1>4. WorkerOK(c)'
  BY <1>3, WorkerIs DEF WorkerOK, WellFormed, Passes, Base
<1> QED
  BY <1>1, <1>2, <1>4 DEF WorkersInv, WorkerOK

LEMMA BaseGivesUp ==
  ASSUME Base, NEW c \in Controllers, GivesUp(c)
  PROVE  ObjectsInv' /\ WorkersInv'
<1>1. ObjectsInv'
  BY DEF GivesUp, Marks, Base, ObjectsInv, WellFormed
<1>2. ASSUME NEW d \in Controllers \ {c}
      PROVE  WorkerOK(d)'
  BY OtherWorker DEF GivesUp, Base, RuntimeTypeOK
<1>3. WorkerOK(c)'
  BY NowIdle, IdleWorker DEF GivesUp, Base
<1> QED
  BY <1>1, <1>2, <1>3 DEF WorkersInv, WorkerOK

LEMMA BaseUpdates ==
  ASSUME Base, NEW c \in Controllers, NEW o, NEW step, Updates(c, o, step)
  PROVE  ObjectsInv' /\ WorkersInv'
<1>1. /\ Busy(c) /\ obj[Me(c)] = Mine(c) /\ Stored(Me(c), o) /\ plan' = plan
      /\ work' = [work EXCEPT ![c] = IF step = "idle" THEN Idle ELSE At(step, Me(c), o)]
      /\ WellFormed(Me(c), o) /\ step \in StepsOf[c]
      /\ step # "idle" => Kept(Mine(c), o)
  BY DEF Updates, Writes
<1>2. Me(c) \in Keys /\ Me(c) \notin plan /\ Me(c) \in KeysOf[c] /\ Me(c) \in Watched
  BY <1>1, BusyIs
<1>3. ObjectsInv'
  BY <1>1, <1>2, StoredObjects
<1>4. ASSUME NEW d \in Controllers \ {c}
      PROVE  WorkerOK(d)'
  <2>1. work'[d] = work[d]
    BY <1>1 DEF Base, RuntimeTypeOK
  <2> QED
    BY <1>1, <1>2, <2>1, OtherWorkerStored
<1>5. WorkerOK(c)'
  <2>1. CASE step = "idle"
    BY <1>1, <2>1, NowIdle, IdleWorker DEF Base
  <2>2. CASE step # "idle"
    <3>1. work'[c].step = step /\ Me(c)' = Me(c) /\ Mine(c)' = o
      BY <1>1, <2>2, NowAt DEF Base
    <3>2. known'[Me(c)] = known[Me(c)] \/ Me(c) \in queue'
      BY <1>1, <1>2, StoredIs DEF Base
    <3>3. queue \subseteq queue'
      BY <1>1, <1>2, StoredIs DEF Base
    <3>4. Me(c) \in queue \/ (known[Me(c)].spec = Mine(c).spec /\ known[Me(c)].deleting = Mine(c).deleting)
      BY <1>1 DEF Base, WorkersInv
    <3>5. Me(c) \in queue' \/ (known'[Me(c)].spec = o.spec /\ known'[Me(c)].deleting = o.deleting)
      BY <1>1, <2>2, <3>2, <3>3, <3>4 DEF Kept
    <3> QED
      BY <1>1, <1>2, <2>2, <3>1, <3>5 DEF WorkerOK, WellFormed, Kept
  <2> QED
    BY <2>1, <2>2
<1> QED
  BY <1>3, <1>4, <1>5 DEF WorkersInv, WorkerOK

LEMMA BaseTells ==
  ASSUME Base, NEW a \in Agents, Tells(a)
  PROVE  ObjectsInv' /\ WorkersInv'
<1>1. /\ "team" \in Controllers /\ a \in Keys /\ a \notin Watched /\ "active" \in StepsOf["team"]
      /\ a \notin plan
  BY KeysAre, KindsAre, MissingIs DEF Controllers, Tells, Base, ObjectsInv
<1>2. WellFormed(a, WithSpec(known[a], team.spec.members))
  BY <1>1 DEF Base, ObjectsInv, WellFormed, WithSpec, Object
<1>3. ObjectsInv'
  BY <1>1, <1>2, StoredObjects DEF Tells
<1>4. ASSUME NEW d \in Controllers \ {"team"}
      PROVE  WorkerOK(d)'
  <2>1. work'[d] = work[d]
    BY DEF Tells, Base, RuntimeTypeOK
  <2> QED
    BY <1>1, <2>1, OtherWorkerStored DEF Tells
<1>5. WorkerOK("team")'
  <2>1. work'["team"].step = "active" /\ Me("team")' = Me("team") /\ Mine("team")' = Mine("team")
    BY <1>1, NowAt DEF Tells, Base
  <2>2. Me("team") # a
    BY <1>1, BusyIs DEF Tells
  <2>3. known'[Me("team")] = known[Me("team")] /\ queue \subseteq queue'
    BY <1>1, <2>2, StoredIs, BusyIs DEF Tells, Base
  <2>4. Busy("team") /\ plan' = plan
    BY DEF Tells
  <2> QED
    BY <1>1, <2>1, <2>3, <2>4 DEF WorkerOK, WellFormed, Base, WorkersInv
<1> QED
  BY <1>3, <1>4, <1>5 DEF WorkersInv, WorkerOK

LEMMA BaseNext ==
  ASSUME Base, Effect, TroubleTyped
  PROVE  Base'
<1>1. AllSame => ObjectsInv' /\ WorkersInv'
  BY DEF AllSame, Base, ObjectsInv, WorkersInv, WellFormed, Busy, Me, Mine
<1>2. ASSUME NEW k \in Watched, FireTimer(k)
      PROVE  ObjectsInv' /\ WorkersInv'
  BY <1>2 DEF FireTimer, Base, ObjectsInv, WorkersInv, WellFormed, Busy, Me, Mine
<1> QED
  BY <1>1, <1>2, EffectTyped, BaseUser, BaseCatchUp, BaseRestart, BaseTakes, BasePasses, BaseGivesUp,
     BaseUpdates, BaseTells DEF Effect, Base
LEMMA BaseInit ==
  ASSUME RuntimeInit
  PROVE  Base
<1>1. PICK p \in Plans :
        /\ plan = p.create
        /\ obj = [k \in Keys |-> IF k \in p.agents THEN WithPhase(Fresh(<<>>), "Running") ELSE Missing]
  BY DEF RuntimeInit
<1>2. /\ p.agents \subseteq Agents /\ p.create \subseteq Keys /\ p.agents \cap p.create = {}
      /\ MaxTrouble \in Nat /\ 0 \in 0..MaxTrouble
  BY RuntimeAssumption
<1>3. \A k \in Keys : Missing \in ObjectsOf(k)
  BY DEF ObjectsOf
<1>4. ASSUME NEW k \in Agents
      PROVE  /\ WithPhase(Fresh(<<>>), "Running") \in ObjectsOf(k)
             /\ WellFormed(k, WithPhase(Fresh(<<>>), "Running"))
  <2>1. WithPhase(Fresh(<<>>), "Running") = Object(FALSE, FALSE, <<>>, "Running")
    BY DEF WithPhase, Fresh, Object
  <2>2. k \in Keys /\ <<>> \in Delegates /\ "Running" \in Phases
    BY KeysAre DEF Delegates, Phases
  <2> QED
    <3>1. Object(FALSE, FALSE, <<>>, "Running") \in ObjectsOf(k)
      BY <2>2, MadeTyped
    <3>2. LET o == Object(FALSE, FALSE, <<>>, "Running") IN ~o.deleting /\ ~o.finalizer
      BY DEF Object
    <3> QED
      BY <2>1, <3>1, <3>2 DEF WellFormed
<1>5. \A k \in Keys : obj[k] \in ObjectsOf(k) /\ WellFormed(k, obj[k])
  BY <1>1, <1>2, <1>3, <1>4, MissingIs DEF WellFormed
<1>6. /\ obj = [k \in Keys |-> obj[k]] /\ known = obj /\ plan \subseteq Keys
      /\ queue = {} /\ timers = {} /\ disturbed = {} /\ trouble = 0
      /\ work = [c \in Controllers |-> Idle]
  BY <1>1, <1>2 DEF RuntimeInit
<1>7. RuntimeTypeOK
  BY <1>2, <1>5, <1>6, IdleTyped DEF RuntimeTypeOK
<1>8. ObjectsInv
  BY <1>1, <1>2, <1>5, <1>6 DEF ObjectsInv
<1>9. WorkersInv
  BY <1>6, IdleTyped, KindsAre DEF WorkersInv, Busy, Controllers
<1> QED
  BY <1>7, <1>8, <1>9 DEF Base

-----------------------------------------------------------------------------
(* Namespaces. *)

LEMMA NamespaceTyped ==
  /\ \A state \in NamespaceStates, tenant, binding \in Tenants \cup {NoTenant}, policy, role \in BOOLEAN :
       Namespace(state, tenant, policy, role, binding) \in NamespaceObjects
  /\ NoNamespace \in NamespaceObjects
BY DEF Namespace, NoNamespace, NamespaceObjects, NamespaceStates

LEMMA NamespaceIs ==
  ASSUME NEW state, NEW tenant, NEW policy, NEW role, NEW binding
  PROVE  LET o == Namespace(state, tenant, policy, role, binding) IN
         /\ o.state = state /\ o.tenant = tenant /\ o.policy = policy
         /\ o.role = role /\ o.binding = binding
BY DEF Namespace

LEMMA NoNamespaceIs ==
  /\ NoNamespace.state = "none" /\ NoNamespace.tenant = NoTenant /\ NoNamespace.policy = FALSE
  /\ NoNamespace.role = FALSE /\ NoNamespace.binding = NoTenant
BY DEF NoNamespace, Namespace

LEMMA FieldsTyped ==
  ASSUME NEW o \in NamespaceObjects
  PROVE  /\ o.state \in NamespaceStates /\ o.tenant \in Tenants \cup {NoTenant}
         /\ o.policy \in BOOLEAN /\ o.role \in BOOLEAN /\ o.binding \in Tenants \cup {NoTenant}
         /\ o = Namespace(o.state, o.tenant, o.policy, o.role, o.binding)
BY DEF NamespaceObjects, Namespace

(* A namespace is written, and the cache shows it now or later. *)
Furnishes(n, o) ==
  /\ ns' = [ns EXCEPT ![n] = o]
  /\ nsCache' = nsCache \/ nsCache' = [nsCache EXCEPT ![n] = o]

LEMMA PutFurnishes ==
  ASSUME NEW n, NEW o, NEW m, PutNamespace(n, o, m)
  PROVE  Furnishes(n, o)
BY DEF PutNamespace, Furnishes

LEMMA FurnishesIs ==
  ASSUME SessionTypeOK, NEW n \in Names, NEW o, Furnishes(n, o)
  PROVE  ns'[n] = o /\ \A m \in Names \ {n} : ns'[m] = ns[m]
BY DEF Furnishes, SessionTypeOK

LEMMA MySpace ==
  ASSUME Base, SessionTypeOK, Busy("session")
  PROVE  /\ me \in Sessions /\ myName \in Names /\ stored \in NamespaceObjects
         /\ cached \in NamespaceObjects /\ mine.spec \in SpecsOf[me]
         /\ mine.spec.tenant \in Tenants /\ mine.spec.tenant # NoTenant /\ mine.spec.strict \in BOOLEAN
<1>1. "session" \in Controllers
  BY DEF Controllers
<1>2. me \in Sessions /\ mine.spec \in SpecsOf[me]
  BY <1>1, BusyIs, KindsAre DEF me, mine
<1>3. mine.spec \in SessionSpec
  BY <1>2, SessionAssumption
<1> QED
  BY <1>2, <1>3, SessionAssumption DEF SessionSpec, myName, stored, cached, SessionTypeOK

(* What a step of the worker does to its namespace: it makes it, furnishes *)
(* it, or deletes it.                                                      *)
MakesSpace(o) ==
  /\ AtStep("namespace") /\ stored.state = "none"
  /\ o = Namespace("active", mine.spec.tenant, FALSE, FALSE, NoTenant)
FillsSpace(o) ==
  /\ work["session"].step \in {"policy", "role", "binding"}
  /\ o.state = stored.state /\ o.tenant = stored.tenant
  /\ o.binding \in {stored.binding, mine.spec.tenant}
  /\ stored = NoNamespace => o = NoNamespace
EndsSpace(o) == AtStep("remove") /\ stored.state = "active" /\ o = Terminating(stored)
LeavesSpace ==
  /\ UNCHANGED <<namespaceVars>>
  /\ misled' \in {misled, misled \cup {me}}
  /\ blind' \in {blind, blind \cup {myName}}
ChangesSpace(o) ==
  /\ Furnishes(myName, o) /\ UNCHANGED <<misled, blind>>
  /\ MakesSpace(o) \/ FillsSpace(o) \/ EndsSpace(o)

LEMMA SpaceEffect ==
  ASSUME Base, SessionTypeOK, ReconcileSession
  PROVE  /\ Busy("session")
         /\ LeavesSpace \/ \E o \in NamespaceObjects : ChangesSpace(o)
<1>0. Busy("session")
  BY DEF ReconcileSession, AddSessionFinalizer, CheckSessionAgent, ensureNamespace, ensureNetworkPolicy,
         RemoveNetworkPolicy, EnsureTenantRole, EnsureTenantBinding, ActivateSession, MarkTerminating,
         DeleteNamespace, NamespaceGone, RemoveSessionFinalizer, SessionCallFails, CallFails, AtStep, Busy
<1>t. /\ stored \in NamespaceObjects /\ mine.spec.tenant \in Tenants
      /\ {"active", "terminating", "none"} = NamespaceStates
  BY <1>0, MySpace DEF NamespaceStates
<1>f. /\ stored.state \in NamespaceStates /\ stored.tenant \in Tenants \cup {NoTenant}
      /\ stored.policy \in BOOLEAN /\ stored.role \in BOOLEAN /\ stored.binding \in Tenants \cup {NoTenant}
      /\ stored = NoNamespace => stored.state = "none"
  BY <1>t, FieldsTyped, NoNamespaceIs
<1>s. UNCHANGED sessionVars => LeavesSpace
  BY DEF sessionVars, LeavesSpace
<1>k. \A next, there : Skip(next, there) => LeavesSpace
  BY DEF Skip, Believe, LeavesSpace
<1>c. ASSUME NEW o, NEW allowed, NEW next, CreateIn(o, allowed, next)
      PROVE  LeavesSpace \/ (allowed /\ Furnishes(myName, o) /\ UNCHANGED <<misled, blind>>)
  BY <1>c, PutFurnishes DEF CreateIn, LeavesSpace
<1>1. CASE AddSessionFinalizer \/ CheckSessionAgent \/ ActivateSession \/ MarkTerminating
           \/ RemoveSessionFinalizer \/ SessionCallFails
  BY <1>0, <1>1, <1>s DEF AddSessionFinalizer, CheckSessionAgent, ActivateSession, MarkTerminating,
     RemoveSessionFinalizer, SessionCallFails
<1>2. CASE ensureNamespace
  <2> DEFINE o == Namespace("active", mine.spec.tenant, FALSE, FALSE, NoTenant)
  <2>1. o \in NamespaceObjects
    BY <1>t, NamespaceTyped
  <2>2. CASE CreateIn(o, stored.state = "none", "policy")
    <3>1. MakesSpace(o) \/ stored.state # "none"
      BY <1>2 DEF ensureNamespace, MakesSpace
    <3> QED
      BY <1>0, <1>c, <2>1, <2>2, <3>1 DEF ChangesSpace
  <2> QED
    BY <1>0, <1>2, <1>k, <2>2 DEF ensureNamespace
<1>3. CASE ensureNetworkPolicy
  <2> DEFINE o == WithPolicy(stored, TRUE)
  <2>1. /\ o \in NamespaceObjects
        /\ o.state = stored.state /\ o.tenant = stored.tenant /\ o.binding = stored.binding
    BY <1>t, <1>f DEF WithPolicy, Namespace, NamespaceObjects
  <2>2. CASE CreateIn(o, stored.state = "active" /\ ~stored.policy, "role")
    <3>1. FillsSpace(o) \/ ~(stored.state = "active" /\ ~stored.policy)
      BY <1>3, <1>f, <2>1 DEF ensureNetworkPolicy, AtStep, FillsSpace
    <3> QED
      BY <1>0, <1>c, <2>1, <2>2, <3>1 DEF ChangesSpace
  <2> QED
    BY <1>0, <1>3, <1>k, <2>2 DEF ensureNetworkPolicy
<1>4. CASE RemoveNetworkPolicy
  <2> DEFINE o == WithPolicy(stored, FALSE)
  <2>1. /\ o \in NamespaceObjects
        /\ o.state = stored.state /\ o.tenant = stored.tenant /\ o.binding = stored.binding
        /\ stored = NoNamespace => o = NoNamespace
    <3>1. stored = NoNamespace => o = NoNamespace
      BY DEF WithPolicy, NoNamespace, Namespace
    <3> QED
      BY <1>t, <1>f, <3>1 DEF WithPolicy, Namespace, NamespaceObjects
  <2>2. CASE PutNamespace(myName, o, 0) /\ UNCHANGED <<misled, blind>>
    <3>1. FillsSpace(o)
      BY <1>4, <2>1 DEF RemoveNetworkPolicy, AtStep, FillsSpace
    <3> QED
      BY <1>0, <2>1, <2>2, <3>1, PutFurnishes DEF ChangesSpace
  <2> QED
    BY <1>0, <1>4, <1>k, <2>2 DEF RemoveNetworkPolicy
<1>5. CASE EnsureTenantRole
  <2> DEFINE o == Namespace(stored.state, stored.tenant, stored.policy, TRUE, stored.binding)
  <2>1. /\ o \in NamespaceObjects
        /\ o.state = stored.state /\ o.tenant = stored.tenant /\ o.binding = stored.binding
    BY <1>t, <1>f DEF Namespace, NamespaceObjects
  <2>2. CASE CreateIn(o, stored.state = "active" /\ ~stored.role, "binding")
    <3>1. FillsSpace(o) \/ ~(stored.state = "active" /\ ~stored.role)
      BY <1>5, <1>f, <2>1 DEF EnsureTenantRole, AtStep, FillsSpace
    <3> QED
      BY <1>0, <1>c, <2>1, <2>2, <3>1 DEF ChangesSpace
  <2> QED
    BY <1>0, <1>5, <1>k, <2>2 DEF EnsureTenantRole
<1>6. CASE EnsureTenantBinding
  <2> DEFINE o == Namespace(stored.state, stored.tenant, stored.policy, stored.role, mine.spec.tenant)
  <2>1. /\ o \in NamespaceObjects
        /\ o.state = stored.state /\ o.tenant = stored.tenant /\ o.binding = mine.spec.tenant
    BY <1>t, <1>f DEF Namespace, NamespaceObjects
  <2>2. CASE CreateIn(o, stored.state = "active" /\ stored.binding = NoTenant, "active")
    <3>1. FillsSpace(o) \/ ~(stored.state = "active" /\ stored.binding = NoTenant)
      BY <1>6, <1>f, <2>1 DEF EnsureTenantBinding, AtStep, FillsSpace
    <3> QED
      BY <1>0, <1>c, <2>1, <2>2, <3>1 DEF ChangesSpace
  <2> QED
    BY <1>0, <1>6, <1>k, <2>2 DEF EnsureTenantBinding
<1>7. CASE DeleteNamespace
  <2>1. Terminating(stored) \in NamespaceObjects
    BY <1>t, <1>f, NamespaceTyped DEF Terminating
  <2>2. CASE stored.state = "active" /\ PutNamespace(myName, Terminating(stored), 0) /\ UNCHANGED <<misled, blind>>
    <3>1. EndsSpace(Terminating(stored))
      BY <1>7, <2>2 DEF DeleteNamespace, EndsSpace
    <3> QED
      BY <1>0, <2>1, <2>2, <3>1, PutFurnishes DEF ChangesSpace
  <2>3. CASE UNCHANGED <<namespaceVars, misled, blind>>
    BY <1>0, <2>3 DEF LeavesSpace
  <2> QED
    BY <1>7, <2>2, <2>3 DEF DeleteNamespace
<1>8. CASE NamespaceGone
  BY <1>0, <1>8 DEF NamespaceGone, LeavesSpace
<1> QED
  BY <1>1, <1>2, <1>3, <1>4, <1>5, <1>6, <1>7, <1>8 DEF ReconcileSession
(* What the cluster does to the namespaces. *)
ClusterStep(n) == CatchUpNamespace(n) \/ DrainNamespace(n) \/ LoseNamespace(n)
LEMMA ClusterEffect ==
  ASSUME NEW n \in Names, SessionTypeOK, ClusterStep(n)
  PROVE  /\ AllSame /\ blind' = blind
         /\ \/ ns' = ns /\ nsCache' \in [Names -> NamespaceObjects] /\ misled' = misled
            \/ \E o \in NamespaceObjects :
                 /\ Furnishes(n, o)
                 /\ \/ /\ ns[n].state = "terminating" /\ misled' = misled
                       /\ o = NoNamespace \/ o = Namespace("terminating", ns[n].tenant, FALSE, FALSE, NoTenant)
                    \/ /\ ns[n].state = "active" /\ o = Terminating(ns[n])
                       /\ misled' = misled \cup {s \in Sessions : NameOf[s] = n}
<1>0. ns[n] \in NamespaceObjects /\ {"active", "terminating", "none"} = NamespaceStates
  BY DEF SessionTypeOK, NamespaceStates
<1>1. CASE CatchUpNamespace(n)
  BY <1>1 DEF CatchUpNamespace, SessionTypeOK, runtimeVars, queueVars, AllSame
<1>2. CASE DrainNamespace(n)
  <2> DEFINE t == Namespace("terminating", ns[n].tenant, FALSE, FALSE, NoTenant)
  <2>1. t \in NamespaceObjects /\ NoNamespace \in NamespaceObjects
    BY <1>0 DEF NoNamespace, Namespace, NamespaceObjects
  <2>2. Furnishes(n, IF ns[n] = t THEN NoNamespace ELSE t)
    BY <1>2, PutFurnishes DEF DrainNamespace
  <2> QED
    BY <1>2, <2>1, <2>2 DEF DrainNamespace, queueVars, AllSame
<1>3. CASE LoseNamespace(n)
  <2>1. Terminating(ns[n]) \in NamespaceObjects
    BY <1>0 DEF Terminating, Namespace, NamespaceObjects
  <2> QED
    BY <1>3, <2>1, PutFurnishes DEF LoseNamespace, queueVars, AllSame
<1> QED
  BY <1>1, <1>2, <1>3 DEF ClusterStep

LEMMA SessionTyped ==
  ASSUME Base, SessionTypeOK, Next
  PROVE  SessionTypeOK'
<1>s. UNCHANGED sessionVars => SessionTypeOK'
  BY DEF sessionVars, namespaceVars, SessionTypeOK
<1>1. CASE ReconcileSession
  <2>1. Busy("session") /\ (LeavesSpace \/ \E o \in NamespaceObjects : ChangesSpace(o))
    BY <1>1, SpaceEffect
  <2> QED
    BY <2>1, MySpace DEF LeavesSpace, ChangesSpace, Furnishes, namespaceVars, SessionTypeOK
<1>2. ASSUME NEW n \in Names, ClusterStep(n)
      PROVE  SessionTypeOK'
  BY <1>2, ClusterEffect DEF Furnishes, SessionTypeOK
<1>3. CASE Restart
  BY <1>3 DEF Restart, SessionTypeOK
<1>4. CASE \E s \in Sessions : StartSession(s)
  BY <1>4, <1>s DEF StartSession
<1> QED
  BY <1>s, <1>1, <1>2, <1>3, <1>4
     DEF Next, RuntimeDoes, SessionDoes, TeamDoes, MessageDoes, SessionStep, ClusterStep

LEMMA MessageTyped ==
  ASSUME Base, MessageTypeOK, Next
  PROVE  MessageTypeOK'
<1>m. UNCHANGED messageVars => MessageTypeOK'
  BY DEF messageVars, MessageTypeOK
<1>0. "none" \in Replies /\ "response" \in Replies /\ "failure" \in Replies
  BY DEF Replies
<1>1. CASE MessageStep
  <2>1. CASE CallChat
    <3>1. \A i \in 0..2 : (IF i = 2 THEN 2 ELSE i + 1) \in 0..2
      OBVIOUS
    <3>2. chats' = [chats EXCEPT ![Me("message")] = IF chats[Me("message")] = 2 THEN 2
                                                   ELSE chats[Me("message")] + 1]
      BY <2>1 DEF CallChat
    <3>3. Me("message") \in Messages
      BY <2>1, BusyIs, KindsAre DEF CallChat, MessageAt, Busy, Controllers
    <3>4. chats' \in [Messages -> 0..2]
      BY <3>1, <3>2, <3>3 DEF MessageTypeOK
    <3> QED
      BY <1>0, <2>1, <3>4 DEF CallChat, MessageTypeOK
  <2>2. CASE ReadReply \/ ChatAnswers
    BY <1>0, <2>2 DEF ReadReply, ChatAnswers, MessageTypeOK
  <2> QED
    BY <1>1, <1>m, <2>1, <2>2
       DEF MessageStep, StartMessage, ReconcileMessage, CheckAgent, AgentUnreadable, CallChatFails,
           ChatTimesOut, WriteMessage, MessageCallFails
<1>2. CASE Restart
  BY <1>0, <1>2 DEF Restart, MessageTypeOK
<1> QED
  BY <1>m, <1>1, <1>2 DEF Next, RuntimeDoes, SessionDoes, TeamDoes, MessageDoes

LEMMA TeamTyped ==
  ASSUME TeamTypeOK, Next
  PROVE  TeamTypeOK'
<1>1. CASE TeamStep
  BY <1>1 DEF TeamTypeOK, TeamStep, StartTeam, ReconcileTeam, ValidateTeam, Delegate, WriteDelegates,
              TeamsOf, ActivateTeam, TeamCallFails
<1> QED
  BY <1>1 DEF Next, RuntimeDoes, SessionDoes, TeamDoes, MessageDoes, Restart, TeamTypeOK

Typed == TypeOK /\ ObjectsInv /\ WorkersInv

LEMMA TypedInit ==
  ASSUME Init
  PROVE  Typed
<1>1. SessionTypeOK
  BY NamespaceTyped DEF Init, SessionInit, SessionTypeOK
<1>2. MessageTypeOK /\ TeamTypeOK
  BY DEF Init, MessageInit, TeamInit, MessageTypeOK, TeamTypeOK, Replies
<1> QED
  BY <1>1, <1>2, BaseInit DEF Init, Base, Typed, TypeOK

LEMMA TypedNext ==
  ASSUME Typed, [Next]_vars
  PROVE  Typed'
<1>1. CASE Next
  BY <1>1, EveryEffect, BaseNext, SessionTyped, MessageTyped, TeamTyped DEF Typed, TypeOK, Base
<1>2. CASE UNCHANGED vars
  <2>1. AllSame /\ TroubleTyped
    BY <1>2 DEF vars, runtimeVars, queueVars, AllSame, TroubleTyped, Typed, TypeOK, RuntimeTypeOK
  <2>2. Base'
    BY <2>1, BaseNext DEF Effect, Typed, TypeOK, Base
  <2> QED
    BY <1>2, <2>2 DEF vars, sessionVars, namespaceVars, messageVars, Typed, TypeOK, Base, SessionTypeOK,
       MessageTypeOK, TeamTypeOK
<1> QED
  BY <1>1, <1>2

(* The variables of the small controllers keep their types, for any        *)
(* objects, specs and plans: what a worker has in memory is an object of   *)
(* its kind that was there.                                                *)
THEOREM DependentsTyped == Spec => []TypeOK
<1>1. Init => Typed
  BY TypedInit
<1>2. Typed /\ [Next]_vars => Typed'
  BY TypedNext
<1>3. Typed => TypeOK
  BY DEF Typed
<1> QED
  BY <1>1, <1>2, <1>3, PTL DEF Spec

-----------------------------------------------------------------------------
(* What the rest of the system does to the objects of a controller while   *)
(* its worker stands still.                                                *)

Own(c) ==
  \/ Works(c)
  \/ \E k \in Watched, step \in Steps : Takes(c, k, step)
  \/ c = "team" /\ \E a \in Agents : Tells(a)
Surround ==
  \/ \E k \in Keys : \E o \in ObjectsOf(k) : UserWrites(k, o)
  \/ \E k \in Keys : CatchUp(k)
  \/ \E k \in Watched : FireTimer(k)
  \/ AllSame
Others(c) == Surround \/ \E d \in Controllers \ {c} : Own(d)

Created(k) ==
  /\ k \in plan /\ k \notin plan' /\ ~obj[k].there
  /\ \E spec \in SpecsOf[k] : obj'[k] = Fresh(spec)
Edited(k) ==
  /\ obj[k].there /\ obj'[k].there /\ k \in disturbed'
  /\ obj'[k].deleting = obj[k].deleting /\ obj'[k].finalizer = obj[k].finalizer
  /\ obj'[k].phase = obj[k].phase /\ obj'[k].spec \in SpecsOf[k]
Doomed(k) ==
  /\ obj[k].there /\ ~obj[k].deleting /\ obj[k].finalizer
  /\ obj'[k].there /\ obj'[k].deleting /\ obj'[k].finalizer
  /\ obj'[k].phase = obj[k].phase /\ obj'[k].spec = obj[k].spec
Removed(k) == obj[k].there /\ ~obj[k].finalizer /\ obj'[k] = Missing
UserWrote(k) == Created(k) \/ Edited(k) \/ Doomed(k) \/ Removed(k)

Outside(k) ==
  /\ k \in queue => k \in queue'
  /\ k \in timers => k \in timers' \cup queue'
  /\ k \in plan' => k \in plan
  /\ k \in disturbed => k \in disturbed'
  /\ known'[k] = known[k] \/ (known'[k] = obj'[k] /\ k \in queue')
  /\ obj'[k] = obj[k] \/ UserWrote(k)

LEMMA UserOutside ==
  ASSUME Base, NEW k \in Watched, NEW o \in ObjectsOf(k), UserWrites(k, o)
  PROVE  Outside(k) /\ (o = obj[k] \/ UserWrote(k)) /\ obj'[k] = o
<1>0. /\ k \in Keys /\ k \notin Agents /\ obj[k] \in ObjectsOf(k)
      /\ k \in plan => ~obj[k].there
  BY KeysAre, MissingIs DEF Base, RuntimeTypeOK, ObjectsInv
<1>1. /\ obj'[k] = o
      /\ known'[k] = known[k] \/ (known'[k] = o /\ k \in queue')
      /\ queue \subseteq queue' /\ disturbed \subseteq disturbed' /\ timers' = timers
  BY <1>0, StoredIs DEF UserWrites, Base
<1>2. plan' \subseteq plan
  BY DEF UserWrites
<1>3. UserWrote(k)
  <2>1. CASE k \in plan /\ plan' = plan \ {k} /\ \E spec \in SpecsOf[k] : o = Fresh(spec)
    BY <1>0, <1>1, <2>1 DEF UserWrote, Created
  <2>2. CASE obj[k].there /\ k \in disturbed' /\ \E spec \in SpecsOf[k] : o = WithSpec(obj[k], spec)
    BY <1>0, <1>1, <2>2 DEF WithSpec, Object, UserWrote, Edited
  <2>3. CASE /\ obj[k].there /\ ~obj[k].deleting
             /\ o = IF obj[k].finalizer THEN Object(TRUE, TRUE, obj[k].spec, obj[k].phase) ELSE Missing
    <3>1. LET p == Object(TRUE, TRUE, obj[k].spec, obj[k].phase) IN
          p.there /\ p.deleting /\ p.finalizer /\ p.phase = obj[k].phase /\ p.spec = obj[k].spec
      BY DEF Object
    <3> QED
      BY <1>1, <2>3, <3>1 DEF UserWrote, Doomed, Removed
  <2> QED
    BY <1>0, <2>1, <2>2, <2>3 DEF UserWrites
<1> QED
  BY <1>1, <1>2, <1>3 DEF Outside

(* Nothing happens to the key. *)
LEMMA StillOutside ==
  ASSUME NEW k, obj'[k] = obj[k], known'[k] = known[k], k \in queue => k \in queue',
         k \in timers => k \in timers' \cup queue', plan' \subseteq plan, disturbed \subseteq disturbed'
  PROVE  Outside(k)
BY DEF Outside

LEMMA OthersOutside ==
  ASSUME Base, NEW c \in Controllers, Others(c)
  PROVE  /\ work'[c] = work[c]
         /\ \A k \in KeysOf[c] : Outside(k)
<1>0. KeysOf[c] \subseteq Watched /\ KeysOf[c] \subseteq Keys /\ Agents \cap Watched = {}
  BY KindWatched, KeysAre
<1>1. ASSUME NEW j \in Keys, NEW o \in ObjectsOf(j), UserWrites(j, o), NEW k \in KeysOf[c]
      PROVE  work'[c] = work[c] /\ Outside(k)
  <2>1. CASE j = k
    BY <1>0, <1>1, <2>1, UserOutside DEF UserWrites
  <2>2. CASE j # k
    <3>1. obj'[k] = obj[k] /\ known'[k] = known[k] /\ queue \subseteq queue' /\ disturbed \subseteq disturbed'
      BY <1>0, <1>1, <2>2, StoredIs DEF UserWrites, Base
    <3>2. timers' = timers /\ plan' \subseteq plan /\ work' = work
      BY <1>1 DEF UserWrites
    <3> QED
      BY <3>1, <3>2, StillOutside
  <2> QED
    BY <2>1, <2>2
<1>2. ASSUME NEW j \in Keys, CatchUp(j), NEW k \in KeysOf[c]
      PROVE  work'[c] = work[c] /\ Outside(k)
  BY <1>0, <1>2 DEF CatchUp, Wake, Outside, Base, RuntimeTypeOK
<1>3. ASSUME (\E j \in Watched : FireTimer(j)) \/ AllSame, NEW k \in KeysOf[c]
      PROVE  work'[c] = work[c] /\ Outside(k)
  BY <1>3 DEF FireTimer, AllSame, Outside
<1>4. ASSUME NEW d \in Controllers \ {c}, NEW k \in KeysOf[c]
      PROVE  /\ Busy(d) => Me(d) # k /\ Me(d) \in Watched /\ Me(d) \in Keys
             /\ k \notin KeysOf[d]
  BY BusyIs, KindsApart
<1>5. ASSUME NEW d \in Controllers \ {c}, NEW k \in KeysOf[c], NEW j \in Watched, NEW step \in Steps,
             Takes(d, j, step)
      PROVE  work'[c] = work[c] /\ Outside(k)
  BY <1>4, <1>5 DEF Takes, Begin, Outside, Base, RuntimeTypeOK
<1>6. ASSUME NEW d \in Controllers \ {c}, NEW k \in KeysOf[c], Works(d)
      PROVE  work'[c] = work[c] /\ Outside(k)
  <2>1. CASE \E step \in StepsOf[d] : Passes(d, step)
    BY <1>4, <2>1 DEF Passes, Marks, Outside, Base, RuntimeTypeOK
  <2>2. CASE GivesUp(d)
    BY <1>4, <2>2 DEF GivesUp, Marks, Outside, Base, RuntimeTypeOK
  <2>3. ASSUME NEW o, NEW step, Updates(d, o, step)
        PROVE  work'[c] = work[c] /\ Outside(k)
    <3>1. Busy(d) /\ Stored(Me(d), o) /\ plan' = plan /\ timers' = timers
      BY <2>3 DEF Updates, Writes
    <3>2. obj'[k] = obj[k] /\ known'[k] = known[k] /\ queue \subseteq queue' /\ disturbed \subseteq disturbed'
      BY <1>0, <1>4, <3>1, StoredIs DEF Base
    <3>3. work'[c] = work[c]
      BY <2>3 DEF Updates, Writes, Base, RuntimeTypeOK
    <3> QED
      BY <3>1, <3>2, <3>3, StillOutside
  <2> QED
    BY <1>6, <2>1, <2>2, <2>3 DEF Works
<1>7. ASSUME c # "team", NEW k \in KeysOf[c], NEW a \in Agents, Tells(a)
      PROVE  work'[c] = work[c] /\ Outside(k)
  <2>1. obj'[k] = obj[k] /\ known'[k] = known[k] /\ queue \subseteq queue' /\ disturbed \subseteq disturbed'
    BY <1>0, <1>7, StoredIs, KeysAre DEF Tells, Base
  <2>2. plan' = plan /\ timers' = timers /\ work'[c] = work[c]
    BY <1>7 DEF Tells, Base, RuntimeTypeOK
  <2> QED
    BY <2>1, <2>2, StillOutside
<1>8. \A k \in KeysOf[c] : work'[c] = work[c] /\ Outside(k)
  BY <1>1, <1>2, <1>3, <1>5, <1>6, <1>7 DEF Others, Surround, Own
<1>9. work'[c] = work[c]
  BY DEF Others, Surround, Own, Works, UserWrites, CatchUp, FireTimer, AllSame, Takes, Begin, Passes, GivesUp,
         Updates, Writes, Tells, Base, RuntimeTypeOK
<1> QED
  BY <1>8, <1>9
SessionActs == (\E s \in Sessions : StartSession(s)) \/ ReconcileSession
TeamActs == (\E t \in Teams : StartTeam(t)) \/ ReconcileTeam
MessageActs == (\E m \in Messages : StartMessage(m)) \/ ReconcileMessage
ToolServerActs == (\E x \in ToolServers : StartToolServer(x)) \/ ReconcileToolServer

LEMMA ActsAreOwn ==
  ASSUME Base
  PROVE  /\ SessionActs => Own("session")
         /\ TeamActs => Own("team")
         /\ MessageActs => Own("message")
         /\ ToolServerActs => Own("toolserver")
<1>1. SessionActs => Own("session")
  BY StartTakes, SessionEffect, SessionWorks, KeysAre DEF SessionActs, Own
<1>2. TeamActs => Own("team")
  BY StartTakes, TeamEffect, KeysAre DEF TeamActs, Own, Tells
<1>3. MessageActs => Own("message")
  BY StartTakes, MessageEffect, KeysAre DEF MessageActs, Own
<1>4. ToolServerActs => Own("toolserver")
  BY StartTakes, ToolServerEffect, KeysAre DEF ToolServerActs, Own
<1> QED
  BY <1>1, <1>2, <1>3, <1>4

LEMMA NextIs ==
  ASSUME Base, SessionTypeOK, Next
  PROVE  \/ Restart
         \/ Surround /\ UNCHANGED <<sessionVars, messageVars, overruled>>
         \/ \E n \in Names : ClusterStep(n) /\ AllSame /\ UNCHANGED <<messageVars, overruled>>
         \/ ChatAnswers /\ AllSame /\ UNCHANGED <<sessionVars, overruled>>
         \/ SessionActs /\ UNCHANGED <<messageVars, overruled>>
         \/ TeamActs /\ UNCHANGED <<sessionVars, messageVars>>
         \/ MessageActs /\ UNCHANGED <<sessionVars, overruled>>
         \/ ToolServerActs /\ UNCHANGED <<sessionVars, messageVars, overruled>>
<1>1. CASE RuntimeDoes(RuntimeStep)
  BY <1>1, UserEffect DEF RuntimeDoes, RuntimeStep, Surround
<1>2. CASE RuntimeDoes(ToolServerStep)
  BY <1>2 DEF RuntimeDoes, ToolServerStep, ToolServerActs
<1>3. CASE SessionDoes(SessionStep)
  BY <1>3, ClusterEffect DEF SessionDoes, SessionStep, SessionActs, ClusterStep
<1>4. CASE TeamDoes(TeamStep)
  BY <1>4 DEF TeamDoes, TeamStep, TeamActs
<1>5. CASE MessageDoes(MessageStep)
  BY <1>5 DEF MessageDoes, MessageStep, MessageActs, ChatAnswers, runtimeVars, queueVars, AllSame
<1> QED
  BY <1>1, <1>2, <1>3, <1>4, <1>5 DEF Next

(* A step as the objects of one controller see it. *)
SessionNext ==
  \/ Restart \/ SessionActs
  \/ \E n \in Names : ClusterStep(n) /\ AllSame
  \/ Others("session") /\ UNCHANGED sessionVars
TeamNext == Restart \/ TeamActs \/ (Others("team") /\ UNCHANGED overruled)
MessageNext ==
  \/ Restart \/ MessageActs
  \/ ChatAnswers /\ AllSame
  \/ Others("message") /\ UNCHANGED messageVars
ToolServerNext == Restart \/ ToolServerActs \/ Others("toolserver")

LEMMA NextOf ==
  ASSUME Base, SessionTypeOK, Next
  PROVE  SessionNext /\ TeamNext /\ MessageNext /\ ToolServerNext
<1>1. {"session", "team", "message", "toolserver"} = Controllers
  BY DEF Controllers
<1>2. Surround => /\ Others("session") /\ Others("team") /\ Others("message") /\ Others("toolserver")
  BY DEF Others
<1>3. /\ Own("session") => Others("team") /\ Others("message") /\ Others("toolserver")
      /\ Own("team") => Others("session") /\ Others("message") /\ Others("toolserver")
      /\ Own("message") => Others("session") /\ Others("team") /\ Others("toolserver")
      /\ Own("toolserver") => Others("session") /\ Others("team") /\ Others("message")
  BY <1>1 DEF Others
<1>4. AllSame => Surround
  BY DEF Surround
<1> USE DEF SessionNext, TeamNext, MessageNext, ToolServerNext
<1>5. CASE SessionActs /\ UNCHANGED <<messageVars, overruled>>
  BY <1>3, <1>5, ActsAreOwn
<1>6. CASE TeamActs /\ UNCHANGED <<sessionVars, messageVars>>
  BY <1>3, <1>6, ActsAreOwn
<1>7. CASE MessageActs /\ UNCHANGED <<sessionVars, overruled>>
  BY <1>3, <1>7, ActsAreOwn
<1>8. CASE ToolServerActs /\ UNCHANGED <<sessionVars, messageVars, overruled>>
  BY <1>3, <1>8, ActsAreOwn
<1>9. CASE Surround /\ UNCHANGED <<sessionVars, messageVars, overruled>>
  BY <1>2, <1>9
<1>10. CASE ChatAnswers /\ AllSame /\ UNCHANGED <<sessionVars, overruled>>
  BY <1>2, <1>4, <1>10
<1>11. CASE \E n \in Names : ClusterStep(n) /\ AllSame /\ UNCHANGED <<messageVars, overruled>>
  BY <1>2, <1>4, <1>11
<1>12. CASE Restart
  BY <1>12
<1> HIDE DEF SessionNext, TeamNext, MessageNext, ToolServerNext
<1> QED
  BY <1>5, <1>6, <1>7, <1>8, <1>9, <1>10, <1>11, <1>12, NextIs

LEMMA StepOf ==
  ASSUME Base, SessionTypeOK, [Next]_vars
  PROVE  SessionNext /\ TeamNext /\ MessageNext /\ ToolServerNext
<1>1. CASE UNCHANGED vars
  <2>1. AllSame /\ UNCHANGED sessionVars /\ UNCHANGED overruled /\ UNCHANGED messageVars
    BY <1>1 DEF vars, runtimeVars, queueVars, AllSame
  <2> QED
    BY <2>1 DEF Surround, Others, SessionNext, TeamNext, MessageNext, ToolServerNext
<1> QED
  BY <1>1, NextOf

-----------------------------------------------------------------------------
(* A key that waits keeps waiting until a worker is done with it.          *)

LEMMA WaitsOutside ==
  ASSUME Base, NEW c \in Controllers, NEW k \in KeysOf[c], Outside(k), work'[c] = work[c], Waits(k)
  PROVE  Waits(k)'
<1>1. (Busy(c)' <=> Busy(c)) /\ Me(c)' = Me(c)
  BY OthersSame
<1>2. WorksOn(c, k) => WorksOn(c, k)'
  BY <1>1 DEF WorksOn
<1>3. \A d \in Controllers : WorksOn(d, k) => d = c
  BY BusyIs, KindsApart DEF WorksOn
<1> QED
  BY <1>2, <1>3 DEF Waits, Outside

LEMMA WaitsIs ==
  ASSUME Base, NEW c \in Controllers, NEW k \in KeysOf[c]
  PROVE  Waits(k) <=> k \in queue \cup timers \/ WorksOn(c, k)
BY BusyIs, KindsApart DEF Waits, WorksOn

-----------------------------------------------------------------------------
(* NoOrphanNamespace. *)

OrphanTyped == Base /\ SessionTypeOK /\ OrphanInv

LEMMA FreshSession ==
  ASSUME NEW k, Created(k)
  PROVE  obj'[k].there /\ ~obj'[k].deleting /\ ~obj'[k].finalizer /\ obj'[k].phase = ""
BY FreshIs DEF Created

(* While the worker stands still. *)
LEMMA OrphanOutside ==
  ASSUME OrphanTyped, Base', work'["session"] = work["session"],
         \A s \in Sessions : Outside(s),
         blind' = blind, \A n \in Names : ns'[n].state # "none" => ns[n].state # "none"
  PROVE  OrphanInv'
<1> USE DEF OrphanTyped, OrphanInv
<1>0. /\ me' = me /\ mine' = mine /\ work'["session"].step = work["session"].step
      /\ "session" \in Controllers
      /\ Busy("session") => me \in Sessions /\ me \notin plan
  BY OthersSame, BusyIs, KindsAre DEF Controllers, me, mine
<1>k. Sessions \subseteq Keys
  BY KeysAre
<1>1. ASSUME NEW s \in Sessions
      PROVE  /\ known'[s] = known[s] \/ known'[s] = obj'[s]
             /\ obj'[s].there => \/ obj[s].there /\ (obj[s].deleting => obj'[s].deleting)
                                                 /\ (obj[s].finalizer => obj'[s].finalizer)
                                 \/ s \in plan /\ ~obj[s].there /\ ~obj'[s].deleting /\ ~obj'[s].finalizer
             /\ obj[s].there /\ obj[s].finalizer => obj'[s].there
  <2>1. Created(s) => obj'[s].there /\ ~obj'[s].deleting /\ ~obj'[s].finalizer /\ s \in plan /\ ~obj[s].there
    BY FreshSession DEF Created
  <2>2. Removed(s) => ~obj'[s].there /\ ~obj[s].finalizer
    BY MissingIs DEF Removed
  <2> QED
    BY <2>1, <2>2 DEF Outside, UserWrote, Edited, Doomed
<1>2. FinalizerInv'
  <2>1. ASSUME NEW s \in Sessions, known'[s].there
        PROVE  IF known'[s].deleting THEN obj'[s].there => obj'[s].deleting
               ELSE known'[s].finalizer => obj'[s].there /\ obj'[s].finalizer
    <3>1. s \in plan => known[s].there = FALSE
      BY <1>k, MissingIs DEF Base, ObjectsInv
    <3> QED
      BY <1>1, <2>1, <3>1 DEF FinalizerInv
  <2> QED
    BY <2>1 DEF FinalizerInv
<1>3. BuildInv'
  BY <1>0, <1>1 DEF BuildInv, Building, Busy
<1>4. CleanUpInv'
  <2>1. work["session"].step \in CleanUp =>
          /\ obj'[me].there => obj'[me].deleting
          /\ known'[me].there => known'[me].deleting
    BY <1>0, <1>1 DEF CleanUpInv, CleanUp, Busy
  <2>2. AtStep("unfin") => ns'[myName].state = "none" \/ myName \in blind'
    <3>1. AtStep("unfin") => myName \in Names
      BY <1>0, MySpace DEF AtStep, Busy
    <3> QED
      BY <3>1 DEF CleanUpInv, stored
  <2> QED
    BY <1>0, <2>1, <2>2 DEF CleanUpInv, AtStep, stored, myName
<1>5. NoOrphanNamespace'
  BY <1>1 DEF NoOrphanNamespace
<1> QED
  BY <1>2, <1>3, <1>4, <1>5

(* The worker begins, passes on or gives up: the objects stay. *)
LEMMA OrphanRests ==
  ASSUME OrphanTyped, Base', UNCHANGED <<obj, known>>, blind \subseteq blind',
         \A n \in Names : ns'[n].state # "none" =>
           ns[n].state # "none" \/ (work["session"].step \in Building /\ n = myName),
         BuildInv', CleanUpInv'
  PROVE  OrphanInv'
<1> USE DEF OrphanTyped, OrphanInv
<1>1. FinalizerInv'
  BY DEF FinalizerInv
<1>2. NoOrphanNamespace'
  <2>1. ASSUME NEW n \in Names \ blind', ns'[n].state # "none"
        PROVE  \E s \in Sessions : NameOf[s] = n /\ obj'[s].there /\ obj'[s].finalizer
    <3>1. CASE ns[n].state # "none"
      BY <2>1, <3>1 DEF NoOrphanNamespace
    <3>2. CASE work["session"].step \in Building /\ n = myName
      <4>1. Busy("session")
        BY <3>2 DEF Building, Busy
      <4>2. me \in Sessions /\ obj[me].there /\ obj[me].finalizer
        BY <3>2, <4>1, MySpace DEF BuildInv
      <4> QED
        BY <3>2, <4>2 DEF myName
    <3> QED
      BY <2>1, <3>1, <3>2
  <2> QED
    BY <2>1 DEF NoOrphanNamespace
<1> QED
  BY <1>1, <1>2

LEMMA IdleBuild ==
  ASSUME work'["session"].step = "idle"
  PROVE  BuildInv' /\ CleanUpInv'
BY DEF BuildInv, CleanUpInv, Building, CleanUp, AtStep

LEMMA OrphanStart ==
  ASSUME OrphanTyped, Base', NEW s \in Sessions, StartSession(s)
  PROVE  OrphanInv'
<1> USE DEF OrphanTyped, OrphanInv
<1>1. /\ obj' = obj /\ known' = known /\ blind' = blind /\ ns' = ns
      /\ "session" \in Controllers /\ s \in Keys
  BY KeysAre DEF StartSession, Begin, sessionVars, namespaceVars, Controllers
<1>2. BuildInv' /\ CleanUpInv'
  <2>1. CASE ~known[s].there \/ (known[s].deleting /\ ~known[s].finalizer)
    BY <1>1, <2>1, IdleBuild, NowIdle DEF StartSession, Begin, Base
  <2>2. CASE known[s].there /\ known[s].deleting /\ known[s].finalizer
    <3>1. work' = [work EXCEPT !["session"] = At("terminating", s, known[s])]
      BY <2>2 DEF StartSession, Begin
    <3>2. work'["session"].step = "terminating" /\ me' = s /\ mine' = known[s]
      BY <1>1, <3>1, NowAt DEF Base, me, mine
    <3> QED
      BY <1>1, <2>2, <3>2 DEF BuildInv, CleanUpInv, Building, CleanUp, AtStep, FinalizerInv
  <2>3. CASE known[s].there /\ ~known[s].deleting
    <3>1. work' = [work EXCEPT !["session"] = At("begin", s, known[s])]
      BY <2>3 DEF StartSession, Begin
    <3>2. work'["session"].step = "begin" /\ me' = s /\ mine' = known[s]
      BY <1>1, <3>1, NowAt DEF Base, me, mine
    <3> QED
      BY <1>1, <2>3, <3>2 DEF BuildInv, CleanUpInv, Building, CleanUp, AtStep, FinalizerInv
  <2> QED
    BY <2>1, <2>2, <2>3
<1> QED
  BY <1>1, <1>2, OrphanRests

LEMMA SpaceStays ==
  ASSUME Base, SessionTypeOK, ReconcileSession
  PROVE  /\ blind \subseteq blind'
         /\ \A n \in Names : ns'[n].state # "none" =>
              ns[n].state # "none" \/ (work["session"].step \in Building /\ n = myName)
         /\ work["session"].step \notin Building => blind' \subseteq blind \cup {myName}
<1>1. Busy("session") /\ myName \in Names
  BY SpaceEffect, MySpace
<1>2. CASE LeavesSpace
  BY <1>2 DEF LeavesSpace, namespaceVars
<1>3. ASSUME NEW o \in NamespaceObjects, ChangesSpace(o)
      PROVE  /\ \A n \in Names : ns'[n].state # "none" =>
                  ns[n].state # "none" \/ (work["session"].step \in Building /\ n = myName)
             /\ blind' = blind
  <2>1. ns'[myName] = o /\ (\A m \in Names \ {myName} : ns'[m] = ns[m]) /\ blind' = blind
    BY <1>1, <1>3, FurnishesIs DEF ChangesSpace
  <2>2. MakesSpace(o) \/ FillsSpace(o) => work["session"].step \in Building
    BY DEF MakesSpace, FillsSpace, AtStep, Building
  <2>3. EndsSpace(o) => stored.state # "none"
    BY DEF EndsSpace
  <2> QED
    BY <1>1, <1>3, <2>1, <2>2, <2>3 DEF ChangesSpace, stored
<1> QED
  BY <1>2, <1>3, SpaceEffect
LEMMA OrphanWork ==
  ASSUME OrphanTyped, Base', ReconcileSession
  PROVE  OrphanInv'
<1> USE DEF OrphanTyped, OrphanInv
<1>0. /\ Busy("session") /\ "session" \in Controllers /\ me \in Sessions /\ me \in Keys /\ myName \in Names
      /\ mine.there
  BY SpaceEffect, MySpace, BusyIs, KeysAre DEF Controllers, me, mine
<1>1. SessionMove
  BY SessionEffect
<1>s. /\ blind \subseteq blind'
      /\ \A n \in Names : ns'[n].state # "none" =>
           ns[n].state # "none" \/ (work["session"].step \in Building /\ n = myName)
  BY SpaceStays
<1>2. CASE GivesUp("session")
  <2>1. UNCHANGED <<obj, known>> /\ work'["session"].step = "idle"
    BY <1>0, <1>2, NowIdle DEF GivesUp, Base
  <2> QED
    BY <1>s, <2>1, IdleBuild, OrphanRests
<1>3. ASSUME NEW next,
             Passes("session", next),
             \/ AtStep("begin") /\ next = "read" /\ mine.finalizer
             \/ work["session"].step \in Building /\ next \in Building
             \/ AtStep("remove") /\ next = "unfin" /\ (stored.state = "none" \/ myName \in blind')
      PROVE  OrphanInv'
  <2>1. /\ UNCHANGED <<obj, known>>
        /\ work'["session"].step = next /\ me' = me /\ mine' = mine
    BY <1>0, <1>3, NowAt DEF Passes, Base, me, mine
  <2>2. BuildInv'
    BY <1>3, <2>1 DEF BuildInv, AtStep, Building
  <2>3. CleanUpInv'
    <3>1. CASE AtStep("remove") /\ next = "unfin" /\ (stored.state = "none" \/ myName \in blind')
      <4>1. stored.state = "none" => ns'[myName].state = "none"
        BY <1>0, <1>s, <3>1 DEF AtStep, Building, stored
      <4> QED
        BY <2>1, <3>1, <4>1 DEF CleanUpInv, AtStep, CleanUp, stored, myName
    <3>2. CASE next \in Building
      BY <2>1, <3>2 DEF CleanUpInv, AtStep, CleanUp, Building
    <3> QED
      BY <1>3, <3>1, <3>2 DEF Building
  <2> QED
    BY <1>s, <2>1, <2>2, <2>3, OrphanRests
<1>4. ASSUME NEW o, NEW step, Updates("session", o, step),
             \/ Kept(mine, o) /\ AtStep("begin") /\ o.finalizer /\ step = "read"
             \/ Kept(mine, o) /\ AtStep("terminating") /\ step = "remove"
             \/ Kept(mine, o) /\ work["session"].step \in Building /\ step = "idle"
             \/ AtStep("unfin") /\ o = Missing /\ step = "idle"
      PROVE  OrphanInv'
  <2>1. /\ obj[me] = mine /\ obj'[me] = o /\ known'[me] \in {known[me], o}
        /\ \A s \in Sessions \ {me} : obj'[s] = obj[s] /\ known'[s] = known[s]
    <3>1. Stored(me, o) /\ obj[me] = mine
      BY <1>4 DEF Updates, Writes, me, mine
    <3> QED
      BY <1>0, <3>1, StoredIs, KeysAre DEF Base
  <2>2. CASE Kept(mine, o)
    <3>1. FinalizerInv'
      BY <1>0, <2>1, <2>2 DEF FinalizerInv, Kept
    <3>2. NoOrphanNamespace'
      <4>1. ASSUME NEW n \in Names \ blind', ns'[n].state # "none"
            PROVE  \E s \in Sessions : NameOf[s] = n /\ obj'[s].there /\ obj'[s].finalizer
        <5>1. ns[n].state # "none" \/ (work["session"].step \in Building /\ n = myName)
          BY <1>s, <4>1
        <5>2. CASE ns[n].state # "none"
          BY <1>s, <2>1, <2>2, <4>1, <5>2 DEF NoOrphanNamespace, Kept
        <5>3. CASE work["session"].step \in Building /\ n = myName
          BY <1>0, <2>1, <2>2, <5>3 DEF BuildInv, Kept, myName
        <5> QED
          BY <5>1, <5>2, <5>3
      <4> QED
        BY <4>1 DEF NoOrphanNamespace
    <3>3. CASE step = "idle"
      BY <1>0, <1>4, <3>1, <3>2, <3>3, IdleBuild, NowIdle DEF Updates, Writes, Base
    <3>4. CASE step # "idle"
      <4>1. work'["session"].step = step /\ me' = me /\ mine' = o
        BY <1>0, <1>4, <3>4, NowAt DEF Updates, Writes, Base, me, mine
      <4>2. BuildInv'
        BY <1>4, <2>1, <2>2, <3>4, <4>1 DEF BuildInv, Building, Kept, AtStep
      <4>3. CleanUpInv'
        BY <1>4, <2>1, <2>2, <3>4, <4>1 DEF CleanUpInv, CleanUp, Kept, AtStep
      <4> QED
        BY <3>1, <3>2, <4>2, <4>3
    <3> QED
      BY <3>3, <3>4
  <2>3. CASE AtStep("unfin") /\ o = Missing /\ step = "idle"
    <3>1. FinalizerInv'
      BY <1>0, <2>1, <2>3, MissingIs DEF FinalizerInv, CleanUpInv, CleanUp, AtStep
    <3>2. NoOrphanNamespace'
      <4>1. \A n \in Names : ns'[n].state # "none" => ns[n].state # "none"
        BY <1>s, <2>3 DEF AtStep, Building
      <4>2. stored.state = "none" \/ myName \in blind
        BY <2>3 DEF CleanUpInv
      <4> QED
        BY <1>s, <2>1, <4>1, <4>2 DEF NoOrphanNamespace, stored, myName
    <3>3. BuildInv' /\ CleanUpInv'
      BY <1>0, <1>4, <2>3, IdleBuild, NowIdle DEF Updates, Writes, Base
    <3> QED
      BY <3>1, <3>2, <3>3
  <2> QED
    BY <1>4, <2>2, <2>3
<1> QED
  BY <1>1, <1>2, <1>3, <1>4 DEF SessionMove

LEMMA OrphanNext ==
  ASSUME OrphanTyped, Base', SessionNext
  PROVE  OrphanInv'
<1>c. "session" \in Controllers /\ KeysOf["session"] = Sessions
  BY KindsAre DEF Controllers
<1>1. CASE Restart
  <2>1. /\ obj' = obj /\ known' = obj /\ ns' = ns /\ blind' = blind
        /\ work'["session"].step = "idle"
    BY <1>1, <1>c, IdleTyped DEF Restart, RestartRuntime
  <2>2. FinalizerInv' /\ NoOrphanNamespace'
    BY <2>1 DEF FinalizerInv, NoOrphanNamespace, OrphanTyped, OrphanInv
  <2> QED
    BY <2>1, <2>2, IdleBuild DEF OrphanInv
<1>2. CASE SessionActs
  BY <1>2, OrphanStart, OrphanWork DEF SessionActs
<1>3. ASSUME NEW n \in Names, ClusterStep(n), AllSame
      PROVE  OrphanInv'
  <2>1. /\ obj' = obj /\ known' = known /\ work' = work /\ blind' = blind
        /\ \A s \in Sessions : Outside(s)
    BY <1>3, ClusterEffect DEF AllSame, Outside, OrphanTyped
  <2>2. \A m \in Names : ns'[m].state # "none" => ns[m].state # "none"
    BY <1>3, ClusterEffect, FurnishesIs DEF OrphanTyped
  <2> QED
    BY <2>1, <2>2, OrphanOutside
<1>4. CASE Others("session") /\ UNCHANGED sessionVars
  BY <1>4, <1>c, OthersOutside, OrphanOutside DEF sessionVars, namespaceVars, OrphanTyped
<1> QED
  BY <1>1, <1>2, <1>3, <1>4 DEF SessionNext

LEMMA StartMissing ==
  ASSUME Init
  PROVE  \A k \in Watched : obj[k] = Missing /\ known[k] = Missing
<1>1. PICK p \in Plans : obj = [k \in Keys |-> IF k \in p.agents THEN WithPhase(Fresh(<<>>), "Running") ELSE Missing]
  BY DEF Init, RuntimeInit
<1>2. p.agents \subseteq Agents
  BY RuntimeAssumption
<1>3. \A k \in Watched : k \in Keys /\ k \notin Agents
  BY KeysAre
<1>4. \A k \in Watched : obj[k] = Missing
  BY <1>1, <1>2, <1>3
<1> QED
  BY <1>4 DEF Init, RuntimeInit

LEMMA OrphanInit ==
  ASSUME Init
  PROVE  OrphanInv
<1>1. RuntimeInit /\ SessionInit
  BY DEF Init
<1>2. /\ work["session"].step = "idle"
      /\ \A s \in Sessions : known[s] = Missing
  BY StartMissing, KeysAre, IdleTyped DEF Init, RuntimeInit, Controllers
<1>3. FinalizerInv
  BY <1>2, MissingIs DEF FinalizerInv
<1>4. BuildInv /\ CleanUpInv
  BY <1>2 DEF BuildInv, CleanUpInv, Building, CleanUp, AtStep
<1>5. NoOrphanNamespace
  BY <1>1, NoNamespaceIs DEF SessionInit, NoOrphanNamespace
<1> QED
  BY <1>3, <1>4, <1>5 DEF OrphanInv
(* A session namespace exists only as long as a session of its name that   *)
(* still carries the finalizer, unless a clean-up did not see it in its    *)
(* cache: for any sessions, names, specs and order of steps.               *)
THEOREM NoNamespaceIsOrphaned == Spec => []NoOrphanNamespace
<1>1. Init => Typed /\ OrphanInv
  BY TypedInit, OrphanInit
<1>2. Typed /\ OrphanInv /\ [Next]_vars => (Typed /\ OrphanInv)'
  <2> SUFFICES ASSUME Typed, OrphanInv, [Next]_vars
               PROVE  Typed' /\ OrphanInv'
    OBVIOUS
  <2>1. Typed'
    BY TypedNext
  <2>2. OrphanTyped /\ Base'
    BY <2>1 DEF Typed, TypeOK, Base, OrphanTyped
  <2> QED
    BY <2>1, <2>2, StepOf, OrphanNext DEF OrphanTyped
<1>3. OrphanInv => NoOrphanNamespace
  BY DEF OrphanInv
<1> QED
  BY <1>1, <1>2, <1>3, PTL DEF Spec

-----------------------------------------------------------------------------
(* NoKeyLost. *)

EachNext(c) == RestartRuntime \/ Own(c) \/ Others(c)

LEMMA EachStep ==
  ASSUME Base, SessionTypeOK, [Next]_vars, NEW c \in Controllers
  PROVE  EachNext(c)
<1>1. AllSame => \A d \in Controllers : Others(d)
  BY DEF Others, Surround
<1>2. c \in {"session", "team", "message", "toolserver"}
  BY DEF Controllers
<1>3. SessionNext => EachNext("session")
  BY <1>1, ActsAreOwn DEF SessionNext, EachNext, Restart, Controllers
<1>4. TeamNext => EachNext("team")
  BY ActsAreOwn DEF TeamNext, EachNext, Restart
<1>5. MessageNext => EachNext("message")
  BY <1>1, ActsAreOwn DEF MessageNext, EachNext, Restart, Controllers
<1>6. ToolServerNext => EachNext("toolserver")
  BY ActsAreOwn DEF ToolServerNext, EachNext, Restart
<1> QED
  BY <1>2, <1>3, <1>4, <1>5, <1>6, StepOf

(* What a worker's own steps do to a key of its kind. *)
LEMMA OwnTakes ==
  ASSUME Base, NEW c \in Controllers, NEW j \in Watched, NEW step \in Steps, Takes(c, j, step),
         NEW k \in KeysOf[c]
  PROVE  /\ obj'[k] = obj[k] /\ known'[k] = known[k]
         /\ Waits(k) /\ ~Waits(k)' => ~known[k].there \/ known[k].phase \in Verdicts
<1>1. /\ ~Busy(c) /\ queue' = queue \ {j} /\ timers' = timers /\ obj' = obj /\ known' = known
      /\ work' = [work EXCEPT ![c] = IF step = "idle" THEN Idle ELSE At(step, j, known[j])]
      /\ IF step = "idle" THEN ~known[j].there \/ known[j].phase \in Verdicts ELSE known[j].there
  BY DEF Takes, Begin, Busy
<1>2. Waits(k) => k \in queue \cup timers
  BY <1>1, WaitsIs DEF WorksOn
<1>3. k # j /\ Waits(k) => Waits(k)'
  BY <1>1, <1>2 DEF Waits
<1>4. step # "idle" => Waits(j)'
  BY <1>1, NowAt DEF Base, Waits, WorksOn
<1> QED
  BY <1>1, <1>3, <1>4

LEMMA OwnPasses ==
  ASSUME Base, NEW c \in Controllers, (\E step \in StepsOf[c] : Passes(c, step)) \/ GivesUp(c),
         NEW k \in KeysOf[c]
  PROVE  /\ obj'[k] = obj[k] /\ known'[k] = known[k]
         /\ Waits(k) => Waits(k)'
<1>1. CASE GivesUp(c)
  <2>1. queue' = queue /\ timers' = timers \cup {Me(c)} /\ obj' = obj /\ known' = known
    BY <1>1 DEF GivesUp
  <2> QED
    BY <2>1, WaitsIs DEF Waits, WorksOn
<1>2. ASSUME NEW step \in StepsOf[c], Passes(c, step)
      PROVE  /\ obj'[k] = obj[k] /\ known'[k] = known[k]
             /\ Waits(k) => Waits(k)'
  <2>1. queue' = queue /\ timers' = timers /\ obj' = obj /\ known' = known /\ Busy(c)' /\ Me(c)' = Me(c)
    BY <1>2, NowAt DEF Passes, Base
  <2> QED
    BY <2>1, WaitsIs DEF Waits, WorksOn
<1> QED
  BY <1>1, <1>2

LEMMA OwnUpdates ==
  ASSUME Base, NEW c \in Controllers, NEW o, NEW step, Updates(c, o, step), NEW k \in KeysOf[c]
  PROVE  IF k = Me(c)
         THEN /\ obj[k] = Mine(c) /\ obj'[k] = o
              /\ known'[k] = known[k] \/ (known'[k] = o /\ k \in queue')
              /\ queue \subseteq queue'
              /\ step # "idle" => Waits(k)'
         ELSE /\ obj'[k] = obj[k] /\ known'[k] = known[k]
              /\ Waits(k) => Waits(k)'
<1>1. /\ Busy(c) /\ Stored(Me(c), o) /\ obj[Me(c)] = Mine(c) /\ timers' = timers
      /\ work' = [work EXCEPT ![c] = IF step = "idle" THEN Idle ELSE At(step, Me(c), o)]
  BY DEF Updates, Writes
<1>2. Me(c) \in Keys /\ Me(c) \in Watched /\ k \in Keys
  BY <1>1, BusyIs, KindWatched, KeysAre
<1>3. /\ obj'[Me(c)] = o /\ queue \subseteq queue'
      /\ known'[Me(c)] = known[Me(c)] \/ (known'[Me(c)] = o /\ Me(c) \in queue')
      /\ k # Me(c) => obj'[k] = obj[k] /\ known'[k] = known[k]
  BY <1>1, <1>2, StoredIs DEF Base
<1>4. k = Me(c) /\ step # "idle" => Waits(k)'
  BY <1>1, NowAt DEF Base, Waits, WorksOn
<1>5. k # Me(c) /\ Waits(k) => Waits(k)'
  BY <1>1, <1>3, WaitsIs DEF Waits, WorksOn
<1>6. CASE k = Me(c)
  BY <1>1, <1>3, <1>4, <1>6
<1>7. CASE k # Me(c)
  BY <1>3, <1>5, <1>7
<1> QED
  BY <1>6, <1>7

LEMMA OwnTells ==
  ASSUME Base, NEW a \in Agents, Tells(a), NEW k \in Teams
  PROVE  /\ obj'[k] = obj[k] /\ known'[k] = known[k]
         /\ Waits(k) => Waits(k)'
<1>1. "team" \in Controllers /\ KeysOf["team"] = Teams /\ a \in Keys /\ k \in Keys /\ k # a
  BY KindsAre, KeysAre DEF Controllers
<1>2. /\ obj'[k] = obj[k] /\ known'[k] = known[k] /\ queue \subseteq queue' /\ timers' = timers
      /\ Busy("team")' /\ Me("team")' = Me("team") /\ Busy("team")
  <2>1. PICK o :
          /\ Stored(a, o) /\ timers' = timers /\ Busy("team")
          /\ work' = [work EXCEPT !["team"] = At("active", Me("team"), Mine("team"))]
    BY DEF Tells
  <2>t. RuntimeTypeOK
    BY DEF Base
  <2>2. obj'[k] = obj[k] /\ known'[k] = known[k] /\ queue \subseteq queue'
    BY <1>1, <2>1, <2>t, StoredIs
  <2>3. Busy("team")' /\ Me("team")' = Me("team")
    <3>1. work'["team"] = At("active", Me("team"), Mine("team"))
      BY <1>1, <2>1, <2>t DEF RuntimeTypeOK
    <3> QED
      BY <3>1 DEF Busy, Me, At
  <2> QED
    BY <2>1, <2>2, <2>3
<1>3. Waits(k) <=> k \in queue \cup timers \/ WorksOn("team", k)
  BY <1>1, WaitsIs
<1> QED
  BY <1>1, <1>2, <1>3 DEF Waits, WorksOn

Undecided(k) ==
  obj[k].there /\ obj[k].phase \notin Verdicts /\ known[k].there /\ known[k].phase \notin Verdicts

LEMMA UndecidedStep ==
  ASSUME Base, NEW c \in Controllers, EachNext(c), NEW k \in KeysOf[c],
         Undecided(k) => Waits(k)
  PROVE  Undecided(k)' => Waits(k)'
<1>k. k \in Watched /\ k \in Keys
  BY KindWatched, KeysAre
<1>1. CASE RestartRuntime
  BY <1>1, <1>k DEF RestartRuntime, Undecided, Waits
<1>2. CASE Others(c)
  <2>1. Outside(k) /\ work'[c] = work[c]
    BY <1>2, OthersOutside
  <2>2. CASE known'[k] = obj'[k] /\ k \in queue'
    BY <2>2 DEF Waits
  <2>3. CASE known'[k] = known[k] /\ Undecided(k)'
    <3>1. k \in plan => ~known[k].there
      BY <1>k, MissingIs DEF Base, ObjectsInv
    <3>2. Removed(k) => ~obj'[k].there
      BY MissingIs DEF Removed
    <3>3. Undecided(k)
      BY <2>1, <2>3, <3>1, <3>2 DEF Undecided, Outside, UserWrote, Created, Edited, Doomed
    <3> QED
      BY <2>1, <3>3, WaitsOutside
  <2> QED
    BY <2>1, <2>2, <2>3 DEF Outside
<1>3. CASE Own(c)
  <2>1. ASSUME NEW j \in Watched, NEW step \in Steps, Takes(c, j, step)
        PROVE  Undecided(k)' => Waits(k)'
    BY <2>1, OwnTakes DEF Undecided
  <2>2. CASE (\E step \in StepsOf[c] : Passes(c, step)) \/ GivesUp(c)
    BY <2>2, OwnPasses DEF Undecided
  <2>3. ASSUME NEW o, NEW step, Updates(c, o, step)
        PROVE  Undecided(k)' => Waits(k)'
    <3>1. CASE k # Me(c)
      BY <2>3, <3>1, OwnUpdates DEF Undecided
    <3>2. CASE k = Me(c)
      <4>1. step = "idle" => o = Missing \/ o.phase \in Verdicts
        BY <2>3 DEF Updates
      <4>2. obj'[k] = o /\ (step # "idle" => Waits(k)')
        BY <2>3, <3>2, OwnUpdates
      <4> QED
        BY <4>1, <4>2, MissingIs DEF Undecided
    <3> QED
      BY <3>1, <3>2
  <2>4. ASSUME c = "team", NEW a \in Agents, Tells(a)
        PROVE  Undecided(k)' => Waits(k)'
    BY <2>4, OwnTells, KindsAre DEF Undecided
  <2> QED
    BY <1>3, <2>1, <2>2, <2>3, <2>4 DEF Own, Works
<1> QED
  BY <1>1, <1>2, <1>3 DEF EachNext

LEMMA WatchedKinds ==
  ASSUME NEW k \in Watched
  PROVE  \E c \in Controllers : k \in KeysOf[c]
BY KindsAre DEF Watched, Controllers

LEMMA UndecidedNext ==
  ASSUME Base, UndecidedInv, \A c \in Controllers : EachNext(c)
  PROVE  UndecidedInv'
<1>1. ASSUME NEW k \in Watched
      PROVE  Undecided(k)' => Waits(k)'
  <2>1. PICK c \in Controllers : k \in KeysOf[c]
    BY WatchedKinds
  <2>2. Undecided(k) => Waits(k)
    BY DEF UndecidedInv, Undecided
  <2> QED
    BY <2>1, <2>2, UndecidedStep
<1> QED
  BY <1>1 DEF UndecidedInv, Undecided

LEMMA DeletedNext ==
  ASSUME OrphanTyped, DeletedInv, SessionNext, EachNext("session")
  PROVE  DeletedInv'
<1> USE DEF OrphanTyped
<1>c. "session" \in Controllers /\ KeysOf["session"] = Sessions
  BY KindsAre DEF Controllers
<1> SUFFICES ASSUME NEW s \in Sessions, obj'[s].there, known'[s].deleting
             PROVE  Waits(s)'
  BY DEF DeletedInv
<1>k. s \in Watched /\ s \in Keys
  BY KeysAre
<1>0. obj[s].there /\ known[s].deleting => Waits(s)
  BY DEF DeletedInv
<1>1. CASE RestartRuntime
  BY <1>1, <1>k DEF RestartRuntime, Waits
<1>2. CASE Others("session")
  <2>1. Outside(s) /\ work'["session"] = work["session"]
    BY <1>c, <1>2, OthersOutside
  <2>2. CASE known'[s] = obj'[s] /\ s \in queue'
    BY <2>2 DEF Waits
  <2>3. CASE known'[s] = known[s]
    <3>1. s \in plan => ~known[s].deleting
      BY <1>k, MissingIs DEF Base, ObjectsInv
    <3>2. obj[s].there
      BY <2>1, <2>3, <3>1 DEF Outside, UserWrote, Created, Edited, Doomed, Removed
    <3> QED
      BY <1>c, <1>0, <2>1, <2>3, <3>2, WaitsOutside
  <2> QED
    BY <2>1, <2>2, <2>3 DEF Outside
<1>3. CASE \E r \in Sessions : StartSession(r)
  <2>1. PICK r \in Sessions, step \in Steps : Takes("session", r, step) /\ StartSession(r)
    BY <1>3, StartTakes
  <2>2. known[s].deleting => known[s].finalizer /\ known[s].there
    BY <1>k, ObjectTyped, MissingIs DEF Base, ObjectsInv, WellFormed, RuntimeTypeOK
  <2>3. CASE r = s
    <3>1. obj' = obj /\ known' = known /\ work' = [work EXCEPT !["session"] = At("terminating", s, known[s])]
      BY <2>1, <2>2, <2>3 DEF StartSession, Begin
    <3> QED
      BY <1>c, <3>1, NowAt DEF Waits, WorksOn, Base
  <2>4. CASE r # s
    <3>1. obj' = obj /\ known' = known /\ queue' = queue \ {r} /\ timers' = timers /\ ~Busy("session")
      BY <2>1 DEF StartSession, Begin, Busy
    <3> QED
      BY <1>c, <1>0, <2>4, <3>1, WaitsIs DEF Waits, WorksOn
  <2> QED
    BY <2>3, <2>4
<1>4. CASE ReconcileSession
  <2>1. SessionMove
    BY <1>4, SessionEffect
  <2>2. CASE (\E step \in StepsOf["session"] : Passes("session", step)) \/ GivesUp("session")
    BY <1>c, <1>0, <2>2, OwnPasses
  <2>3. ASSUME NEW o, NEW step, Updates("session", o, step),
               \/ step # "idle" \/ o = Missing
               \/ work["session"].step \in Building /\ Kept(mine, o)
        PROVE  Waits(s)'
    <3>1. CASE s # me
      BY <1>c, <1>0, <2>3, <3>1, OwnUpdates DEF me
    <3>2. CASE s = me
      <4>1. /\ obj'[s] = o /\ (step # "idle" => Waits(s)') /\ queue \subseteq queue'
            /\ known'[s] = known[s] \/ s \in queue'
        BY <1>c, <2>3, <3>2, OwnUpdates DEF me
      <4>2. CASE work["session"].step \in Building /\ known'[s] = known[s]
        <5>1. ~mine.deleting
          BY <4>2 DEF OrphanInv, BuildInv
        <5>2. Busy("session")
          BY <4>2 DEF Busy, Building
        <5>3. me \in queue
          BY <1>c, <3>2, <4>2, <5>1, <5>2 DEF Base, WorkersInv, me, mine
        <5> QED
          BY <3>2, <4>1, <5>3 DEF Waits
      <4> QED
        BY <2>3, <4>1, <4>2, MissingIs DEF Waits
    <3> QED
      BY <3>1, <3>2
  <2>4. \A next : Passes("session", next) /\ (next \in Building \/ next \in {"read", "unfin"})
                    => next \in StepsOf["session"]
    BY KindsAre DEF Building, CleanUp
  <2> QED
    BY <2>1, <2>2, <2>3, <2>4 DEF SessionMove
<1>5. CASE \E n \in Names : ClusterStep(n) /\ AllSame
  BY <1>2, <1>5 DEF Others, Surround
<1> QED
  BY <1>1, <1>2, <1>3, <1>4, <1>5 DEF SessionNext, SessionActs, Restart

(* No key is lost: an object that nothing would bring a worker back to has *)
(* its verdict, and is not being deleted: every worker that takes a key    *)
(* decides it, writes or comes back, and every other change wakes it.      *)
THEOREM NoKeyIsLost == Spec => []NoKeyLost
<1> DEFINE Inv == Typed /\ OrphanInv /\ UndecidedInv /\ DeletedInv
<1>1. Init => Inv
  <2> SUFFICES ASSUME Init
               PROVE  Inv
    OBVIOUS
  <2>1. \A k \in Watched : ~known[k].there /\ ~known[k].deleting
    BY StartMissing, MissingIs
  <2> QED
    BY <2>1, TypedInit, OrphanInit, KeysAre DEF UndecidedInv, DeletedInv
<1>2. Inv /\ [Next]_vars => Inv'
  <2> SUFFICES ASSUME Inv, [Next]_vars
               PROVE  Inv'
    OBVIOUS
  <2>1. Typed'
    BY TypedNext
  <2>2. OrphanTyped /\ Base /\ SessionTypeOK /\ Base'
    BY <2>1 DEF Typed, TypeOK, Base, OrphanTyped
  <2>3. (\A c \in Controllers : EachNext(c)) /\ SessionNext
    BY <2>2, EachStep, StepOf
  <2>4. "session" \in Controllers
    BY DEF Controllers
  <2> QED
    BY <2>1, <2>2, <2>3, <2>4, OrphanNext, UndecidedNext, DeletedNext
<1>3. Inv => NoKeyLost
  <2> SUFFICES ASSUME Inv, NEW k \in Watched, Settled(k)
               PROVE  obj[k].phase \in Verdicts /\ ~obj[k].deleting
    BY DEF NoKeyLost
  <2>1. obj[k].there /\ known[k] = obj[k] /\ ~Waits(k)
    BY DEF Settled, Waits, WorksOn, Busy
  <2>2. obj[k].phase \in Verdicts
    BY <2>1 DEF UndecidedInv
  <2>3. obj[k].deleting => k \in Sessions
    BY KeysAre DEF Typed, ObjectsInv, WellFormed
  <2> QED
    BY <2>1, <2>2, <2>3 DEF DeletedInv
<1> QED
  BY <1>1, <1>2, <1>3, PTL DEF Spec

-----------------------------------------------------------------------------
(* ActiveTeamDelegates. *)

(* Only what counts as trouble, or a team, takes an agent or its spec. *)
LEMMA AgentStays ==
  ASSUME Base, Others("team"), NEW a \in Agents, a \notin disturbed', obj[a].there
  PROVE  obj'[a].there /\ obj'[a].spec = obj[a].spec
<1>0. a \in Keys /\ a \notin Watched /\ "team" \in Controllers
  BY KeysAre DEF Controllers
<1>1. ASSUME NEW k \in Keys, NEW o \in ObjectsOf(k), UserWrites(k, o)
      PROVE  obj'[a].there /\ obj'[a].spec = obj[a].spec
  <2>1. CASE k # a
    BY <1>0, <1>1, <2>1, StoredIs DEF UserWrites, Base
  <2>2. CASE k = a
    <3>1. obj'[a] = o
      BY <1>0, <1>1, <2>2, StoredIs DEF UserWrites, Base
    <3>2. a \notin plan
      BY <1>0, MissingIs DEF Base, ObjectsInv
    <3>3. PICK phase \in Phases : o = WithPhase(obj[a], phase)
      BY <1>1, <2>2, <3>2 DEF UserWrites
    <3> QED
      BY <3>1, <3>3 DEF WithPhase, Object
  <2> QED
    BY <2>1, <2>2
<1>2. CASE (\E k \in Keys : CatchUp(k)) \/ (\E k \in Watched : FireTimer(k)) \/ AllSame
  BY <1>2 DEF CatchUp, FireTimer, AllSame
<1>3. ASSUME NEW d \in Controllers \ {"team"}, Own(d)
      PROVE  obj'[a] = obj[a]
  <2>1. CASE \E k \in Watched, step \in Steps : Takes(d, k, step)
    BY <2>1 DEF Takes, Begin
  <2>2. CASE (\E step \in StepsOf[d] : Passes(d, step)) \/ GivesUp(d)
    BY <2>2 DEF Passes, GivesUp
  <2>3. ASSUME NEW o, NEW step, Updates(d, o, step)
        PROVE  obj'[a] = obj[a]
    <3>1. Busy(d) /\ Stored(Me(d), o)
      BY <2>3 DEF Updates, Writes
    <3>2. Me(d) \in Keys /\ Me(d) # a
      BY <1>0, <3>1, BusyIs
    <3> QED
      BY <1>0, <3>1, <3>2, StoredIs DEF Base
  <2> QED
    BY <1>3, <2>1, <2>2, <2>3 DEF Own, Works
<1> QED
  BY <1>1, <1>2, <1>3 DEF Others, Surround

LEMMA OthersDisturb ==
  ASSUME Base, NEW c \in Controllers, Others(c)
  PROVE  disturbed \subseteq disturbed'
<1>1. ASSUME NEW d \in Controllers, NEW o, NEW step, Updates(d, o, step)
      PROVE  disturbed \subseteq disturbed'
  BY <1>1 DEF Updates, Writes, Stored
<1>2. ASSUME NEW d \in Controllers, Works(d)
      PROVE  disturbed \subseteq disturbed'
  BY <1>1, <1>2 DEF Works, Passes, GivesUp, Marks
<1>3. ASSUME NEW d \in Controllers, Own(d)
      PROVE  disturbed \subseteq disturbed'
  BY <1>2, <1>3 DEF Own, Takes, Begin, Tells, Stored
<1>4. Surround => disturbed \subseteq disturbed'
  BY DEF Surround, UserWrites, Stored, CatchUp, FireTimer, AllSame
<1> QED
  BY <1>3, <1>4 DEF Others

LEMMA TeamIs ==
  ASSUME RuntimeTypeOK, NEW t \in Teams, known[t].there
  PROVE  known[t].spec.coordinator \in Agents
<1>1. t \in Keys /\ t \in Watched
  BY KeysAre
<1>2. known[t].spec \in SpecsOf[t]
  BY <1>1, ObjectTyped DEF RuntimeTypeOK
<1> QED
  BY <1>2, TeamAssumption DEF TeamSpec

(* A team the invariant speaks of. *)
Delegating(t) ==
  /\ obj[t].there /\ obj[t].phase = "Active"
  /\ known[t].there /\ known[t].phase = "Active" /\ known[t].spec.coordinator \notin disturbed

LEMMA TeamsOutside ==
  ASSUME Base, ToldInv, TeamsInv, Others("team"), overruled' = overruled
  PROVE  ToldInv' /\ TeamsInv'
<1>c. "team" \in Controllers /\ KeysOf["team"] = Teams
  BY KindsAre DEF Controllers
<1>0. /\ work'["team"] = work["team"] /\ disturbed \subseteq disturbed'
      /\ \A t \in Teams : Outside(t)
  BY <1>c, OthersOutside, OthersDisturb
<1>1. ToldInv'
  <2> SUFFICES ASSUME TeamAt("active")', coordinator' \notin disturbed'
               PROVE  DelegatesTo(team.spec)'
    BY DEF ToldInv
  <2>1. TeamAt("active") /\ team' = team /\ coordinator' = coordinator /\ Busy("team")
    BY <1>0 DEF TeamAt, team, Mine, coordinator, Busy
  <2>2. coordinator \in Agents /\ DelegatesTo(team.spec)
    BY <1>0, <2>1, TeamSpecTyped DEF ToldInv
  <2> QED
    BY <2>1, <2>2, AgentStays DEF DelegatesTo, coordinator
<1>2. TeamsInv'
  <2> SUFFICES ASSUME NEW t \in Teams, t \notin overruled, Delegating(t)'
               PROVE  DelegatesTo(known[t].spec)' \/ Waits(t)'
    BY DEF TeamsInv, Delegating
  <2>k. t \in Keys /\ t \in Watched
    BY KeysAre
  <2>1. CASE known'[t] = obj'[t] /\ t \in queue'
    BY <2>1 DEF Waits
  <2>2. CASE known'[t] = known[t]
    <3>1. t \notin plan
      BY <2>k, <2>2, MissingIs DEF Base, ObjectsInv, Delegating
    <3>2. Delegating(t)
      BY <1>0, <2>2, <3>1, MissingIs DEF Delegating, Outside, UserWrote, Created, Edited, Doomed, Removed
    <3>3. CASE Waits(t)
      BY <1>c, <1>0, <3>3, WaitsOutside
    <3>4. CASE DelegatesTo(known[t].spec)
      <4>1. known[t].spec.coordinator \in Agents /\ known[t].spec.coordinator \notin disturbed'
        BY <2>2, <3>2, TeamIs DEF Base, Delegating
      <4> QED
        BY <2>2, <3>4, <4>1, AgentStays DEF DelegatesTo
    <3> QED
      BY <3>2, <3>3, <3>4 DEF TeamsInv, Delegating
  <2> QED
    BY <1>0, <2>1, <2>2 DEF Outside
<1> QED
  BY <1>1, <1>2

LEMMA TeamsStart ==
  ASSUME Base, TeamsInv, NEW r \in Teams, StartTeam(r)
  PROVE  ToldInv' /\ TeamsInv'
<1>c. "team" \in Controllers /\ KeysOf["team"] = Teams
  BY KindsAre DEF Controllers
<1> DEFINE step == IF known[r].there THEN "begin" ELSE "idle"
<1>0. /\ ~Busy("team") /\ queue' = queue \ {r} /\ timers' = timers /\ overruled' = overruled
      /\ obj' = obj /\ known' = known /\ disturbed' = disturbed
      /\ work' = [work EXCEPT !["team"] = IF step = "idle" THEN Idle ELSE At(step, r, known[r])]
  BY DEF StartTeam, Begin, Busy
<1>1. CASE known[r].there
  <2>1. work'["team"].step = "begin" /\ WorksOn("team", r)'
    BY <1>0, <1>1, <1>c, NowAt DEF Base, WorksOn
  <2>2. ToldInv'
    BY <2>1 DEF ToldInv, TeamAt
  <2>3. \A t \in Teams : Waits(t) => Waits(t)'
    BY <1>c, <1>0, <2>1, WaitsIs DEF Waits, WorksOn
  <2>4. TeamsInv'
    BY <1>0, <2>3 DEF TeamsInv, DelegatesTo
  <2> QED
    BY <2>2, <2>4
<1>2. CASE ~known[r].there
  <2>1. work'["team"].step = "idle"
    BY <1>0, <1>2, <1>c, NowIdle DEF Base
  <2>2. ToldInv'
    BY <2>1 DEF ToldInv, TeamAt
  <2>3. \A t \in Teams : Waits(t) /\ t # r => Waits(t)'
    BY <1>c, <1>0, WaitsIs DEF Waits, WorksOn
  <2>4. TeamsInv'
    BY <1>0, <1>2, <2>3 DEF TeamsInv, DelegatesTo
  <2> QED
    BY <2>2, <2>4
<1> QED
  BY <1>1, <1>2

(* A step of the worker that touches no agent and no verdict. *)
LEMMA TeamsPass ==
  ASSUME Base, TeamsInv, (\E step \in StepsOf["team"] : Passes("team", step)) \/ GivesUp("team"),
         overruled' = overruled \/ (overruled' = overruled \ {Me("team")} /\ Busy("team")' /\ Me("team")' = Me("team"))
  PROVE  TeamsInv'
<1>c. "team" \in Controllers /\ KeysOf["team"] = Teams
  BY KindsAre DEF Controllers
<1>1. /\ \A t \in Teams : known'[t] = known[t] /\ (Waits(t) => Waits(t)')
      /\ obj' = obj /\ disturbed \subseteq disturbed'
  BY <1>c, OwnPasses DEF Passes, GivesUp, Marks
<1> SUFFICES ASSUME NEW t \in Teams, t \notin overruled', Delegating(t)'
             PROVE  DelegatesTo(known[t].spec)' \/ Waits(t)'
  BY DEF TeamsInv, Delegating
<1>2. Delegating(t)
  BY <1>1 DEF Delegating
<1>3. CASE t \notin overruled
  BY <1>1, <1>2, <1>3 DEF TeamsInv, Delegating, DelegatesTo
<1>4. CASE t \in overruled
  BY <1>c, <1>4 DEF Waits, WorksOn
<1> QED
  BY <1>3, <1>4

LEMMA TeamsUpdate ==
  ASSUME Base, ToldInv, TeamsInv, overruled' = overruled,
         NEW o, Updates("team", o, "idle"), o.phase # "Active" \/ TeamAt("active")
  PROVE  TeamsInv'
<1>c. "team" \in Controllers /\ KeysOf["team"] = Teams
  BY KindsAre DEF Controllers
<1>0. /\ Busy("team") /\ Stored(Me("team"), o) /\ Me("team") \in Keys /\ Me("team") \in Watched
      /\ Me("team") \in Teams /\ Kept(team, o)
  BY <1>c, BusyIs DEF Updates, Writes, team
<1>1. disturbed \subseteq disturbed' /\ \A a \in Agents : obj'[a] = obj[a]
  BY <1>0, StoredIs, KeysAre DEF Base
<1> SUFFICES ASSUME NEW t \in Teams, t \notin overruled, Delegating(t)'
             PROVE  DelegatesTo(known[t].spec)' \/ Waits(t)'
  BY DEF TeamsInv, Delegating
<1>2. CASE t # Me("team")
  <2>1. obj'[t] = obj[t] /\ known'[t] = known[t] /\ (Waits(t) => Waits(t)')
    BY <1>c, <1>2, OwnUpdates
  <2>2. known[t].spec.coordinator \in Agents
    BY <2>1, TeamIs DEF Base, Delegating
  <2> QED
    BY <1>1, <2>1, <2>2 DEF TeamsInv, Delegating, DelegatesTo
<1>3. CASE t = Me("team")
  <2>1. /\ obj'[t] = o /\ queue \subseteq queue'
        /\ known'[t] = known[t] \/ t \in queue'
    BY <1>c, <1>3, OwnUpdates
  <2>2. CASE t \in queue'
    BY <2>2 DEF Waits
  <2>3. CASE known'[t] = known[t] /\ t \notin queue
    <3>1. known[t].spec = team.spec
      BY <1>c, <1>0, <1>3, <2>3 DEF Base, WorkersInv, team
    <3>2. TeamAt("active")
      BY <2>1 DEF Delegating
    <3>3. coordinator \in Agents /\ coordinator \notin disturbed
      BY <1>0, <1>1, <2>3, <3>1, TeamSpecTyped DEF Delegating, coordinator
    <3>4. DelegatesTo(team.spec)
      BY <3>2, <3>3 DEF ToldInv
    <3> QED
      BY <1>1, <2>3, <3>1, <3>3, <3>4 DEF DelegatesTo, coordinator
  <2> QED
    BY <2>1, <2>2, <2>3
<1> QED
  BY <1>2, <1>3

LEMMA TeamsTell ==
  ASSUME Base, TeamsInv, Tells(coordinator), overruled' = (overruled \cup TeamsOf(coordinator)) \ {Me("team")}
  PROVE  ToldInv' /\ TeamsInv'
<1>c. "team" \in Controllers /\ KeysOf["team"] = Teams
  BY KindsAre DEF Controllers
<1> DEFINE a == coordinator
<1>0. /\ a \in Agents /\ a \in Keys /\ Stored(a, WithSpec(known[a], team.spec.members))
      /\ work' = [work EXCEPT !["team"] = At("active", Me("team"), Mine("team"))]
  BY KeysAre DEF Tells
<1>1. /\ obj'[a] = WithSpec(known[a], team.spec.members) /\ disturbed \subseteq disturbed'
      /\ \A b \in Keys \ {a} : obj'[b] = obj[b]
  BY <1>0, StoredIs DEF Base
<1>2. work'["team"].step = "active" /\ Me("team")' = Me("team") /\ team' = team /\ coordinator' = a
  <2>1. work'["team"].step = "active" /\ Me("team")' = Me("team") /\ Mine("team")' = Mine("team")
    BY <1>c, <1>0, NowAt DEF Base
  <2> QED
    BY <2>1 DEF team, coordinator
<1>3. ToldInv'
  <2>1. obj'[a].there /\ obj'[a].spec = team.spec.members
    BY <1>1 DEF WithSpec, Object
  <2> QED
    BY <1>2, <2>1 DEF ToldInv, DelegatesTo, coordinator
<1>4. TeamsInv'
  <2> SUFFICES ASSUME NEW t \in Teams, t \notin overruled', Delegating(t)'
               PROVE  DelegatesTo(known[t].spec)' \/ Waits(t)'
    BY DEF TeamsInv, Delegating
  <2>1. obj'[t] = obj[t] /\ known'[t] = known[t] /\ (Waits(t) => Waits(t)')
    BY <1>0, OwnTells
  <2>2. CASE t = Me("team")
    BY <1>c, <1>2, <2>2 DEF Waits, WorksOn, Busy
  <2>3. CASE t # Me("team")
    <3>1. t \notin overruled /\ t \notin TeamsOf(a)
      BY <2>3
    <3>2. known[t].there /\ known[t].spec.coordinator \in Agents
      BY <2>1, TeamIs DEF Base, Delegating
    <3>3. known[t].spec.coordinator # a
      BY <3>1, <3>2 DEF TeamsOf, Leads
    <3>4. obj'[known[t].spec.coordinator] = obj[known[t].spec.coordinator]
      BY <1>1, <3>2, <3>3, KeysAre
    <3> QED
      BY <1>1, <2>1, <3>1, <3>4 DEF TeamsInv, Delegating, DelegatesTo
  <2> QED
    BY <2>2, <2>3
<1> QED
  BY <1>3, <1>4

LEMMA TeamsWork ==
  ASSUME Base, ToldInv, TeamsInv, ReconcileTeam
  PROVE  ToldInv' /\ TeamsInv'
<1>c. "team" \in Controllers /\ {"idle", "begin", "delegate", "active"} = StepsOf["team"]
  BY KindsAre DEF Controllers
<1>b. Busy("team") /\ coordinator \in Agents /\ coordinator \in Keys
  <2>1. Busy("team")
    BY DEF ReconcileTeam, ValidateTeam, Delegate, ActivateTeam, TeamCallFails, CallFails, TeamAt, Busy
  <2> QED
    BY <2>1, TeamSpecTyped, KeysAre
<1>g. ASSUME GivesUp("team"), overruled' = overruled
      PROVE  ToldInv' /\ TeamsInv'
  <2>1. work'["team"].step = "idle"
    BY <1>c, <1>g, NowIdle DEF GivesUp, Base
  <2> QED
    BY <1>g, <2>1, TeamsPass DEF ToldInv, TeamAt
<1>w. ASSUME NEW phase \in {"Error", "Active"}, phase = "Error" \/ TeamAt("active"),
             UpdateAndReturn("team", WithPhase(team, phase)), overruled' = overruled
      PROVE  ToldInv' /\ TeamsInv'
  <2>1. phase \in Phases /\ phase \in Verdicts
    BY DEF Phases, Verdicts
  <2>2. CASE Writes("team", WithPhase(team, phase), "idle")
    <3>1. Updates("team", WithPhase(team, phase), "idle") /\ WithPhase(team, phase).phase = phase
      BY <1>b, <1>c, <2>1, <2>2, PhaseUpdates, PhaseKept DEF team
    <3>2. work'["team"].step = "idle"
      BY <1>c, <2>2, NowIdle DEF Writes, Base
    <3> QED
      BY <1>w, <3>1, <3>2, TeamsUpdate DEF ToldInv, TeamAt
  <2> QED
    BY <1>b, <1>c, <1>g, <1>w, <2>2, ReturnEffect
<1>1. CASE ValidateTeam
  <2>1. CASE NoWrite /\ GoOn("team", "delegate", team)
    <3>1. Passes("team", "delegate") /\ overruled' = overruled
      BY <1>b, <1>c, <1>1, <2>1, GoOnPasses DEF ValidateTeam, team
    <3>2. work'["team"].step = "delegate"
      BY <1>c, <3>1, NowAt DEF Passes, Base
    <3> QED
      BY <1>c, <3>1, <3>2, TeamsPass DEF ToldInv, TeamAt
  <2> QED
    BY <1>1, <1>w, <2>1 DEF ValidateTeam
<1>2. CASE Delegate
  <2>1. CASE DelegatesAlready /\ NoWrite /\ GoOn("team", "active", team) /\ overruled' = overruled \ {Me("team")}
    <3>1. Passes("team", "active")
      BY <1>b, <1>c, <2>1, GoOnPasses DEF team
    <3>2. /\ work'["team"].step = "active" /\ Me("team")' = Me("team") /\ team' = team
          /\ coordinator' = coordinator /\ obj' = obj /\ disturbed \subseteq disturbed'
      BY <1>c, <3>1, NowAt DEF Passes, Marks, Base, team, coordinator
    <3>3. coordinator \notin disturbed => DelegatesTo(team.spec)
      BY <1>b, <2>1 DEF DelegatesAlready, ReadCoordinator, Base, ObjectsInv, DelegatesTo, coordinator
    <3>4. ToldInv'
      BY <3>2, <3>3 DEF ToldInv, DelegatesTo
    <3> QED
      BY <1>c, <2>1, <3>1, <3>2, <3>4, TeamsPass DEF Busy
  <2>2. CASE WriteDelegates
    <3>1. Stored(coordinator, WithSpec(known[coordinator], team.spec.members))
      BY <1>b, <2>2, PutStores, 0 \in Nat DEF WriteDelegates, ReadCoordinator, Base
    <3>2. Tells(coordinator)
      BY <1>b, <2>2, <3>1, TeamSpecTyped DEF WriteDelegates, ReadCoordinator, GoOn, Tells, team
    <3> QED
      BY <2>2, <3>2, TeamsTell DEF WriteDelegates
  <2>3. CASE NoWrite /\ Requeue("team") /\ UNCHANGED overruled
    BY <1>b, <1>c, <1>g, <2>3, RequeueGivesUp
  <2> QED
    BY <1>2, <2>1, <2>2, <2>3 DEF Delegate
<1>3. CASE ActivateTeam
  BY <1>3, <1>w DEF ActivateTeam
<1>4. CASE TeamCallFails
  BY <1>c, <1>g, <1>4, CallFailsGivesUp DEF TeamCallFails
<1> QED
  BY <1>1, <1>2, <1>3, <1>4 DEF ReconcileTeam

LEMMA TeamsNext ==
  ASSUME Base, ToldInv, TeamsInv, TeamNext
  PROVE  ToldInv' /\ TeamsInv'
<1>1. CASE Restart
  <2>1. /\ work'["team"].step = "idle"
        /\ \A t \in Teams : obj'[t].there => Waits(t)'
    BY <1>1, IdleTyped, KeysAre DEF Restart, RestartRuntime, Controllers, Waits
  <2> QED
    BY <2>1 DEF ToldInv, TeamAt, TeamsInv
<1>2. CASE TeamActs
  BY <1>2, TeamsStart, TeamsWork DEF TeamActs
<1>3. CASE Others("team") /\ UNCHANGED overruled
  BY <1>3, TeamsOutside
<1> QED
  BY <1>1, <1>2, <1>3 DEF TeamNext

(* When nothing is left to do for an Active team, its coordinator          *)
(* delegates to its members, unless another team wrote the coordinator     *)
(* since, or something befell the agent itself.                            *)
THEOREM ActiveTeamsDelegate == Spec => []ActiveTeamDelegates
<1> DEFINE Inv == Typed /\ ToldInv /\ TeamsInv
<1>1. Init => Inv
  <2> SUFFICES ASSUME Init
               PROVE  Inv
    OBVIOUS
  <2>1. \A t \in Teams : ~obj[t].there
    BY StartMissing, MissingIs, KeysAre
  <2>2. work["team"].step = "idle"
    BY IdleTyped DEF Init, RuntimeInit, Controllers
  <2> QED
    BY <2>1, <2>2, TypedInit DEF ToldInv, TeamAt, TeamsInv
<1>2. Inv /\ [Next]_vars => Inv'
  <2> SUFFICES ASSUME Inv, [Next]_vars
               PROVE  Inv'
    OBVIOUS
  <2>1. Typed'
    BY TypedNext
  <2>2. Base /\ SessionTypeOK
    BY DEF Typed, TypeOK, Base
  <2> QED
    BY <2>1, <2>2, StepOf, TeamsNext
<1>3. Inv => ActiveTeamDelegates
  <2> SUFFICES ASSUME Inv, NEW t \in Teams \ overruled, Settled(t), obj[t].phase = "Active",
                      obj[t].spec.coordinator \notin disturbed
               PROVE  DelegatesTo(obj[t].spec)
    BY DEF ActiveTeamDelegates, DelegatesTo
  <2>1. obj[t].there /\ known[t] = obj[t] /\ ~Waits(t)
    BY DEF Settled, Waits, WorksOn, Busy
  <2> QED
    BY <2>1 DEF TeamsInv
<1> QED
  BY <1>1, <1>2, <1>3, PTL DEF Spec

-----------------------------------------------------------------------------
(* UndisturbedPostedOnce and MessageOutcomeIsFinal. *)

PostedOnce == MessageInv /\ PostedInv /\ UndisturbedPostedOnce

LEMMA PostedOutside ==
  ASSUME Base, PostedOnce, Others("message"), chats' = chats
  PROVE  PostedOnce'
<1>c. "message" \in Controllers /\ KeysOf["message"] = Messages
  BY KindsAre DEF Controllers
<1>0. /\ work'["message"] = work["message"] /\ disturbed \subseteq disturbed'
      /\ \A m \in Messages : Outside(m)
  BY <1>c, OthersOutside, OthersDisturb
<1>w. /\ Me("message")' = Me("message") /\ message' = message /\ (Busy("message")' <=> Busy("message"))
  BY <1>c, <1>0, OthersSame DEF message
<1>1. ASSUME NEW m \in Messages
      PROVE  /\ plan' \cap {m} \subseteq plan
             /\ m \in disturbed' \/ obj'[m] = obj[m] \/ ~obj'[m].there \/ m \in plan
  <2>1. ~obj[m].finalizer
    BY RuntimeAssumption, KeysAre DEF Base, ObjectsInv, WellFormed, Watched
  <2> QED
    BY <1>0, <2>1, MissingIs DEF Outside, UserWrote, Created, Edited, Doomed, Removed
<1>2. MessageInv'
  <2>1. Busy("message") => Me("message") \in Messages /\ Me("message") \notin plan
    BY <1>c, BusyIs
  <2> QED
    BY <1>0, <1>w, <1>1, <2>1 DEF PostedOnce, MessageInv, TerminalMessage
<1>3. PostedInv'
  <2> SUFFICES ASSUME NEW m \in Messages
               PROVE  /\ m \in plan' => chats[m] = 0
                      /\ m \notin disturbed' /\ chats[m] # 0 =>
                           \/ ~obj'[m].there \/ TerminalMessage(obj'[m])
                           \/ WorksOn("message", m) /\ work["message"].step \in PostedSteps
    BY <1>0, <1>w DEF PostedInv, WorksOn
  <2> QED
    BY <1>0, <1>1 DEF PostedOnce, PostedInv
<1>4. UndisturbedPostedOnce'
  BY <1>0 DEF PostedOnce, UndisturbedPostedOnce
<1> QED
  BY <1>2, <1>3, <1>4 DEF PostedOnce

LEMMA PostedStart ==
  ASSUME Base, PostedOnce, NEW r \in Messages, StartMessage(r)
  PROVE  PostedOnce'
<1>c. "message" \in Controllers /\ KeysOf["message"] = Messages /\ r \in Keys
  BY KindsAre, KeysAre DEF Controllers
<1>0. /\ ~Busy("message") /\ obj' = obj /\ plan' = plan /\ disturbed' = disturbed /\ chats' = chats
      /\ work' = [work EXCEPT !["message"] =
           IF (IF known[r].there /\ ~TerminalMessage(known[r]) THEN "begin" ELSE "idle") = "idle"
           THEN Idle ELSE At("begin", r, known[r])]
  BY DEF StartMessage, Begin, Busy, messageVars
<1>1. PostedInv' /\ UndisturbedPostedOnce'
  BY <1>0 DEF PostedOnce, PostedInv, UndisturbedPostedOnce, WorksOn, TerminalMessage
<1>2. MessageInv'
  <2>1. CASE known[r].there /\ ~TerminalMessage(known[r])
    <3>1. Busy("message")' /\ Me("message")' = r /\ message' = known[r]
      BY <1>c, <1>0, <2>1, NowAt DEF Base, message
    <3>2. r \notin disturbed => known[r] = obj[r]
      BY <1>c DEF Base, ObjectsInv
    <3>3. r \notin disturbed => chats[r] = 0
      BY <1>0, <2>1, <3>2 DEF PostedOnce, PostedInv, WorksOn
    <3> QED
      BY <1>0, <2>1, <3>1, <3>2, <3>3 DEF MessageInv, TerminalMessage
  <2>2. CASE ~(known[r].there /\ ~TerminalMessage(known[r]))
    <3>1. ~Busy("message")'
      BY <1>c, <1>0, <2>2, NowIdle DEF Base
    <3> QED
      BY <3>1 DEF MessageInv
  <2> QED
    BY <2>1, <2>2
<1> QED
  BY <1>1, <1>2 DEF PostedOnce

LEMMA PassesNow ==
  ASSUME Base, NEW c \in Controllers, NEW step, Passes(c, step)
  PROVE  work'[c].step = step /\ Me(c)' = Me(c) /\ Mine(c)' = Mine(c) /\ Busy(c)'
BY NowAt DEF Base, Passes

(* The worker goes on: what it has posted, it has posted. *)
LEMMA PostedPasses ==
  ASSUME Base, PostedOnce, MessageTypeOK, NEW step, Passes("message", step),
         \/ /\ Me("message") \in disturbed'
            /\ chats' = chats
         \/ work["message"].step \notin PostedSteps /\ step \notin PostedSteps /\ chats' = chats
         \/ work["message"].step \in PostedSteps /\ step \in PostedSteps /\ chats' = chats
         \/ /\ work["message"].step \notin PostedSteps /\ step \in PostedSteps
            /\ chats' = [chats EXCEPT ![Me("message")] = IF @ = 2 THEN 2 ELSE @ + 1]
  PROVE  PostedOnce'
<1>c. "message" \in Controllers
  BY DEF Controllers
<1> DEFINE k == Me("message")
<1>b. Busy("message") /\ k \in Messages /\ k \notin plan
  BY <1>c, BusyIs, KindsAre DEF Passes
<1>0. /\ obj' = obj /\ plan' = plan /\ disturbed \subseteq disturbed'
      /\ work'["message"].step = step /\ Me("message")' = k /\ message' = message
      /\ Busy("message")'
  BY <1>c, PassesNow DEF Passes, Marks, message
<1>i. /\ ~TerminalMessage(message)
      /\ k \notin disturbed =>
           /\ obj[k].there => obj[k] = message
           /\ work["message"].step \notin PostedSteps => chats[k] = 0
  BY <1>b DEF PostedOnce, MessageInv
<1>1. /\ \A m \in Messages \ {k} : chats'[m] = chats[m]
      /\ k \notin disturbed' =>
           chats'[k] <= 1 /\ (step \notin PostedSteps => chats'[k] = 0)
  BY <1>0, <1>b, <1>i DEF MessageTypeOK, PostedOnce, UndisturbedPostedOnce
<1>2. MessageInv'
  BY <1>0, <1>i, <1>1 DEF MessageInv, TerminalMessage
<1>3. PostedInv'
  <2> SUFFICES ASSUME NEW m \in Messages
               PROVE  /\ m \in plan => chats'[m] = 0
                      /\ m \notin disturbed' /\ chats'[m] # 0 =>
                           \/ ~obj[m].there \/ TerminalMessage(obj[m])
                           \/ k = m /\ step \in PostedSteps
    BY <1>0 DEF PostedInv, WorksOn, TerminalMessage
  <2> QED
    BY <1>0, <1>b, <1>1 DEF PostedOnce, PostedInv, WorksOn
<1>4. UndisturbedPostedOnce'
  BY <1>0, <1>1 DEF PostedOnce, UndisturbedPostedOnce
<1> QED
  BY <1>2, <1>3, <1>4 DEF PostedOnce

(* The worker is done with the message, or will be back. *)
LEMMA PostedEnds ==
  ASSUME Base, PostedOnce, Busy("message"), work'["message"].step = "idle", chats' = chats, plan' = plan,
         disturbed \subseteq disturbed', \A m \in Messages \ {Me("message")} : obj'[m] = obj[m],
         LET k == Me("message") IN
           \/ k \in disturbed' \/ ~obj'[k].there \/ TerminalMessage(obj'[k])
           \/ work["message"].step \notin PostedSteps
  PROVE  PostedOnce'
<1>1. ~Busy("message")'
  BY DEF Busy
<1>2. MessageInv'
  BY <1>1 DEF MessageInv
<1>3. PostedInv'
  <2> SUFFICES ASSUME NEW m \in Messages
               PROVE  /\ m \in plan => chats[m] = 0
                      /\ m \notin disturbed' /\ chats[m] # 0 => ~obj'[m].there \/ TerminalMessage(obj'[m])
    BY DEF PostedInv
  <2> QED
    BY DEF PostedOnce, PostedInv, MessageInv, WorksOn
<1>4. UndisturbedPostedOnce'
  BY DEF PostedOnce, UndisturbedPostedOnce
<1> QED
  BY <1>2, <1>3, <1>4 DEF PostedOnce

LEMMA PostedWork ==
  ASSUME Base, PostedOnce, MessageTypeOK, ReconcileMessage
  PROVE  PostedOnce'
<1>c. /\ "message" \in Controllers /\ {"idle", "begin", "call", "wait", "error", "done"} = StepsOf["message"]
      /\ PostedSteps = {"wait", "error", "done"}
  BY KindsAre DEF Controllers, PostedSteps
<1>b. Busy("message") /\ Me("message") \in Keys /\ Me("message") \in Messages
  <2>1. Busy("message")
    BY DEF ReconcileMessage, CheckAgent, AgentUnreadable, CallChat, CallChatFails, ReadReply, ChatTimesOut,
           WriteMessage, MessageCallFails, MessageAt, Busy
  <2> QED
    BY <1>c, <2>1, BusyIs, KindsAre
<1>g. ASSUME GivesUp("message"), chats' = chats,
             \/ Me("message") \in disturbed' \/ work["message"].step \notin PostedSteps
             \/ obj[Me("message")] # message
      PROVE  PostedOnce'
  <2>1. work'["message"].step = "idle" /\ obj' = obj /\ plan' = plan /\ disturbed \subseteq disturbed'
    BY <1>c, <1>g, NowIdle DEF GivesUp, Marks, Base
  <2>2. obj[Me("message")] # message => Me("message") \in disturbed' \/ ~obj[Me("message")].there
    BY <1>b, <2>1 DEF PostedOnce, MessageInv
  <2> QED
    BY <1>b, <1>g, <2>1, <2>2, PostedEnds
<1>w. ASSUME NEW phase \in {"Done", "Error"}, chats' = chats, UpdateAndReturn("message", WithPhase(message, phase))
      PROVE  PostedOnce'
  <2>1. CASE Update("message", WithPhase(message, phase)) /\ Return("message")
    <3>1. Stored(Me("message"), WithPhase(message, phase)) /\ plan' = plan
      BY <1>b, <1>c, <2>1, UpdateWrites
    <3>2. work'["message"].step = "idle"
      BY <1>c, <2>1, NowIdle DEF Return, Base
    <3>3. /\ obj'[Me("message")] = WithPhase(message, phase) /\ disturbed \subseteq disturbed'
          /\ \A m \in Messages \ {Me("message")} : obj'[m] = obj[m]
      BY <1>b, <3>1, StoredIs, KeysAre DEF Base
    <3>4. TerminalMessage(obj'[Me("message")])
      BY <3>3 DEF WithPhase, Object, TerminalMessage
    <3> QED
      BY <1>b, <1>w, <3>1, <3>2, <3>3, <3>4, PostedEnds
  <2>2. CASE Conflict("message")
    <3>1. GivesUp("message") /\ obj[Me("message")] # message
      BY <1>b, <1>c, <2>2, RequeueGivesUp DEF Conflict, Unchanged, message
    <3> QED
      BY <1>g, <1>w, <3>1
  <2> QED
    BY <1>w, <2>1, <2>2 DEF UpdateAndReturn
<1>1. CASE CheckAgent
  <2>1. work["message"].step = "begin" /\ chats' = chats
    BY <1>1 DEF CheckAgent, MessageAt, messageVars
  <2>2. CASE UpdateAndReturn("message", WithPhase(message, "Error"))
    BY <1>w, <2>1, <2>2
  <2>3. CASE NoWrite /\ Requeue("message")
    BY <1>b, <1>c, <1>g, <2>1, <2>3, RequeueGivesUp
  <2>4. CASE NoWrite /\ GoOn("message", "call", message)
    <3>1. Passes("message", "call")
      BY <1>b, <1>c, <2>4, GoOnPasses DEF message
    <3> QED
      BY <1>c, <2>1, <3>1, PostedPasses
  <2> QED
    BY <1>1, <2>2, <2>3, <2>4 DEF CheckAgent
<1>2. CASE AgentUnreadable \/ CallChatFails
  <2>1. Passes("message", "error") /\ Me("message") \in disturbed' /\ chats' = chats
    BY <1>b, <1>2 DEF AgentUnreadable, CallChatFails, GoOn, Passes, Marks, message, messageVars
  <2> QED
    BY <2>1, PostedPasses
<1>3. CASE CallChat
  <2>1. Passes("message", "wait")
    BY <1>b, <1>c, <1>3, GoOnPasses DEF CallChat, message
  <2>2. /\ work["message"].step = "call"
        /\ chats' = [chats EXCEPT ![Me("message")] = IF @ = 2 THEN 2 ELSE @ + 1]
    BY <1>3 DEF CallChat, MessageAt
  <2> QED
    BY <1>c, <2>1, <2>2, PostedPasses
<1>4. CASE ReadReply \/ ChatTimesOut
  <2>1. PICK step \in {"done", "error"} : NoWrite /\ GoOn("message", step, message)
    BY <1>4 DEF ReadReply, ChatTimesOut
  <2>2. Passes("message", step) /\ work["message"].step = "wait" /\ chats' = chats
    BY <1>b, <1>c, <1>4, <2>1, GoOnPasses DEF ReadReply, ChatTimesOut, MessageAt, messageVars, message
  <2> QED
    BY <1>c, <2>2, PostedPasses
<1>5. CASE WriteMessage
  BY <1>5, <1>w DEF WriteMessage, messageVars
<1>6. CASE MessageCallFails
  <2>1. GivesUp("message") /\ Me("message") \in disturbed' /\ chats' = chats
    BY <1>c, <1>6, CallFailsGivesUp DEF MessageCallFails, CallFails, messageVars
  <2> QED
    BY <1>g, <2>1
<1> QED
  BY <1>1, <1>2, <1>3, <1>4, <1>5, <1>6 DEF ReconcileMessage

LEMMA PostedNext ==
  ASSUME Base, PostedOnce, MessageTypeOK, MessageNext
  PROVE  PostedOnce'
<1>1. CASE Restart
  <2>1. /\ work'["message"].step = "idle" /\ ~Busy("message")'
        /\ obj' = obj /\ plan' = plan /\ chats' = chats /\ disturbed \subseteq disturbed'
        /\ Busy("message") => Me("message") \in disturbed'
    BY <1>1, IdleTyped DEF Restart, RestartRuntime, Controllers, Busy, Me
  <2>2. MessageInv' /\ UndisturbedPostedOnce'
    BY <2>1 DEF PostedOnce, MessageInv, UndisturbedPostedOnce
  <2>3. PostedInv'
    BY <2>1 DEF PostedOnce, PostedInv, WorksOn, TerminalMessage
  <2> QED
    BY <2>2, <2>3 DEF PostedOnce
<1>2. CASE MessageActs
  BY <1>2, PostedStart, PostedWork DEF MessageActs
<1>3. CASE ChatAnswers /\ AllSame
  <2>1. Others("message") /\ chats' = chats
    BY <1>3 DEF Others, Surround, ChatAnswers
  <2> QED
    BY <2>1, PostedOutside
<1>4. CASE Others("message") /\ UNCHANGED messageVars
  BY <1>4, PostedOutside DEF messageVars
<1> QED
  BY <1>1, <1>2, <1>3, <1>4 DEF MessageNext

MessagesTyped == Typed /\ PostedOnce

LEMMA MessagesInit ==
  ASSUME Init
  PROVE  MessagesTyped
<1>1. ~Busy("message")
  BY IdleTyped DEF Init, RuntimeInit, Controllers, Busy
<1>2. \A m \in Messages : chats[m] = 0
  BY DEF Init, MessageInit
<1> QED
  BY <1>1, <1>2, TypedInit DEF MessagesTyped, PostedOnce, MessageInv, PostedInv, UndisturbedPostedOnce

LEMMA MessagesNext ==
  ASSUME MessagesTyped, [Next]_vars
  PROVE  MessagesTyped'
<1>1. Typed /\ Typed'
  BY TypedNext DEF MessagesTyped
<1>2. Base /\ SessionTypeOK /\ MessageTypeOK
  BY <1>1 DEF Typed, TypeOK, Base
<1> QED
  BY <1>1, <1>2, StepOf, PostedNext DEF MessagesTyped

(* A message that nothing befell is handed to its agent once: a worker     *)
(* takes it only while it is undecided, and decides it after the call.     *)
THEOREM MessagesPostedOnce == Spec => []UndisturbedPostedOnce
<1>1. Init => MessagesTyped
  BY MessagesInit
<1>2. MessagesTyped /\ [Next]_vars => MessagesTyped'
  BY MessagesNext
<1>3. MessagesTyped => UndisturbedPostedOnce
  BY DEF MessagesTyped, PostedOnce
<1> QED
  BY <1>1, <1>2, <1>3, PTL DEF Spec

LEMMA OutcomeStays ==
  ASSUME MessagesTyped, [Next]_vars, NEW m \in Messages,
         obj[m].there, TerminalMessage(obj[m]), obj'[m].there
  PROVE  obj'[m].phase = obj[m].phase
<1>b. Base /\ SessionTypeOK
  BY DEF MessagesTyped, Typed, TypeOK, Base
<1>c. "message" \in Controllers /\ KeysOf["message"] = Messages
  BY KindsAre DEF Controllers
<1>0. EachNext("message")
  BY <1>b, <1>c, EachStep
<1>1. CASE RestartRuntime
  BY <1>1 DEF RestartRuntime
<1>2. CASE Others("message")
  <2>1. Outside(m)
    BY <1>b, <1>c, <1>2, OthersOutside
  <2> QED
    BY <2>1, MissingIs DEF Outside, UserWrote, Created, Edited, Doomed, Removed
<1>3. CASE Own("message")
  <2>1. CASE \E k \in Watched, step \in Steps : Takes("message", k, step)
    BY <2>1 DEF Takes, Begin
  <2>2. CASE (\E step \in StepsOf["message"] : Passes("message", step)) \/ GivesUp("message")
    BY <2>2 DEF Passes, GivesUp
  <2>3. ASSUME NEW o, NEW step, Updates("message", o, step)
        PROVE  obj'[m].phase = obj[m].phase
    <3>1. CASE m # Me("message")
      BY <1>b, <1>c, <2>3, <3>1, OwnUpdates
    <3>2. CASE m = Me("message")
      <4>1. obj[m] = message /\ Busy("message")
        BY <2>3, <3>2 DEF Updates, Writes, message
      <4> QED
        BY <4>1 DEF MessagesTyped, PostedOnce, MessageInv
    <3> QED
      BY <3>1, <3>2
  <2> QED
    BY <1>3, <2>1, <2>2, <2>3 DEF Own, Works
<1> QED
  BY <1>0, <1>1, <1>2, <1>3 DEF EachNext

(* The outcome of a message is final: whatever is edited, retried or       *)
(* restarted, no step writes another phase over Done or Error.             *)
THEOREM MessageOutcomesAreFinal == Spec => MessageOutcomeIsFinal
<1> DEFINE Final ==
      \A m \in Messages :
        obj[m].there /\ obj[m].phase \in {"Done", "Error"} /\ obj'[m].there => obj'[m].phase = obj[m].phase
<1>1. Init => MessagesTyped
  BY MessagesInit
<1>2. MessagesTyped /\ [Next]_vars => MessagesTyped'
  BY MessagesNext
<1>3. MessagesTyped /\ [Next]_vars => [Final]_vars
  BY OutcomeStays DEF TerminalMessage
<1> QED
  BY <1>1, <1>2, <1>3, PTL DEF Spec, MessageOutcomeIsFinal

-----------------------------------------------------------------------------
(* ActiveSessionIsReady. *)

Unseen(s) == s \in plan \/ (obj[s].there /\ ~known[s].there)

(* What is seen stays seen, and a deletion is not taken back. *)
LEMMA SeenStep ==
  ASSUME OrphanTyped, EachNext("session"), NEW s \in Sessions
  PROVE  /\ Unseen(s)' => Unseen(s)
         /\ known'[s].there /\ ~known'[s].deleting => (known[s].there /\ ~known[s].deleting) \/ Unseen(s)
<1> USE DEF OrphanTyped, OrphanInv
<1>c. "session" \in Controllers /\ KeysOf["session"] = Sessions
  BY KindsAre DEF Controllers
<1>k. s \in Keys /\ s \in Watched
  BY KeysAre
<1>p. s \in plan => ~obj[s].there /\ ~known[s].there
  BY <1>k, MissingIs DEF Base, ObjectsInv
<1>f. known[s].there /\ known[s].deleting /\ obj[s].there => obj[s].deleting
  BY DEF FinalizerInv
<1>1. CASE RestartRuntime
  BY <1>1, <1>f DEF RestartRuntime, Unseen
<1>2. CASE Others("session")
  <2>1. Outside(s)
    BY <1>c, <1>2, OthersOutside
  <2>2. Created(s) => s \in plan
    BY DEF Created
  <2>3. obj'[s].there /\ s \notin plan => obj[s].there /\ (obj[s].deleting => obj'[s].deleting)
    BY <2>1, MissingIs DEF Outside, UserWrote, Created, Edited, Doomed, Removed
  <2> QED
    BY <1>p, <1>f, <2>1, <2>3 DEF Outside, Unseen
<1>3. CASE Own("session")
  <2>1. CASE \E k \in Watched, step \in Steps : Takes("session", k, step)
    BY <2>1 DEF Takes, Begin, Unseen
  <2>2. CASE (\E step \in StepsOf["session"] : Passes("session", step)) \/ GivesUp("session")
    BY <2>2 DEF Passes, GivesUp, Unseen
  <2>3. ASSUME NEW o, NEW step, Updates("session", o, step)
        PROVE  /\ Unseen(s)' => Unseen(s)
               /\ known'[s].there /\ ~known'[s].deleting => (known[s].there /\ ~known[s].deleting) \/ Unseen(s)
    <3>1. plan' = plan /\ Busy("session")
      BY <2>3 DEF Updates, Writes
    <3>2. CASE s # Me("session")
      BY <1>c, <2>3, <3>1, <3>2, OwnUpdates DEF Unseen
    <3>3. CASE s = Me("session")
      <4>1. /\ obj[s] = mine /\ obj'[s] = o /\ known'[s] \in {known[s], o} /\ mine.there
            /\ Kept(mine, o) \/ o = Missing
        BY <1>c, <2>3, <3>1, <3>3, OwnUpdates, BusyIs DEF Updates, mine
      <4> QED
        BY <1>f, <3>1, <4>1, MissingIs DEF Unseen, Kept
    <3> QED
      BY <3>2, <3>3
  <2> QED
    BY <1>3, <2>1, <2>2, <2>3 DEF Own, Works
<1> QED
  BY <1>1, <1>2, <1>3 DEF EachNext

(* The worker takes only what the cache shows. *)
LEMMA TakesSeen ==
  ASSUME Base, EachNext("session"), NEW s \in Sessions, WorksOn("session", s)'
  PROVE  WorksOn("session", s) \/ known[s].there
<1>c. "session" \in Controllers
  BY DEF Controllers
<1>1. CASE RestartRuntime
  BY <1>1, <1>c, IdleTyped DEF RestartRuntime, WorksOn, Busy
<1>2. CASE Others("session")
  BY <1>2, <1>c, OthersOutside DEF WorksOn, Busy, Me
<1>3. CASE Own("session")
  <2>1. ASSUME NEW k \in Watched, NEW step \in Steps, Takes("session", k, step)
        PROVE  known[s].there
    <3>1. CASE step = "idle"
      <4>1. ~Busy("session")'
        BY <1>c, <2>1, <3>1, NowIdle DEF Takes, Begin, Base
      <4> QED
        BY <4>1 DEF WorksOn
    <3>2. CASE step # "idle"
      <4>1. known[k].there /\ work' = [work EXCEPT !["session"] = At(step, k, known[k])]
        BY <2>1, <3>2 DEF Takes, Begin
      <4>2. Me("session")' = k
        BY <1>c, <4>1, NowAt DEF Base
      <4> QED
        BY <4>1, <4>2 DEF WorksOn
    <3> QED
      BY <3>1, <3>2
  <2>2. ASSUME NEW step \in StepsOf["session"], Passes("session", step)
        PROVE  WorksOn("session", s)
    BY <1>c, <2>2, PassesNow DEF WorksOn, Passes
  <2>3. CASE GivesUp("session")
    BY <1>c, <2>3, NowIdle DEF GivesUp, WorksOn, Base
  <2>4. ASSUME NEW o, NEW step, Updates("session", o, step)
        PROVE  WorksOn("session", s)
    <3>1. CASE step = "idle"
      BY <1>c, <2>4, <3>1, NowIdle DEF Updates, Writes, WorksOn, Base
    <3>2. CASE step # "idle"
      <4>1. Me("session")' = Me("session") /\ Busy("session")
        BY <1>c, <2>4, <3>2, NowAt DEF Updates, Writes, Base
      <4> QED
        BY <4>1 DEF WorksOn
    <3> QED
      BY <3>1, <3>2
  <2> QED
    BY <1>3, <2>1, <2>2, <2>3, <2>4 DEF Own, Works
<1> QED
  BY <1>1, <1>2, <1>3 DEF EachNext

(* What happens to the namespace of a session that no other session shares *)
(* it with: the cluster takes what is to end, somebody deletes it, or the  *)
(* session's own worker is at it.                                          *)
SpaceDrains(s) ==
  /\ Space(s).state = "terminating"
  /\ \/ Space(s)' = NoNamespace
     \/ Space(s)' = Namespace("terminating", Space(s).tenant, FALSE, FALSE, NoTenant)
SpaceIsLost(s) == s \in misled' /\ Space(s).state = "active" /\ Space(s)' = Terminating(Space(s))
EnvSpace(s) == Space(s)' = Space(s) \/ SpaceDrains(s) \/ SpaceIsLost(s)
OwnSpace(s) ==
  \/ Space(s)' = Space(s)
  \/ /\ WorksOn("session", s) /\ s = me
     /\ Space(s) = stored /\ Space(s)' \in NamespaceObjects
     /\ MakesSpace(Space(s)') \/ FillsSpace(Space(s)') \/ EndsSpace(Space(s)')

SpaceTyped == OrphanTyped /\ UnseenInv /\ TenantInv /\ EndInv /\ ProgressInv /\ ReadyInv

LEMMA SpaceIs ==
  ASSUME SessionTypeOK, NEW s \in Sessions
  PROVE  NameOf[s] \in Names /\ Space(s) \in NamespaceObjects
BY SessionAssumption DEF SessionTypeOK, Space

LEMMA EnvSpaces ==
  ASSUME Base, SessionTypeOK, NEW s \in Sessions, NEW n \in Names, ClusterStep(n)
  PROVE  EnvSpace(s)
<1>1. NameOf[s] \in Names
  BY SpaceIs
<1>2. CASE ns' = ns
  BY <1>2 DEF EnvSpace, Space
<1>3. ASSUME NEW o \in NamespaceObjects, Furnishes(n, o),
             \/ /\ ns[n].state = "terminating" /\ misled' = misled
                /\ o = NoNamespace \/ o = Namespace("terminating", ns[n].tenant, FALSE, FALSE, NoTenant)
             \/ /\ ns[n].state = "active" /\ o = Terminating(ns[n])
                /\ misled' = misled \cup {r \in Sessions : NameOf[r] = n}
      PROVE  EnvSpace(s)
  <2>1. ns'[n] = o /\ \A m \in Names \ {n} : ns'[m] = ns[m]
    BY <1>3, FurnishesIs
  <2>2. CASE NameOf[s] # n
    BY <1>1, <2>1, <2>2 DEF EnvSpace, Space
  <2>3. CASE NameOf[s] = n
    BY <1>3, <2>1, <2>3 DEF EnvSpace, SpaceDrains, SpaceIsLost, Space
  <2> QED
    BY <2>2, <2>3
<1> QED
  BY <1>1, <1>2, <1>3, ClusterEffect

LEMMA OwnSpaces ==
  ASSUME Base, SessionTypeOK, ReconcileSession, NEW s \in Sessions, Alone(s)
  PROVE  OwnSpace(s) /\ misled \subseteq misled'
<1>1. Busy("session") /\ me \in Sessions /\ myName \in Names /\ NameOf[s] \in Names
  BY SpaceEffect, MySpace, SpaceIs
<1>2. CASE LeavesSpace
  BY <1>2 DEF LeavesSpace, namespaceVars, OwnSpace, Space
<1>3. ASSUME NEW o \in NamespaceObjects, ChangesSpace(o)
      PROVE  OwnSpace(s) /\ misled \subseteq misled'
  <2>1. ns'[myName] = o /\ (\A m \in Names \ {myName} : ns'[m] = ns[m]) /\ misled' = misled
    BY <1>1, <1>3, FurnishesIs DEF ChangesSpace
  <2>2. CASE NameOf[s] # myName
    BY <1>1, <2>1, <2>2 DEF OwnSpace, Space
  <2>3. CASE NameOf[s] = myName
    <3>1. s = me
      BY <1>1, <2>3 DEF Alone, myName
    <3>2. WorksOn("session", s) /\ Space(s) = stored /\ Space(s)' = o
      BY <1>1, <2>1, <2>3, <3>1 DEF WorksOn, me, Space, stored, myName
    <3> QED
      BY <1>3, <2>1, <3>1, <3>2 DEF OwnSpace, ChangesSpace
  <2> QED
    BY <2>2, <2>3
<1> QED
  BY <1>2, <1>3, SpaceEffect

(* A step of the sessions: a worker's own, or one of the rest. *)
SpacesStep ==
  \/ ReconcileSession
  \/ (\A s \in Sessions : EnvSpace(s)) /\ misled \subseteq misled'

LEMMA SpacesIs ==
  ASSUME Base, SessionTypeOK, SessionNext
  PROVE  SpacesStep
<1>1. CASE Restart \/ (\E s \in Sessions : StartSession(s)) \/ (Others("session") /\ UNCHANGED sessionVars)
  <2>1. ns' = ns /\ misled' = misled
    BY <1>1 DEF Restart, StartSession, sessionVars, namespaceVars
  <2> QED
    BY <2>1 DEF SpacesStep, EnvSpace, Space
<1>2. CASE \E n \in Names : ClusterStep(n) /\ AllSame
  <2>1. misled \subseteq misled'
    BY <1>2 DEF ClusterStep, CatchUpNamespace, DrainNamespace, LoseNamespace
  <2> QED
    BY <1>2, <2>1, EnvSpaces DEF SpacesStep
<1> QED
  BY <1>1, <1>2 DEF SessionNext, SessionActs, SpacesStep

LEMMA SpaceSteps ==
  ASSUME Base, SessionTypeOK, SpacesStep, NEW s \in Sessions, Alone(s)
  PROVE  (EnvSpace(s) \/ OwnSpace(s)) /\ misled \subseteq misled'
BY OwnSpaces DEF SpacesStep

(* What each kind of change does to the namespace. *)
LEMMA NewSpace ==
  ASSUME NEW o
  PROVE  /\ MakesSpace(o) =>
              /\ work["session"].step = "namespace" /\ stored.state = "none" /\ o.state = "active"
              /\ o.tenant = mine.spec.tenant /\ o.binding = NoTenant
         /\ FillsSpace(o) =>
              /\ work["session"].step \in {"policy", "role", "binding"}
              /\ o.state = stored.state /\ o.tenant = stored.tenant
              /\ o.binding \in {stored.binding, mine.spec.tenant}
              /\ stored = NoNamespace => o = NoNamespace
         /\ EndsSpace(o) =>
              /\ work["session"].step = "remove" /\ stored.state = "active" /\ o.state = "terminating"
              /\ o.tenant = stored.tenant /\ o.binding = stored.binding
BY DEF MakesSpace, FillsSpace, EndsSpace, Terminating, Namespace, AtStep

LEMMA RestSpace ==
  ASSUME NEW s, EnvSpace(s)
  PROVE  \/ Space(s)' = Space(s)
         \/ /\ Space(s).state = "terminating"
            /\ \/ Space(s)' = NoNamespace
               \/ /\ Space(s)'.state = "terminating" /\ Space(s)'.binding = NoTenant
                  /\ Space(s)'.tenant = Space(s).tenant
         \/ /\ s \in misled' /\ Space(s).state = "active" /\ Space(s)'.state = "terminating"
            /\ Space(s)'.tenant = Space(s).tenant /\ Space(s)'.binding = Space(s).binding
<1> DEFINE t == Namespace("terminating", Space(s).tenant, FALSE, FALSE, NoTenant)
           u == Terminating(Space(s))
<1>1. /\ t.state = "terminating" /\ t.binding = NoTenant /\ t.tenant = Space(s).tenant
      /\ u.state = "terminating" /\ u.tenant = Space(s).tenant /\ u.binding = Space(s).binding
  BY DEF Namespace, Terminating
<1>2. \/ Space(s)' = Space(s)
      \/ Space(s).state = "terminating" /\ (Space(s)' = NoNamespace \/ Space(s)' = t)
      \/ s \in misled' /\ Space(s).state = "active" /\ Space(s)' = u
  BY DEF EnvSpace, SpaceDrains, SpaceIsLost
<1> HIDE DEF t, u
<1> QED
  BY <1>1, <1>2

LEMMA UnseenNext ==
  ASSUME SpaceTyped, EachNext("session"), SpacesStep
  PROVE  UnseenInv'
<1> USE DEF SpaceTyped, OrphanTyped
<1> SUFFICES ASSUME NEW s \in Sessions, Unseen(s)'
             PROVE  ~WorksOn("session", s)' /\ (Alone(s) => Space(s)'.state = "none")
  BY DEF UnseenInv, Unseen, Space, Alone
<1>1. Unseen(s)
  BY SeenStep
<1>2. ~WorksOn("session", s) /\ (Alone(s) => Space(s).state = "none")
  BY <1>1 DEF UnseenInv, Unseen
<1>3. ~known[s].there
  BY <1>1, KeysAre, MissingIs DEF Unseen, Base, ObjectsInv
<1>4. ~WorksOn("session", s)'
  BY <1>2, <1>3, TakesSeen
<1>5. ASSUME Alone(s)
      PROVE  Space(s)'.state = "none"
  <2>1. EnvSpace(s) \/ OwnSpace(s)
    BY <1>5, SpaceSteps
  <2>2. CASE EnvSpace(s)
    BY <1>2, <1>5, <2>2, RestSpace
  <2>3. CASE OwnSpace(s)
    BY <1>2, <1>5, <2>3 DEF OwnSpace
  <2> QED
    BY <2>1, <2>2, <2>3
<1> QED
  BY <1>4, <1>5

LEMMA EndNext ==
  ASSUME SpaceTyped, EachNext("session"), SpacesStep
  PROVE  EndInv'
<1> USE DEF SpaceTyped, OrphanTyped
<1> SUFFICES ASSUME NEW s \in Sessions, s \notin misled', Alone(s), Space(s)'.state = "terminating", known'[s].there
             PROVE  known'[s].deleting
  BY DEF EndInv, Space, Alone
<1>1. (EnvSpace(s) \/ OwnSpace(s)) /\ s \notin misled
  BY SpaceSteps
<1>2. ~known'[s].deleting => (known[s].there /\ ~known[s].deleting) \/ Unseen(s)
  BY SeenStep
<1>3. Unseen(s) => Space(s).state = "none" /\ ~WorksOn("session", s)
  BY DEF UnseenInv, Unseen
<1>4. CASE Space(s).state = "terminating"
  BY <1>1, <1>2, <1>3, <1>4 DEF EndInv
<1>5. CASE Space(s).state # "terminating"
  <2>1. WorksOn("session", s) /\ s = me /\ work["session"].step = "remove"
    <3>1. CASE EnvSpace(s)
      BY <1>5, <3>1, RestSpace
    <3>2. CASE OwnSpace(s)
      BY <1>5, <3>2, NewSpace DEF OwnSpace
    <3> QED
      BY <1>1, <3>1, <3>2
  <2>2. known[s].there => known[s].deleting
    BY <2>1 DEF OrphanInv, CleanUpInv, CleanUp
  <2> QED
    BY <1>2, <1>3, <2>1, <2>2
<1> QED
  BY <1>4, <1>5

LEMMA TenantNext ==
  ASSUME SpaceTyped, SpacesStep
  PROVE  TenantInv'
<1> USE DEF SpaceTyped, OrphanTyped
<1> SUFFICES ASSUME NEW s \in Sessions, Alike(s), NEW spec \in SpecsOf[s]
             PROVE  /\ Space(s)'.state = "none" => Space(s)' = NoNamespace
                    /\ Space(s)'.state # "none" => Space(s)'.tenant = spec.tenant
                    /\ Space(s)'.binding \in {NoTenant, spec.tenant}
  BY DEF TenantInv, Alike, Space, Alone, OneTenant
<1>1. EnvSpace(s) \/ OwnSpace(s)
  BY SpaceSteps DEF Alike
<1>2. /\ Space(s).state = "none" => Space(s) = NoNamespace
      /\ Space(s).state # "none" => Space(s).tenant = spec.tenant
      /\ Space(s).binding \in {NoTenant, spec.tenant}
  BY DEF TenantInv
<1>3. NoNamespace.state = "none" /\ NoNamespace.binding = NoTenant
  BY NoNamespaceIs DEF NoNamespace, Namespace
<1>4. CASE EnvSpace(s)
  BY <1>2, <1>3, <1>4, RestSpace
<1>5. CASE OwnSpace(s)
  <2>1. CASE Space(s)' = Space(s)
    BY <1>2, <2>1
  <2>2. CASE /\ WorksOn("session", s) /\ s = me /\ Space(s) = stored
             /\ MakesSpace(Space(s)') \/ FillsSpace(Space(s)') \/ EndsSpace(Space(s)')
    <3>1. mine.spec \in SpecsOf[s]
      BY <2>2, MySpace DEF WorksOn
    <3>2. mine.spec.tenant = spec.tenant
      BY <3>1 DEF Alike, OneTenant
    <3> QED
      BY <1>2, <1>3, <2>2, <3>2, NewSpace
  <2> QED
    BY <1>5, <2>1, <2>2 DEF OwnSpace
<1> QED
  BY <1>1, <1>4, <1>5

(* ProgressInv, for a worker at a step, a namespace and a spec. *)
Progress(step, o, spec) ==
  /\ step \in {"begin", "read", "namespace"} => o.state # "terminating"
  /\ step \in {"policy", "role", "binding", "active"} => o.state = "active"
  /\ step \in {"role", "binding", "active"} => o.policy = spec.strict
  /\ step \in {"binding", "active"} => o.role
  /\ step = "active" => o.binding # NoTenant

LEMMA ProgressIs ==
  ProgressInv <=> (Alone(me) /\ me \notin misled => Progress(work["session"].step, stored, mine.spec))
BY DEF ProgressInv, Progress

(* No worker is building. *)
LEMMA ProgressVoid ==
  ASSUME work'["session"].step \in {"idle", "terminating", "remove", "unfin"}
  PROVE  ProgressInv'
BY DEF ProgressInv

LEMMA ProgressPasses ==
  ASSUME SpaceTyped, NEW next, Passes("session", next),
         misled \subseteq misled',
         Alone(me) /\ me \notin misled' /\ Progress(work["session"].step, stored, mine.spec)
           => Progress(next, ns'[myName], mine.spec)
  PROVE  ProgressInv'
<1>1. "session" \in Controllers /\ Base
  BY DEF Controllers, SpaceTyped, OrphanTyped
<1>2. work'["session"].step = next /\ me' = me /\ mine' = mine
  BY <1>1, PassesNow DEF me, mine
<1>3. stored' = ns'[myName] /\ (Alone(me)' <=> Alone(me))
  BY <1>2 DEF stored, myName, Alone
<1>4. Alone(me) /\ me \notin misled => Progress(work["session"].step, stored, mine.spec)
  BY ProgressIs DEF SpaceTyped
<1>5. Alone(me) /\ me \notin misled' => Progress(next, ns'[myName], mine.spec)
  BY <1>4
<1> QED
  BY <1>2, <1>3, <1>5 DEF ProgressInv, Progress

LEMMA ProgressEnds ==
  ASSUME Base, GivesUp("session") \/ \E o : Updates("session", o, "idle")
  PROVE  ProgressInv'
<1>1. "session" \in Controllers
  BY DEF Controllers
<1>2. work'["session"].step = "idle"
  BY <1>1, NowIdle DEF Base, GivesUp, Updates, Writes
<1> QED
  BY <1>2, ProgressVoid

(* The worker takes over, or creates. *)
LEMMA SkipProgress ==
  ASSUME SpaceTyped, Busy("session"), NEW next, next # "idle", NEW there, Skip(next, there),
         there /\ Alone(me) /\ Progress(work["session"].step, stored, mine.spec) => Progress(next, stored, mine.spec)
  PROVE  ProgressInv'
<1>1. Passes("session", next)
  BY SkipEffect DEF SpaceTyped, OrphanTyped
<1>2. ns' = ns /\ misled' = IF there THEN misled ELSE misled \cup {me}
  BY DEF Skip, Believe, namespaceVars
<1>3. ns'[myName] = stored
  BY <1>2 DEF stored
<1> QED
  BY <1>1, <1>2, <1>3, ProgressPasses

LEMMA CreateProgress ==
  ASSUME SpaceTyped, Busy("session"), NEW next, next # "idle", NEW o, NEW allowed, CreateIn(o, allowed, next),
         allowed /\ Progress(work["session"].step, stored, mine.spec) => Progress(next, o, mine.spec)
  PROVE  ProgressInv'
<1>b. Base /\ SessionTypeOK /\ "session" \in Controllers /\ myName \in Names
  BY MySpace DEF SpaceTyped, OrphanTyped, Controllers
<1>1. CASE ~allowed /\ NoWrite /\ Requeue("session")
  BY <1>b, <1>1, RequeueGivesUp, ProgressEnds
<1>2. CASE /\ allowed /\ PutNamespace(myName, o, 0) /\ UNCHANGED <<obj, known, plan, queue, disturbed>>
           /\ GoOn("session", next, mine) /\ misled' = misled
  <2>1. Passes("session", next)
    BY <1>2 DEF GoOn, Passes, Marks, mine
  <2>2. ns'[myName] = o
    BY <1>b, <1>2, PutFurnishes, FurnishesIs
  <2> QED
    BY <1>2, <2>1, <2>2, ProgressPasses
<1> QED
  BY <1>1, <1>2 DEF CreateIn

LEMMA ProgressWork ==
  ASSUME SpaceTyped, ReconcileSession
  PROVE  ProgressInv'
<1>b. /\ Base /\ SessionTypeOK /\ "session" \in Controllers /\ Busy("session")
      /\ stored \in NamespaceObjects /\ mine.spec.tenant # NoTenant /\ mine.spec.strict \in BOOLEAN
  BY SpaceEffect, MySpace DEF SpaceTyped, OrphanTyped, Controllers
<1>t. /\ stored.state \in {"none", "active", "terminating"}
      /\ stored.policy \in BOOLEAN /\ stored.role \in BOOLEAN
  BY <1>b, FieldsTyped DEF NamespaceStates
<1>w. ASSUME NEW phase \in {"Error", "Active"}, UpdateAndReturn("session", WithPhase(mine, phase))
      PROVE  ProgressInv'
  <2>1. phase \in Phases /\ phase \in Verdicts /\ "idle" \in StepsOf["session"]
    BY KindsAre DEF Phases, Verdicts
  <2> QED
    BY <1>b, <1>w, <2>1, ReturnEffect, PhaseUpdates, ProgressEnds DEF mine
<1>1. CASE AddSessionFinalizer
  <2>1. AtStep("begin") /\ ns' = ns /\ misled' = misled
    BY <1>1 DEF AddSessionFinalizer, sessionVars, namespaceVars
  <2>2. CASE mine.finalizer /\ NoWrite /\ GoOn("session", "read", mine)
    <3>1. Passes("session", "read")
      BY <1>b, <2>2, GoOnPasses DEF mine
    <3> QED
      BY <2>1, <3>1, ProgressPasses DEF Progress, AtStep, stored
  <2>3. CASE UpdateAndGoOn("session", WithFinalizer(mine, TRUE), "read")
    <3>1. CASE Writes("session", WithFinalizer(mine, TRUE), "read")
      <4>1. work' = [work EXCEPT !["session"] = At("read", Me("session"), WithFinalizer(mine, TRUE))]
        BY <3>1 DEF Writes
      <4>2. work'["session"].step = "read" /\ me' = me
        BY <1>b, <4>1, NowAt DEF Base, me
      <4>3. stored' = stored /\ (Alone(me)' <=> Alone(me))
        BY <2>1, <4>2 DEF stored, myName, Alone
      <4>4. Alone(me) /\ me \notin misled => stored.state # "terminating"
        BY <2>1 DEF SpaceTyped, ProgressInv, AtStep
      <4> QED
        BY <2>1, <4>2, <4>3, <4>4 DEF ProgressInv
    <3> QED
      BY <1>b, <2>3, <3>1, GoOnEffect, ProgressEnds
  <2> QED
    BY <1>1, <2>2, <2>3 DEF AddSessionFinalizer
<1>2. CASE CheckSessionAgent
  <2>1. CASE NoWrite /\ GoOn("session", "namespace", mine)
    <3>1. Passes("session", "namespace")
      BY <1>b, <2>1, GoOnPasses DEF mine
    <3>2. AtStep("read") /\ ns' = ns /\ misled' = misled
      BY <1>2 DEF CheckSessionAgent, sessionVars, namespaceVars
    <3> QED
      BY <3>1, <3>2, ProgressPasses DEF Progress, AtStep, stored
  <2> QED
    BY <1>2, <1>w, <2>1 DEF CheckSessionAgent
<1>3. CASE ensureNamespace
  <2> DEFINE o == Namespace("active", mine.spec.tenant, FALSE, FALSE, NoTenant)
  <2>1. CASE Skip("policy", stored.state # "none")
    BY <1>b, <1>t, <1>3, <2>1, SkipProgress DEF ensureNamespace, Progress, AtStep
  <2>2. CASE CreateIn(o, stored.state = "none", "policy")
    <3>1. o.state = "active"
      BY DEF Namespace
    <3>2. Progress("policy", o, mine.spec)
      BY <3>1 DEF Progress
    <3> QED
      BY <1>b, <2>2, <3>2, CreateProgress
  <2> QED
    BY <1>3, <2>1, <2>2 DEF ensureNamespace
<1>4. CASE ensureNetworkPolicy
  <2> DEFINE o == WithPolicy(stored, TRUE)
  <2>0. AtStep("policy") /\ mine.spec.strict
    BY <1>4 DEF ensureNetworkPolicy
  <2>1. CASE Skip("role", stored.policy)
    BY <1>b, <1>t, <2>0, <2>1, SkipProgress DEF Progress, AtStep
  <2>2. CASE CreateIn(o, stored.state = "active" /\ ~stored.policy, "role")
    <3>1. o.state = stored.state /\ o.policy = TRUE
      BY DEF WithPolicy, Namespace
    <3>2. stored.state = "active" => Progress("role", o, mine.spec)
      BY <1>b, <2>0, <3>1 DEF Progress
    <3> QED
      BY <1>b, <2>2, <3>2, CreateProgress
  <2> QED
    BY <1>4, <2>1, <2>2 DEF ensureNetworkPolicy
<1>5. CASE RemoveNetworkPolicy
  <2> DEFINE o == WithPolicy(stored, FALSE)
  <2>0. AtStep("policy") /\ ~mine.spec.strict
    BY <1>5 DEF RemoveNetworkPolicy
  <2>1. CASE Skip("role", ~stored.policy)
    BY <1>b, <1>t, <2>0, <2>1, SkipProgress DEF Progress, AtStep
  <2>2. CASE /\ PutNamespace(myName, o, 0) /\ UNCHANGED <<obj, known, plan, queue, disturbed, misled, blind>>
             /\ GoOn("session", "role", mine)
    <3>1. o.state = stored.state /\ o.policy = FALSE
      BY DEF WithPolicy, Namespace
    <3>2. ns'[myName] = o
      BY <1>b, <2>2, PutFurnishes, FurnishesIs, MySpace
    <3>3. Passes("session", "role")
      BY <1>b, <2>2 DEF GoOn, Passes, Marks, mine
    <3> QED
      BY <1>b, <2>0, <2>2, <3>1, <3>2, <3>3, ProgressPasses DEF Progress, AtStep
  <2> QED
    BY <1>5, <2>1, <2>2 DEF RemoveNetworkPolicy
<1>6. CASE EnsureTenantRole
  <2> DEFINE o == Namespace(stored.state, stored.tenant, stored.policy, TRUE, stored.binding)
  <2>0. AtStep("role")
    BY <1>6 DEF EnsureTenantRole
  <2>1. CASE Skip("binding", stored.role)
    BY <1>b, <1>t, <2>0, <2>1, SkipProgress DEF Progress, AtStep
  <2>2. CASE CreateIn(o, stored.state = "active" /\ ~stored.role, "binding")
    <3>1. o.state = stored.state /\ o.policy = stored.policy /\ o.role
      BY DEF Namespace
    <3>2. Progress("role", stored, mine.spec) => Progress("binding", o, mine.spec)
      BY <3>1 DEF Progress
    <3> QED
      BY <1>b, <2>0, <2>2, <3>2, CreateProgress DEF AtStep
  <2> QED
    BY <1>6, <2>1, <2>2 DEF EnsureTenantRole
<1>7. CASE EnsureTenantBinding
  <2> DEFINE o == Namespace(stored.state, stored.tenant, stored.policy, stored.role, mine.spec.tenant)
  <2>0. AtStep("binding")
    BY <1>7 DEF EnsureTenantBinding
  <2>1. CASE cached.binding # NoTenant /\ Skip("active", stored.binding = cached.binding)
    BY <1>b, <1>t, <2>0, <2>1, SkipProgress DEF Progress, AtStep
  <2>2. CASE CreateIn(o, stored.state = "active" /\ stored.binding = NoTenant, "active")
    <3>1. o.state = stored.state /\ o.policy = stored.policy /\ o.role = stored.role /\ o.binding = mine.spec.tenant
      BY DEF Namespace
    <3>2. Progress("binding", stored, mine.spec) => Progress("active", o, mine.spec)
      BY <1>b, <3>1 DEF Progress
    <3> QED
      BY <1>b, <2>0, <2>2, <3>2, CreateProgress DEF AtStep
  <2> QED
    BY <1>7, <2>1, <2>2 DEF EnsureTenantBinding
<1>8. CASE ActivateSession
  BY <1>8, <1>w DEF ActivateSession
<1>9. CASE MarkTerminating
  <2>1. UpdateAndGoOn("session", WithPhase(mine, "Terminating"), "remove")
    BY <1>9 DEF MarkTerminating
  <2>2. CASE Writes("session", WithPhase(mine, "Terminating"), "remove")
    <3>1. work'["session"].step = "remove"
      BY <1>b, <2>2, NowAt DEF Writes, Base
    <3> QED
      BY <3>1, ProgressVoid
  <2> QED
    BY <1>b, <2>1, <2>2, GoOnEffect, ProgressEnds
<1>10. CASE DeleteNamespace
  <2>1. work'["session"].step = "idle"
    BY <1>b, <1>10, NowIdle DEF DeleteNamespace, Requeue, Base
  <2> QED
    BY <2>1, ProgressVoid
<1>11. CASE NamespaceGone
  <2>1. work'["session"].step = "unfin"
    BY <1>b, <1>11, NowAt DEF NamespaceGone, GoOn, Base
  <2> QED
    BY <2>1, ProgressVoid
<1>12. CASE RemoveSessionFinalizer
  <2>1. UpdateAndReturn("session", Missing)
    BY <1>12 DEF RemoveSessionFinalizer
  <2>2. CASE Writes("session", Missing, "idle")
    <3>1. work'["session"].step = "idle"
      BY <1>b, <2>2, NowIdle DEF Writes, Base
    <3> QED
      BY <3>1, ProgressVoid
  <2> QED
    BY <1>b, <2>1, <2>2, ReturnEffect, ProgressEnds
<1>13. CASE SessionCallFails
  BY <1>b, <1>13, CallFailsGivesUp, ProgressEnds DEF SessionCallFails
<1> QED
  BY <1>1, <1>2, <1>3, <1>4, <1>5, <1>6, <1>7, <1>8, <1>9, <1>10, <1>11, <1>12, <1>13 DEF ReconcileSession

LEMMA ProgressStart ==
  ASSUME SpaceTyped, NEW s \in Sessions, StartSession(s)
  PROVE  ProgressInv'
<1>b. Base /\ "session" \in Controllers /\ s \in Keys /\ ns' = ns /\ misled' = misled
  BY KeysAre DEF SpaceTyped, OrphanTyped, Controllers, StartSession, sessionVars, namespaceVars
<1>1. CASE ~known[s].there \/ known[s].deleting
  <2>1. \E step \in {"idle", "terminating"} : Begin("session", s, step)
    BY <1>1 DEF StartSession
  <2>2. PICK step \in {"idle", "terminating"} : Begin("session", s, step)
    BY <2>1
  <2>3. work'["session"].step = step
    <3>1. CASE step = "idle"
      BY <1>b, <2>2, <3>1, NowIdle DEF Begin, Base
    <3>2. CASE step # "idle"
      BY <1>b, <2>2, <3>2, NowAt DEF Begin, Base
    <3> QED
      BY <3>1, <3>2
  <2> QED
    BY <2>3, ProgressVoid
<1>2. CASE known[s].there /\ ~known[s].deleting
  <2>1. work' = [work EXCEPT !["session"] = At("begin", s, known[s])]
    BY <1>2 DEF StartSession, Begin
  <2>2. work'["session"].step = "begin" /\ me' = s
    BY <1>b, <2>1, NowAt DEF Base, me
  <2>3. stored' = Space(s) /\ (Alone(me)' <=> Alone(s))
    BY <1>b, <2>2 DEF stored, myName, Space, Alone
  <2>4. Alone(s) /\ s \notin misled => Space(s).state # "terminating"
    BY <1>2 DEF SpaceTyped, EndInv
  <2> QED
    BY <1>b, <2>2, <2>3, <2>4 DEF ProgressInv
<1> QED
  BY <1>1, <1>2

(* While the worker stands still. *)
LEMMA ProgressRests ==
  ASSUME SpaceTyped, work'["session"] = work["session"],
         \A s \in Sessions : EnvSpace(s), misled \subseteq misled'
  PROVE  ProgressInv'
<1>b. Base /\ "session" \in Controllers
  BY DEF SpaceTyped, OrphanTyped, Controllers
<1>1. me' = me /\ mine' = mine /\ work'["session"].step = work["session"].step /\ (Alone(me)' <=> Alone(me))
  BY DEF me, mine, Me, Mine, Alone
<1>2. CASE ~Busy("session")
  BY <1>1, <1>2, ProgressVoid DEF Busy
<1>3. CASE Busy("session")
  <2>1. PICK s \in Sessions : s = me
    BY <1>b, <1>3, MySpace DEF SpaceTyped, OrphanTyped
  <2>2. stored = Space(s) /\ stored' = Space(s)'
    BY <1>1, <2>1 DEF stored, myName, Space
  <2>3. Alone(me) /\ me \notin misled => Progress(work["session"].step, stored, mine.spec)
    BY ProgressIs DEF SpaceTyped
  <2>4. Space(s)' = Space(s) \/ Space(s).state = "terminating" \/ s \in misled'
    BY RestSpace
  <2>5. Alone(me) /\ me \notin misled' => Progress(work["session"].step, stored', mine.spec)
    <3>1. CASE stored.state = "terminating"
      <4>1. Alone(me) /\ me \notin misled' => work["session"].step \notin {"begin", "read", "namespace"} \cup {"policy", "role", "binding", "active"}
        BY <2>3, <3>1 DEF Progress
      <4> QED
        BY <4>1 DEF Progress
    <3>2. CASE stored.state # "terminating"
      BY <2>1, <2>2, <2>3, <2>4, <3>2
    <3> QED
      BY <3>1, <3>2
  <2> QED
    BY <1>1, <2>5 DEF ProgressInv, Progress
<1> QED
  BY <1>2, <1>3

LEMMA ProgressNext ==
  ASSUME SpaceTyped, SessionNext
  PROVE  ProgressInv'
<1>b. Base /\ SessionTypeOK /\ "session" \in Controllers
  BY DEF SpaceTyped, OrphanTyped, Controllers
<1>1. CASE Restart
  <2>1. work'["session"].step = "idle"
    BY <1>1, <1>b, IdleTyped DEF Restart, RestartRuntime
  <2> QED
    BY <2>1, ProgressVoid
<1>2. CASE SessionActs
  BY <1>2, ProgressStart, ProgressWork DEF SessionActs
<1>3. CASE \E n \in Names : ClusterStep(n) /\ AllSame
  <2>1. misled \subseteq misled' /\ work' = work
    BY <1>3 DEF ClusterStep, CatchUpNamespace, DrainNamespace, LoseNamespace, AllSame
  <2> QED
    BY <1>3, <1>b, <2>1, EnvSpaces, ProgressRests
<1>4. CASE Others("session") /\ UNCHANGED sessionVars
  <2>1. work'["session"] = work["session"] /\ ns' = ns /\ misled' = misled
    BY <1>4, <1>b, OthersOutside DEF sessionVars, namespaceVars
  <2> QED
    BY <2>1, ProgressRests DEF EnvSpace, Space
<1> QED
  BY <1>1, <1>2, <1>3, <1>4 DEF SessionNext

(* An Active session, as the API server and the cache have it. *)
Activated(s) ==
  /\ obj[s].there /\ ~obj[s].deleting /\ obj[s].phase = "Active"
  /\ known[s].there /\ known[s].phase = "Active"
IsReady(s) == Ready(s, known[s].spec) \/ Waits(s)

(* A step that leaves the key to what happens outside its worker. *)
LEMMA ReadyOutside ==
  ASSUME SpaceTyped, NEW s \in Sessions, Outside(s), work'["session"] = work["session"], EnvSpace(s),
         s \notin misled', Activated(s)', Activated(s) => IsReady(s)
  PROVE  IsReady(s)'
<1>c. "session" \in Controllers /\ KeysOf["session"] = Sessions /\ Base /\ s \in Keys
  BY KindsAre, KeysAre DEF Controllers, SpaceTyped, OrphanTyped
<1>1. CASE known'[s] = obj'[s] /\ s \in queue'
  BY <1>1 DEF IsReady, Waits
<1>2. CASE known'[s] = known[s]
  <2>1. s \in plan => ~known[s].there
    BY <1>c, MissingIs DEF Base, ObjectsInv
  <2>2. Removed(s) => ~obj'[s].there
    BY MissingIs DEF Removed
  <2>3. Activated(s)
    BY <1>2, <2>1, <2>2 DEF Activated, Outside, UserWrote, Created, Edited, Doomed
  <2>4. Waits(s) => Waits(s)'
    BY <1>c, WaitsOutside
  <2>5. ASSUME Ready(s, known[s].spec)
        PROVE  Ready(s, known[s].spec)'
    <3>1. Space(s).state = "active"
      BY <2>5 DEF Ready, Namespace
    <3>2. Space(s)' = Space(s)
      BY <3>1, RestSpace
    <3> QED
      BY <1>2, <2>5, <3>2 DEF Ready
  <2> QED
    BY <2>3, <2>4, <2>5 DEF IsReady
<1> QED
  BY <1>1, <1>2 DEF Outside

LEMMA ReadyStart ==
  ASSUME SpaceTyped, NEW r \in Sessions, StartSession(r), NEW s \in Sessions,
         Activated(s)', Activated(s) => IsReady(s)
  PROVE  IsReady(s)'
<1>c. "session" \in Controllers /\ KeysOf["session"] = Sessions /\ Base
  BY KindsAre DEF Controllers, SpaceTyped, OrphanTyped
<1>1. /\ obj' = obj /\ known' = known /\ queue' = queue \ {r} /\ timers' = timers /\ ns' = ns
      /\ ~Busy("session")
  BY DEF StartSession, Begin, Busy, sessionVars, namespaceVars
<1>2. Activated(s)
  BY <1>1 DEF Activated
<1>3. CASE r = s
  <2>1. ~known[s].deleting
    BY <1>2 DEF Activated, SpaceTyped, OrphanTyped, OrphanInv, FinalizerInv
  <2>2. work' = [work EXCEPT !["session"] = At("begin", s, known[s])]
    BY <1>2, <1>3, <2>1 DEF StartSession, Begin, Activated
  <2> QED
    BY <1>c, <2>2, NowAt DEF IsReady, Waits, WorksOn, Base
<1>4. CASE r # s
  <2>1. Waits(s) => Waits(s)'
    BY <1>c, <1>1, <1>4, WaitsIs DEF Waits, WorksOn
  <2>2. Ready(s, known[s].spec) => Ready(s, known[s].spec)'
    BY <1>1 DEF Ready, Space
  <2> QED
    BY <1>2, <2>1, <2>2 DEF IsReady
<1> QED
  BY <1>3, <1>4

(* The worker makes its session Active when all it has built is there. *)
LEMMA ReadyActive ==
  ASSUME SpaceTyped, AtStep("active"), NEW s \in Sessions, s = me, Alike(s), s \notin misled,
         Space(s)' = Space(s), NEW spec, spec = mine.spec
  PROVE  Space(s)' = Namespace("active", spec.tenant, spec.strict, TRUE, spec.tenant)
<1>1. Busy("session") /\ Alone(me) /\ me \notin misled
  BY DEF AtStep, Busy, Alike
<1>2. stored \in NamespaceObjects /\ spec \in SpecsOf[s] /\ Space(s) = stored
  BY <1>1, MySpace DEF SpaceTyped, OrphanTyped, Space, stored, myName
<1>3. Progress("active", stored, spec)
  BY <1>1, ProgressIs DEF SpaceTyped, AtStep
<1>4. /\ stored.state = "active" /\ stored.policy = spec.strict /\ stored.role /\ stored.binding # NoTenant
  BY <1>3 DEF Progress
<1>5. stored.tenant = spec.tenant /\ stored.binding \in {NoTenant, spec.tenant}
  BY <1>2, <1>4 DEF SpaceTyped, TenantInv
<1>6. stored = Namespace(stored.state, stored.tenant, stored.policy, stored.role, stored.binding)
      /\ stored.role \in BOOLEAN
  BY <1>2, FieldsTyped
<1>7. stored.role = TRUE /\ stored.binding = spec.tenant
  BY <1>4, <1>5, <1>6
<1> QED
  BY <1>2, <1>4, <1>5, <1>6, <1>7

LEMMA ReadyWork ==
  ASSUME SpaceTyped, ReconcileSession, NEW s \in Sessions, Alike(s), s \notin misled',
         Activated(s)', Activated(s) => IsReady(s)
  PROVE  IsReady(s)'
<1>c. /\ "session" \in Controllers /\ KeysOf["session"] = Sessions /\ Base /\ SessionTypeOK
      /\ s \in Watched /\ Busy("session")
  BY KindsAre, KeysAre, SpaceEffect DEF Controllers, SpaceTyped, OrphanTyped
<1>m. SessionMove
  BY <1>c, SessionEffect
<1>n. OwnSpace(s) /\ s \notin misled
  BY <1>c, OwnSpaces DEF Alike
<1>1. CASE s # me
  <2>1. Space(s)' = Space(s)
    BY <1>1, <1>n DEF OwnSpace
  <2>2. obj'[s] = obj[s] /\ known'[s] = known[s] /\ (Waits(s) => Waits(s)')
    <3>1. CASE (\E step \in StepsOf["session"] : Passes("session", step)) \/ GivesUp("session")
      BY <1>c, <3>1, OwnPasses
    <3>2. ASSUME NEW o, NEW step, Updates("session", o, step)
          PROVE  obj'[s] = obj[s] /\ known'[s] = known[s] /\ (Waits(s) => Waits(s)')
      BY <1>c, <1>1, <3>2, OwnUpdates DEF me
    <3> QED
      BY <1>c, <1>m, <3>1, <3>2, SessionWorks DEF Works
  <2>3. Activated(s)
    BY <2>2 DEF Activated
  <2> QED
    BY <2>1, <2>2, <2>3 DEF IsReady, Ready
<1>2. CASE s = me
  <2>1. CASE GivesUp("session")
    BY <1>2, <2>1 DEF GivesUp, IsReady, Waits, me
  <2>2. ASSUME NEW next, Passes("session", next)
        PROVE  IsReady(s)'
    BY <1>2, <1>c, <2>2, PassesNow DEF IsReady, Waits, WorksOn, me
  <2>3. ASSUME NEW o, NEW step, Updates("session", o, step), step # "idle"
        PROVE  IsReady(s)'
    BY <1>2, <1>c, <2>3, OwnUpdates DEF IsReady, me
  <2>4. ASSUME NEW o, Updates("session", o, "idle"), ~o.there \/ o.phase = "Error"
        PROVE  FALSE
    BY <1>2, <1>c, <2>4, OwnUpdates DEF Activated, me
  <2>5. ASSUME NEW o, Kept(mine, o), Updates("session", o, "idle"), AtStep("active")
        PROVE  IsReady(s)'
    <3>1. \/ known'[s] = known[s] /\ queue \subseteq queue'
          \/ s \in queue'
      BY <1>2, <1>c, <2>5, OwnUpdates DEF me
    <3>2. CASE s \in queue'
      BY <3>2 DEF IsReady, Waits
    <3>3. CASE s \notin queue'
      <4>1. known'[s] = known[s] /\ known[s].spec = mine.spec
        BY <1>2, <1>c, <3>1, <3>3 DEF Base, WorkersInv, me, mine
      <4>2. Space(s)' = Space(s)
        BY <1>n, <2>5, NewSpace DEF OwnSpace, AtStep
      <4>3. LET spec == known'[s].spec IN
            Space(s)' = Namespace("active", spec.tenant, spec.strict, TRUE, spec.tenant)
        BY <1>2, <1>n, <2>5, <4>1, <4>2, ReadyActive
      <4> QED
        BY <4>3 DEF IsReady, Ready
    <3> QED
      BY <3>2, <3>3
  <2> QED
    BY <1>m, <2>1, <2>2, <2>3, <2>4, <2>5, MissingIs DEF SessionMove
<1> QED
  BY <1>1, <1>2

LEMMA ReadyNext ==
  ASSUME SpaceTyped, SessionNext
  PROVE  ReadyInv'
<1>b. /\ Base /\ SessionTypeOK /\ "session" \in Controllers /\ KeysOf["session"] = Sessions
      /\ Sessions \subseteq Watched
  BY KindsAre, KeysAre DEF SpaceTyped, OrphanTyped, Controllers
<1> SUFFICES ASSUME NEW s \in Sessions, s \notin misled', Alike(s), Activated(s)'
             PROVE  IsReady(s)'
  BY DEF ReadyInv, Activated, IsReady, Alike, Alone, OneTenant
<1>s. SpacesStep /\ misled \subseteq misled'
  BY <1>b, SpacesIs, SpaceSteps DEF Alike
<1>0. Activated(s) => IsReady(s)
  BY <1>s DEF SpaceTyped, ReadyInv, Activated, IsReady
<1>1. CASE Restart
  BY <1>1, <1>b DEF Restart, RestartRuntime, Activated, IsReady, Waits
<1>2. CASE SessionActs
  BY <1>0, <1>2, ReadyStart, ReadyWork DEF SessionActs
<1>3. CASE \E n \in Names : ClusterStep(n) /\ AllSame
  <2>1. work' = work /\ Outside(s) /\ EnvSpace(s)
    BY <1>b, <1>3, EnvSpaces, StillOutside DEF AllSame
  <2> QED
    BY <1>0, <2>1, ReadyOutside
<1>4. CASE Others("session") /\ UNCHANGED sessionVars
  <2>1. work'["session"] = work["session"] /\ Outside(s) /\ EnvSpace(s)
    BY <1>b, <1>4, OthersOutside DEF sessionVars, namespaceVars, EnvSpace, Space
  <2> QED
    BY <1>0, <2>1, ReadyOutside
<1> QED
  BY <1>1, <1>2, <1>3, <1>4 DEF SessionNext

LEMMA SpaceInit ==
  ASSUME Init
  PROVE  UnseenInv /\ TenantInv /\ EndInv /\ ProgressInv /\ ReadyInv
<1>1. /\ work["session"].step = "idle"
      /\ \A s \in Sessions : obj[s] = Missing /\ known[s] = Missing
  BY StartMissing, KeysAre, IdleTyped DEF Init, RuntimeInit, Controllers
<1>2. \A s \in Sessions : Space(s) = NoNamespace
  BY SessionAssumption DEF Init, SessionInit, Space
<1>3. UnseenInv /\ EndInv /\ ReadyInv
  BY <1>1, <1>2, MissingIs, NoNamespaceIs DEF UnseenInv, EndInv, ReadyInv, WorksOn, Busy
<1>4. TenantInv
  BY <1>2, NoNamespaceIs DEF TenantInv
<1>5. ProgressInv
  BY <1>1 DEF ProgressInv
<1> QED
  BY <1>3, <1>4, <1>5

(* When nothing is left to do for an Active session whose name no other    *)
(* session has, and whose tenant is never edited, its namespace is there   *)
(* with the tenant's own role and binding, and with the network policy     *)
(* exactly if the isolation asks for it.                                   *)
THEOREM ActiveSessionsAreReady == Spec => []ActiveSessionIsReady
<1> DEFINE Inv == Typed /\ SpaceTyped
<1>1. Init => Inv
  BY TypedInit, OrphanInit, SpaceInit DEF Typed, TypeOK, Base, SpaceTyped, OrphanTyped
<1>2. Inv /\ [Next]_vars => Inv'
  <2> SUFFICES ASSUME Inv, [Next]_vars
               PROVE  Inv'
    OBVIOUS
  <2>1. Typed'
    BY TypedNext
  <2>2. OrphanTyped /\ Base /\ SessionTypeOK
    BY DEF SpaceTyped, OrphanTyped
  <2>3. Base' /\ SessionTypeOK'
    BY <2>1 DEF Typed, TypeOK, Base
  <2>4. SessionNext /\ EachNext("session") /\ SpacesStep
    BY <2>2, EachStep, StepOf, SpacesIs DEF Controllers
  <2>5. OrphanInv'
    BY <2>2, <2>3, <2>4, OrphanNext
  <2> QED
    BY <2>1, <2>3, <2>4, <2>5, UnseenNext, EndNext, TenantNext, ProgressNext, ReadyNext
       DEF SpaceTyped, OrphanTyped
<1>3. Inv => ActiveSessionIsReady
  <2> SUFFICES ASSUME Inv, NEW s \in Sessions \ misled, Settled(s), Alone(s), OneTenant(s),
                      ~obj[s].deleting, obj[s].phase = "Active"
               PROVE  Ready(s, obj[s].spec)
    BY DEF ActiveSessionIsReady, Ready, Space
  <2>1. obj[s].there /\ known[s] = obj[s] /\ ~Waits(s)
    BY DEF Settled, Waits, WorksOn, Busy
  <2> QED
    BY <2>1 DEF SpaceTyped, ReadyInv, Alike
<1> QED
  BY <1>1, <1>2, <1>3, PTL DEF Spec
=============================================================================
