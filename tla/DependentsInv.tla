--------------------------- MODULE DependentsInv ---------------------------
(***************************************************************************)
(* The inductive invariant of Dependents, in named parts: what the         *)
(* workers, the cache and the API server know of each other.               *)
(***************************************************************************)
EXTENDS Dependents

KeysOf == [c \in Controllers |->
             CASE c = "session" -> Sessions
               [] c = "team" -> Teams
               [] c = "message" -> Messages
               [] c = "toolserver" -> ToolServers]

Building == {"read", "namespace", "policy", "role", "binding", "active"}
CleanUp == {"terminating", "remove", "unfin"}
StepsOf == [c \in Controllers |->
              CASE c = "session" -> {"idle", "begin"} \cup Building \cup CleanUp
                [] c = "team" -> {"idle", "begin", "delegate", "active"}
                [] c = "message" -> {"idle", "begin", "call", "wait", "error", "done"}
                [] c = "toolserver" -> {"idle", "begin"}]

Busy(c) == work[c].step # "idle"
WorksOn(c, k) == Busy(c) /\ Me(c) = k
(* Something will bring a worker back to the object, or one is at it. *)
Waits(k) == k \in queue \cup timers \/ \E c \in Controllers : WorksOn(c, k)

(* Only sessions have a finalizer, and only with one is an object there    *)
(* that is being deleted.                                                  *)
WellFormed(k, o) == (o.finalizer => k \in Sessions) /\ (o.deleting => o.finalizer)

(* What is still to be created has never been there, and an object that    *)
(* nothing befell is what the cache shows.                                 *)
ObjectsInv ==
  \A k \in Keys :
    /\ WellFormed(k, obj[k]) /\ WellFormed(k, known[k])
    /\ k \in plan => obj[k] = Missing /\ known[k] = Missing
    /\ k \notin disturbed => known[k] = obj[k]

(* A worker is at an object of its kind.  If the cache has another spec by *)
(* now, or another opinion on its deletion, the key is in the queue.       *)
WorkersInv ==
  \A c \in Controllers :
    /\ work[c].step \in StepsOf[c]
    /\ Busy(c) =>
         /\ Me(c) \in KeysOf[c] \ plan
         /\ Mine(c).there /\ WellFormed(Me(c), Mine(c))
         /\ Me(c) \in queue \/ (known[Me(c)].spec = Mine(c).spec /\ known[Me(c)].deleting = Mine(c).deleting)

-----------------------------------------------------------------------------
(* NoOrphanNamespace. *)

(* A deletion cannot be taken back, and only the clean-up takes the        *)
(* finalizer off: who saw it on a session that was not being deleted can   *)
(* rely on it.                                                             *)
FinalizerInv ==
  \A s \in Sessions : known[s].there =>
    IF known[s].deleting THEN obj[s].there => obj[s].deleting
    ELSE known[s].finalizer => obj[s].there /\ obj[s].finalizer

BuildInv ==
  /\ work["session"].step \in Building => mine.finalizer
  /\ work["session"].step \in Building \cup {"begin"} =>
       ~mine.deleting /\ (mine.finalizer => obj[me].there /\ obj[me].finalizer)

CleanUpInv ==
  /\ work["session"].step \in CleanUp =>
       /\ mine.deleting
       /\ obj[me].there => obj[me].deleting
       /\ known[me].there => known[me].deleting
  /\ AtStep("unfin") => stored.state = "none" \/ myName \in blind

OrphanInv == FinalizerInv /\ BuildInv /\ CleanUpInv /\ NoOrphanNamespace

-----------------------------------------------------------------------------
(* ActiveSessionIsReady. *)

Alike(s) == Alone(s) /\ OneTenant(s)
Space(s) == ns[NameOf[s]]
Ready(s, spec) == Space(s) = Namespace("active", spec.tenant, spec.strict, TRUE, spec.tenant)

(* What is in the namespace of a session is its tenant's. *)
TenantInv ==
  \A s \in Sessions : Alike(s) => \A spec \in SpecsOf[s] :
    /\ Space(s).state = "none" => Space(s) = NoNamespace
    /\ Space(s).state # "none" => Space(s).tenant = spec.tenant
    /\ Space(s).binding \in {NoTenant, spec.tenant}

(* What the operator has not seen yet has no namespace of its own. *)
UnseenInv ==
  \A s \in Sessions : s \in plan \/ (obj[s].there /\ ~known[s].there) =>
    ~WorksOn("session", s) /\ (Alone(s) => Space(s).state = "none")

(* It ends only with the session. *)
EndInv ==
  \A s \in Sessions \ misled :
    Alone(s) /\ Space(s).state = "terminating" /\ known[s].there => known[s].deleting

(* The steps the worker has behind it have left their mark. *)
ProgressInv ==
  Alone(me) /\ me \notin misled =>
    LET step == work["session"].step IN
    /\ step \in {"begin", "read", "namespace"} => stored.state # "terminating"
    /\ step \in {"policy", "role", "binding", "active"} => stored.state = "active"
    /\ step \in {"role", "binding", "active"} => stored.policy = mine.spec.strict
    /\ step \in {"binding", "active"} => stored.role
    /\ step = "active" => stored.binding # NoTenant

ReadyInv ==
  \A s \in Sessions \ misled :
    /\ Alike(s)
    /\ obj[s].there /\ ~obj[s].deleting /\ obj[s].phase = "Active"
    /\ known[s].there /\ known[s].phase = "Active"
    => Ready(s, known[s].spec) \/ Waits(s)

-----------------------------------------------------------------------------
(* NoKeyLost. *)

UndecidedInv ==
  \A k \in Watched :
    obj[k].there /\ obj[k].phase \notin Verdicts /\ known[k].there /\ known[k].phase \notin Verdicts
      => Waits(k)
DeletedInv == \A s \in Sessions : obj[s].there /\ known[s].deleting => Waits(s)

-----------------------------------------------------------------------------
(* ActiveTeamDelegates. *)

DelegatesTo(spec) == obj[spec.coordinator].there /\ obj[spec.coordinator].spec = spec.members
ToldInv == TeamAt("active") /\ coordinator \notin disturbed => DelegatesTo(team.spec)
TeamsInv ==
  \A t \in Teams \ overruled :
    /\ obj[t].there /\ obj[t].phase = "Active"
    /\ known[t].there /\ known[t].phase = "Active" /\ known[t].spec.coordinator \notin disturbed
    => DelegatesTo(known[t].spec) \/ Waits(t)

-----------------------------------------------------------------------------
(* UndisturbedPostedOnce and MessageOutcomeIsFinal. *)

PostedSteps == {"wait", "error", "done"}
MessageInv ==
  /\ Busy("message") => ~TerminalMessage(message)
  /\ Busy("message") /\ Me("message") \notin disturbed =>
       /\ obj[Me("message")].there => obj[Me("message")] = message
       /\ work["message"].step \notin PostedSteps => chats[Me("message")] = 0
PostedInv ==
  \A m \in Messages :
    /\ m \in plan => chats[m] = 0
    /\ m \notin disturbed /\ chats[m] # 0 =>
         ~obj[m].there \/ TerminalMessage(obj[m]) \/ (WorksOn("message", m) /\ work["message"].step \in PostedSteps)
=============================================================================
