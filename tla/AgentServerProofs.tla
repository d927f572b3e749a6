------------------------- MODULE AgentServerProofs -------------------------
(***************************************************************************)
(* Proofs about AgentServer for every number of agents, sends and queue    *)
(* ids and every number of permits.                                        *)
(***************************************************************************)
EXTENDS AgentServer, FiniteSetTheorems, TLAPS

(* Every way the items can change: the pod's own steps, a POST coming in,  *)
(* and a cancellation whatever becomes of its reply.                       *)
ItemChange(q) ==
  \/ LosePost(q) \/ AsyncChat(q)
  \/ OpenSession(q) \/ SessionIdle(q) \/ SessionDeleted(q) \/ Unregister(q)
  \/ RunFails(q) \/ PostResponse(q) \/ LoseResponse(q)
  \/ DisconnectSession(q) \/ CancelDisconnectFails(q)
  \/ \E s \in Sends : Arrive(q, s)

PodChange ==
  \/ UNCHANGED itemVars
  \/ \E q \in QueueIds : ItemChange(q)
  \/ \E a \in Agents : SpawnTask(a) \/ AcquirePermit(a) \/ AgentRestart(a)

(* Every step of the server on its own is such a change. *)
LEMMA ServerNextIsPodChange == [ServerNext]_serverVars => PodChange
BY DEF ServerNext, serverVars, ServerStep, RunItem, CancelQueueItem, CancelNotFound,
       CancelDisconnects, PodChange, ItemChange

(* Lines that hold each of some items once: the head is one of the items, *)
(* and the line keeps step with the items when one comes or the head goes. *)
LEMMA HeadHeld ==
  ASSUME NEW S, NEW line \in Seq(S), NEW items, HoldsEach(line, items), line # <<>>
  PROVE  Head(line) \in items
<1>1. Len(line) \in Nat \ {0} /\ Head(line) = line[1]
      OBVIOUS
<1>2. Head(line) \in {line[i] : i \in 1..Len(line)}
      BY <1>1
<1> QED BY <1>2 DEF HoldsEach

LEMMA AppendHolds ==
  ASSUME NEW S, NEW line \in Seq(S), NEW items, HoldsEach(line, items), NEW x \in S, x \notin items
  PROVE  HoldsEach(Append(line, x), items \cup {x})
<1> DEFINE new == Append(line, x)
<1>1. /\ Len(new) = Len(line) + 1
      /\ \A i \in 1..Len(line) : new[i] = line[i]
      /\ new[Len(line) + 1] = x
      /\ Len(line) \in Nat
      OBVIOUS
<1> HIDE DEF new
<1>2. {new[i] : i \in 1..Len(new)} = {line[i] : i \in 1..Len(line)} \cup {x}
      BY <1>1
<1>3. \A i \in 1..Len(line) : line[i] # x
      BY DEF HoldsEach
<1>4. ASSUME NEW i \in 1..Len(new), NEW j \in 1..Len(new), new[i] = new[j]
      PROVE  i = j
  <2>1. CASE i \in 1..Len(line) /\ j \in 1..Len(line)
        BY <1>1, <1>4, <2>1 DEF HoldsEach
  <2>2. CASE i = Len(line) + 1 /\ j \in 1..Len(line)
        BY <1>1, <1>3, <1>4, <2>2
  <2>3. CASE i \in 1..Len(line) /\ j = Len(line) + 1
        BY <1>1, <1>3, <1>4, <2>3
  <2>4. CASE i = Len(line) + 1 /\ j = Len(line) + 1
        BY <2>4
  <2> QED BY <1>1, <2>1, <2>2, <2>3, <2>4
<1>5. HoldsEach(new, items \cup {x})
      BY <1>2, <1>4 DEF HoldsEach
<1> QED BY <1>5 DEF new

LEMMA TailHolds ==
  ASSUME NEW S, NEW line \in Seq(S), NEW items, HoldsEach(line, items), line # <<>>
  PROVE  HoldsEach(Tail(line), items \ {Head(line)})
<1> DEFINE rest == Tail(line)
<1> DEFINE h == Head(line)
<1>1. /\ Len(line) \in Nat \ {0}
      /\ Len(rest) = Len(line) - 1
      /\ \A i \in 1..Len(rest) : rest[i] = line[i + 1]
      /\ h = line[1]
      OBVIOUS
<1> HIDE DEF rest, h
<1>2. \A i, j \in 1..Len(line) : line[i] = line[j] => i = j
      BY DEF HoldsEach
<1>3. ASSUME NEW x, x \in {rest[i] : i \in 1..Len(rest)}
      PROVE  x \in {line[i] : i \in 1..Len(line)} \ {h}
  <2>1. PICK i \in 1..Len(rest) : x = rest[i]
        BY <1>3
  <2>2. i + 1 \in 1..Len(line) /\ x = line[i + 1] /\ i + 1 # 1 /\ 1 \in 1..Len(line)
        BY <1>1, <2>1
  <2> QED BY <1>1, <1>2, <2>2
<1>4. ASSUME NEW x, x \in {line[i] : i \in 1..Len(line)} \ {h}
      PROVE  x \in {rest[i] : i \in 1..Len(rest)}
  <2>1. PICK i \in 1..Len(line) : x = line[i]
        BY <1>4
  <2>2. i # 1
        BY <1>1, <1>4, <2>1
  <2>3. i - 1 \in 1..Len(rest) /\ x = rest[i - 1]
        BY <1>1, <2>1, <2>2
  <2> QED BY <2>3
<1>5. {rest[i] : i \in 1..Len(rest)} = items \ {h}
      BY <1>3, <1>4 DEF HoldsEach
<1>6. ASSUME NEW i \in 1..Len(rest), NEW j \in 1..Len(rest), rest[i] = rest[j]
      PROVE  i = j
  <2>1. i + 1 \in 1..Len(line) /\ j + 1 \in 1..Len(line) /\ line[i + 1] = line[j + 1]
        BY <1>1, <1>6
  <2>2. i + 1 = j + 1
        BY <1>2, <2>1
  <2> QED BY <1>1, <2>2
<1>7. HoldsEach(rest, items \ {h})
      BY <1>5, <1>6 DEF HoldsEach
<1> QED BY <1>7 DEF rest, h

(* The head of an agent's queue is one of its queued items, and the first  *)
(* at its semaphore one of those that wait there.                          *)
LEMMA HeadIsQueued ==
  ASSUME ItemTypeOK, QueueHoldsTheQueued, NEW a \in Agents, queue[a] # <<>>
  PROVE  /\ Head(queue[a]) \in QueueIds
         /\ istate[Head(queue[a])] = "queued"
         /\ isend[Head(queue[a])] \in Sends
         /\ AgentOf[isend[Head(queue[a])]] = a
<1>1. queue[a] \in Seq(QueueIds) /\ HoldsEach(queue[a], ItemsOf(a, {"queued"}))
      BY DEF ItemTypeOK, QueueHoldsTheQueued
<1>2. Head(queue[a]) \in ItemsOf(a, {"queued"})
      BY <1>1, HeadHeld
<1> QED BY <1>2 DEF ItemsOf

LEMMA HeadIsWaiting ==
  ASSUME ItemTypeOK, QueueHoldsTheQueued, NEW a \in Agents, waiters[a] # <<>>
  PROVE  /\ Head(waiters[a]) \in QueueIds
         /\ istate[Head(waiters[a])] = "waiting"
         /\ isend[Head(waiters[a])] \in Sends
         /\ AgentOf[isend[Head(waiters[a])]] = a
<1>1. waiters[a] \in Seq(QueueIds) /\ HoldsEach(waiters[a], ItemsOf(a, {"waiting"}))
      BY DEF ItemTypeOK, QueueHoldsTheQueued
<1>2. Head(waiters[a]) \in ItemsOf(a, {"waiting"})
      BY <1>1, HeadHeld
<1> QED BY <1>2 DEF ItemsOf

(* A used queue id belongs to a send and so to an agent. *)
LEMMA UsedHasAgent ==
  ASSUME ItemTypeOK, ItemInv, NEW q \in QueueIds, istate[q] # "none"
  PROVE  isend[q] \in Sends /\ AgentOf[isend[q]] \in Agents
BY ClusterAssumption DEF ItemTypeOK, ItemInv, ClusterAssumption

-----------------------------------------------------------------------------
(* One lemma per conjunct of the invariant.  The type first. *)
LEMMA ItemTypeStep ==
  ASSUME ItemTypeOK, ItemInv, PodChange
  PROVE  ItemTypeOK'
<1> USE DEF ItemTypeOK
<1>1. CASE UNCHANGED itemVars
      BY <1>1 DEF itemVars
<1>2. ASSUME NEW q \in QueueIds, ItemChange(q) PROVE ItemTypeOK'
  <2>1. CASE AsyncChat(q)
    <3>1. AgentOf[isend[q]] \in Agents
          BY <2>1, UsedHasAgent DEF AsyncChat
    <3>2. Append(queue[AgentOf[isend[q]]], q) \in Seq(QueueIds)
          BY <3>1
    <3> QED BY <2>1, <3>1, <3>2 DEF AsyncChat, ItemStates
  <2>2. CASE LosePost(q) \/ OpenSession(q) \/ SessionIdle(q) \/ SessionDeleted(q) \/ Unregister(q)
        BY <2>2 DEF LosePost, OpenSession, SessionIdle, SessionDeleted, Unregister, ItemStates
  <2>3. CASE RunFails(q) \/ PostResponse(q) \/ LoseResponse(q)
    <3>1. AgentOf[isend[q]] \in Agents /\ ReleasePermit(q)
          BY <2>3, UsedHasAgent DEF RunFails, PostResponse, LoseResponse
    <3>2. free[AgentOf[isend[q]]] + 1 \in Nat
          BY <3>1
    <3>3. free' \in [Agents -> Nat]
          BY <3>1, <3>2 DEF ReleasePermit
    <3> QED BY <2>3, <3>3 DEF RunFails, PostResponse, LoseResponse, ItemStates
  <2>4. CASE DisconnectSession(q) \/ CancelDisconnectFails(q)
        BY <2>4 DEF DisconnectSession, CancelDisconnectFails
  <2>5. CASE \E s \in Sends : Arrive(q, s)
        BY <2>5 DEF Arrive, ItemStates
  <2> QED BY <1>2, <2>1, <2>2, <2>3, <2>4, <2>5 DEF ItemChange
<1>3. ASSUME NEW a \in Agents, SpawnTask(a) PROVE ItemTypeOK'
  <2>1. Tail(queue[a]) \in Seq(QueueIds) /\ Head(queue[a]) \in QueueIds
        BY <1>3 DEF SpawnTask
  <2>2. Append(waiters[a], Head(queue[a])) \in Seq(QueueIds)
        BY <2>1
  <2> QED BY <1>3, <2>1, <2>2 DEF SpawnTask, ItemStates
<1>4. ASSUME NEW a \in Agents, AcquirePermit(a) PROVE ItemTypeOK'
  <2>1. Tail(waiters[a]) \in Seq(QueueIds) /\ free[a] - 1 \in Nat
        BY <1>4 DEF AcquirePermit
  <2> QED BY <1>4, <2>1 DEF AcquirePermit, ItemStates
<1>5. ASSUME NEW a \in Agents, AgentRestart(a) PROVE ItemTypeOK'
      BY <1>5, MaxConcurrentAssumption DEF AgentRestart, ItemStates, MaxConcurrentAssumption
<1> QED BY <1>1, <1>2, <1>3, <1>4, <1>5 DEF PodChange

LEMMA ItemInvStep ==
  ASSUME ItemTypeOK, ItemInv, QueueHoldsTheQueued, PodChange
  PROVE  ItemInv'
<1> USE DEF ItemTypeOK, ItemInv
<1>1. CASE UNCHANGED itemVars
      BY <1>1 DEF itemVars
<1>2. ASSUME NEW q \in QueueIds, ItemChange(q) PROVE ItemInv'
      BY <1>2, ClusterAssumption DEF ItemChange, LosePost, AsyncChat, OpenSession, SessionIdle,
           SessionDeleted, Unregister, RunFails, PostResponse, LoseResponse, DisconnectSession,
           CancelDisconnectFails, Arrive, ClusterAssumption
<1>3. ASSUME NEW a \in Agents, SpawnTask(a) PROVE ItemInv'
      BY <1>3, HeadIsQueued DEF SpawnTask
<1>4. ASSUME NEW a \in Agents, AcquirePermit(a) PROVE ItemInv'
      BY <1>4, HeadIsWaiting DEF AcquirePermit
<1>5. ASSUME NEW a \in Agents, AgentRestart(a) PROVE ItemInv'
      BY <1>5, ClusterAssumption DEF AgentRestart, ItemsOf, Holding, ClusterAssumption
<1> QED BY <1>1, <1>2, <1>3, <1>4, <1>5 DEF PodChange

LEMMA ActiveStep ==
  ASSUME ItemTypeOK, ItemInv, QueueHoldsTheQueued, ActiveSessionsAreLive, PodChange
  PROVE  ActiveSessionsAreLive'
<1> USE DEF ItemTypeOK, ActiveSessionsAreLive
<1>1. CASE UNCHANGED itemVars
      BY <1>1 DEF itemVars
<1>2. ASSUME NEW q \in QueueIds, ItemChange(q) PROVE ActiveSessionsAreLive'
      BY <1>2 DEF ItemChange, LosePost, AsyncChat, OpenSession, SessionIdle,
           SessionDeleted, Unregister, RunFails, PostResponse, LoseResponse, DisconnectSession,
           CancelDisconnectFails, Arrive
<1>3. ASSUME NEW a \in Agents, SpawnTask(a) PROVE ActiveSessionsAreLive'
      BY <1>3, HeadIsQueued DEF SpawnTask
<1>4. ASSUME NEW a \in Agents, AcquirePermit(a) PROVE ActiveSessionsAreLive'
      BY <1>4, HeadIsWaiting DEF AcquirePermit
<1>5. ASSUME NEW a \in Agents, AgentRestart(a) PROVE ActiveSessionsAreLive'
      BY <1>5 DEF AgentRestart, ItemsOf, Holding
<1> QED BY <1>1, <1>2, <1>3, <1>4, <1>5 DEF PodChange

LEMMA ResponsesStep ==
  ASSUME ItemTypeOK, ItemInv, QueueHoldsTheQueued, ResponsesAreEarned, PodChange
  PROVE  ResponsesAreEarned'
<1> USE DEF ItemTypeOK, ResponsesAreEarned
<1>1. CASE UNCHANGED itemVars
      BY <1>1 DEF itemVars
<1>2. ASSUME NEW q \in QueueIds, ItemChange(q) PROVE ResponsesAreEarned'
      BY <1>2 DEF ItemChange, LosePost, AsyncChat, OpenSession, SessionIdle,
           SessionDeleted, Unregister, RunFails, PostResponse, LoseResponse, DisconnectSession,
           CancelDisconnectFails, Arrive, ItemInv
<1>3. ASSUME NEW a \in Agents, SpawnTask(a) PROVE ResponsesAreEarned'
      BY <1>3, HeadIsQueued DEF SpawnTask
<1>4. ASSUME NEW a \in Agents, AcquirePermit(a) PROVE ResponsesAreEarned'
      BY <1>4, HeadIsWaiting DEF AcquirePermit
<1>5. ASSUME NEW a \in Agents, AgentRestart(a) PROVE ResponsesAreEarned'
      BY <1>5 DEF AgentRestart, ItemsOf, Holding
<1> QED BY <1>1, <1>2, <1>3, <1>4, <1>5 DEF PodChange

(* A line and its items that a step leaves alone stay matched; so do the   *)
(* two lines of an agent when each of the items moves with its line.       *)
LEMMA QueueStep ==
  ASSUME ItemTypeOK, ItemInv, QueueHoldsTheQueued, PodChange
  PROVE  QueueHoldsTheQueued'
<1> DEFINE Q(a) == HoldsEach(queue[a], ItemsOf(a, {"queued"}))
<1> DEFINE W(a) == HoldsEach(waiters[a], ItemsOf(a, {"waiting"}))
<1>0. /\ \A a \in Agents : Q(a) /\ W(a)
      /\ (\A a \in Agents : Q(a)' /\ W(a)') => QueueHoldsTheQueued'
      /\ \A a \in Agents : queue[a] \in Seq(QueueIds) /\ waiters[a] \in Seq(QueueIds)
      BY DEF QueueHoldsTheQueued, ItemTypeOK
<1> SUFFICES ASSUME NEW a \in Agents PROVE Q(a)' /\ W(a)'
    BY <1>0
<1>K. /\ queue'[a] = queue[a] /\ ItemsOf(a, {"queued"})' = ItemsOf(a, {"queued"}) => Q(a)'
      /\ waiters'[a] = waiters[a] /\ ItemsOf(a, {"waiting"})' = ItemsOf(a, {"waiting"}) => W(a)'
      BY <1>0
<1>1. CASE UNCHANGED itemVars
      BY <1>K, <1>1 DEF itemVars, ItemsOf
<1>2. ASSUME NEW q \in QueueIds, ItemChange(q) PROVE Q(a)' /\ W(a)'
  <2>1. CASE AsyncChat(q)
    <3>1. isend[q] \in Sends /\ AgentOf[isend[q]] \in Agents
          BY <2>1, UsedHasAgent DEF AsyncChat
    <3>2. W(a)'
          BY <1>K, <2>1 DEF AsyncChat, ItemTypeOK, ItemsOf
    <3>3. CASE a # AgentOf[isend[q]]
      <4>1. queue'[a] = queue[a] /\ ItemsOf(a, {"queued"})' = ItemsOf(a, {"queued"})
            BY <2>1, <3>1, <3>3 DEF AsyncChat, ItemTypeOK, ItemsOf
      <4> QED BY <1>K, <3>2, <4>1
    <3>4. CASE a = AgentOf[isend[q]]
      <4>1. queue'[a] = Append(queue[a], q)
            BY <2>1, <3>1, <3>4 DEF AsyncChat, ItemTypeOK
      <4>2. ItemsOf(a, {"queued"})' = ItemsOf(a, {"queued"}) \cup {q}
            BY <2>1, <3>1, <3>4 DEF AsyncChat, ItemTypeOK, ItemsOf
      <4>3. q \notin ItemsOf(a, {"queued"})
            BY <2>1 DEF AsyncChat, ItemsOf
      <4>4. HoldsEach(Append(queue[a], q), ItemsOf(a, {"queued"}) \cup {q})
            BY <1>0, <4>3, AppendHolds
      <4> QED BY <3>2, <4>1, <4>2, <4>4
    <3> QED BY <3>3, <3>4
  <2>2. CASE ~AsyncChat(q)
    <3>1. queue' = queue /\ waiters' = waiters
          BY <1>2, <2>2 DEF ItemChange, LosePost, OpenSession, SessionIdle, SessionDeleted, Unregister,
               RunFails, PostResponse, LoseResponse, DisconnectSession, CancelDisconnectFails, Arrive
    <3>2. /\ ItemsOf(a, {"queued"})' = ItemsOf(a, {"queued"})
          /\ ItemsOf(a, {"waiting"})' = ItemsOf(a, {"waiting"})
          BY <1>2, <2>2, ClusterAssumption
             DEF ItemChange, LosePost, OpenSession, SessionIdle, SessionDeleted, Unregister,
               RunFails, PostResponse, LoseResponse, DisconnectSession, CancelDisconnectFails, Arrive,
               ItemsOf, ItemTypeOK, ItemInv, ClusterAssumption
    <3> QED BY <1>K, <3>1, <3>2
  <2> QED BY <2>1, <2>2
<1>3. ASSUME NEW b \in Agents, SpawnTask(b) PROVE Q(a)' /\ W(a)'
  <2> DEFINE h == Head(queue[b])
  <2>0. /\ h \in QueueIds /\ istate[h] = "queued" /\ isend[h] \in Sends /\ AgentOf[isend[h]] = b
        /\ queue[b] # <<>>
        BY <1>3, HeadIsQueued DEF SpawnTask
  <2>1. CASE a # b
    <3>1. /\ queue'[a] = queue[a] /\ ItemsOf(a, {"queued"})' = ItemsOf(a, {"queued"})
          /\ waiters'[a] = waiters[a] /\ ItemsOf(a, {"waiting"})' = ItemsOf(a, {"waiting"})
          BY <1>3, <2>0, <2>1 DEF SpawnTask, ItemTypeOK, ItemsOf
    <3> QED BY <1>K, <3>1
  <2>2. CASE a = b
    <3>1. queue'[a] = Tail(queue[a]) /\ waiters'[a] = Append(waiters[a], h)
          BY <1>3, <2>2 DEF SpawnTask, ItemTypeOK
    <3>2. /\ ItemsOf(a, {"queued"})' = ItemsOf(a, {"queued"}) \ {h}
          /\ ItemsOf(a, {"waiting"})' = ItemsOf(a, {"waiting"}) \cup {h}
          /\ h \notin ItemsOf(a, {"waiting"})
          BY <1>3, <2>0, <2>2 DEF SpawnTask, ItemTypeOK, ItemsOf
    <3>3. HoldsEach(Tail(queue[a]), ItemsOf(a, {"queued"}) \ {h})
          BY <1>0, <2>0, <2>2, TailHolds
    <3>4. HoldsEach(Append(waiters[a], h), ItemsOf(a, {"waiting"}) \cup {h})
          BY <1>0, <2>0, <3>2, AppendHolds
    <3> QED BY <3>1, <3>2, <3>3, <3>4
  <2> QED BY <2>1, <2>2
<1>4. ASSUME NEW b \in Agents, AcquirePermit(b) PROVE Q(a)' /\ W(a)'
  <2> DEFINE h == Head(waiters[b])
  <2>0. /\ h \in QueueIds /\ istate[h] = "waiting" /\ isend[h] \in Sends /\ AgentOf[isend[h]] = b
        /\ waiters[b] # <<>>
        BY <1>4, HeadIsWaiting DEF AcquirePermit
  <2>1. Q(a)'
        BY <1>K, <1>4, <2>0 DEF AcquirePermit, ItemTypeOK, ItemsOf
  <2>2. CASE a # b
    <3>1. waiters'[a] = waiters[a] /\ ItemsOf(a, {"waiting"})' = ItemsOf(a, {"waiting"})
          BY <1>4, <2>0, <2>2 DEF AcquirePermit, ItemTypeOK, ItemsOf
    <3> QED BY <1>K, <2>1, <3>1
  <2>3. CASE a = b
    <3>1. waiters'[a] = Tail(waiters[a])
          BY <1>4, <2>3 DEF AcquirePermit, ItemTypeOK
    <3>2. ItemsOf(a, {"waiting"})' = ItemsOf(a, {"waiting"}) \ {h}
          BY <1>4, <2>0, <2>3 DEF AcquirePermit, ItemTypeOK, ItemsOf
    <3>3. HoldsEach(Tail(waiters[a]), ItemsOf(a, {"waiting"}) \ {h})
          BY <1>0, <2>0, <2>3, TailHolds
    <3> QED BY <2>1, <3>1, <3>2, <3>3
  <2> QED BY <2>2, <2>3
<1>5. ASSUME NEW b \in Agents, AgentRestart(b) PROVE Q(a)' /\ W(a)'
  <2>1. CASE a # b
    <3>1. /\ queue'[a] = queue[a] /\ ItemsOf(a, {"queued"})' = ItemsOf(a, {"queued"})
          /\ waiters'[a] = waiters[a] /\ ItemsOf(a, {"waiting"})' = ItemsOf(a, {"waiting"})
          BY <1>5, <2>1 DEF AgentRestart, ItemTypeOK, ItemsOf
    <3> QED BY <1>K, <3>1
  <2>2. CASE a = b
    <3>1. queue'[a] = <<>> /\ waiters'[a] = <<>>
          BY <1>5, <2>2 DEF AgentRestart, ItemTypeOK
    <3>2. ItemsOf(a, {"queued"})' = {} /\ ItemsOf(a, {"waiting"})' = {}
          BY <1>5, <2>2 DEF AgentRestart, ItemTypeOK, ItemsOf
    <3>3. HoldsEach(<<>>, {})
          BY DEF HoldsEach
    <3> QED BY <3>1, <3>2, <3>3
  <2> QED BY <2>1, <2>2
<1> QED BY <1>1, <1>2, <1>3, <1>4, <1>5 DEF PodChange

-----------------------------------------------------------------------------
(* The items of an agent that hold a permit are finitely many. *)
LEMMA HoldingFinite ==
  ASSUME NEW a \in Agents
  PROVE  /\ IsFiniteSet(ItemsOf(a, Holding))
         /\ Cardinality(ItemsOf(a, Holding)) \in Nat
<1>1. ItemsOf(a, Holding) \subseteq QueueIds
      BY DEF ItemsOf
<1>2. IsFiniteSet(ItemsOf(a, Holding))
      BY <1>1, ClusterAssumption, FS_Subset DEF ClusterAssumption
<1> QED BY <1>2, FS_CardinalityType

(* An agent whose permits and permit holders a step leaves alone.          *)
LEMMA SamePermits ==
  ASSUME PermitsAddUp, NEW a \in Agents,
         ItemsOf(a, Holding)' = ItemsOf(a, Holding), free'[a] = free[a]
  PROVE  Cardinality(ItemsOf(a, Holding)') + free'[a] = MaxConcurrent
BY DEF PermitsAddUp

(* The end of an item: it leaves the holders and gives one permit back.    *)
LEMMA ReleaseAddsUp ==
  ASSUME ItemTypeOK, ItemInv, PermitsAddUp, NEW q \in QueueIds, NEW a \in Agents,
         istate[q] \in Holding, istate' = [istate EXCEPT ![q] = "ended"], isend' = isend,
         ReleasePermit(q)
  PROVE  Cardinality(ItemsOf(a, Holding)') + free'[a] = MaxConcurrent
<1>1. isend[q] \in Sends /\ AgentOf[isend[q]] \in Agents
      BY UsedHasAgent DEF Holding
<1>2. free[a] \in Nat
      BY DEF ItemTypeOK
<1>3. CASE a # AgentOf[isend[q]]
  <2>1. free'[a] = free[a]
        BY <1>1, <1>3 DEF ReleasePermit, ItemTypeOK
  <2>2. ItemsOf(a, Holding)' = ItemsOf(a, Holding)
        BY <1>3 DEF ItemsOf, ItemTypeOK
  <2> QED BY <2>1, <2>2, SamePermits
<1>4. CASE a = AgentOf[isend[q]]
  <2>1. free'[a] = free[a] + 1
        BY <1>1, <1>4 DEF ReleasePermit, ItemTypeOK
  <2>2. ItemsOf(a, Holding)' = ItemsOf(a, Holding) \ {q}
        BY DEF ItemsOf, ItemTypeOK, Holding
  <2>3. q \in ItemsOf(a, Holding)
        BY <1>1, <1>4 DEF ItemsOf
  <2>4. Cardinality(ItemsOf(a, Holding) \ {q}) = Cardinality(ItemsOf(a, Holding)) - 1
        BY <2>3, HoldingFinite, FS_RemoveElement
  <2>5. Cardinality(ItemsOf(a, Holding)) + free[a] = MaxConcurrent
        BY DEF PermitsAddUp
  <2> QED BY <1>2, <2>1, <2>2, <2>4, <2>5, HoldingFinite
<1> QED BY <1>3, <1>4

(* One step per way an item or an agent changes: only the permit taken at  *)
(* the semaphore, the three ends of a run and a restart touch the count.   *)
LEMMA PermitStep ==
  ASSUME ItemTypeOK, ItemInv, QueueHoldsTheQueued, PermitsAddUp, PodChange
  PROVE  PermitsAddUp'
<1> DEFINE P(a) == Cardinality(ItemsOf(a, Holding)') + free'[a] = MaxConcurrent
<1>0. SUFFICES ASSUME NEW a \in Agents PROVE P(a)
      BY DEF PermitsAddUp
<1>1. CASE UNCHANGED itemVars
  <2>1. ItemsOf(a, Holding)' = ItemsOf(a, Holding) /\ free'[a] = free[a]
        BY <1>1 DEF itemVars, ItemsOf
  <2> QED BY <2>1, SamePermits
<1>2. ASSUME NEW q \in QueueIds, ItemChange(q) PROVE P(a)
  <2>1. CASE RunFails(q) \/ PostResponse(q) \/ LoseResponse(q)
    <3>1. /\ istate[q] \in Holding /\ istate' = [istate EXCEPT ![q] = "ended"]
          /\ isend' = isend /\ ReleasePermit(q)
          BY <2>1 DEF RunFails, PostResponse, LoseResponse, Holding
    <3> QED BY <3>1, ReleaseAddsUp
  <2>2. CASE ~(RunFails(q) \/ PostResponse(q) \/ LoseResponse(q))
    <3>1. free' = free
          BY <1>2, <2>2 DEF ItemChange, LosePost, AsyncChat, OpenSession, SessionIdle, SessionDeleted,
               Unregister, DisconnectSession, CancelDisconnectFails, Arrive
    <3>2. ItemsOf(a, Holding)' = ItemsOf(a, Holding)
          BY <1>2, <2>2, ClusterAssumption
             DEF ItemChange, LosePost, AsyncChat, OpenSession, SessionIdle, SessionDeleted, Unregister,
               DisconnectSession, CancelDisconnectFails, Arrive,
               ItemsOf, ItemTypeOK, ItemInv, Holding, ClusterAssumption
    <3> QED BY <3>1, <3>2, SamePermits
  <2> QED BY <2>1, <2>2
<1>3. ASSUME NEW b \in Agents, SpawnTask(b) PROVE P(a)
  <2>1. Head(queue[b]) \in QueueIds /\ istate[Head(queue[b])] = "queued"
        BY <1>3, HeadIsQueued DEF SpawnTask
  <2>2. ItemsOf(a, Holding)' = ItemsOf(a, Holding) /\ free'[a] = free[a]
        BY <1>3, <2>1 DEF SpawnTask, ItemTypeOK, ItemsOf, Holding
  <2> QED BY <2>2, SamePermits
<1>4. ASSUME NEW b \in Agents, AcquirePermit(b) PROVE P(a)
  <2> DEFINE h == Head(waiters[b])
  <2>0. h \in QueueIds /\ istate[h] = "waiting" /\ isend[h] \in Sends /\ AgentOf[isend[h]] = b
        BY <1>4, HeadIsWaiting DEF AcquirePermit
  <2>1. CASE a # b
    <3>1. ItemsOf(a, Holding)' = ItemsOf(a, Holding) /\ free'[a] = free[a]
          BY <1>4, <2>0, <2>1 DEF AcquirePermit, ItemTypeOK, ItemsOf
    <3> QED BY <3>1, SamePermits
  <2>2. CASE a = b
    <3>1. ItemsOf(a, Holding)' = ItemsOf(a, Holding) \cup {h}
          BY <1>4, <2>0, <2>2 DEF AcquirePermit, ItemTypeOK, ItemsOf, Holding
    <3>2. h \notin ItemsOf(a, Holding)
          BY <2>0 DEF ItemsOf, Holding
    <3>3. Cardinality(ItemsOf(a, Holding) \cup {h}) = Cardinality(ItemsOf(a, Holding)) + 1
          BY <3>2, HoldingFinite, FS_AddElement
    <3>4. free'[a] = free[a] - 1 /\ free[a] \in Nat
          BY <1>4, <2>2 DEF AcquirePermit, ItemTypeOK
    <3>5. Cardinality(ItemsOf(a, Holding)) + free[a] = MaxConcurrent
          BY DEF PermitsAddUp
    <3> QED BY <3>1, <3>3, <3>4, <3>5, HoldingFinite
  <2> QED BY <2>1, <2>2
<1>5. ASSUME NEW b \in Agents, AgentRestart(b) PROVE P(a)
  <2>1. CASE a # b
    <3>1. ItemsOf(a, Holding)' = ItemsOf(a, Holding) /\ free'[a] = free[a]
          BY <1>5, <2>1 DEF AgentRestart, ItemTypeOK, ItemsOf, Holding
    <3> QED BY <3>1, SamePermits
  <2>2. CASE a = b
    <3>1. ItemsOf(a, Holding)' = {}
          BY <1>5, <2>2 DEF AgentRestart, ItemTypeOK, ItemsOf, Holding
    <3>2. free'[a] = MaxConcurrent
          BY <1>5, <2>2 DEF AgentRestart, ItemTypeOK
    <3> QED BY <3>1, <3>2, FS_EmptySet, MaxConcurrentAssumption DEF MaxConcurrentAssumption
  <2> QED BY <2>1, <2>2
<1> QED BY <1>1, <1>2, <1>3, <1>4, <1>5 DEF PodChange

-----------------------------------------------------------------------------
LEMMA ServerInitInv == ItemInit => /\ ItemTypeOK /\ ItemInv /\ ActiveSessionsAreLive
                                   /\ QueueHoldsTheQueued /\ ResponsesAreEarned /\ PermitsAddUp
<1> SUFFICES ASSUME ItemInit
             PROVE  /\ ItemTypeOK /\ ItemInv /\ ActiveSessionsAreLive
                    /\ QueueHoldsTheQueued /\ ResponsesAreEarned /\ PermitsAddUp
    OBVIOUS
<1>1. ItemTypeOK
      BY MaxConcurrentAssumption DEF ItemInit, ItemTypeOK, ItemStates, MaxConcurrentAssumption
<1>2. ItemInv /\ ActiveSessionsAreLive /\ ResponsesAreEarned
      BY DEF ItemInit, ItemInv, ActiveSessionsAreLive, ResponsesAreEarned
<1>3. QueueHoldsTheQueued
      BY DEF ItemInit, QueueHoldsTheQueued, HoldsEach, ItemsOf
<1>4. PermitsAddUp
  <2> SUFFICES ASSUME NEW a \in Agents
               PROVE  Cardinality(ItemsOf(a, Holding)) + free[a] = MaxConcurrent
      BY DEF PermitsAddUp
  <2>1. ItemsOf(a, Holding) = {} /\ free[a] = MaxConcurrent
        BY DEF ItemInit, ItemsOf, Holding
  <2> QED BY <2>1, FS_EmptySet, MaxConcurrentAssumption DEF MaxConcurrentAssumption
<1> QED BY <1>1, <1>2, <1>3, <1>4

(* The number of faults stays within its bound. *)
LEMMA FaultsBounded ==
  ASSUME faults \in 0..MaxFaults, Fault PROVE faults' \in 0..MaxFaults
BY ClusterAssumption DEF Fault, ClusterAssumption

LEMMA ServerFaults ==
  ASSUME faults \in 0..MaxFaults, [ServerNext]_serverVars PROVE faults' \in 0..MaxFaults
<1>1. Fault \/ UNCHANGED faults
      BY DEF ServerNext, serverVars, ServerStep, RunItem, CancelQueueItem, CancelNotFound,
           CancelDisconnects, LosePost, AsyncChat, OpenSession, SessionIdle, SessionDeleted,
           Unregister, RunFails, PostResponse, LoseResponse, CancelDisconnectFails, Arrive,
           SpawnTask, AcquirePermit, AgentRestart
<1> QED BY <1>1, FaultsBounded

(* The server's invariant is inductive: its type, the count of permits,    *)
(* the registration of live sessions, the queue's content and the          *)
(* soundness of responses hold in every state of every instance.           *)
THEOREM ServerInvariant == ServerSpec => []ServerInv
<1>1. ServerInit => ServerInv
      BY ServerInitInv, ClusterAssumption DEF ServerInit, ServerInv, ServerTypeOK, ClusterAssumption
<1>2. ServerInv /\ [ServerNext]_serverVars => ServerInv'
  <2> SUFFICES ASSUME ServerInv, [ServerNext]_serverVars PROVE ServerInv'
      OBVIOUS
  <2>1. PodChange
        BY ServerNextIsPodChange
  <2>2. /\ ItemTypeOK /\ ItemInv /\ ActiveSessionsAreLive /\ QueueHoldsTheQueued
        /\ ResponsesAreEarned /\ PermitsAddUp /\ faults \in 0..MaxFaults
        BY DEF ServerInv, ServerTypeOK
  <2>3. ItemTypeOK' /\ ItemInv' /\ ActiveSessionsAreLive'
        BY <2>1, <2>2, ItemTypeStep, ItemInvStep, ActiveStep
  <2>4. QueueHoldsTheQueued' /\ ResponsesAreEarned' /\ PermitsAddUp'
        BY <2>1, <2>2, QueueStep, ResponsesStep, PermitStep
  <2>5. faults' \in 0..MaxFaults
        BY <2>2, ServerFaults
  <2> QED BY <2>3, <2>4, <2>5 DEF ServerInv, ServerTypeOK
<1> QED BY <1>1, <1>2, PTL DEF ServerSpec

(* Permits are neither lost nor made up: what the semaphore has left and   *)
(* the items between acquire and release are MAX_CONCURRENT_SESSIONS in    *)
(* all, on every way a run can end, after every cancellation and restart.  *)
THEOREM PermitsAlwaysAddUp == ServerSpec => []PermitsAddUp
<1>1. ServerInv => PermitsAddUp
      BY DEF ServerInv
<1> QED BY <1>1, ServerInvariant, PTL

(* So no agent ever runs more than MAX_CONCURRENT_SESSIONS items, and one  *)
(* that waits at the semaphore waits for an item that has yet to end: the  *)
(* semaphore is never used up by nobody.                                   *)
THEOREM AWaiterWaitsForSomeone ==
  ServerSpec => [](\A a \in Agents :
    /\ Cardinality(ItemsOf(a, Holding)) <= MaxConcurrent
    /\ free[a] = 0 => ItemsOf(a, Holding) # {})
<1>1. ServerInv => \A a \in Agents : /\ Cardinality(ItemsOf(a, Holding)) <= MaxConcurrent
                                     /\ free[a] = 0 => ItemsOf(a, Holding) # {}
  <2> SUFFICES ASSUME ServerInv, NEW a \in Agents
               PROVE  /\ Cardinality(ItemsOf(a, Holding)) <= MaxConcurrent
                      /\ free[a] = 0 => ItemsOf(a, Holding) # {}
      OBVIOUS
  <2>1. free[a] \in Nat /\ Cardinality(ItemsOf(a, Holding)) + free[a] = MaxConcurrent
        BY DEF ServerInv, ServerTypeOK, ItemTypeOK, PermitsAddUp
  <2>2. Cardinality(ItemsOf(a, Holding)) <= MaxConcurrent
        BY <2>1, HoldingFinite, MaxConcurrentAssumption DEF MaxConcurrentAssumption
  <2>3. ASSUME free[a] = 0, ItemsOf(a, Holding) = {} PROVE FALSE
        BY <2>1, <2>3, FS_EmptySet, MaxConcurrentAssumption DEF MaxConcurrentAssumption
  <2> QED BY <2>2, <2>3
<1> QED BY <1>1, ServerInvariant, PTL

(* The queue and the semaphore's line hold exactly the accepted items that *)
(* wait for a permit.                                                      *)
THEOREM QueueExact == ServerSpec => []QueueHoldsTheQueued
<1>1. ServerInv => QueueHoldsTheQueued
      BY DEF ServerInv
<1> QED BY <1>1, ServerInvariant, PTL

(* Cancel finds a session only while its run is in progress: none outlives *)
(* the run, the process, or the task that was cancelled.                   *)
THEOREM SessionsAreLive == ServerSpec => []ActiveSessionsAreLive
<1>1. ServerInv => ActiveSessionsAreLive
      BY DEF ServerInv
<1> QED BY <1>1, ServerInvariant, PTL

(* No response is given for an item whose run did not come to an end.      *)
THEOREM EveryResponseIsEarned == ServerSpec => []ResponsesAreEarned
<1>1. ServerInv => ResponsesAreEarned
      BY DEF ServerInv
<1> QED BY <1>1, ServerInvariant, PTL
=============================================================================
