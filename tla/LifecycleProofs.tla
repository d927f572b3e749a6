--------------------------- MODULE LifecycleProofs ---------------------------
(***************************************************************************)
(* RequestPath implements SendLifecycle: every step of the system, seen    *)
(* through the last stored version of each send, is a step of the          *)
(* lifecycle or leaves every status alone.                                 *)
(***************************************************************************)
EXTENDS RequestPathProofs

Status == [s \in Sends |-> StatusOf(s)]

AbsentSend == [exists |-> FALSE, phase |-> "", approved |-> FALSE, queueID |-> NoQueue]

LEMMA StatusTyped ==
  ASSUME SendTypeOK, NEW s \in Sends
  PROVE  /\ StatusOf(s) \in SendObject
         /\ Status[s] = StatusOf(s)
         /\ log[s] # <<>> => StatusOf(s) = Latest(s)
         /\ log[s] = <<>> => StatusOf(s) = AbsentSend
<1>1. AbsentSend \in SendObject
      BY DEF AbsentSend, SendObject, Phases
<1>2. log[s] # <<>> => Latest(s) \in SendObject
      BY LatestTyped
<1> QED BY <1>1, <1>2, Zenon DEF StatusOf, Status, AbsentSend

(* A stored send is seen as its last version. *)
LEMMA StoredStatus ==
  ASSUME SendTypeOK, NEW s \in Sends, Stored(s)
  PROVE  Status[s] = Latest(s) /\ Status[s].exists /\ Status[s] \in SendObject
BY StatusTyped DEF Stored

(* A version appended to a log becomes the status of its send. *)
LEMMA AppendedStatus ==
  ASSUME SendTypeOK, NEW s \in Sends, NEW o \in SendObject, Appended(s, o)
  PROVE  Status' = [Status EXCEPT ![s] = o]
<1>0. log \in [Sends -> Seq(SendObject)]
      BY DEF SendTypeOK
<1>1. StatusOf(s)' = o
  <2>1. log[s] \in Seq(SendObject) /\ log'[s] = Append(log[s], o)
        BY <1>0 DEF Appended
  <2>2. Len(log'[s]) = Len(log[s]) + 1 /\ log'[s][Len(log[s]) + 1] = o /\ Len(log[s]) \in Nat
        BY <2>1, AppendFacts
  <2>3. log'[s] # <<>>
    <3>1. Len(log'[s]) # 0
          BY <2>2
    <3> QED BY <3>1
  <2>4. Latest(s)' = o
        BY <2>2 DEF Latest
  <2> QED BY <2>3, <2>4, Zenon DEF StatusOf
<1>2. ASSUME NEW t \in Sends, t # s PROVE StatusOf(t)' = StatusOf(t)
  <2>1. log'[t] = log[t]
        BY <1>0, <1>2 DEF Appended
  <2> QED BY <2>1, Zenon DEF StatusOf, Latest
<1> QED BY <1>1, <1>2, Zenon DEF Status

LEMMA UnchangedStatus ==
  ASSUME log' = log PROVE Status' = Status
BY Zenon DEF Status, StatusOf, Latest

-----------------------------------------------------------------------------
(* The users' steps. *)
LEMMA CreateImplements ==
  ASSUME IInv, NEW s \in Sends, CreateSend(s)
  PROVE  Lifecycle!Create(s)
<1>0. SendTypeOK
      BY DEF IInv, TypeOK
<1>1. PICK b \in BOOLEAN : log' = [log EXCEPT ![s] =
        <<[exists |-> TRUE, phase |-> "", approved |-> b, queueID |-> NoQueue]>>]
      BY DEF CreateSend
<1> DEFINE o == [exists |-> TRUE, phase |-> "", approved |-> b, queueID |-> NoQueue]
<1>2. log[s] = <<>>
      BY Zenon DEF CreateSend
<1>3. Append(log[s], o) = <<o>>
      BY <1>2
<1>4. o \in SendObject
      BY NewObjectTyped
<1>5. Appended(s, o)
      BY <1>1, <1>3 DEF Appended
<1>6. Status' = [Status EXCEPT ![s] = o]
      BY <1>0, <1>4, <1>5, AppendedStatus
<1>7. Status[s] = AbsentSend
      BY <1>0, <1>2, StatusTyped
<1> QED BY <1>6, <1>7 DEF Lifecycle!Create, Lifecycle!Absent, Lifecycle!New, Status, AbsentSend

LEMMA EditImplements ==
  ASSUME IInv, NEW s \in Sends, EditSend(s)
  PROVE  Lifecycle!Edit(s)
<1>0. SendTypeOK
      BY DEF IInv, TypeOK
<1>1. PICK b \in BOOLEAN : log' = [log EXCEPT ![s] = Append(@, [Latest(s) EXCEPT !.approved = b])]
      BY DEF EditSend
<1>2. Status[s] = Latest(s) /\ Status[s].exists /\ Status[s] \in SendObject
      BY <1>0, StoredStatus DEF EditSend
<1>3. [Latest(s) EXCEPT !.approved = b] \in SendObject
      BY <1>2, ObjectTyped
<1>4. Appended(s, [Latest(s) EXCEPT !.approved = b])
      BY <1>1 DEF Appended
<1>5. Status' = [Status EXCEPT ![s] = [Latest(s) EXCEPT !.approved = b]]
      BY <1>0, <1>3, <1>4, AppendedStatus
<1> QED BY <1>2, <1>5 DEF Lifecycle!Edit, Status

LEMMA DeleteImplements ==
  ASSUME IInv, NEW s \in Sends, DeleteSend(s)
  PROVE  Lifecycle!Delete(s)
<1>0. SendTypeOK
      BY DEF IInv, TypeOK
<1>1. log' = [log EXCEPT ![s] = Append(@, [Latest(s) EXCEPT !.exists = FALSE])]
      BY DEF DeleteSend
<1>2. Status[s] = Latest(s) /\ Status[s].exists /\ Status[s] \in SendObject
      BY <1>0, StoredStatus DEF DeleteSend
<1>3. [Latest(s) EXCEPT !.exists = FALSE] \in SendObject
      BY <1>2, ObjectTyped
<1>4. Appended(s, [Latest(s) EXCEPT !.exists = FALSE])
      BY <1>1 DEF Appended
<1>5. Status' = [Status EXCEPT ![s] = [Latest(s) EXCEPT !.exists = FALSE]]
      BY <1>0, <1>3, <1>4, AppendedStatus
<1> QED BY <1>2, <1>5 DEF Lifecycle!Delete, Status

-----------------------------------------------------------------------------
(* The worker's update: it pauses, rejects or dispatches the send it read. *)
LEMMA WriteImplements ==
  ASSUME IInv, NEW s \in Sends, job.send = s, job.pc = "write", Current,
         log' = [log EXCEPT ![s] = Append(@, Updated)]
  PROVE  Lifecycle!Pause(s) \/ Lifecycle!Reject(s) \/ Lifecycle!Dispatch(s)
<1>0. SendTypeOK /\ SnapshotInv /\ JobInv /\ DoneHasItsOwnItem
      BY DEF IInv, TypeOK
<1>1. /\ Snapshot.exists /\ Snapshot.phase \in {"", "PendingApproval"}
      /\ Snapshot.phase = "PendingApproval" => Snapshot.approved
      /\ job.ver \in 1..Len(log[s])
      BY <1>0 DEF SnapshotInv
<1>2. /\ job.phase \in TerminalSend \cup {"PendingApproval"}
      /\ (job.phase = "Done") <=> (job.q # NoQueue)
      /\ job.q # NoQueue => isend[job.q] = s
      /\ job.phase = "PendingApproval" => ~Snapshot.approved
      /\ job.q \in QueueIds \cup {NoQueue} /\ job.phase \in Phases
      BY <1>0 DEF JobInv, SendTypeOK, Job
<1>3. Snapshot = Latest(s) /\ Len(log[s]) # 0
  <2>1. Len(log[s]) \in Nat
        BY <1>0 DEF SendTypeOK
  <2>2. job.ver = Len(log[s])
        BY DEF Current
  <2>3. Snapshot = Latest(s)
        BY <2>2 DEF Snapshot, Latest
  <2>4. Len(log[s]) # 0
    <3>1. job.ver \in 1..Len(log[s])
          BY <1>1
    <3> QED BY <2>1, <3>1
  <2> QED BY <2>3, <2>4
<1>4. log[s] # <<>>
      BY <1>3
<1>5. Status[s] = Snapshot /\ Snapshot \in SendObject
      BY <1>0, <1>1, <1>3, <1>4, StatusTyped
<1>6. Updated \in SendObject
      BY <1>0, UpdatedTyped
<1>7. Status' = [Status EXCEPT ![s] = Updated]
  <2>1. Appended(s, Updated)
        BY DEF Appended
  <2> QED BY <1>0, <1>1, <1>6, <2>1, AppendedStatus
<1>8. job.q = NoQueue => Updated = [Status[s] EXCEPT !.phase = job.phase]
      BY <1>5 DEF Updated, SendObject
<1>9. job.q # NoQueue => Updated = [Status[s] EXCEPT !.phase = job.phase, !.queueID = job.q]
      BY <1>5 DEF Updated, SendObject
<1>10. CASE job.phase = "PendingApproval"
      BY <1>1, <1>2, <1>5, <1>7, <1>8, <1>10 DEF Lifecycle!Pause, Status
<1>11. CASE job.phase \in {"Error", "Denied"}
      BY <1>1, <1>2, <1>5, <1>7, <1>8, <1>11 DEF Lifecycle!Reject, Lifecycle!Open, Status
<1>12. CASE job.phase = "Done"
  <2>1. job.q \in QueueIds
        BY <1>2, <1>12
  <2>2. ASSUME NEW t \in Sends, Status[t].queueID = job.q PROVE FALSE
    <3>1. job.q # NoQueue
          BY <1>2, <1>12
    <3>2. log[t] # <<>> /\ Status[t] = Latest(t)
      <4>1. AbsentSend.queueID = NoQueue
            BY DEF AbsentSend
      <4> QED BY <1>0, <2>2, <3>1, <4>1, StatusTyped
    <3>3. Latest(t) = log[t][Len(log[t])] /\ Len(log[t]) \in 1..Len(log[t])
          BY <1>0, <3>2, LatestTyped DEF Latest
    <3>4. Latest(t).phase = "Done" /\ isend[job.q] = t
          BY <1>0, <2>2, <3>1, <3>2, <3>3 DEF DoneHasItsOwnItem
    <3> QED BY <1>1, <1>2, <1>3, <3>1, <3>4
  <2>3. Lifecycle!Open(s)
        BY <1>1, <1>5 DEF Lifecycle!Open, Status
  <2>4. Status' = [Status EXCEPT ![s] = [Status[s] EXCEPT !.phase = "Done", !.queueID = job.q]]
        BY <1>2, <1>7, <1>9, <1>12
  <2> QED BY <2>1, <2>2, <2>3, <2>4 DEF Lifecycle!Dispatch, Status
<1> QED BY <1>2, <1>10, <1>11, <1>12 DEF TerminalSend

-----------------------------------------------------------------------------
LEMMA InitImplements == Init => Lifecycle!Init
<1> SUFFICES ASSUME Init PROVE Lifecycle!Init
    OBVIOUS
<1>1. \A s \in Sends : log[s] = <<>>
      BY DEF Init, SendInit
<1>2. \A s \in Sends : StatusOf(s) = AbsentSend
      BY <1>1, Zenon DEF StatusOf, AbsentSend
<1> QED BY <1>2 DEF Lifecycle!Init, Lifecycle!Absent, AbsentSend

LEMMA StepImplements == IInv /\ [Next]_vars => [Lifecycle!Next]_Status
<1> SUFFICES ASSUME IInv, [Next]_vars PROVE Lifecycle!Next \/ Status' = Status
    OBVIOUS
<1>1. SendChange /\ SnapshotInv
      BY NextIsSendChange DEF IInv
<1>2. ASSUME NEW s \in Sends, CreateSend(s) \/ EditSend(s) \/ DeleteSend(s) PROVE Lifecycle!Next
      BY <1>2, CreateImplements, EditImplements, DeleteImplements DEF Lifecycle!Next
<1>3. CASE WriteStatus /\ log' # log
  <2>1. /\ job.pc = "write" /\ Current
        /\ log' = [log EXCEPT ![job.send] = Append(@, Updated)]
        BY <1>3 DEF WriteStatus, StatusUpdate, StatusConflict, StatusUpdateFails
  <2>2. job.send \in Sends
        BY <1>1, <2>1 DEF SnapshotInv
  <2>3. PICK s \in Sends : s = job.send
        BY <2>2
  <2> QED BY <2>1, <2>3, WriteImplements DEF Lifecycle!Next
<1>4. CASE log' = log
      BY <1>4, UnchangedStatus
<1>5. \/ log' = log \/ WriteStatus
      \/ \E s \in Sends : CreateSend(s) \/ EditSend(s) \/ DeleteSend(s)
      BY <1>1 DEF SendChange, sendVars, DeliverSend, ResyncSend, FireTimer, SkipSend, StartSend, Evaluate,
         AgentMissing, AgentNotRunning, EvaluationFails, DenySend, PauseSend, SecretMissing,
         PassPolicies, PostAsyncChat, CallAsyncChat, AsyncChatReply, ReplyReceived, AsyncChatFails,
         NoReply, RestartSends
<1> QED BY <1>2, <1>3, <1>4, <1>5

(* The stored statuses go through the abstract lifecycle: decided once,    *)
(* paused only while unapproved, Done only with a queue id nobody has.     *)
THEOREM RefinesLifecycle == Spec => ImplementsLifecycle
<1>1. Init => Lifecycle!Init
      BY InitImplements
<1>2. IInv /\ [Next]_vars => [Lifecycle!Next]_Status
      BY StepImplements
<1>3. Spec => []IInv
      BY PathInvariant
<1> QED BY <1>1, <1>2, <1>3, PTL DEF Spec, ImplementsLifecycle, Lifecycle!Spec, Status
=============================================================================
