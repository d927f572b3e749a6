----------------------------- MODULE GateProofs -----------------------------
(***************************************************************************)
(* The policy gate: a send that the cached policies stop all along never   *)
(* reaches the agent.                                                      *)
(***************************************************************************)
EXTENDS RequestPathProofs

(* The send has no item and is past no evaluation that let it go. *)
HeldBack(s) == /\ Items(s) = {}
               /\ ~(job.send = s /\ job.pc \in {"post", "reply"})

(* An evaluation of the send would not let it go now. *)
Stopped(s) == job.pc = "evaluate" /\ job.send = s => ~MayDispatch

LEMMA HeldBackInit ==
  ASSUME Init, NEW s \in Sends
  PROVE  HeldBack(s)
<1>1. job.pc = "idle"
      BY NoJobTyped DEF Init, SendInit
<1>2. \A q \in QueueIds : isend[q] = NoSend
      BY DEF Init, ItemInit
<1> QED BY <1>1, <1>2, ClusterAssumption DEF HeldBack, Items, ClusterAssumption

LEMMA HeldBackStep ==
  ASSUME IInv, [Next]_vars, NEW s \in Sends, HeldBack(s), Stopped(s)
  PROVE  HeldBack(s)'
<1>0. SendChange /\ JobMoves /\ isend \in [QueueIds -> Sends \cup {NoSend}]
      BY NextIsSendChange, JobStep DEF IInv, TypeOK, ItemTypeOK
<1>1. CASE PostAsyncChat
  <2>1. PICK q \in QueueIds :
           /\ job.pc = "post" /\ job.send \in Sends /\ UNCHANGED <<log, disturbed>>
           /\ job'.pc = "reply" /\ job'.send = job.send
           /\ istate[q] = "none" /\ isend[q] = NoSend
           /\ isend' = [isend EXCEPT ![q] = job.send]
        BY <1>1, PostFacts
  <2>2. job.send # s
        BY <2>1 DEF HeldBack
  <2>3. Items(s)' = {}
        BY <1>0, <2>1, <2>2 DEF HeldBack, Items
  <2> QED BY <2>1, <2>2, <2>3 DEF HeldBack
<1>2. CASE isend' = isend
  <2>1. Items(s)' = {}
        BY <1>2 DEF HeldBack, Items
  <2>2. ASSUME job'.send = s, job'.pc \in {"post", "reply"} PROVE FALSE
    <3>1. job' # job
          BY <2>2 DEF HeldBack
    <3>2. job.send = s /\ ((job.pc = "evaluate" /\ job'.pc = "post") \/ job.pc = "post")
          BY <1>0, <2>2, <3>1 DEF JobMoves
    <3>3. job.pc = "evaluate" /\ job'.pc = "post"
          BY <3>2 DEF HeldBack
    <3>4. job \in Job
          BY DEF IInv, TypeOK, SendTypeOK
    <3>5. PassPolicies
      <4>1. Evaluate
            BY <1>0, <3>1, <3>3, NoJobTyped
               DEF SendChange, sendVars, CreateSend, EditSend, DeleteSend, DeliverSend,
               ResyncSend, FireTimer, SkipSend, StartSend, PostAsyncChat, CallAsyncChat,
               AsyncChatReply, ReplyReceived, AsyncChatFails, NoReply, WriteStatus, StatusUpdate,
               StatusConflict, StatusUpdateFails, RestartSends, Retry
      <4>2. ASSUME NEW ph \in {"Error", "Denied", "PendingApproval"}, Decide(ph, NoQueue)
            PROVE  FALSE
            BY <3>3, <3>4, <4>2, DecideFacts DEF Phases
      <4> QED BY <3>3, <4>1, <4>2, NoJobTyped
              DEF Evaluate, AgentMissing, AgentNotRunning, EvaluationFails, DenySend, PauseSend,
              SecretMissing, Retry
    <3> QED BY <3>2, <3>3, <3>5 DEF PassPolicies, Stopped
  <2> QED BY <2>1, <2>2 DEF HeldBack
<1> QED BY <1>1, <1>2, OnlyPostsAddItems

(* A deny rule stops the evaluation whatever is approved. *)
LEMMA DeniedIsStopped ==
  ASSUME IInv, NEW s \in Sends, log[s] # <<>> => DeniedNow(s)
  PROVE  Stopped(s)
<1> SUFFICES ASSUME job.pc = "evaluate", job.send = s PROVE ~MayDispatch
    BY DEF Stopped
<1>1. job.ver \in 1..Len(log[s])
      BY DEF IInv, SnapshotInv
<1>2. Len(log[s]) # 0
      BY <1>1 DEF IInv, TypeOK, SendTypeOK
<1>3. log[s] # <<>>
      BY <1>2
<1>4. Verdict = "deny"
      BY <1>3 DEF DeniedNow, Verdict, MyAgent
<1> QED BY <1>4 DEF MayDispatch

(* An approval rule stops the evaluation while no version is approved. *)
LEMMA UnapprovedIsStopped ==
  ASSUME IInv, NEW s \in Sends, log[s] # <<>> => NeedsApproval(s)
  PROVE  Stopped(s)
<1> SUFFICES ASSUME job.pc = "evaluate", job.send = s PROVE ~MayDispatch
    BY DEF Stopped
<1>1. job.ver \in 1..Len(log[s])
      BY DEF IInv, SnapshotInv
<1>2. Len(log[s]) # 0
      BY <1>1 DEF IInv, TypeOK, SendTypeOK
<1>3. log[s] # <<>>
      BY <1>2
<1>4. Verdict = "require-approval"
      BY <1>3 DEF NeedsApproval, Verdict, MyAgent
<1>5. ~Snapshot.approved
      BY <1>1, <1>3 DEF NeedsApproval, Snapshot
<1> QED BY <1>4, <1>5 DEF MayDispatch

-----------------------------------------------------------------------------
(* A send denied by the cached policies all along never gets an item. *)
THEOREM DenyHolds == Spec => StandingDeny
<1> SUFFICES ASSUME NEW s \in Sends
             PROVE  Spec => ([](log[s] # <<>> => DeniedNow(s)) => [](Items(s) = {}))
    BY DEF StandingDeny
<1>1. Init => HeldBack(s)
      BY HeldBackInit
<1>2. IInv /\ [Next]_vars /\ HeldBack(s) /\ (log[s] # <<>> => DeniedNow(s)) => HeldBack(s)'
      BY HeldBackStep, DeniedIsStopped
<1>3. HeldBack(s) => Items(s) = {}
      BY DEF HeldBack
<1>4. Spec => []IInv
      BY PathInvariant
<1> QED BY <1>1, <1>2, <1>3, <1>4, PTL DEF Spec

(* A send that needs approval all along and never gets it never gets an    *)
(* item.                                                                   *)
THEOREM PauseHolds == Spec => StandingPause
<1> SUFFICES ASSUME NEW s \in Sends
             PROVE  Spec => ([](log[s] # <<>> => NeedsApproval(s)) => [](Items(s) = {}))
    BY DEF StandingPause
<1>1. Init => HeldBack(s)
      BY HeldBackInit
<1>2. IInv /\ [Next]_vars /\ HeldBack(s) /\ (log[s] # <<>> => NeedsApproval(s)) => HeldBack(s)'
      BY HeldBackStep, UnapprovedIsStopped
<1>3. HeldBack(s) => Items(s) = {}
      BY DEF HeldBack
<1>4. Spec => []IInv
      BY PathInvariant
<1> QED BY <1>1, <1>2, <1>3, <1>4, PTL DEF Spec
=============================================================================
