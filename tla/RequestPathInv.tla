--------------------------- MODULE RequestPathInv ---------------------------
(***************************************************************************)
(* The inductive invariant behind the safety properties of RequestPath, in *)
(* named parts.                                                            *)
(***************************************************************************)
EXTENDS RequestPath

(* The cache never runs ahead of the API server, and only keys that have   *)
(* been created are in the work queue.                                     *)
CacheInv ==
  \A s \in Sends : /\ seen[s] <= Len(log[s])
                   /\ s \in sendQueue \cup sendTimers => log[s] # <<>>

(* A reconcile under way read a stored version that left something to do. *)
SnapshotInv ==
  job.pc # "idle" =>
    /\ job.send \in Sends
    /\ job.ver \in 1..Len(log[job.send])
    /\ Snapshot.exists
    /\ Snapshot.phase \in {"", "PendingApproval"}
    /\ Snapshot.phase = "PendingApproval" => Snapshot.approved

(* What the worker carries from the call to the update. *)
JobInv ==
  /\ job.pc \in {"evaluate", "post"} => job.q = NoQueue
  /\ job.pc = "reply" => /\ job.q \in QueueIds
                         /\ isend[job.q] = job.send
                         /\ istate[job.q] # "none"
  /\ job.pc = "write" =>
       /\ job.phase \in TerminalSend \cup {"PendingApproval"}
       /\ (job.phase = "Done") <=> (job.q # NoQueue)
       /\ job.q # NoQueue => isend[job.q] = job.send /\ Accepted(job.q)
       /\ job.phase = "PendingApproval" => ~Snapshot.approved

(* The phases the controller ever stores. *)
StoredPhasesInv ==
  \A s \in Sends : \A i \in 1..Len(log[s]) :
    log[s][i].phase \in TerminalSend \cup {"", "PendingApproval"}

InWork(s) == s \in sendQueue \/ s \in sendTimers \/ (job.pc # "idle" /\ job.send = s)

(* The key of a send nobody disturbed is in one place at a time, and only  *)
(* while the cache holds the last version.                                 *)
OnePlaceInv ==
  \A s \in Sends \ disturbed :
    /\ Len(log[s]) <= seen[s] + 1
    /\ InWork(s) => seen[s] = Len(log[s])
    /\ ~(s \in sendQueue /\ s \in sendTimers)
    /\ job.pc # "idle" /\ job.send = s =>
         s \notin sendQueue /\ s \notin sendTimers /\ job.ver = Len(log[s])

(* Once such a send was posted, its key is past the POST or the outcome is *)
(* stored.                                                                 *)
PostedInv ==
  \A s \in Sends \ disturbed : Items(s) # {} =>
    \/ /\ job.send = s
       /\ \/ job.pc = "reply"
          \/ job.pc = "write" /\ job.phase \in TerminalSend
    \/ log[s] # <<>> /\ Latest(s).phase \in TerminalSend

(* A cancel the controller deals with exists, and the queue id it took     *)
(* from the cache is one stored for its send.                              *)
CancelInv ==
  /\ \A c \in Cancels : c \in cancelQueue \cup cancelTimers \/ cseen[c] # "absent" => cphase[c] # "absent"
  /\ cjob.pc # "idle" => cjob.cancel \in Cancels /\ cphase[cjob.cancel] # "absent"
  /\ cjob.pc = "write" => cjob.phase \in CancelSettled
  /\ cjob.pc = "call" =>
       /\ cjob.q \in QueueIds
       /\ \E i \in 1..Len(log[SendOf[cjob.cancel]]) : log[SendOf[cjob.cancel]][i].queueID = cjob.q

(* The inductive invariant. *)
IInv ==
  /\ TypeOK
  /\ CacheInv
  /\ SnapshotInv
  /\ JobInv
  /\ StoredPhasesInv
  /\ ItemInv
  /\ QueueHoldsTheQueued
  /\ OutcomeIsFinal
  /\ DoneHasItsOwnItem
  /\ OnePlaceInv
  /\ PostedInv
  /\ UndisturbedDispatchedOnce
  /\ CancelInv
  /\ CancelHitsItsSend
=============================================================================
