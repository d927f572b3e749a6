--------------------------- MODULE SendLifecycle ---------------------------
(***************************************************************************)
(* What a KubeCopilotSend promises to whoever watches its status, with no  *)
(* caches, versions or retries: each phase change happens in one step and  *)
(* under its condition.                                                    *)
(*                                                                         *)
(*     "" -> PendingApproval            while not approved                 *)
(*     "" -> Done, Error or Denied                                         *)
(*     PendingApproval -> Done, Error or Denied    while approved          *)
(*                                                                         *)
(* Done comes with a queue id that no other send has.                      *)
(***************************************************************************)
CONSTANTS Sends, QueueIds, NoQueue

VARIABLE status     \* status[s]: the stored object of send s

Absent == [exists |-> FALSE, phase |-> "", approved |-> FALSE, queueID |-> NoQueue]

New(b) == [exists |-> TRUE, phase |-> "", approved |-> b, queueID |-> NoQueue]

Init == status = [s \in Sends |-> Absent]

Create(s) ==
  /\ status[s] = Absent
  /\ \E b \in BOOLEAN : status' = [status EXCEPT ![s] = New(b)]

Edit(s) ==
  /\ status[s].exists
  /\ \E b \in BOOLEAN : status' = [status EXCEPT ![s] = [@ EXCEPT !.approved = b]]

Delete(s) ==
  /\ status[s].exists
  /\ status' = [status EXCEPT ![s] = [@ EXCEPT !.exists = FALSE]]

Pause(s) ==
  /\ status[s].exists
  /\ status[s].phase = ""
  /\ ~status[s].approved
  /\ status' = [status EXCEPT ![s] = [@ EXCEPT !.phase = "PendingApproval"]]

(* The send may be decided now. *)
Open(s) ==
  /\ status[s].exists
  /\ status[s].phase \in {"", "PendingApproval"}
  /\ status[s].phase = "PendingApproval" => status[s].approved

Reject(s) ==
  /\ Open(s)
  /\ \E phase \in {"Error", "Denied"} :
       status' = [status EXCEPT ![s] = [@ EXCEPT !.phase = phase]]

Dispatch(s) ==
  /\ Open(s)
  /\ \E q \in QueueIds :
       /\ \A t \in Sends : status[t].queueID # q
       /\ status' = [status EXCEPT ![s] = [@ EXCEPT !.phase = "Done", !.queueID = q]]

Next == \E s \in Sends :
  Create(s) \/ Edit(s) \/ Delete(s) \/ Pause(s) \/ Reject(s) \/ Dispatch(s)

Spec == Init /\ [][Next]_status
=============================================================================
