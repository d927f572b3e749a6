------------------------- MODULE MessageController -------------------------
(***************************************************************************)
(* KubeCopilotMessageReconciler (kubecopilotmessage_controller.go): a      *)
(* message is posted to the agent's /chat, which answers when the agent    *)
(* has.  The one worker waits for the answer, for at most 120 seconds; the *)
(* pod (chat, server.py) waits for the session without limit.              *)
(***************************************************************************)
EXTENDS ControllerRuntime

ASSUME MessageAssumption == \A m \in Messages : \A spec \in SpecsOf[m] : spec.agentRef \in Agents

VARIABLES
  chats,            \* history: how often the pod was handed each message: 0, 1, 2 (more)
  reply             \* what has come back to the worker

messageVars == <<chats, reply>>
Replies == {"none", "response", "failure"}

MessageTypeOK == chats \in [Messages -> 0..2] /\ reply \in Replies
MessageInit == chats = [m \in Messages |-> 0] /\ reply = "none"

message == Mine("message")
MessageAt(step) == work["message"].step = step
(* Mutant: only Done is terminal. *)
TerminalMessageDone(o) == o.phase = "Done"
TerminalMessage(o) == o.phase \in {"Done", "Error"}

StartMessage(m) ==
  /\ m \in Messages
  /\ Begin("message", m, IF known[m].there /\ ~TerminalMessage(known[m]) THEN "begin" ELSE "idle")
  /\ UNCHANGED messageVars

(* Any failure to get the agent counts as its absence. *)
CheckAgent ==
  /\ MessageAt("begin")
  /\ LET agent == known[message.spec.agentRef] IN
     \/ ~agent.there /\ UpdateAndReturn("message", WithPhase(message, "Error"))
     \/ agent.there /\ agent.phase # "Running" /\ NoWrite /\ Requeue("message")
     \/ agent.there /\ agent.phase = "Running" /\ NoWrite /\ GoOn("message", "call", message)
  /\ UNCHANGED messageVars

AgentUnreadable ==
  /\ MessageAt("begin")
  /\ Spend(1) /\ disturbed' = disturbed \cup {Me("message")}
  /\ GoOn("message", "error", message)
  /\ UNCHANGED <<obj, known, plan, queue, messageVars>>

(* POST /chat reaches the pod. *)
CallChat ==
  /\ MessageAt("call")
  /\ NoWrite /\ GoOn("message", "wait", message)
  /\ chats' = [chats EXCEPT ![Me("message")] = IF @ = 2 THEN 2 ELSE @ + 1] /\ reply' = "none"

(* No pod behind the service, or it cannot be reached. *)
CallChatFails ==
  /\ MessageAt("call")
  /\ Spend(1) /\ disturbed' = disturbed \cup {Me("message")}
  /\ GoOn("message", "error", message)
  /\ UNCHANGED <<obj, known, plan, queue, messageVars>>

(* The pod answers: the session was idle, or the run raised.  It need not. *)
ChatAnswers ==
  /\ MessageAt("wait") /\ reply = "none"
  /\ reply' \in {"response", "failure"}
  /\ UNCHANGED <<runtimeVars, chats>>

ReadReply ==
  /\ MessageAt("wait") /\ reply # "none"
  /\ NoWrite /\ GoOn("message", IF reply = "response" THEN "done" ELSE "error", message)
  /\ reply' = "none" /\ UNCHANGED chats

(* Mutant: a client without a timeout. *)
ChatTimesOutNever == FALSE /\ UNCHANGED <<runtimeVars, messageVars>>
(* Mutant: after a timeout the message is posted again. *)
ChatTimesOutRetries ==
  /\ MessageAt("wait") /\ reply = "none"
  /\ NoWrite /\ Requeue("message")
  /\ UNCHANGED messageVars
(* httpClient.Timeout. *)
ChatTimesOut ==
  /\ MessageAt("wait") /\ reply = "none"
  /\ NoWrite /\ GoOn("message", "error", message)
  /\ UNCHANGED messageVars

WriteMessage ==
  /\ MessageAt("done") \/ MessageAt("error")
  /\ UpdateAndReturn("message", WithPhase(message, IF MessageAt("done") THEN "Done" ELSE "Error"))
  /\ UNCHANGED messageVars

MessageCallFails == (MessageAt("done") \/ MessageAt("error")) /\ CallFails("message") /\ UNCHANGED messageVars

ReconcileMessage ==
  \/ CheckAgent \/ AgentUnreadable \/ CallChat \/ CallChatFails
  \/ ReadReply \/ ChatTimesOut \/ WriteMessage \/ MessageCallFails
MessageStep == (\E m \in Messages : StartMessage(m)) \/ ReconcileMessage \/ ChatAnswers
=============================================================================
