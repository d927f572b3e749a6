------------------------------ MODULE Cluster ------------------------------
(***************************************************************************)
(* What the parts of the request path share: the names of the objects, the *)
(* phases the controllers write, and the budget of faults.                 *)
(*                                                                         *)
(* A KubeCopilotSend carries one message for one agent; an agent pod       *)
(* answers it with a queue id.  Queue ids are uuids: here the members of a *)
(* set of positive numbers, each given out once.                           *)
(***************************************************************************)
EXTENDS Integers, Sequences, FiniteSets

CONSTANTS
  Sends,          \* names of KubeCopilotSend objects
  Agents,         \* names of KubeCopilotAgent objects
  AgentOf,        \* spec.agentRef of each send
  QueueIds,       \* the uuids async_chat may hand out
  NoSend,         \* no send
  MaxFaults       \* bound: crashes, lost or failed calls per behaviour

ASSUME ClusterAssumption ==
  /\ NoSend \notin Sends
  /\ AgentOf \in [Sends -> Agents]
  /\ QueueIds \subseteq Nat \ {0}
  /\ IsFiniteSet(QueueIds)
  /\ MaxFaults \in Nat

VARIABLE faults   \* faults that have happened so far

NoQueue == 0      \* status.queueID = ""

(* internal/controller/phases.go *)
Phases == {"", "Running", "Done", "Error", "Cancelled", "Denied", "PendingApproval"}

TerminalSend == {"Done", "Error", "Denied"}

Fault == faults < MaxFaults /\ faults' = faults + 1
=============================================================================
