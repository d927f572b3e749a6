----------------------------- MODULE ToolServer -----------------------------
(***************************************************************************)
(* KubeCopilotToolServerReconciler (kubecopilottoolserver_controller.go):  *)
(* a tool server is marked Available, whatever it is.                      *)
(***************************************************************************)
EXTENDS ControllerRuntime

toolServer == Mine("toolserver")

StartToolServer(x) ==
  /\ x \in ToolServers
  /\ Begin("toolserver", x, IF known[x].there /\ known[x].phase # "Available" THEN "begin" ELSE "idle")

MarkAvailable ==
  /\ work["toolserver"].step = "begin"
  /\ UpdateAndReturn("toolserver", WithPhase(toolServer, "Available"))

ToolServerCallFails == CallFails("toolserver")

ReconcileToolServer == MarkAvailable \/ ToolServerCallFails
ToolServerStep == (\E x \in ToolServers : StartToolServer(x)) \/ ReconcileToolServer
=============================================================================
