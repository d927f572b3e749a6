------------------------- MODULE MCBackgroundTasks -------------------------
(* Instances of BackgroundTasks for TLC. *)
EXTENDS BackgroundTasks, TLC

CONSTANTS t1, t2

MCTasks == {t1, t2}

(* t2's timeout leaves no round at all. *)
MCRounds == (t1 :> 2) @@ (t2 :> 0)

(* t2 was registered without a session id.                                *)
NoSession == {t2} \X Verdicts
=============================================================================
