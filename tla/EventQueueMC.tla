---------------------------- MODULE EventQueueMC ----------------------------
(***************************************************************************)
(* Instances of EventQueue for model checking.                             *)
(***************************************************************************)
EXTENDS EventQueue

\* Two events of different priority in level 0, one in level 1.
TwoLevelEvents   == {"urgent", "plain", "far"}
TwoLevelOf       == "urgent" :> 0 @@ "plain" :> 0 @@ "far" :> 1
TwoLevelPriority == "urgent" :> 1 @@ "plain" :> 0 @@ "far" :> 0
=============================================================================
