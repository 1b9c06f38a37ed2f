---------------------------- MODULE SideQueuesMC ----------------------------
(* The instance of SideQueues for TLC: two batches of one row each, and a  *)
(* third row without a theater.                                            *)
EXTENDS SideQueues

OneEach == "b1" :> {1} @@ "b2" :> {2}
=============================================================================
