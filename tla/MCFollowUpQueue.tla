--------------------------- MODULE MCFollowUpQueue ---------------------------
(* Instance of FollowUpQueue for TLC. *)
EXTENDS FollowUpQueue
=============================================================================
