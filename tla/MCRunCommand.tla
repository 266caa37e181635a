---------------------------- MODULE MCRunCommand ----------------------------
(* Instance of RunCommand for TLC. *)
EXTENDS RunCommand
=============================================================================
