-------------------------- MODULE MCRequestTranscript --------------------------
(* Short and long messages, and bounds that let every limit be reached. *)
EXTENDS RequestTranscript
=============================================================================
