-------------------------- MODULE MCSessionLifecycle --------------------------
(***************************************************************************)
(* Small instances of SessionLifecycle.                                    *)
(***************************************************************************)
EXTENDS SessionLifecycle, TLC

\* Workers and actions are interchangeable in Init, Next and the invariants.
Symmetry == Permutations(Workers) \cup Permutations(Actions)

\* No step but Rollback reads more of the transcript than its last message, so runs
\* without rollbacks whose properties do not mention the transcript need not tell
\* older messages apart.
LastMessageView ==
    <<status, action, IF transcript = <<>> THEN <<>> ELSE transcript[Len(transcript)],
      turn, probe, pc, job, up, crashes, executed>>
=============================================================================
