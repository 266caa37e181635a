---------------------------- MODULE SessionContract ----------------------------
(***************************************************************************)
(* What a client of a session may rely on: the six states of the protocol  *)
(* and the events that move a session between them.  The state `none'      *)
(* stands for a session whose row does not exist yet.                      *)
(***************************************************************************)

VARIABLE status

Init == status = "none"

Create == status = "none" /\ status' = "created"

\* A user message: only for a session that is at rest.
Begin == status \in {"created", "done", "failed", "cancelled"} /\ status' = "running"

\* A turn ends with an answer, with an error, or with a question to the user.
End == status = "running" /\ status' \in {"done", "failed", "need_user"}

\* The user answers the question and the turn goes on.
Answer == status = "need_user" /\ status' = "running"

\* Only an active session can be cancelled.
Cancel == status \in {"running", "need_user"} /\ status' = "cancelled"

Next == Create \/ Begin \/ End \/ Answer \/ Cancel

Spec == Init /\ [][Next]_status
=============================================================================
