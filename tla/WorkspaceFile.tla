----------------------------- MODULE WorkspaceFile -----------------------------
(***************************************************************************)
(* What patching promises about a file of the workspace.  A change is      *)
(* armed when the file holds the text the change starts from, and is       *)
(* committed in one step or dropped; nothing in between can be seen.  An   *)
(* editor outside the program may save the file at any time, also between  *)
(* the two: that such an edit may be overwritten is part of the contract.  *)
(* Where files cannot be replaced in one step (`removesFirst') the file may *)
(* be missing while a change is armed, and stay missing when it is dropped. *)
(***************************************************************************)
EXTENDS Naturals

CONSTANTS Workers, Texts, EmptyText, Absent, NoChange

VARIABLES file,     \* the text of the file, or Absent
          removesFirst,
          armed,    \* for each worker the change whose starting text it has seen
          edits     \* how often an editor has saved or deleted the file

States == Texts \cup {Absent}
Changes == [from : Texts, to : States]

\* A missing file reads as the empty text.
Reads(f) == IF f = Absent THEN EmptyText ELSE f

Init == /\ file \in States /\ removesFirst \in BOOLEAN
        /\ armed = [w \in Workers |-> NoChange] /\ edits = 0

Arm(w) == /\ \E c \in Changes : c.from = Reads(file) /\ armed' = [armed EXCEPT ![w] = c]
          /\ UNCHANGED <<file, removesFirst, edits>>

Commit(w) == /\ armed[w] # NoChange
             /\ file' = armed[w].to
             /\ armed' = [armed EXCEPT ![w] = NoChange]
             /\ UNCHANGED <<removesFirst, edits>>

Vanish(w) == /\ removesFirst /\ armed[w] # NoChange
             /\ file' = Absent
             /\ UNCHANGED <<removesFirst, armed, edits>>

\* A conflict, a failed write, or the end of the process.
Drop == /\ \E W \in SUBSET Workers :
             armed' = [w \in Workers |-> IF w \in W THEN NoChange ELSE armed[w]]
        /\ UNCHANGED <<file, removesFirst, edits>>

Edit == /\ file' \in States
        /\ edits' = edits + 1
        /\ UNCHANGED <<removesFirst, armed>>

Next == (\E w \in Workers : Arm(w) \/ Commit(w) \/ Vanish(w)) \/ Drop \/ Edit

Spec == Init /\ [][Next]_<<file, removesFirst, armed, edits>>
=============================================================================
