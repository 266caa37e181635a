--------------------------- MODULE RunCommandProofs ---------------------------
(***************************************************************************)
(* Theorems about RunCommand, for any tree of processes and any amount of  *)
(* output.                                                                 *)
(***************************************************************************)
EXTENDS RunCommand, TLAPS

\* The child does not run before it is spawned, nor once the poll loop is over; only a
\* background launch probes it and waits for its port.
ChildGone ==
    /\ pc \in {"start", "drain", "report"} => ~Running(Child)
    /\ pc \in {"probe", "ready"} => kind # "foreground"

\* A process that was never started has no pipe, and after the end of the pipe
\* nobody is left who could write to it or hand it on.
PipeStarted == \A p \in pipe : proc[p] # "none"
EndIsFinal ==
    /\ pc \in {"start", "probe", "ready"} => reader = "none"
    /\ reader = "none" => pc \in {"start", "probe", "ready", "returned"}
    /\ reader = "eof" => unread = 0 /\ Holders = {}

\* Without the grace, the result is copied after the reader thread has ended, and
\* the buffer does not grow any more.
DrainedFirst ==
    /\ pc = "report" /\ ~late => reader \in {"eof", "gave_up"}
    /\ pc = "returned" /\ outcome \in {"ok", "failed", "timed_out"} /\ ~late
         => reader \in {"eof", "gave_up"} /\ reported = Truncated(buffer)

CommandInv == TypeOK /\ ChildGone /\ ChildAccountedFor /\ PipeStarted /\ EndIsFinal /\ DrainedFirst

-----------------------------------------------------------------------------
LEMMA ChildInTree == Child \in Tree /\ Child \notin Descendants /\ Descendants \subseteq Tree
  BY TreeAssumption DEF Tree

\* truncate_output always yields a result.
LEMMA TruncatedType == ASSUME NEW n \in Nat PROVE Truncated(n) \in [chunks : Nat, note : BOOLEAN]
  BY OutputBound DEF Truncated

LEMMA InitCommand == Init => CommandInv
  <1> SUFFICES ASSUME Init PROVE CommandInv
    OBVIOUS
  <1>1. TypeOK
    <2>1. proc \in [Tree -> {"none", "running", "dead"}]
      BY DEF Init
    <2>2. reported \in [chunks : Nat, note : BOOLEAN]
      BY TruncatedType DEF Init
    <2> QED
      BY <2>1, <2>2 DEF Init, TypeOK, Outcomes
  <1>2. ChildGone /\ ChildAccountedFor
    BY ChildInTree DEF Init, ChildGone, ChildAccountedFor, Running
  <1>3. PipeStarted /\ EndIsFinal /\ DrainedFirst
    BY DEF Init, PipeStarted, EndIsFinal, DrainedFirst
  <1> QED
    BY <1>1, <1>2, <1>3 DEF CommandInv

\* Every step keeps the types.
LEMMA TypeStep == TypeOK /\ [Next]_vars => TypeOK'
  <1> SUFFICES ASSUME TypeOK, [Next]_vars PROVE TypeOK'
    OBVIOUS
  <1> USE ChildInTree DEF TypeOK, Outcomes, Kinds, Return, call, output
  <1>1. CASE Refuse BY <1>1 DEF Refuse
  <1>2. CASE SpawnForeground BY <1>2 DEF SpawnForeground
  <1>3. CASE Adopt BY <1>3 DEF Adopt
  <1>4. CASE PollCancelled BY <1>4 DEF PollCancelled, Killed
  <1>5. CASE PollExited BY <1>5 DEF PollExited
  <1>6. CASE PollDeadline BY <1>6 DEF PollDeadline, Killed
  <1>7. CASE WaitFails BY <1>7 DEF WaitFails, CloseJob
  <1>8. CASE DrainDone BY <1>8 DEF DrainDone
  <1>9. CASE DrainGrace BY <1>9 DEF DrainGrace
  <1>10. CASE Report
    <2>1. reported' \in [chunks : Nat, note : BOOLEAN]
      BY <1>10, TruncatedType DEF Report
    <2> QED
      BY <1>10, <2>1 DEF Report, CloseJob
  <1>11. CASE SpawnBackground BY <1>11 DEF SpawnBackground
  <1>12. CASE Probe BY <1>12 DEF Probe
  <1>13. CASE ReadyCancelled BY <1>13 DEF ReadyCancelled, Killed
  <1>14. CASE ReadyConnected BY <1>14 DEF ReadyConnected
  <1>15. CASE ReadyExited BY <1>15 DEF ReadyExited
  <1>16. CASE ReadyTimeout BY <1>16 DEF ReadyTimeout
  <1>17. CASE ReadPipe BY <1>17 DEF ReadPipe
  <1>18. CASE Cancel BY <1>18 DEF Cancel
  <1>19. ASSUME NEW p \in Tree, Emit(p) PROVE TypeOK' BY <1>19 DEF Emit
  <1>20. ASSUME NEW p \in Tree, Exit(p) PROVE TypeOK' BY <1>20 DEF Exit
  <1>21. ASSUME NEW p \in Tree, Listen(p) PROVE TypeOK' BY <1>21 DEF Listen
  <1>22. ASSUME NEW p \in Tree, NEW d \in Descendants, Fork(p, d) PROVE TypeOK' BY <1>22 DEF Fork
  <1>23. CASE UNCHANGED vars BY <1>23 DEF vars
  <1> QED
    BY <1>1, <1>2, <1>3, <1>4, <1>5, <1>6, <1>7, <1>8, <1>9, <1>10, <1>11, <1>12, <1>13, <1>14,
       <1>15, <1>16, <1>17, <1>18, <1>19, <1>20, <1>21, <1>22, <1>23 DEF Next, Call, World

\* Every step keeps what is known of the child, the pipe and the result.
LEMMA CommandStep == CommandInv /\ [Next]_vars => CommandInv'
  <1> SUFFICES ASSUME CommandInv, [Next]_vars PROVE CommandInv'
    OBVIOUS
  <1>0. TypeOK' BY TypeStep DEF CommandInv
  <1> USE <1>0, ChildInTree DEF CommandInv, TypeOK, ChildGone, ChildAccountedFor, PipeStarted, EndIsFinal,
          DrainedFirst, Running, Holders, Return, call, output
  <1>1. CASE Refuse BY <1>1 DEF Refuse
  <1>2. CASE SpawnForeground BY <1>2 DEF SpawnForeground
  <1>3. CASE Adopt BY <1>3 DEF Adopt
  <1>4. CASE PollCancelled BY <1>4 DEF PollCancelled, Killed
  <1>5. CASE PollExited BY <1>5 DEF PollExited
  <1>6. CASE PollDeadline BY <1>6 DEF PollDeadline, Killed
  <1>7. CASE WaitFails BY <1>7 DEF WaitFails, CloseJob
  <1>8. CASE DrainDone BY <1>8 DEF DrainDone
  <1>9. CASE DrainGrace BY <1>9 DEF DrainGrace
  <1>10. CASE Report BY <1>10 DEF Report, CloseJob
  <1>11. CASE SpawnBackground BY <1>11 DEF SpawnBackground
  <1>12. CASE Probe BY <1>12 DEF Probe
  <1>13. CASE ReadyCancelled BY <1>13 DEF ReadyCancelled, Killed
  <1>14. CASE ReadyConnected BY <1>14 DEF ReadyConnected
  <1>15. CASE ReadyExited BY <1>15 DEF ReadyExited
  <1>16. CASE ReadyTimeout BY <1>16 DEF ReadyTimeout
  <1>17. CASE ReadPipe BY <1>17 DEF ReadPipe
  <1>18. CASE Cancel BY <1>18 DEF Cancel
  <1>19. ASSUME NEW p \in Tree, Emit(p) PROVE CommandInv' BY <1>19 DEF Emit
  <1>20. ASSUME NEW p \in Tree, Exit(p) PROVE CommandInv' BY <1>20 DEF Exit
  <1>21. ASSUME NEW p \in Tree, Listen(p) PROVE CommandInv' BY <1>21 DEF Listen
  <1>22. ASSUME NEW p \in Tree, NEW d \in Descendants, Fork(p, d) PROVE CommandInv' BY <1>22 DEF Fork
  <1>23. CASE UNCHANGED vars BY <1>23 DEF vars
  <1> QED
    BY <1>1, <1>2, <1>3, <1>4, <1>5, <1>6, <1>7, <1>8, <1>9, <1>10, <1>11, <1>12, <1>13, <1>14,
       <1>15, <1>16, <1>17, <1>18, <1>19, <1>20, <1>21, <1>22, <1>23 DEF Next, Call, World

LEMMA CommandInvariant == Spec => []CommandInv
  BY InitCommand, CommandStep, PTL DEF Spec

-----------------------------------------------------------------------------
\* The call, its processes and its output always have their types.
THEOREM TypeCorrect == Spec => []TypeOK
  <1>1. CommandInv => TypeOK
    BY DEF CommandInv
  <1> QED
    BY CommandInvariant, <1>1, PTL

\* run_command: however exit, deadline, cancel and the port race each other, a
\* foreground call ends its direct child and a background launch leaves it only with
\* a result that says so; a failing try_wait is the exception.
THEOREM ChildNeverLost == Spec => []ChildAccountedFor
  <1>1. CommandInv => ChildAccountedFor
    BY DEF CommandInv
  <1> QED
    BY CommandInvariant, <1>1, PTL

\* await_pipe_drain and truncate_output: unless the grace runs out or the reader gives
\* up, the result is the beginning of all the tree wrote, whatever process still had
\* the pipe when the child ended, and it is marked when more was written.
THEOREM NoOutputLost == Spec => []OutputComplete
  <1>1. CommandInv => OutputComplete
    BY DEF CommandInv, TypeOK, DrainedFirst, EndIsFinal, OutputComplete
  <1> QED
    BY CommandInvariant, <1>1, PTL
=============================================================================
