------------------------ MODULE SessionLifecycleProofs ------------------------
(***************************************************************************)
(* Theorems about SessionLifecycle, for any number of workers, actions,    *)
(* turns, rounds and crashes.  What holds of one deployment only, or       *)
(* only while nothing crashes, says so in its ASSUME.                      *)
(***************************************************************************)
EXTENDS SessionLifecycle, FiniteSetTheorems, TLAPS

\* Labels of a call that belongs to a reply of the model, or to a resolve.
CallLabels == {"tool", "decide", "exec", "launch", "blocking", "spawn", "command",
               "waiting", "exited", "record"}

\* What a command in flight does, in its own time or when what it waits for arrives.
Works(w) == Step(w) \/ Unbounded(w)

ResolveLabels == {"res_cas", "res_resume", "res_run", "res_setup"}

\* A worker that handles a call has one to handle: the decrement in Record
\* stays in Nat.
CallsLeft ==
    \A w \in Workers :
        /\ pc[w] \in ResolveLabels => job[w].resuming
        /\ pc[w] \in CallLabels => job[w].resuming \/ job[w].calls > 0

TypeInv == TypeOK /\ CallsLeft

LEMMA NoJobType == NoJob \in Job
  BY DEF NoJob, Job

LEMMA TypeInit == Init => TypeInv
  <1> SUFFICES ASSUME Init PROVE TypeInv
    OBVIOUS
  <1>1. TypeOK
    BY NoJobType DEF Init, TypeOK, SessionStatus, ActionStatus, Labels, StartLabels,
       DriveLabels, ExitLabels, CancelLabels
  <1>2. CallsLeft
    BY DEF Init, CallsLeft, CallLabels, ResolveLabels
  <1> QED
    BY <1>1, <1>2 DEF TypeInv

LEMMA MessageType ==
  ASSUME TypeInv, NEW role \in {"user", "assistant", "partial", "tool", "rollback"}, NEW t \in Nat,
         Append1(role, t)
  PROVE  transcript' \in Seq(Message)
  <1>1. [role |-> role, turn |-> t] \in Message
    BY DEF Message
  <1> QED
    BY <1>1 DEF TypeInv, TypeOK, Append1

LEMMA RequestType ==
  ASSUME TypeInv, NEW w \in Workers, Request(w)
  PROVE  TypeInv'
  <1> USE NoJobType DEF TypeInv, TypeOK, CallsLeft, Goto, FreshCore, row, process
  <1>1. CASE CreateSession(w)
    BY <1>1 DEF CreateSession, SessionStatus
  <1>2. CASE StartChat(w)
    BY <1>2 DEF StartChat, SessionStatus, Labels, StartLabels, NoJob, Job, CallLabels,
       ResolveLabels
  <1>3. CASE ContinueChat(w)
    BY <1>3 DEF ContinueChat, Labels, StartLabels, NoJob, Job, CallLabels, ResolveLabels
  <1>4. CASE Cancel(w)
    BY <1>4 DEF Cancel, Labels, CancelLabels, NoJob, Job, CallLabels, ResolveLabels
  <1>5. ASSUME NEW a \in Actions, NEW approved \in BOOLEAN, Resolve(w, a, approved)
        PROVE  TypeInv'
    BY <1>5 DEF Resolve, Labels, StartLabels, NoJob, Job, CallLabels, ResolveLabels
  <1>6. CASE Rollback(w)
    <2>1. transcript' \in Seq(Message)
      BY <1>6, MessageType DEF Rollback
    <2> QED
      BY <1>6, <2>1 DEF Rollback
  <1> QED
    BY <1>1, <1>2, <1>3, <1>4, <1>5, <1>6 DEF Request

LEMMA ReturnType ==
  ASSUME TypeInv, NEW w \in Workers, Return(w)
  PROVE  pc' \in [Workers -> Labels] /\ job' \in [Workers -> Job] /\ CallsLeft'
  BY NoJobType DEF TypeInv, TypeOK, CallsLeft, Return, Labels, CallLabels, ResolveLabels

\* The updates of a job that the steps make.
LEMMA JobUpdate ==
  ASSUME NEW j \in Job, NEW n \in Nat, NEW t \in Actions \cup {NoAction}
  PROVE  /\ [j EXCEPT !.turn = n] \in Job
         /\ [j EXCEPT !.rounds = n] \in Job
         /\ [j EXCEPT !.calls = n] \in Job
         /\ [j EXCEPT !.polls = n] \in Job
         /\ [j EXCEPT !.ticket = t] \in Job
         /\ [j EXCEPT !.ticket = t, !.polls = n] \in Job
         /\ [j EXCEPT !.resuming = FALSE] \in Job
  BY DEF Job

LEMMA JobFields ==
  ASSUME NEW j \in Job
  PROVE  /\ j.turn \in Nat /\ j.rounds \in Nat /\ j.calls \in Nat /\ j.polls \in Nat
         /\ j.approved \in BOOLEAN /\ j.resuming \in BOOLEAN
         /\ j.ticket \in Actions \cup {NoAction} /\ j.target \in Actions \cup {NoAction}
         /\ DOMAIN j = {"kind", "turn", "target", "approved", "ticket", "resuming",
                        "rounds", "calls", "polls"}
  BY DEF Job

LEMMA JobOf ==
  ASSUME TypeInv, NEW w \in Workers
  PROVE  /\ job \in [Workers -> Job] /\ job[w] \in Job
         /\ job[w].turn \in Nat /\ job[w].rounds \in Nat /\ job[w].calls \in Nat
         /\ job[w].polls \in Nat /\ job[w].resuming \in BOOLEAN
         /\ job[w].approved \in BOOLEAN
         /\ DOMAIN job[w] = {"kind", "turn", "target", "approved", "ticket", "resuming",
                             "rounds", "calls", "polls"}
  <1>1. job \in [Workers -> Job] /\ job[w] \in Job
    BY DEF TypeInv, TypeOK
  <1> QED
    BY <1>1, JobFields

LEMMA StepType ==
  ASSUME TypeInv, NEW w \in Workers, Works(w)
  PROVE  TypeInv'
  <1> USE DEF Goto, SetProbe, row, process
  <1>1. CASE StartRun(w)
    BY <1>1 DEF StartRun, At, TypeInv, TypeOK, CallsLeft, SessionStatus, ActionStatus,
       Labels, StartLabels, DriveLabels, ExitLabels, CancelLabels, CallLabels,
       ResolveLabels
  <1>2. CASE StartMessage(w)
    <2>1. turn + 1 \in Nat
      BY JobOf DEF TypeInv, TypeOK
    <2>2. transcript' \in Seq(Message)
      BY <1>2, <2>1, MessageType DEF StartMessage
    <2>3. [job[w] EXCEPT !.turn = turn + 1] \in Job
      BY <2>1, JobOf, JobUpdate
    <2>4. job' \in [Workers -> Job]
      BY <1>2, <2>3, JobOf DEF StartMessage
    <2>5. pc' \in [Workers -> Labels] /\ CallsLeft'
      BY <1>2, JobOf DEF StartMessage, At, TypeInv, TypeOK, CallsLeft, Labels,
         StartLabels, DriveLabels, ExitLabels, CancelLabels, CallLabels, ResolveLabels
    <2> QED
      BY <1>2, <2>2, <2>4, <2>1, <2>5 DEF StartMessage, TypeInv, TypeOK
  <1>3. CASE ContinueAppend(w)
    <2>1. turn + 1 \in Nat
      BY JobOf DEF TypeInv, TypeOK
    <2>2. transcript' \in Seq(Message)
      BY <1>3, <2>1, MessageType DEF ContinueAppend
    <2>3. [job[w] EXCEPT !.turn = turn + 1] \in Job
      BY <2>1, JobOf, JobUpdate
    <2>4. job' \in [Workers -> Job]
      BY <1>3, <2>3, JobOf DEF ContinueAppend
    <2>5. pc' \in [Workers -> Labels] /\ CallsLeft'
      BY <1>3, JobOf DEF ContinueAppend, At, TypeInv, TypeOK, CallsLeft, Labels,
         StartLabels, DriveLabels, ExitLabels, CancelLabels, CallLabels, ResolveLabels
    <2> QED
      BY <1>3, <2>2, <2>4, <2>1, <2>5 DEF ContinueAppend, TypeInv, TypeOK
  <1>4. CASE ContinueRun(w)
    BY <1>4 DEF ContinueRun, At, TypeInv, TypeOK, CallsLeft, SessionStatus,
       ActionStatus, Labels, StartLabels, DriveLabels, ExitLabels, CancelLabels,
       CallLabels, ResolveLabels
  <1>5. CASE ResolveAction(w)
    <2>1. CASE action[job[w].target] # "pending"
      <3>1. Return(w) /\ UNCHANGED <<row, probe, process, executed>>
        BY <1>5, <2>1 DEF ResolveAction
      <3> QED
        BY <3>1, ReturnType DEF TypeInv, TypeOK
    <2>2. CASE action[job[w].target] = "pending"
      <3> DEFINE t == IF job[w].approved THEN job[w].target ELSE NoAction
      <3>1. [job[w] EXCEPT !.ticket = t] \in Job
        BY JobOf, JobUpdate, JobFields
      <3>2. job' = [job EXCEPT ![w].ticket = t] /\ Goto(w, "res_resume")
        BY <1>5, <2>2 DEF ResolveAction
      <3>3. job' \in [Workers -> Job]
        BY <3>1, <3>2, JobOf
      <3>4. job[w].resuming
        BY <1>5 DEF ResolveAction, At, TypeInv, CallsLeft, ResolveLabels
      <3>5. job'[w].resuming /\ \A v \in Workers \ {w} : job'[v] = job[v]
        BY <3>2, <3>4, JobOf
      <3>6. action' \in [Actions -> ActionStatus]
        BY <1>5, <2>2 DEF ResolveAction, ActionStatus, TypeInv, TypeOK
      <3>7. pc' \in [Workers -> Labels] /\ CallsLeft'
        BY <3>2, <3>5 DEF TypeInv, TypeOK, CallsLeft, Labels, StartLabels, CallLabels,
           ResolveLabels
      <3> QED
        BY <1>5, <3>3, <3>6, <3>7 DEF ResolveAction, TypeInv, TypeOK
    <2> QED
      BY <2>1, <2>2
  <1>6. CASE ResumeRead(w)
    <2>1. CASE Return(w)
      BY <1>6, <2>1, ReturnType DEF ResumeRead, TypeInv, TypeOK
    <2>2. CASE ~Return(w)
      BY <1>6, <2>2 DEF ResumeRead, At, TypeInv, TypeOK, CallsLeft, Labels, StartLabels,
         DriveLabels, ExitLabels, CancelLabels, CallLabels, ResolveLabels
    <2> QED
      BY <2>1, <2>2
  <1>7. CASE ResumeRun(w)
    BY <1>7 DEF ResumeRun, At, TypeInv, TypeOK, CallsLeft, SessionStatus, ActionStatus,
       Labels, StartLabels, DriveLabels, ExitLabels, CancelLabels, CallLabels,
       ResolveLabels
  <1>8. CASE ResolveSetup(w)
    <2>1. CASE Return(w)
      BY <1>8, <2>1, ReturnType DEF ResolveSetup, TypeInv, TypeOK
    <2>2. CASE ~Return(w)
      BY <1>8, <2>2 DEF ResolveSetup, At, TypeInv, TypeOK, CallsLeft, Labels,
         StartLabels, DriveLabels, ExitLabels, CancelLabels, CallLabels, ResolveLabels
    <2> QED
      BY <2>1, <2>2
  <1>9. CASE RejectMessage(w)
    <2>1. job[w].turn \in Nat
      BY JobOf DEF TypeInv, TypeOK
    <2>2. transcript' \in Seq(Message)
      BY <1>9, <2>1, MessageType DEF RejectMessage
    <2>3. [job[w] EXCEPT !.resuming = FALSE] \in Job
      BY <2>1, JobOf, JobUpdate
    <2>4. job' \in [Workers -> Job]
      BY <1>9, <2>3, JobOf DEF RejectMessage
    <2>5. pc' \in [Workers -> Labels] /\ CallsLeft'
      BY <1>9, JobOf DEF RejectMessage, At, TypeInv, TypeOK, CallsLeft, Labels,
         StartLabels, DriveLabels, ExitLabels, CancelLabels, CallLabels, ResolveLabels
    <2> QED
      BY <1>9, <2>2, <2>4, <2>1, <2>5 DEF RejectMessage, TypeInv, TypeOK
  <1>10. CASE Prepare(w)
    BY <1>10 DEF Prepare, At, TypeInv, TypeOK, CallsLeft, SessionStatus, ActionStatus,
       Labels, StartLabels, DriveLabels, ExitLabels, CancelLabels, CallLabels,
       ResolveLabels
  <1>11. CASE Round(w)
    <2>1. job[w].rounds + 1 \in Nat
      BY JobOf, BoundsAssumption
    <2>2. [job[w] EXCEPT !.rounds = job[w].rounds + 1] \in Job
      BY <2>1, JobOf, JobUpdate
    <2>3. job' \in [Workers -> Job]
      BY <1>11, <2>2, JobOf DEF Round
    <2>4. /\ job'[w].resuming = job[w].resuming
          /\ job'[w].calls = job[w].calls
          /\ \A v \in Workers \ {w} : job'[v] = job[v]
      BY <1>11, JobOf DEF Round
    <2>5. pc' \in [Workers -> Labels] /\ CallsLeft'
      BY <1>11, <2>4 DEF Round, TypeInv, TypeOK, CallsLeft, Labels, StartLabels,
         DriveLabels, ExitLabels, CancelLabels, CallLabels, ResolveLabels
    <2> QED
      BY <1>11, <2>3, <2>5 DEF Round, TypeInv, TypeOK
  <1>12. ASSUME NEW n \in 0..MaxCalls, StreamReply(w, n)
        PROVE  TypeInv'
    <2>1. n \in Nat
      BY JobOf, BoundsAssumption
    <2>2. [job[w] EXCEPT !.calls = n] \in Job
      BY <2>1, JobOf, JobUpdate
    <2>3. job' \in [Workers -> Job]
      BY <1>12, <2>2, JobOf DEF StreamReply
    <2>4. /\ job'[w].resuming = job[w].resuming
          /\ job'[w].calls = n
          /\ \A v \in Workers \ {w} : job'[v] = job[v]
      BY <1>12, JobOf DEF StreamReply
    <2>5. pc' \in [Workers -> Labels] /\ CallsLeft'
      BY <1>12, <2>4 DEF StreamReply, TypeInv, TypeOK, CallsLeft, Labels, StartLabels,
         DriveLabels, ExitLabels, CancelLabels, CallLabels, ResolveLabels
    <2> QED
      BY <1>12, <2>3, <2>5 DEF StreamReply, TypeInv, TypeOK
  <1>13. CASE StreamError(w)
    BY <1>13 DEF StreamError, At, TypeInv, TypeOK, CallsLeft, SessionStatus,
       ActionStatus, Labels, StartLabels, DriveLabels, ExitLabels, CancelLabels,
       CallLabels, ResolveLabels
  <1>14. CASE StreamCancelled(w)
    BY <1>14 DEF StreamCancelled, At, TypeInv, TypeOK, CallsLeft, SessionStatus,
       ActionStatus, Labels, StartLabels, DriveLabels, ExitLabels, CancelLabels,
       CallLabels, ResolveLabels
  <1>15. CASE Received(w)
    BY <1>15, JobOf DEF Received, At, TypeInv, TypeOK, CallsLeft, SessionStatus,
       ActionStatus,
       Labels, StartLabels, DriveLabels, ExitLabels, CancelLabels, CallLabels,
       ResolveLabels
  <1>16. CASE Answer(w)
    <2>1. \E l \in {"error", "persist_read", "complete"} : Goto(w, l)
      BY <1>16 DEF Answer
    <2> QED
      BY <1>16, <2>1 DEF Answer, TypeInv, TypeOK, CallsLeft, Labels, StartLabels,
         DriveLabels, ExitLabels, CancelLabels, CallLabels, ResolveLabels
  <1>17. CASE CompleteRead(w)
    BY <1>17 DEF CompleteRead, At, TypeInv, TypeOK, CallsLeft, SessionStatus,
       ActionStatus, Labels, StartLabels, DriveLabels, ExitLabels, CancelLabels,
       CallLabels, ResolveLabels
  <1>18. CASE CompleteAppend(w)
    <2>1. job[w].turn \in Nat
      BY JobOf DEF TypeInv, TypeOK
    <2>2. transcript' \in Seq(Message)
      BY <1>18, <2>1, MessageType DEF CompleteAppend
    <2>5. pc' \in [Workers -> Labels] /\ CallsLeft'
      BY <1>18, JobOf DEF CompleteAppend, At, TypeInv, TypeOK, CallsLeft, Labels,
         StartLabels, DriveLabels, ExitLabels, CancelLabels, CallLabels, ResolveLabels
    <2> QED
      BY <1>18, <2>2, <2>1, <2>5 DEF CompleteAppend, TypeInv, TypeOK
  <1>19. CASE CompleteSet(w)
    BY <1>19 DEF CompleteSet, At, TypeInv, TypeOK, CallsLeft, SessionStatus,
       ActionStatus, Labels, StartLabels, DriveLabels, ExitLabels, CancelLabels,
       CallLabels, ResolveLabels
  <1>20. CASE Memory(w)
    BY <1>20, ReturnType DEF Memory, SessionStatus, TypeInv, TypeOK
  <1>21. CASE Unwind(w)
    BY <1>21, ReturnType DEF Unwind, SessionStatus, TypeInv, TypeOK
  <1>22. CASE ToolCheck(w)
    BY <1>22 DEF ToolCheck, At, TypeInv, TypeOK, CallsLeft, SessionStatus, ActionStatus,
       Labels, StartLabels, DriveLabels, ExitLabels, CancelLabels, CallLabels,
       ResolveLabels
  <1>23. CASE Decide(w)
    BY <1>23 DEF Decide, At, TypeInv, TypeOK, CallsLeft, SessionStatus, ActionStatus,
       Labels, StartLabels, DriveLabels, ExitLabels, CancelLabels, CallLabels,
       ResolveLabels
  <1>24. CASE Execute(w)
    BY <1>24 DEF Execute, At, TypeInv, TypeOK, CallsLeft, SessionStatus, ActionStatus,
       Labels, StartLabels, DriveLabels, ExitLabels, CancelLabels, CallLabels,
       ResolveLabels
  <1>25. CASE Launch(w)
    <2>1. [job[w] EXCEPT !.ticket = NoAction, !.polls = 0] \in Job
      BY JobOf, JobUpdate
    <2>2. job' \in [Workers -> Job]
      BY <1>25, <2>1, JobOf DEF Launch
    <2>3. /\ job'[w].resuming = job[w].resuming
          /\ job'[w].calls = job[w].calls
          /\ \A v \in Workers \ {w} : job'[v] = job[v]
      BY <1>25, JobOf DEF Launch
    <2>4. pc' \in [Workers -> Labels] /\ CallsLeft'
      BY <1>25, <2>3 DEF Launch, At, TypeInv, TypeOK, CallsLeft, Labels, StartLabels,
         DriveLabels, ExitLabels, CancelLabels, CallLabels, ResolveLabels
    <2> QED
      BY <1>25, <2>2, <2>4 DEF Launch, TypeInv, TypeOK
  <1>26. CASE ExecuteError(w)
    BY <1>26 DEF ExecuteError, At, TypeInv, TypeOK, CallsLeft, SessionStatus,
       ActionStatus, Labels, StartLabels, DriveLabels, ExitLabels, CancelLabels,
       CallLabels, ResolveLabels
  <1>27. CASE CommandPoll(w)
    BY <1>27 DEF CommandPoll, At, TypeInv, TypeOK, CallsLeft, SessionStatus,
       ActionStatus, Labels, StartLabels, DriveLabels, ExitLabels, CancelLabels,
       CallLabels, ResolveLabels
  <1>28. CASE CommandWait(w)
    <2>1. job[w].polls + 1 \in Nat
      BY JobOf, BoundsAssumption
    <2>2. [job[w] EXCEPT !.polls = job[w].polls + 1] \in Job
      BY <2>1, JobOf, JobUpdate
    <2>3. job' \in [Workers -> Job]
      BY <1>28, <2>2, JobOf DEF CommandWait
    <2>4. /\ job'[w].resuming = job[w].resuming
          /\ job'[w].calls = job[w].calls
          /\ \A v \in Workers \ {w} : job'[v] = job[v]
      BY <1>28, JobOf DEF CommandWait
    <2>5. pc' \in [Workers -> Labels] /\ CallsLeft'
      BY <1>28, <2>4 DEF CommandWait, TypeInv, TypeOK, CallsLeft, Labels, StartLabels,
         DriveLabels, ExitLabels, CancelLabels, CallLabels, ResolveLabels
    <2> QED
      BY <1>28, <2>3, <2>5 DEF CommandWait, TypeInv, TypeOK
  <1>29. CASE CommandJoin(w)
    BY <1>29 DEF CommandJoin, At, TypeInv, TypeOK, CallsLeft, SessionStatus,
       ActionStatus, Labels, StartLabels, DriveLabels, ExitLabels, CancelLabels,
       CallLabels, ResolveLabels
  <1>30. CASE Record(w)
    <2>1. transcript' \in Seq(Message)
      BY <1>30, JobOf, MessageType DEF Record
    <2>2. CASE job[w].resuming
      <3>1. [job[w] EXCEPT !.resuming = FALSE] \in Job
        BY JobOf, JobUpdate
      <3>2. job' \in [Workers -> Job]
        BY <1>30, <2>2, <3>1, JobOf DEF Record
      <3>3. pc' \in [Workers -> Labels] /\ CallsLeft'
        BY <1>30, <2>2, JobOf DEF Record, TypeInv, TypeOK, CallsLeft, Labels,
           StartLabels, DriveLabels, ExitLabels, CancelLabels, CallLabels, ResolveLabels
      <3> QED
        BY <1>30, <2>1, <3>2, <3>3 DEF Record, TypeInv, TypeOK
    <2>3. CASE ~job[w].resuming
      <3>1. job[w].calls > 0
        BY <1>30, <2>3 DEF Record, At, TypeInv, CallsLeft, CallLabels
      <3>2. job[w].calls - 1 \in Nat
        BY <3>1, JobOf
      <3>3. [job[w] EXCEPT !.calls = job[w].calls - 1] \in Job
        BY <3>2, JobOf, JobUpdate
      <3>4. job' \in [Workers -> Job]
        BY <1>30, <2>3, <3>3, JobOf DEF Record
      <3>5. job'[w].calls = job[w].calls - 1 /\ \A v \in Workers \ {w} : job'[v] = job[v]
        BY <1>30, <2>3, JobOf DEF Record
      <3>6. pc' \in [Workers -> Labels] /\ CallsLeft'
        <4>1. CASE job[w].calls > 1
          <5>1. job'[w].calls > 0 /\ Goto(w, "tool")
            BY <1>30, <2>3, <3>5, <4>1, JobOf DEF Record
          <5> QED
            BY <5>1, <3>5 DEF TypeInv, TypeOK, CallsLeft, Labels, DriveLabels, CallLabels,
               ResolveLabels
        <4>2. CASE ~(job[w].calls > 1)
          <5>1. Goto(w, "round")
            BY <1>30, <2>3, <4>2 DEF Record
          <5> QED
            BY <5>1, <3>5 DEF TypeInv, TypeOK, CallsLeft, Labels, DriveLabels, CallLabels,
               ResolveLabels
        <4> QED
          BY <4>1, <4>2
      <3> QED
        BY <1>30, <2>1, <3>4, <3>6 DEF Record, TypeInv, TypeOK
    <2> QED
      BY <2>2, <2>3
  <1>31. ASSUME NEW a \in Actions, Ask(w, a)
        PROVE  TypeInv'
    BY <1>31 DEF Ask, At, TypeInv, TypeOK, CallsLeft, SessionStatus, ActionStatus,
       Labels, StartLabels, DriveLabels, ExitLabels, CancelLabels, CallLabels,
       ResolveLabels
  <1>32. CASE Pause(w)
    BY <1>32, ReturnType DEF Pause, SessionStatus, TypeInv, TypeOK
  <1>33. CASE PersistRead(w)
    <2>1. \E l \in {"cancelled", "persist_append"} : Goto(w, l)
      BY <1>33 DEF PersistRead
    <2> QED
      BY <1>33, <2>1 DEF PersistRead, TypeInv, TypeOK, CallsLeft, Labels, StartLabels,
         DriveLabels, ExitLabels, CancelLabels, CallLabels, ResolveLabels
  <1>34. CASE PersistAppend(w)
    <2>1. job[w].turn \in Nat
      BY JobOf DEF TypeInv, TypeOK
    <2>2. transcript' \in Seq(Message)
      BY <1>34, <2>1, MessageType DEF PersistAppend
    <2>5. pc' \in [Workers -> Labels] /\ CallsLeft'
      BY <1>34, JobOf DEF PersistAppend, At, TypeInv, TypeOK, CallsLeft, Labels,
         StartLabels, DriveLabels, ExitLabels, CancelLabels, CallLabels, ResolveLabels
    <2> QED
      BY <1>34, <2>2, <2>1, <2>5 DEF PersistAppend, TypeInv, TypeOK
  <1>35. CASE CancelledResult(w)
    BY <1>35, ReturnType DEF CancelledResult, SessionStatus, TypeInv, TypeOK
  <1>36. CASE Error(w)
    <2>1. CASE Return(w)
      BY <1>36, <2>1, ReturnType DEF Error, TypeInv, TypeOK
    <2>2. CASE ~Return(w)
      BY <1>36, <2>2 DEF Error, At, TypeInv, TypeOK, CallsLeft, Labels, StartLabels,
         DriveLabels, ExitLabels, CancelLabels, CallLabels, ResolveLabels
    <2> QED
      BY <2>1, <2>2
  <1>37. CASE FailRead(w)
    <2>1. CASE Return(w)
      BY <1>37, <2>1, ReturnType DEF FailRead, TypeInv, TypeOK
    <2>2. CASE ~Return(w)
      BY <1>37, <2>2 DEF FailRead, At, TypeInv, TypeOK, CallsLeft, Labels, StartLabels,
         DriveLabels, ExitLabels, CancelLabels, CallLabels, ResolveLabels
    <2> QED
      BY <2>1, <2>2
  <1>38. CASE FailSet(w)
    BY <1>38, ReturnType DEF FailSet, SessionStatus, TypeInv, TypeOK
  <1>39. CASE CancelPartial(w)
    <2>1. \E l \in {"can_reject", "can_append"} : Goto(w, l)
      BY <1>39 DEF CancelPartial
    <2> QED
      BY <1>39, <2>1 DEF CancelPartial, TypeInv, TypeOK, CallsLeft, Labels, StartLabels,
         DriveLabels, ExitLabels, CancelLabels, CallLabels, ResolveLabels
  <1>40. CASE CancelAppend(w)
    <2>1. job[w].turn \in Nat
      BY JobOf DEF TypeInv, TypeOK
    <2>2. transcript' \in Seq(Message)
      BY <1>40, <2>1, MessageType DEF CancelAppend
    <2>5. pc' \in [Workers -> Labels] /\ CallsLeft'
      BY <1>40, JobOf DEF CancelAppend, At, TypeInv, TypeOK, CallsLeft, Labels,
         StartLabels, DriveLabels, ExitLabels, CancelLabels, CallLabels, ResolveLabels
    <2> QED
      BY <1>40, <2>2, <2>1, <2>5 DEF CancelAppend, TypeInv, TypeOK
  <1>41. CASE CancelReject(w)
    BY <1>41 DEF CancelReject, At, TypeInv, TypeOK, CallsLeft, SessionStatus,
       ActionStatus, Labels, StartLabels, DriveLabels, ExitLabels, CancelLabels,
       CallLabels, ResolveLabels
  <1>42. CASE CancelMark(w)
    BY <1>42 DEF CancelMark, At, TypeInv, TypeOK, CallsLeft, SessionStatus,
       ActionStatus, Labels, StartLabels, DriveLabels, ExitLabels, CancelLabels,
       CallLabels, ResolveLabels
  <1>43. CASE CancelSet(w)
    BY <1>43, ReturnType DEF CancelSet, SessionStatus, TypeInv, TypeOK
  <1>44. CASE Described(w)
    <2>1. \E l \in {"stream", "record", "command", "exited"} : Goto(w, l)
      BY <1>44 DEF Described
    <2> QED
      BY <1>44, <2>1 DEF Described, At, TypeInv, TypeOK, CallsLeft,
         Labels, StartLabels, DriveLabels, ExitLabels, CancelLabels, CallLabels, ResolveLabels
  <1>45. CASE ToolReturns(w)
    <2>1. \E l \in {"stream", "record", "command", "exited"} : Goto(w, l)
      BY <1>45 DEF ToolReturns
    <2> QED
      BY <1>45, <2>1 DEF ToolReturns, At, TypeInv, TypeOK, CallsLeft,
         Labels, StartLabels, DriveLabels, ExitLabels, CancelLabels, CallLabels, ResolveLabels
  <1>46. CASE Spawn(w)
    <2>1. \E l \in {"stream", "record", "command", "exited"} : Goto(w, l)
      BY <1>46 DEF Spawn
    <2> QED
      BY <1>46, <2>1 DEF Spawn, At, TypeInv, TypeOK, CallsLeft,
         Labels, StartLabels, DriveLabels, ExitLabels, CancelLabels, CallLabels, ResolveLabels
  <1> QED
    BY <1>1, <1>2, <1>3, <1>4, <1>5, <1>6, <1>7, <1>8, <1>9, <1>10,
       <1>11, <1>12, <1>13, <1>14, <1>15, <1>16, <1>17, <1>18, <1>19, <1>20,
       <1>21, <1>22, <1>23, <1>24, <1>25, <1>26, <1>27, <1>28, <1>29, <1>30,
       <1>31, <1>32, <1>33, <1>34, <1>35, <1>36, <1>37, <1>38, <1>39, <1>40,
       <1>41, <1>42, <1>43, <1>44, <1>45, <1>46
       DEF Works, Step, Unbounded

LEMMA CrashType == TypeInv /\ (Crash \/ Restart) => TypeInv'
  <1> SUFFICES ASSUME TypeInv, Crash \/ Restart PROVE TypeInv'
    OBVIOUS
  <1>1. CASE Crash
    <2>1. pc' \in [Workers -> Labels] /\ CallsLeft'
      BY <1>1 DEF Crash, CallsLeft, Labels, CallLabels, ResolveLabels
    <2>2. job' \in [Workers -> Job] /\ probe' \in [Workers -> BOOLEAN]
      BY <1>1, NoJobType DEF Crash
    <2>3. crashes' \in Nat
      BY <1>1 DEF Crash, TypeInv, TypeOK
    <2>4. up' \in BOOLEAN
      BY <1>1 DEF Crash
    <2>5. UNCHANGED <<status, action, transcript, turn, executed>>
      BY <1>1 DEF Crash, row
    <2> QED
      BY <2>1, <2>2, <2>3, <2>4, <2>5 DEF TypeInv, TypeOK
  <1>2. CASE Restart
    BY <1>2 DEF Restart, Reconciled, TypeInv, TypeOK, CallsLeft, SessionStatus
  <1> QED
    BY <1>1, <1>2

LEMMA TypeNext == TypeInv /\ [Next]_vars => TypeInv'
  <1> SUFFICES ASSUME TypeInv, [Next]_vars PROVE TypeInv'
    OBVIOUS
  <1>1. ASSUME NEW w \in Workers, Request(w) PROVE TypeInv'
    BY <1>1, RequestType
  <1>2. ASSUME NEW w \in Workers, Works(w) PROVE TypeInv'
    BY <1>2, StepType
  <1>3. CASE Crash \/ Restart
    BY <1>3, CrashType
  <1>4. CASE UNCHANGED vars
    BY <1>4 DEF vars, TypeInv, TypeOK, CallsLeft
  <1> QED
    BY <1>1, <1>2, <1>3, <1>4 DEF Next, Works

\* The variables keep their types in every deployment: in particular a worker
\* never counts below zero tool calls when it records one.
THEOREM TypeCorrect == Spec => []TypeOK
  <1>1. Spec => []TypeInv
    BY TypeInit, TypeNext, PTL DEF Spec
  <1>2. TypeInv => TypeOK
    BY DEF TypeInv
  <1> QED
    BY <1>1, <1>2, PTL

-----------------------------------------------------------------------------
(* An approved call is started at most once *)

\* A ticket is an approved action whose call has not been started, and no two
\* workers hold the same one.
Tickets ==
    \A w \in Workers : job[w].ticket \in Actions =>
        /\ action[job[w].ticket] = "approved"
        /\ executed[job[w].ticket] = 0
        /\ \A v \in Workers \ {w} : job[v].ticket # job[w].ticket

ApprovalInv == Tickets /\ ApprovedOnce

\* Steps that touch neither the approvals nor the executions, and give no
\* worker a ticket.
Quiet ==
    /\ UNCHANGED <<action, executed>>
    /\ \A w \in Workers : job'[w].ticket \in {job[w].ticket, NoAction}

LEMMA QuietKeeps == TypeInv /\ ApprovalInv /\ Quiet => ApprovalInv'
  BY NoActionAssumption DEF ApprovalInv, Tickets, ApprovedOnce, Quiet

LEMMA ReturnQuiet ==
  ASSUME TypeInv, NEW w \in Workers, Return(w), UNCHANGED <<action, executed>>
  PROVE  Quiet
  BY DEF Quiet, Return, TypeInv, TypeOK, NoJob

LEMMA SameJobQuiet == UNCHANGED <<action, executed, job>> => Quiet
  BY DEF Quiet

LEMMA StepApproval ==
  ASSUME TypeInv, ApprovalInv, NEW w \in Workers, Works(w)
  PROVE  ApprovalInv'
  <1>1. CASE \/ StartRun(w) \/ ContinueRun(w) \/ ResumeRun(w) \/ Prepare(w)
             \/ StreamError(w) \/ StreamCancelled(w) \/ Received(w) \/ Answer(w)
             \/ CompleteRead(w) \/ CompleteAppend(w) \/ CompleteSet(w) \/ ToolCheck(w)
             \/ Decide(w) \/ Execute(w) \/ ExecuteError(w) \/ CommandPoll(w)
             \/ CommandJoin(w) \/ PersistRead(w) \/ PersistAppend(w) \/ CancelPartial(w)
             \/ CancelAppend(w) \/ CancelMark(w) \/ Described(w) \/ ToolReturns(w)
             \/ Spawn(w)
    BY <1>1, SameJobQuiet, QuietKeeps DEF StartRun, ContinueRun, ResumeRun, Prepare,
       StreamError, StreamCancelled, Received,
       Answer, CompleteRead, CompleteAppend, CompleteSet, ToolCheck, Decide, Execute,
       ExecuteError, CommandPoll, CommandJoin, PersistRead, PersistAppend,
       CancelPartial, CancelAppend, CancelMark, Described, ToolReturns, Spawn, row, process
  <1>2. CASE Memory(w) \/ Unwind(w) \/ Pause(w) \/ CancelledResult(w) \/ FailSet(w) \/ CancelSet(w)
    BY <1>2, ReturnQuiet, QuietKeeps DEF Memory, Unwind, Pause, CancelledResult, FailSet,
       CancelSet, row
  <1>3. CASE ResumeRead(w) \/ ResolveSetup(w) \/ Error(w) \/ FailRead(w)
    BY <1>3, ReturnQuiet, SameJobQuiet, QuietKeeps DEF ResumeRead, ResolveSetup, Error,
       FailRead, row
  <1>4. CASE StartMessage(w)
    <2>1. Quiet
      BY <1>4, JobOf DEF StartMessage, Quiet, TypeInv, TypeOK, row
    <2> QED
      BY <2>1, QuietKeeps
  <1>5. CASE ContinueAppend(w)
    <2>1. Quiet
      BY <1>5, JobOf DEF ContinueAppend, Quiet, TypeInv, TypeOK, row
    <2> QED
      BY <2>1, QuietKeeps
  <1>6. CASE RejectMessage(w)
    <2>1. Quiet
      BY <1>6, JobOf DEF RejectMessage, Quiet, TypeInv, TypeOK, row
    <2> QED
      BY <2>1, QuietKeeps
  <1>7. CASE Round(w)
    <2>1. /\ job'[w].ticket = job[w].ticket
          /\ \A v \in Workers \ {w} : job'[v] = job[v]
      BY <1>7, JobOf DEF Round
    <2>2. Quiet
      BY <1>7, <2>1 DEF Round, Quiet, row
    <2> QED
      BY <2>2, QuietKeeps
  <1>8. CASE CommandWait(w)
    <2>1. Quiet
      BY <1>8, JobOf DEF CommandWait, Quiet, TypeInv, TypeOK, row
    <2> QED
      BY <2>1, QuietKeeps
  <1>9. CASE Record(w)
    <2>1. /\ job'[w].ticket = job[w].ticket
          /\ \A v \in Workers \ {w} : job'[v] = job[v]
      BY <1>9, JobOf DEF Record
    <2>2. Quiet
      BY <1>9, <2>1 DEF Record, Quiet, row
    <2> QED
      BY <2>2, QuietKeeps
  <1>10. ASSUME NEW n \in 0..MaxCalls, StreamReply(w, n)
         PROVE  ApprovalInv'
    <2>1. Quiet
      BY <1>10, JobOf DEF StreamReply, Quiet, TypeInv, TypeOK, row
    <2> QED
      BY <2>1, QuietKeeps
  <1>11. ASSUME NEW a \in Actions, Ask(w, a)
         PROVE  ApprovalInv'
    BY <1>11 DEF Ask, ApprovalInv, Tickets, ApprovedOnce, TypeInv, TypeOK
  <1>12. CASE CancelReject(w)
    BY <1>12 DEF CancelReject, ApprovalInv, Tickets, ApprovedOnce, TypeInv, TypeOK
  <1>13. CASE Launch(w)
    <2>1. /\ UNCHANGED action
          /\ job'[w].ticket = NoAction
          /\ \A v \in Workers \ {w} : job'[v] = job[v]
          /\ \A a \in Actions : executed'[a] = IF a = job[w].ticket THEN executed[a] + 1
                                                                    ELSE executed[a]
      BY <1>13, JobOf DEF Launch, row
    <2>2. Tickets'
      BY <2>1, NoActionAssumption DEF ApprovalInv, Tickets
    <2>3. ApprovedOnce'
      BY <2>1 DEF ApprovalInv, Tickets, ApprovedOnce, TypeInv, TypeOK
    <2> QED
      BY <2>2, <2>3 DEF ApprovalInv
  <1>14. CASE ResolveAction(w)
    <2>1. CASE action[job[w].target] # "pending"
      BY <1>14, <2>1, ReturnQuiet, QuietKeeps DEF ResolveAction
    <2>2. CASE action[job[w].target] = "pending"
      <3> DEFINE a == job[w].target
      <3>1. /\ action' = [action EXCEPT ![a] = IF job[w].approved THEN "approved"
                                                                 ELSE "rejected"]
            /\ job'[w].ticket = IF job[w].approved THEN a ELSE NoAction
            /\ \A v \in Workers \ {w} : job'[v] = job[v]
            /\ UNCHANGED executed
        BY <1>14, <2>2, JobOf DEF ResolveAction
      <3>2. a \in Actions => executed[a] = 0
        BY <2>2 DEF ApprovalInv, ApprovedOnce, TypeInv, TypeOK
      <3>3. \A v \in Workers : job[v].ticket \in Actions => job[v].ticket # a
        BY <2>2 DEF ApprovalInv, Tickets
      <3>4. Tickets'
        BY <3>1, <3>2, <3>3, NoActionAssumption DEF ApprovalInv, Tickets, TypeInv, TypeOK
      <3>5. ApprovedOnce'
        BY <3>1, <3>2 DEF ApprovalInv, ApprovedOnce, TypeInv, TypeOK
      <3> QED
        BY <3>4, <3>5 DEF ApprovalInv
    <2> QED
      BY <2>1, <2>2
  <1> QED
    BY <1>1, <1>2, <1>3, <1>4, <1>5, <1>6, <1>7, <1>8, <1>9, <1>10, <1>11, <1>12, <1>13,
       <1>14
       DEF Works, Step, Unbounded

LEMMA RequestApproval ==
  ASSUME TypeInv, ApprovalInv, NEW w \in Workers, Request(w)
  PROVE  ApprovalInv'
  <1>1. Quiet
    BY DEF Request, CreateSession, StartChat, ContinueChat, Cancel, Rollback, Resolve,
       Quiet,
       NoJob, TypeInv, TypeOK, row
  <1> QED
    BY <1>1, QuietKeeps

LEMMA ApprovalNext == TypeInv /\ ApprovalInv /\ [Next]_vars => ApprovalInv'
  <1> SUFFICES ASSUME TypeInv, ApprovalInv, [Next]_vars PROVE ApprovalInv'
    OBVIOUS
  <1>1. ASSUME NEW w \in Workers, Request(w) PROVE ApprovalInv'
    BY <1>1, RequestApproval
  <1>2. ASSUME NEW w \in Workers, Works(w) PROVE ApprovalInv'
    BY <1>2, StepApproval
  <1>3. CASE Crash
    <2>1. Quiet
      BY <1>3 DEF Crash, Quiet, NoJob, row
    <2> QED
      BY <2>1, QuietKeeps
  <1>4. CASE Restart \/ UNCHANGED vars
    BY <1>4, SameJobQuiet, QuietKeeps DEF Restart, vars
  <1> QED
    BY <1>1, <1>2, <1>3, <1>4 DEF Next, Works

\* A call that needs approval runs at most once and only when approved, in both
\* deployments and for any number of concurrent resolves, cancels and crashes.
THEOREM ApprovalSafe == Spec => []ApprovedOnce
  <1>1. Init => ApprovalInv
    BY NoActionAssumption DEF Init, ApprovalInv, Tickets, ApprovedOnce, NoJob
  <1>2. Spec => [](TypeInv /\ ApprovalInv)
    BY <1>1, TypeInit, TypeNext, ApprovalNext, PTL DEF Spec
  <1>3. ApprovalInv => ApprovedOnce
    BY DEF ApprovalInv
  <1> QED
    BY <1>2, <1>3, PTL

-----------------------------------------------------------------------------
(* The stdio server: what the status is while a command is at a label *)

\* Labels of a chat or a resolve.
TurnLabels == StartLabels \cup DriveLabels \cup ExitLabels \cup {"panicked"}

\* One command at most is between two awaits ...
Alone == \A v, w \in Workers : v # w => pc[v] \in AwaitPoints \/ pc[w] \in AwaitPoints

\* ... and one chat or resolve at most is in flight.
OneTurn == \A v, w \in Workers : LongRunning(v) /\ LongRunning(w) => v = w

\* A cancellation has marked the probe and not yet written the row.
Cancelling == \E v \in Workers : pc[v] = "can_set"

\* The statuses a session can have while a command is at a label.
Allows(l) ==
    /\ l = "start_run" => status = "created"
    /\ l \in {"start_msg", "res_setup", "reject_msg", "answer", "complete",
              "complete_append", "complete_set", "decide", "exec", "launch", "blocking",
              "ask", "pause", "fail_read", "fail_set"}
         => status = "running"
    /\ l \in {"cont_append", "cont_run"}
         => status \in {"created", "done", "failed", "cancelled"}
    /\ l \in {"res_cas", "res_resume", "res_run"} => status = "need_user"
    /\ l \in {"prepare", "round", "describe", "stream", "received", "tool", "spawn",
              "command", "waiting", "exited", "killed", "record", "error"}
         => status \in {"running", "cancelled"}
    /\ l \in {"persist_read", "persist_append", "cancelled"} => status = "cancelled"
    /\ l = "memory" => status = "done"
    /\ l \in CancelLabels => status \in {"running", "need_user"}
    /\ l # "panicked"

Fits(w) ==
    /\ pc[w] \in TurnLabels <=> LongRunning(w)
    /\ Allows(pc[w])
    /\ pc[w] = "killed" => status = "cancelled" \/ Cancelling

\* The shared probe is marked only while the row is, or is about to be, Cancelled,
\* and clear before a continued session is Running again.
Probes ==
    /\ \A w \in Workers : probe[w] => status = "cancelled" \/ Cancelling
    /\ \A v, w \in Workers : pc[w] = "cont_run" => ~probe[v]

ServerInv == Alone /\ OneTurn /\ (\A w \in Workers : Fits(w)) /\ Probes

\* On the server the other commands rest while a chat or a resolve takes a step.
LEMMA Elsewhere ==
  ASSUME SharedCore, ServerInv, NEW w \in Workers, Scheduled(w), LongRunning(w)
  PROVE  /\ \A v \in Workers \ {w} : pc[v] = "idle"
         /\ ~Cancelling
         /\ IsCancelled(w) => status = "cancelled"
  <1>1. \A v \in Workers \ {w} : pc[v] \in AwaitPoints /\ pc[v] \notin TurnLabels
    BY DEF Scheduled, ServerInv, OneTurn, Fits
  <1>2. \A v \in Workers \ {w} : pc[v] = "idle"
    BY <1>1 DEF AwaitPoints, TurnLabels, StartLabels, DriveLabels, ExitLabels
  <1>3. pc[w] # "can_set"
    BY DEF ServerInv, Fits, TurnLabels, StartLabels, DriveLabels, ExitLabels
  <1>4. ~Cancelling
    BY <1>2, <1>3 DEF Cancelling
  <1> QED
    BY <1>2, <1>4 DEF IsCancelled, ServerInv, Probes

LEMMA TurnStep ==
  ASSUME SharedCore, ServerInv, NEW w \in Workers, Scheduled(w), LongRunning(w),
         \A v \in Workers \ {w} : pc'[v] = pc[v] /\ job'[v] = job[v],
         Fits(w)', Probes'
  PROVE  ServerInv'
  <1>1. \A v \in Workers \ {w} : pc'[v] = "idle" /\ ~LongRunning(v)'
    <2>1. \A v \in Workers \ {w} : pc[v] = "idle"
      BY Elsewhere
    <2>2. \A v \in Workers \ {w} : ~LongRunning(v)
      BY DEF ServerInv, OneTurn
    <2> QED
      BY <2>1, <2>2 DEF LongRunning
  <1>2. Alone'
    BY <1>1 DEF Alone, AwaitPoints
  <1>3. OneTurn'
    BY <1>1 DEF OneTurn
  <1>4. \A v \in Workers \ {w} : Fits(v)'
    BY <1>1 DEF Fits, Allows, TurnLabels, StartLabels, DriveLabels, ExitLabels, CancelLabels
  <1> QED
    BY <1>2, <1>3, <1>4 DEF ServerInv

\* A step moves the command to a label that fits the status it leaves.
LEMMA MoveTurn ==
  ASSUME TypeInv, SharedCore, ServerInv, NEW w \in Workers, Scheduled(w), LongRunning(w),
         NEW l \in TurnLabels \ {"cont_run", "killed"}, Goto(w, l), Allows(l)',
         job'[w].kind = job[w].kind, \A v \in Workers \ {w} : job'[v] = job[v],
         UNCHANGED probe, \A v \in Workers : probe[v] => status' = "cancelled"
  PROVE  ServerInv'
  <1>1. pc'[w] = l /\ \A v \in Workers \ {w} : pc'[v] = pc[v]
    BY DEF Goto, TypeInv, TypeOK
  <1>2. Fits(w)'
    BY <1>1 DEF Fits, LongRunning, Allows
  <1>3. \A v \in Workers : pc'[v] # "cont_run"
    BY <1>1, Elsewhere
  <1>4. Probes'
    BY <1>3 DEF Probes
  <1> QED
    BY <1>1, <1>2, <1>4, TurnStep

LEMMA GotoTurn ==
  ASSUME TypeInv, SharedCore, ServerInv, NEW w \in Workers, Scheduled(w), LongRunning(w),
         NEW l \in TurnLabels \ {"cont_run", "killed"}, Goto(w, l), Allows(l),
         job'[w].kind = job[w].kind, \A v \in Workers \ {w} : job'[v] = job[v],
         UNCHANGED <<status, probe>>
  PROVE  ServerInv'
  <1>1. \A v \in Workers : probe[v] => status' = "cancelled"
    BY Elsewhere DEF ServerInv, Probes
  <1>2. Allows(l)'
    BY DEF Allows
  <1> QED
    BY <1>1, <1>2, MoveTurn

LEMMA ReturnTurn ==
  ASSUME TypeInv, SharedCore, ServerInv, NEW w \in Workers, Scheduled(w), LongRunning(w),
         Return(w), UNCHANGED probe, \A v \in Workers : probe[v] => status' = "cancelled"
  PROVE  ServerInv'
  <1>1. /\ \A v \in Workers \ {w} : pc'[v] = pc[v] /\ job'[v] = job[v]
        /\ pc'[w] = "idle" /\ job'[w] = NoJob
    BY DEF Return, TypeInv, TypeOK
  <1>2. Fits(w)'
    BY <1>1 DEF Fits, Allows, LongRunning, NoJob, TurnLabels, StartLabels, DriveLabels,
       ExitLabels,
       CancelLabels
  <1>3. Probes'
    BY <1>1, Elsewhere DEF Probes
  <1> QED
    BY <1>1, <1>2, <1>3, TurnStep

LEMMA TurnLabel ==
  ASSUME ServerInv, NEW w \in Workers, pc[w] \in TurnLabels
  PROVE  LongRunning(w) /\ Allows(pc[w])
  BY DEF ServerInv, Fits

\* The thread of a command moves beside the server's.
LEMMA ThreadStep ==
  ASSUME TypeInv, ServerInv, NEW w \in Workers, pc[w] \in {"spawn", "command", "waiting"},
         NEW l \in {"command", "waiting", "exited", "killed"}, Goto(w, l),
         l = "killed" => probe[w],
         job'[w].kind = job[w].kind, \A v \in Workers \ {w} : job'[v] = job[v],
         UNCHANGED <<status, probe>>
  PROVE  ServerInv'
  <1>1. pc'[w] = l /\ \A v \in Workers \ {w} : pc'[v] = pc[v]
    BY DEF Goto, TypeInv, TypeOK
  <1>2. \A v \in Workers : LongRunning(v)' <=> LongRunning(v)
    BY DEF LongRunning
  <1>3. Cancelling' <=> Cancelling
    BY <1>1 DEF Cancelling
  <1>4. pc[w] \in TurnLabels /\ pc'[w] \in TurnLabels
    BY <1>1 DEF TurnLabels, DriveLabels
  <1>5. Alone'
    BY <1>1 DEF ServerInv, Alone, AwaitPoints
  <1>6. OneTurn'
    BY <1>2 DEF ServerInv, OneTurn
  <1>7. Fits(w)'
    BY <1>1, <1>2, <1>3, <1>4 DEF ServerInv, Fits, Probes, Allows, CancelLabels
  <1>8. \A v \in Workers \ {w} : Fits(v)'
    BY <1>1, <1>2, <1>3 DEF ServerInv, Fits, Allows
  <1>9. Probes'
    BY <1>1, <1>3 DEF ServerInv, Probes
  <1> QED
    BY <1>5, <1>6, <1>7, <1>8, <1>9 DEF ServerInv

\* A cancel request, and its steps up to the last one.
LEMMA CancelStep ==
  ASSUME TypeInv, SharedCore, ServerInv, NEW w \in Workers, Scheduled(w),
         pc[w] \in (CancelLabels \cup {"idle"}) \ {"can_set"},
         NEW l \in CancelLabels, Goto(w, l),
         job'[w].kind = "cancel" \/ job'[w] = job[w],
         \A v \in Workers \ {w} : job'[v] = job[v],
         UNCHANGED status, status \in {"running", "need_user"},
         l = "can_set" \/ UNCHANGED probe
  PROVE  ServerInv'
  <1>1. pc'[w] = l /\ \A v \in Workers \ {w} : pc'[v] = pc[v]
    BY DEF Goto, TypeInv, TypeOK
  <1>2. \A v \in Workers \ {w} : pc[v] \in AwaitPoints
    BY DEF Scheduled
  <1>3. ~LongRunning(w) /\ ~LongRunning(w)'
    BY DEF ServerInv, Fits, LongRunning, TurnLabels, StartLabels, DriveLabels, ExitLabels,
       CancelLabels
  <1>4. \A v \in Workers : LongRunning(v)' <=> LongRunning(v)
    BY <1>3 DEF LongRunning
  <1>5. ~Cancelling
    BY <1>2 DEF Cancelling, AwaitPoints
  <1>6. Alone'
    BY <1>1, <1>2 DEF Alone
  <1>7. OneTurn'
    BY <1>4 DEF ServerInv, OneTurn
  <1>8. Fits(w)'
    BY <1>1, <1>3 DEF Fits, Allows, TurnLabels, StartLabels, DriveLabels, ExitLabels,
       CancelLabels
  <1>9. \A v \in Workers \ {w} : Fits(v)'
    BY <1>1, <1>4, <1>5 DEF ServerInv, Fits, Allows
  <1>10. \A v \in Workers : pc'[v] # "cont_run"
    BY <1>1, <1>2 DEF AwaitPoints, CancelLabels
  <1>11. Probes'
    <2>1. CASE l = "can_set"
      BY <1>1, <1>10, <2>1 DEF Probes, Cancelling
    <2>2. CASE UNCHANGED probe
      BY <1>5, <1>10, <2>2 DEF ServerInv, Probes
    <2> QED
      BY <2>1, <2>2
  <1> QED
    BY <1>6, <1>7, <1>8, <1>9, <1>11 DEF ServerInv

LEMMA CancelSetServer ==
  ASSUME TypeInv, SharedCore, ServerInv, NEW w \in Workers, CancelSet(w)
  PROVE  ServerInv'
  <1>1. /\ pc'[w] = "idle" /\ job'[w] = NoJob
        /\ \A v \in Workers \ {w} : pc'[v] = pc[v] /\ job'[v] = job[v]
    BY DEF CancelSet, Return, TypeInv, TypeOK
  <1>2. \A v \in Workers \ {w} : pc[v] \in AwaitPoints
    BY DEF CancelSet, At, Scheduled
  <1>3. status \in {"running", "need_user"} /\ status' = "cancelled" /\ UNCHANGED probe
    BY DEF CancelSet, At, ServerInv, Fits, Allows, CancelLabels
  <1>4. ~LongRunning(w)'
    BY <1>1 DEF LongRunning, NoJob
  <1>5. Alone'
    BY <1>1, <1>2 DEF Alone, AwaitPoints
  <1>6. OneTurn'
    BY <1>1, <1>4 DEF ServerInv, OneTurn, LongRunning
  <1>7. Fits(w)'
    BY <1>1, <1>4 DEF Fits, Allows, TurnLabels, StartLabels, DriveLabels, ExitLabels,
       CancelLabels
  <1>8. \A v \in Workers \ {w} : Fits(v)'
    BY <1>1, <1>2, <1>3 DEF ServerInv, Fits, Allows, AwaitPoints, LongRunning, CancelLabels
  <1>9. Probes'
    BY <1>1, <1>2, <1>3 DEF Probes, AwaitPoints
  <1> QED
    BY <1>5, <1>6, <1>7, <1>8, <1>9 DEF ServerInv

LEMMA StepServer ==
  ASSUME TypeInv, SharedCore, ServerInv, NEW w \in Workers, Works(w)
  PROVE  ServerInv'
  <1> DEFINE Free == TurnLabels \ {"cont_run", "killed"}
             Kept == /\ job'[w].kind = job[w].kind
                     /\ \A v \in Workers \ {w} : job'[v] = job[v]
  <1> USE DEF At
  <1>a. ASSUME NEW l \in TurnLabels, pc[w] = l
        PROVE  Allows(l) /\ LongRunning(w)
    BY <1>a, TurnLabel
  <1>b. ASSUME Scheduled(w), LongRunning(w), NEW l \in Free, Goto(w, l), Allows(l), Kept,
               UNCHANGED <<status, probe>>
        PROVE  ServerInv'
    BY <1>b, GotoTurn
  <1>c. ASSUME Scheduled(w), LongRunning(w), Return(w), UNCHANGED <<status, probe>>
        PROVE  ServerInv'
    <2>1. \A v \in Workers : probe[v] => status' = "cancelled"
      BY <1>c, Elsewhere DEF ServerInv, Probes
    <2> QED
      BY <1>c, <2>1, ReturnTurn
  <1>d. ASSUME Scheduled(w), LongRunning(w)
        PROVE  /\ IsCancelled(w) => status = "cancelled"
               /\ \A v \in Workers : probe[v] => status = "cancelled"
    BY <1>d, Elsewhere DEF ServerInv, Probes
  <1>e. UNCHANGED job => Kept
    OBVIOUS
  <1> HIDE DEF Free, Kept
  <1>1. CASE Prepare(w)
    <2>1. Scheduled(w) /\ LongRunning(w) /\ UNCHANGED <<status, probe, job>>
      BY <1>1, <1>a DEF Prepare, row, TurnLabels, StartLabels, DriveLabels, ExitLabels
    <2>2. PICK l \in Free : Goto(w, l) /\ Allows(l)
      BY <1>1, <2>1, <1>a, <1>d DEF Prepare, Free, Allows, IsCancelled, TurnLabels,
         StartLabels, DriveLabels, ExitLabels, CancelLabels
    <2> QED
      BY <2>1, <2>2, <1>b, <1>e
  <1>2. CASE StreamError(w)
    <2>1. Scheduled(w) /\ LongRunning(w) /\ UNCHANGED <<status, probe, job>>
      BY <1>2, <1>a DEF StreamError, row, TurnLabels, StartLabels, DriveLabels, ExitLabels
    <2>2. PICK l \in Free : Goto(w, l) /\ Allows(l)
      BY <1>2, <2>1, <1>a, <1>d DEF StreamError, Free, Allows, IsCancelled, TurnLabels,
         StartLabels, DriveLabels, ExitLabels, CancelLabels
    <2> QED
      BY <2>1, <2>2, <1>b, <1>e
  <1>3. CASE StreamCancelled(w)
    <2>1. Scheduled(w) /\ LongRunning(w) /\ UNCHANGED <<status, probe, job>>
      BY <1>3, <1>a DEF StreamCancelled, row, TurnLabels, StartLabels, DriveLabels,
         ExitLabels
    <2>2. PICK l \in Free : Goto(w, l) /\ Allows(l)
      BY <1>3, <2>1, <1>a, <1>d DEF StreamCancelled, Free, Allows, IsCancelled, TurnLabels,
         StartLabels, DriveLabels, ExitLabels, CancelLabels
    <2> QED
      BY <2>1, <2>2, <1>b, <1>e
  <1>4. CASE Received(w)
    <2>1. Scheduled(w) /\ LongRunning(w) /\ UNCHANGED <<status, probe, job>>
      BY <1>4, <1>a DEF Received, row, TurnLabels, StartLabels, DriveLabels, ExitLabels
    <2>2. PICK l \in Free : Goto(w, l) /\ Allows(l)
      BY <1>4, <2>1, <1>a, <1>d DEF Received, Free, Allows, IsCancelled, TurnLabels,
         StartLabels, DriveLabels, ExitLabels, CancelLabels
    <2> QED
      BY <2>1, <2>2, <1>b, <1>e
  <1>5. CASE Answer(w)
    <2>1. Scheduled(w) /\ LongRunning(w) /\ UNCHANGED <<status, probe, job>>
      BY <1>5, <1>a DEF Answer, row, TurnLabels, StartLabels, DriveLabels, ExitLabels
    <2>2. PICK l \in Free : Goto(w, l) /\ Allows(l)
      BY <1>5, <2>1, <1>a, <1>d DEF Answer, Free, Allows, IsCancelled, TurnLabels,
         StartLabels, DriveLabels, ExitLabels, CancelLabels
    <2> QED
      BY <2>1, <2>2, <1>b, <1>e
  <1>6. CASE CompleteRead(w)
    <2>1. Scheduled(w) /\ LongRunning(w) /\ UNCHANGED <<status, probe, job>>
      BY <1>6, <1>a DEF CompleteRead, row, TurnLabels, StartLabels, DriveLabels, ExitLabels
    <2>2. PICK l \in Free : Goto(w, l) /\ Allows(l)
      BY <1>6, <2>1, <1>a, <1>d DEF CompleteRead, Free, Allows, IsCancelled, TurnLabels,
         StartLabels, DriveLabels, ExitLabels, CancelLabels
    <2> QED
      BY <2>1, <2>2, <1>b, <1>e
  <1>7. CASE CompleteAppend(w)
    <2>1. Scheduled(w) /\ LongRunning(w) /\ UNCHANGED <<status, probe, job>>
      BY <1>7, <1>a DEF CompleteAppend, row, TurnLabels, StartLabels, DriveLabels,
         ExitLabels
    <2>2. PICK l \in Free : Goto(w, l) /\ Allows(l)
      BY <1>7, <2>1, <1>a, <1>d DEF CompleteAppend, Free, Allows, IsCancelled, TurnLabels,
         StartLabels, DriveLabels, ExitLabels, CancelLabels
    <2> QED
      BY <2>1, <2>2, <1>b, <1>e
  <1>8. CASE ToolCheck(w)
    <2>1. Scheduled(w) /\ LongRunning(w) /\ UNCHANGED <<status, probe, job>>
      BY <1>8, <1>a DEF ToolCheck, row, TurnLabels, StartLabels, DriveLabels, ExitLabels
    <2>2. PICK l \in Free : Goto(w, l) /\ Allows(l)
      BY <1>8, <2>1, <1>a, <1>d DEF ToolCheck, Free, Allows, IsCancelled, TurnLabels,
         StartLabels, DriveLabels, ExitLabels, CancelLabels
    <2> QED
      BY <2>1, <2>2, <1>b, <1>e
  <1>9. CASE Decide(w)
    <2>1. Scheduled(w) /\ LongRunning(w) /\ UNCHANGED <<status, probe, job>>
      BY <1>9, <1>a DEF Decide, row, TurnLabels, StartLabels, DriveLabels, ExitLabels
    <2>2. PICK l \in Free : Goto(w, l) /\ Allows(l)
      BY <1>9, <2>1, <1>a, <1>d DEF Decide, Free, Allows, IsCancelled, TurnLabels,
         StartLabels, DriveLabels, ExitLabels, CancelLabels
    <2> QED
      BY <2>1, <2>2, <1>b, <1>e
  <1>10. CASE Execute(w)
    <2>1. Scheduled(w) /\ LongRunning(w) /\ UNCHANGED <<status, probe, job>>
      BY <1>10, <1>a DEF Execute, row, TurnLabels, StartLabels, DriveLabels, ExitLabels
    <2>2. PICK l \in Free : Goto(w, l) /\ Allows(l)
      BY <1>10, <2>1, <1>a, <1>d DEF Execute, Free, Allows, IsCancelled, TurnLabels,
         StartLabels, DriveLabels, ExitLabels, CancelLabels
    <2> QED
      BY <2>1, <2>2, <1>b, <1>e
  <1>11. CASE ExecuteError(w)
    <2>1. Scheduled(w) /\ LongRunning(w) /\ UNCHANGED <<status, probe, job>>
      BY <1>11, <1>a DEF ExecuteError, row, TurnLabels, StartLabels, DriveLabels, ExitLabels
    <2>2. PICK l \in Free : Goto(w, l) /\ Allows(l)
      BY <1>11, <2>1, <1>a, <1>d DEF ExecuteError, Free, Allows, IsCancelled, TurnLabels,
         StartLabels, DriveLabels, ExitLabels, CancelLabels
    <2> QED
      BY <2>1, <2>2, <1>b, <1>e
  <1>12. CASE PersistRead(w)
    <2>1. Scheduled(w) /\ LongRunning(w) /\ UNCHANGED <<status, probe, job>>
      BY <1>12, <1>a DEF PersistRead, row, TurnLabels, StartLabels, DriveLabels, ExitLabels
    <2>2. PICK l \in Free : Goto(w, l) /\ Allows(l)
      BY <1>12, <2>1, <1>a, <1>d DEF PersistRead, Free, Allows, IsCancelled, TurnLabels,
         StartLabels, DriveLabels, ExitLabels, CancelLabels
    <2> QED
      BY <2>1, <2>2, <1>b, <1>e
  <1>13. CASE PersistAppend(w)
    <2>1. Scheduled(w) /\ LongRunning(w) /\ UNCHANGED <<status, probe, job>>
      BY <1>13, <1>a DEF PersistAppend, row, TurnLabels, StartLabels, DriveLabels,
         ExitLabels
    <2>2. PICK l \in Free : Goto(w, l) /\ Allows(l)
      BY <1>13, <2>1, <1>a, <1>d DEF PersistAppend, Free, Allows, IsCancelled, TurnLabels,
         StartLabels, DriveLabels, ExitLabels, CancelLabels
    <2> QED
      BY <2>1, <2>2, <1>b, <1>e
  <1>14. CASE StartMessage(w)
    <2>1. Scheduled(w) /\ LongRunning(w) /\ UNCHANGED <<status, probe>>
      BY <1>14, <1>a DEF StartMessage, row, TurnLabels, StartLabels, DriveLabels, ExitLabels
    <2>2. Kept
      BY <1>14, JobOf DEF StartMessage, Kept
    <2>3. PICK l \in Free : Goto(w, l) /\ Allows(l)
      BY <1>14, <2>1, <1>a, <1>d DEF StartMessage, Free, Allows, IsCancelled, TurnLabels,
         StartLabels, DriveLabels, ExitLabels, CancelLabels
    <2> QED
      BY <2>1, <2>2, <2>3, <1>b
  <1>15. CASE RejectMessage(w)
    <2>1. Scheduled(w) /\ LongRunning(w) /\ UNCHANGED <<status, probe>>
      BY <1>15, <1>a DEF RejectMessage, row, TurnLabels, StartLabels, DriveLabels,
         ExitLabels
    <2>2. Kept
      BY <1>15, JobOf DEF RejectMessage, Kept
    <2>3. PICK l \in Free : Goto(w, l) /\ Allows(l)
      BY <1>15, <2>1, <1>a, <1>d DEF RejectMessage, Free, Allows, IsCancelled, TurnLabels,
         StartLabels, DriveLabels, ExitLabels, CancelLabels
    <2> QED
      BY <2>1, <2>2, <2>3, <1>b
  <1>16. CASE Round(w)
    <2>1. Scheduled(w) /\ LongRunning(w) /\ UNCHANGED <<status, probe>>
      BY <1>16, <1>a DEF Round, row, TurnLabels, StartLabels, DriveLabels, ExitLabels
    <2>2. Kept
      BY <1>16, JobOf DEF Round, Kept
    <2>3. PICK l \in Free : Goto(w, l) /\ Allows(l)
      BY <1>16, <2>1, <1>a, <1>d DEF Round, Free, Allows, IsCancelled, TurnLabels,
         StartLabels, DriveLabels, ExitLabels, CancelLabels
    <2> QED
      BY <2>1, <2>2, <2>3, <1>b
  <1>17. ASSUME NEW n \in 0..MaxCalls, StreamReply(w, n)
         PROVE  ServerInv'
    <2>1. Scheduled(w) /\ LongRunning(w) /\ UNCHANGED <<status, probe>>
      BY <1>17, <1>a DEF StreamReply, row, TurnLabels, StartLabels, DriveLabels, ExitLabels
    <2>2. Kept
      BY <1>17, JobOf DEF StreamReply, Kept
    <2>3. PICK l \in Free : Goto(w, l) /\ Allows(l)
      BY <1>17, <2>1, <1>a, <1>d DEF StreamReply, Free, Allows, IsCancelled, TurnLabels,
         StartLabels, DriveLabels, ExitLabels, CancelLabels
    <2> QED
      BY <2>1, <2>2, <2>3, <1>b
  <1>18. CASE Launch(w)
    <2>1. Scheduled(w) /\ LongRunning(w) /\ UNCHANGED <<status, probe>>
      BY <1>18, <1>a DEF Launch, row, TurnLabels, StartLabels, DriveLabels, ExitLabels
    <2>2. Kept
      BY <1>18, JobOf DEF Launch, Kept
    <2>3. PICK l \in Free : Goto(w, l) /\ Allows(l)
      BY <1>18, <2>1, <1>a, <1>d DEF Launch, Free, Allows, IsCancelled, TurnLabels,
         StartLabels, DriveLabels, ExitLabels, CancelLabels
    <2> QED
      BY <2>1, <2>2, <2>3, <1>b
  <1>19. CASE Record(w)
    <2>1. Scheduled(w) /\ LongRunning(w) /\ UNCHANGED <<status, probe>>
      BY <1>19, <1>a DEF Record, row, TurnLabels, StartLabels, DriveLabels, ExitLabels
    <2>2. Kept
      BY <1>19, JobOf DEF Record, Kept
    <2>3. PICK l \in Free : Goto(w, l) /\ Allows(l)
      BY <1>19, <2>1, <1>a, <1>d DEF Record, Free, Allows, IsCancelled, TurnLabels,
         StartLabels, DriveLabels, ExitLabels, CancelLabels
    <2> QED
      BY <2>1, <2>2, <2>3, <1>b
  <1>20. CASE Memory(w)
    BY <1>20, <1>a, <1>c DEF Memory, row, TurnLabels, StartLabels, DriveLabels, ExitLabels
  <1>21. CASE CancelledResult(w)
    BY <1>21, <1>a, <1>c DEF CancelledResult, row, TurnLabels, StartLabels, DriveLabels,
       ExitLabels
  <1>22. CASE Unwind(w)
    BY <1>22, <1>a DEF Unwind, Allows, TurnLabels, StartLabels, DriveLabels, ExitLabels
  <1>23. CASE ResumeRead(w)
    <2>1. Scheduled(w) /\ LongRunning(w) /\ UNCHANGED <<status, probe>>
      BY <1>23, <1>a DEF ResumeRead, row, TurnLabels, StartLabels, DriveLabels, ExitLabels
    <2>2. CASE Return(w)
      BY <2>1, <2>2, <1>c
    <2>3. CASE ~Return(w)
      <3>1. PICK l \in Free : Goto(w, l) /\ Allows(l) /\ UNCHANGED job
        BY <1>23, <2>1, <2>3, <1>a, <1>d DEF ResumeRead, Free, Allows, IsCancelled,
           TurnLabels, StartLabels, DriveLabels, ExitLabels, CancelLabels
      <3> QED
        BY <2>1, <3>1, <1>b, <1>e
    <2> QED
      BY <2>2, <2>3
  <1>24. CASE ResolveSetup(w)
    <2>1. Scheduled(w) /\ LongRunning(w) /\ UNCHANGED <<status, probe>>
      BY <1>24, <1>a DEF ResolveSetup, row, TurnLabels, StartLabels, DriveLabels, ExitLabels
    <2>2. CASE Return(w)
      BY <2>1, <2>2, <1>c
    <2>3. CASE ~Return(w)
      <3>1. PICK l \in Free : Goto(w, l) /\ Allows(l) /\ UNCHANGED job
        BY <1>24, <2>1, <2>3, <1>a, <1>d DEF ResolveSetup, Free, Allows, IsCancelled,
           TurnLabels, StartLabels, DriveLabels, ExitLabels, CancelLabels
      <3> QED
        BY <2>1, <3>1, <1>b, <1>e
    <2> QED
      BY <2>2, <2>3
  <1>25. CASE Error(w)
    <2>1. Scheduled(w) /\ LongRunning(w) /\ UNCHANGED <<status, probe>>
      BY <1>25, <1>a DEF Error, row, TurnLabels, StartLabels, DriveLabels, ExitLabels
    <2>2. CASE Return(w)
      BY <2>1, <2>2, <1>c
    <2>3. CASE ~Return(w)
      <3>1. PICK l \in Free : Goto(w, l) /\ Allows(l) /\ UNCHANGED job
        BY <1>25, <2>1, <2>3, <1>a, <1>d DEF Error, Free, Allows, IsCancelled, TurnLabels,
           StartLabels, DriveLabels, ExitLabels, CancelLabels
      <3> QED
        BY <2>1, <3>1, <1>b, <1>e
    <2> QED
      BY <2>2, <2>3
  <1>26. CASE FailRead(w)
    <2>1. Scheduled(w) /\ LongRunning(w) /\ UNCHANGED <<status, probe>>
      BY <1>26, <1>a DEF FailRead, row, TurnLabels, StartLabels, DriveLabels, ExitLabels
    <2>2. CASE Return(w)
      BY <2>1, <2>2, <1>c
    <2>3. CASE ~Return(w)
      <3>1. PICK l \in Free : Goto(w, l) /\ Allows(l) /\ UNCHANGED job
        BY <1>26, <2>1, <2>3, <1>a, <1>d DEF FailRead, Free, Allows, IsCancelled,
           TurnLabels, StartLabels, DriveLabels, ExitLabels, CancelLabels
      <3> QED
        BY <2>1, <3>1, <1>b, <1>e
    <2> QED
      BY <2>2, <2>3
  <1>27. CASE Pause(w)
    <2>1. Scheduled(w) /\ LongRunning(w) /\ Return(w) /\ UNCHANGED probe /\ status = "running"
      BY <1>27, <1>a DEF Pause, Allows, TurnLabels, StartLabels, DriveLabels, ExitLabels
    <2>2. \A v \in Workers : ~probe[v]
      BY <2>1, <1>d
    <2> QED
      BY <2>1, <2>2, ReturnTurn
  <1>28. CASE FailSet(w)
    <2>1. Scheduled(w) /\ LongRunning(w) /\ Return(w) /\ UNCHANGED probe /\ status = "running"
      BY <1>28, <1>a DEF FailSet, Allows, TurnLabels, StartLabels, DriveLabels, ExitLabels
    <2>2. \A v \in Workers : ~probe[v]
      BY <2>1, <1>d
    <2> QED
      BY <2>1, <2>2, ReturnTurn
  <1>29. CASE StartRun(w)
    <2>1. /\ Scheduled(w) /\ LongRunning(w) /\ UNCHANGED <<probe, job>>
          /\ status = "created" /\ Goto(w, "start_msg")
      BY <1>29, <1>a DEF StartRun, Allows, TurnLabels, StartLabels, DriveLabels, ExitLabels
    <2>2. \A v \in Workers : ~probe[v]
      BY <2>1, <1>d
    <2>3. Allows("start_msg")' /\ "start_msg" \in Free
      BY <1>29 DEF StartRun, Allows, Free, TurnLabels, StartLabels, DriveLabels, ExitLabels,
         CancelLabels
    <2> QED
      BY <2>1, <2>2, <2>3, MoveTurn DEF Free
  <1>30. CASE ResumeRun(w)
    <2>1. /\ Scheduled(w) /\ LongRunning(w) /\ UNCHANGED <<probe, job>>
          /\ status = "need_user" /\ Goto(w, "res_setup")
      BY <1>30, <1>a DEF ResumeRun, Allows, TurnLabels, StartLabels, DriveLabels, ExitLabels
    <2>2. \A v \in Workers : ~probe[v]
      BY <2>1, <1>d
    <2>3. Allows("res_setup")' /\ "res_setup" \in Free
      BY <1>30 DEF ResumeRun, Allows, Free, TurnLabels, StartLabels, DriveLabels,
         ExitLabels, CancelLabels
    <2> QED
      BY <2>1, <2>2, <2>3, MoveTurn DEF Free
  <1>31. CASE CompleteSet(w)
    <2>1. /\ Scheduled(w) /\ LongRunning(w) /\ UNCHANGED <<probe, job>>
          /\ status = "running" /\ Goto(w, "memory")
      BY <1>31, <1>a DEF CompleteSet, Allows, TurnLabels, StartLabels, DriveLabels,
         ExitLabels
    <2>2. \A v \in Workers : ~probe[v]
      BY <2>1, <1>d
    <2>3. Allows("memory")' /\ "memory" \in Free
      BY <1>31 DEF CompleteSet, Allows, Free, TurnLabels, StartLabels, DriveLabels,
         ExitLabels, CancelLabels
    <2> QED
      BY <2>1, <2>2, <2>3, MoveTurn DEF Free
  <1>32. CASE ContinueRun(w)
    <2>1. /\ Scheduled(w) /\ LongRunning(w) /\ UNCHANGED <<probe, job>> /\ Goto(w, "prepare")
      BY <1>32, <1>a DEF ContinueRun, Allows, TurnLabels, StartLabels, DriveLabels,
         ExitLabels
    <2>2. \A v \in Workers : ~probe[v]
      BY <1>32 DEF ContinueRun, ServerInv, Probes
    <2>3. Allows("prepare")' /\ "prepare" \in Free
      BY <1>32 DEF ContinueRun, Allows, Free, TurnLabels, StartLabels, DriveLabels,
         ExitLabels, CancelLabels
    <2> QED
      BY <2>1, <2>2, <2>3, MoveTurn DEF Free
  <1>33. CASE ContinueAppend(w)
    <2>1. Scheduled(w) /\ LongRunning(w) /\ UNCHANGED status /\ Goto(w, "cont_run")
      BY <1>33, <1>a DEF ContinueAppend, TurnLabels, StartLabels, DriveLabels, ExitLabels
    <2>2. Kept
      BY <1>33, JobOf DEF ContinueAppend, Kept
    <2>3. pc'[w] = "cont_run" /\ \A v \in Workers \ {w} : pc'[v] = pc[v]
      BY <2>1 DEF Goto, TypeInv, TypeOK
    <2>4. Allows("cont_run")'
      BY <1>33, <2>1, <1>a DEF ContinueAppend, Allows, TurnLabels, StartLabels, DriveLabels,
         ExitLabels, CancelLabels
    <2>5. Fits(w)'
      BY <2>1, <2>2, <2>3, <2>4 DEF Fits, Kept, LongRunning, TurnLabels, StartLabels
    <2>6. Probes'
      BY <1>33 DEF ContinueAppend, SetProbe, SameCore, Probes
    <2> QED
      BY <2>1, <2>2, <2>3, <2>5, <2>6, TurnStep DEF Kept
  <1>34. CASE ResolveAction(w)
    <2>1. Scheduled(w) /\ LongRunning(w) /\ UNCHANGED <<status, probe>>
      BY <1>34, <1>a DEF ResolveAction, TurnLabels, StartLabels, DriveLabels, ExitLabels
    <2>2. CASE Return(w)
      BY <2>1, <2>2, <1>c
    <2>3. CASE ~Return(w)
      <3>1. Kept /\ Goto(w, "res_resume")
        BY <1>34, <2>3, JobOf DEF ResolveAction, Kept
      <3>2. Allows("res_resume") /\ "res_resume" \in Free
        BY <1>34, <1>a DEF ResolveAction, Allows, Free, TurnLabels, StartLabels,
           DriveLabels, ExitLabels, CancelLabels
      <3> QED
        BY <2>1, <3>1, <3>2, <1>b
    <2> QED
      BY <2>2, <2>3
  <1>35. CASE CommandJoin(w)
    <2>1. Scheduled(w) /\ LongRunning(w) /\ UNCHANGED <<status, probe, job>>
      BY <1>35, <1>a DEF CommandJoin, row, TurnLabels, StartLabels, DriveLabels, ExitLabels
    <2>2. ~Cancelling
      BY <2>1, Elsewhere
    <2>3. PICK l \in Free : Goto(w, l) /\ Allows(l)
      BY <1>35, <2>1, <2>2, <1>a DEF CommandJoin, Free, Allows, ServerInv, Fits, TurnLabels,
         StartLabels, DriveLabels, ExitLabels, CancelLabels
    <2> QED
      BY <2>1, <2>3, <1>b, <1>e
  <1>36. CASE CommandPoll(w)
    <2>1. PICK l \in {"waiting", "killed"} : Goto(w, l) /\ (l = "killed" => probe[w])
      BY <1>36 DEF CommandPoll
    <2> QED
      BY <1>36, <2>1, <1>e, ThreadStep DEF CommandPoll, row, Kept
  <1>37. CASE CommandWait(w)
    <2>1. PICK l \in {"exited", "command"} : Goto(w, l)
      BY <1>37 DEF CommandWait
    <2>2. Kept
      BY <1>37, JobOf DEF CommandWait, Kept
    <2> QED
      BY <1>37, <2>1, <2>2, ThreadStep DEF CommandWait, row, Kept
  <1>38. CASE CancelPartial(w) \/ CancelAppend(w) \/ CancelReject(w) \/ CancelMark(w)
    <2>1. /\ pc[w] \in CancelLabels \ {"can_set"} /\ Scheduled(w) /\ UNCHANGED <<status, job>>
          /\ status \in {"running", "need_user"}
      BY <1>38 DEF CancelPartial, CancelAppend, CancelReject, CancelMark, CancelLabels, row,
         ServerInv, Fits, Allows
    <2>2. PICK l \in CancelLabels : Goto(w, l) /\ (l = "can_set" \/ UNCHANGED probe)
      BY <1>38 DEF CancelPartial, CancelAppend, CancelReject, CancelMark, CancelLabels
    <2> QED
      BY <2>1, <2>2, CancelStep
  <1>39. CASE CancelSet(w)
    BY <1>39, CancelSetServer
  <1>40. ASSUME NEW a \in Actions, Ask(w, a)
         PROVE  ServerInv'
    <2>1. Scheduled(w) /\ LongRunning(w) /\ UNCHANGED <<status, probe, job>> /\ Goto(w, "pause")
      BY <1>40, <1>a DEF Ask, TurnLabels, StartLabels, DriveLabels, ExitLabels
    <2>2. Allows("pause") /\ "pause" \in Free
      BY <1>40, <1>a DEF Ask, Allows, Free, TurnLabels, StartLabels, DriveLabels,
         ExitLabels, CancelLabels
    <2> QED
      BY <2>1, <2>2, <1>b, <1>e
  <1>41. CASE Described(w)
    <2>1. Scheduled(w) /\ LongRunning(w) /\ UNCHANGED <<status, probe, job>>
      BY <1>41, <1>a DEF Described, row, TurnLabels, StartLabels, DriveLabels, ExitLabels
    <2>2. PICK l \in Free : Goto(w, l) /\ Allows(l)
      BY <1>41, <2>1, <1>a, <1>d DEF Described, Free, Allows, TurnLabels,
         StartLabels, DriveLabels, ExitLabels, CancelLabels
    <2> QED
      BY <2>1, <2>2, <1>b, <1>e
  <1>42. CASE ToolReturns(w)
    <2>1. Scheduled(w) /\ LongRunning(w) /\ UNCHANGED <<status, probe, job>>
      BY <1>42, <1>a DEF ToolReturns, row, TurnLabels, StartLabels, DriveLabels, ExitLabels
    <2>2. PICK l \in Free : Goto(w, l) /\ Allows(l)
      BY <1>42, <2>1, <1>a, <1>d DEF ToolReturns, Free, Allows, TurnLabels,
         StartLabels, DriveLabels, ExitLabels, CancelLabels
    <2> QED
      BY <2>1, <2>2, <1>b, <1>e
  <1>43. CASE Spawn(w)
    <2>1. PICK l \in {"exited", "command"} : Goto(w, l)
      BY <1>43 DEF Spawn
    <2> QED
      BY <1>43, <2>1, <1>e, ThreadStep DEF Spawn, row, Kept
  <1> QED
    BY <1>1, <1>2, <1>3, <1>4, <1>5, <1>6, <1>7, <1>8, <1>9, <1>10, <1>11, <1>12, <1>13,
       <1>14, <1>15, <1>16, <1>17, <1>18, <1>19, <1>20, <1>21, <1>22, <1>23, <1>24, <1>25,
       <1>26, <1>27, <1>28, <1>29, <1>30, <1>31, <1>32, <1>33, <1>34, <1>35, <1>36, <1>37,
       <1>38, <1>39, <1>40, <1>41, <1>42, <1>43 DEF Works, Step, Unbounded

LEMMA StartTurn ==
  ASSUME TypeInv, SharedCore, ServerInv, NEW w \in Workers, Accepts(w),
         NEW l \in {"start_run", "cont_append", "res_cas"}, Goto(w, l), Allows(l)',
         job'[w].kind \in {"chat", "resolve"}, \A v \in Workers \ {w} : job'[v] = job[v],
         FreshCore(w), status' = status \/ status = "none"
  PROVE  ServerInv'
  <1>1. pc'[w] = l /\ \A v \in Workers \ {w} : pc'[v] = pc[v]
    BY DEF Goto, TypeInv, TypeOK
  <1>2. \A v \in Workers \ {w} : pc[v] \in AwaitPoints /\ pc[v] \notin TurnLabels
    BY DEF Accepts, Scheduled, ServerInv, Fits
  <1>3. \A v \in Workers \ {w} : pc'[v] = "idle" /\ ~LongRunning(v)'
    BY <1>1, <1>2 DEF AwaitPoints, TurnLabels, StartLabels, DriveLabels, ExitLabels,
       Accepts,
       LongRunning
  <1>4. UNCHANGED probe
    BY DEF FreshCore, TypeInv, TypeOK
  <1>5. \A v \in Workers : probe[v] => status = "cancelled"
    BY <1>1, <1>3 DEF ServerInv, Probes, Cancelling, Accepts
  <1>6. Alone' /\ OneTurn'
    BY <1>3 DEF Alone, OneTurn, AwaitPoints
  <1>7. Fits(w)'
    BY <1>1 DEF Fits, LongRunning, TurnLabels, StartLabels
  <1>8. \A v \in Workers \ {w} : Fits(v)'
    BY <1>3 DEF Fits, Allows, TurnLabels, StartLabels, DriveLabels, ExitLabels, CancelLabels
  <1>9. Probes'
    BY <1>1, <1>3, <1>4, <1>5 DEF Probes
  <1> QED
    BY <1>6, <1>7, <1>8, <1>9 DEF ServerInv

LEMMA RequestServer ==
  ASSUME TypeInv, SharedCore, ServerInv, NEW w \in Workers, Request(w)
  PROVE  ServerInv'
  <1>1. CASE CreateSession(w)
    <2>1. \A v \in Workers : pc[v] = "idle" /\ UNCHANGED <<pc, job, probe>>
      BY <1>1 DEF CreateSession, Scheduled, AwaitPoints, ServerInv, Fits, Allows
    <2>2. \A v \in Workers : ~probe[v]
      BY <1>1, <2>1 DEF CreateSession, ServerInv, Probes, Cancelling
    <2>3. \A v \in Workers : Fits(v)'
      BY <2>1 DEF ServerInv, Fits, Allows, CancelLabels, LongRunning
    <2> QED
      BY <2>1, <2>2, <2>3 DEF ServerInv, Alone, OneTurn, Probes, LongRunning
  <1>2. CASE StartChat(w)
    <2>1. Allows("start_run")'
      BY <1>2 DEF StartChat, Allows, CancelLabels
    <2>2. job'[w].kind = "chat" /\ \A v \in Workers \ {w} : job'[v] = job[v]
      BY <1>2 DEF StartChat, NoJob, TypeInv, TypeOK
    <2> QED
      BY <1>2, <2>1, <2>2, StartTurn DEF StartChat
  <1>3. CASE ContinueChat(w)
    <2>1. Allows("cont_append")'
      BY <1>3 DEF ContinueChat, Allows, CancelLabels, row
    <2>2. job'[w].kind = "chat" /\ \A v \in Workers \ {w} : job'[v] = job[v]
      BY <1>3 DEF ContinueChat, NoJob, TypeInv, TypeOK
    <2> QED
      BY <1>3, <2>1, <2>2, StartTurn DEF ContinueChat, row
  <1>4. CASE Cancel(w)
    <2>1. job'[w].kind = "cancel" /\ \A v \in Workers \ {w} : job'[v] = job[v]
      BY <1>4 DEF Cancel, NoJob, TypeInv, TypeOK
    <2>2. UNCHANGED <<status, probe>>
      BY <1>4 DEF Cancel, FreshCore, row, TypeInv, TypeOK
    <2> QED
      BY <1>4, <2>1, <2>2, CancelStep DEF Cancel, CancelLabels
  <1>5. ASSUME NEW a \in Actions, NEW approved \in BOOLEAN, Resolve(w, a, approved)
        PROVE  ServerInv'
    <2>1. Allows("res_cas")'
      BY <1>5 DEF Resolve, Allows, CancelLabels, row
    <2>2. job'[w].kind = "resolve" /\ \A v \in Workers \ {w} : job'[v] = job[v]
      BY <1>5 DEF Resolve, NoJob, TypeInv, TypeOK
    <2> QED
      BY <1>5, <2>1, <2>2, StartTurn DEF Resolve, row
  <1>6. CASE Rollback(w)
    <2>1. UNCHANGED <<status, probe, pc, job>>
      BY <1>6 DEF Rollback
    <2> QED
      BY <2>1 DEF ServerInv, Alone, OneTurn, Fits, Allows, Probes, LongRunning, Cancelling
  <1> QED
    BY <1>1, <1>2, <1>3, <1>4, <1>5, <1>6 DEF Request

LEMMA ServerNext == TypeInv /\ SharedCore /\ ServerInv /\ [Next]_vars => ServerInv'
  <1> SUFFICES ASSUME TypeInv, SharedCore, ServerInv, [Next]_vars PROVE ServerInv'
    OBVIOUS
  <1>1. ASSUME NEW w \in Workers, Request(w) PROVE ServerInv'
    BY <1>1, RequestServer
  <1>2. ASSUME NEW w \in Workers, Works(w) PROVE ServerInv'
    BY <1>2, StepServer
  <1>3. CASE Crash
    BY <1>3 DEF Crash, ServerInv, Alone, OneTurn, Fits, Allows, Probes, LongRunning, NoJob,
       AwaitPoints, TurnLabels, StartLabels, DriveLabels, ExitLabels, CancelLabels
  <1>4. CASE Restart \/ UNCHANGED vars
    <2>1. UNCHANGED <<status, probe, pc, job>>
      BY <1>4 DEF Restart, Reconciled, SharedCore, vars
    <2> QED
      BY <2>1 DEF ServerInv, Alone, OneTurn, Fits, Allows, Probes, LongRunning, Cancelling
  <1> QED
    BY <1>1, <1>2, <1>3, <1>4 DEF Next, Works

LEMMA ServerInit == Init => ServerInv
  BY DEF Init, ServerInv, Alone, OneTurn, Fits, Allows, Probes, LongRunning, NoJob,
     AwaitPoints, TurnLabels, StartLabels, DriveLabels, ExitLabels, CancelLabels

LEMMA ServerInvariant ==
  ASSUME SharedCore
  PROVE  Spec => [](TypeInv /\ ServerInv)
  <1>1. TypeInv /\ ServerInv /\ [Next]_vars => ServerInv'
    BY ServerNext
  <1> QED
    BY <1>1, TypeInit, TypeNext, ServerInit, PTL DEF Spec

\* The server's expect() never panics: complete_chat runs in the same stretch
\* between two awaits as the check before it.
THEOREM ServerNeverPanics ==
  ASSUME Deployment = "stdio"
  PROVE  Spec => []NoPanic
  <1>1. ServerInv => NoPanic
    BY DEF ServerInv, Fits, Allows, NoPanic
  <1>2. SharedCore
    BY DEF SharedCore
  <1> QED
    BY <1>1, <1>2, ServerInvariant, PTL

-----------------------------------------------------------------------------
(* The server keeps SessionContract *)

\* Steps that write the row follow the contract; all others leave it alone.
LEMMA StepContract ==
  ASSUME TypeInv, SharedCore, ServerInv, NEW w \in Workers, Works(w)
  PROVE  [Contract!Next]_status
  <1> DEFINE Writes == \/ StartRun(w) \/ ContinueRun(w) \/ ResumeRun(w) \/ CompleteSet(w)
                       \/ Pause(w) \/ FailSet(w) \/ CancelSet(w)
  <1>1. Allows(pc[w])
    BY DEF ServerInv, Fits
  <1>2. CASE Writes
    BY <1>1, <1>2 DEF StartRun, ContinueRun, ResumeRun, CompleteSet, Pause, FailSet,
       CancelSet,
       At, Allows, CancelLabels, Contract!Next, Contract!Begin, Contract!End, Contract!Answer,
       Contract!Cancel
  <1>3. CASE ~Writes
    <2>1. UNCHANGED status
      BY <1>3 DEF Works, Step, Unbounded, Described, ToolReturns, Spawn, StartMessage,
         ContinueAppend, ResolveAction, ResumeRead,
         ResolveSetup, RejectMessage, Prepare, Round, StreamReply, StreamError,
         StreamCancelled, Received, Answer, CompleteRead, CompleteAppend, Memory, Unwind,
         ToolCheck, Decide, Execute, Launch, ExecuteError, CommandPoll, CommandWait,
         CommandJoin, Record, Ask, PersistRead, PersistAppend, CancelledResult, Error,
         FailRead, CancelPartial, CancelAppend, CancelReject, CancelMark, row
    <2> QED
      BY <2>1
  <1> QED
    BY <1>2, <1>3

LEMMA NextContract ==
  ASSUME TypeInv, SharedCore, ServerInv, [Next]_vars
  PROVE  [Contract!Next]_status
  <1>1. ASSUME NEW w \in Workers, Request(w) PROVE [Contract!Next]_status
    BY <1>1 DEF Request, CreateSession, StartChat, ContinueChat, Cancel, Rollback, Resolve,
       row,
       Contract!Next, Contract!Create
  <1>2. ASSUME NEW w \in Workers, Works(w) PROVE [Contract!Next]_status
    BY <1>2, StepContract
  <1>3. CASE Crash \/ Restart \/ UNCHANGED vars
    BY <1>3 DEF Crash, Restart, Reconciled, SharedCore, row, vars
  <1> QED
    BY <1>1, <1>2, <1>3 DEF Next, Works

\* The server implements SessionContract, whatever cancels, failing tools and
\* crashes do: no stale worker moves the status outside the protocol.
THEOREM ServerKeepsContract ==
  ASSUME Deployment = "stdio"
  PROVE  Spec => KeepsContract
  <1>1. SharedCore
    BY DEF SharedCore
  <1>2. Init => Contract!Init
    BY DEF Init, Contract!Init
  <1>3. TypeInv /\ ServerInv /\ [Next]_vars => [Contract!Next]_status
    BY <1>1, NextContract
  <1> QED
    BY <1>1, <1>2, <1>3, ServerInvariant, PTL DEF Spec, KeepsContract, Contract!Spec

-----------------------------------------------------------------------------
(* The transcript of a session of the server *)

\* Labels at which a command has no turn yet.
Early == {"idle", "start_run", "start_msg", "cont_append"}

\* What a step does to its own command, unless it starts a turn: the turn stays,
\* and a message it appends belongs to it.
SameTurn(w) ==
    /\ turn' = turn
    /\ pc[w] \in Early => pc'[w] \in Early
    /\ pc'[w] # "res_cas"
    /\ pc'[w] = "idle" \/ job'[w].turn = job[w].turn
    /\ \/ transcript' = transcript
       \/ pc[w] \notin Early /\ \E role : Append1(role, job[w].turn)

OthersKept(w) == \A v \in Workers \ {w} : pc'[v] = pc[v] /\ job'[v] = job[v]

LEMMA GotoKeeps ==
  ASSUME TypeInv, NEW w \in Workers, NEW l, Goto(w, l), \A v \in Workers \ {w} : job'[v] = job[v]
  PROVE  OthersKept(w) /\ pc'[w] = l
  BY DEF OthersKept, Goto, TypeInv, TypeOK

LEMMA ReturnKeeps ==
  ASSUME TypeInv, NEW w \in Workers, Return(w)
  PROVE  OthersKept(w) /\ pc'[w] = "idle" /\ job'[w] = NoJob
  BY DEF OthersKept, Return, TypeInv, TypeOK

LEMMA StepShape ==
  ASSUME TypeInv, NEW w \in Workers, Works(w)
  PROVE  OthersKept(w) /\ (StartMessage(w) \/ ContinueAppend(w) \/ SameTurn(w))
  <1> DEFINE Next1 == \E l : Goto(w, l) /\ (pc[w] \in Early => l \in Early) /\ l # "res_cas"
             Silent == UNCHANGED <<transcript, turn>>
             Says == UNCHANGED turn /\ pc[w] \notin Early /\ \E role : Append1(role, job[w].turn)
  <1>a. ASSUME Next1, UNCHANGED job, Silent \/ Says
        PROVE  OthersKept(w) /\ SameTurn(w)
    BY <1>a, GotoKeeps DEF SameTurn
  <1>b. ASSUME Return(w), Silent
        PROVE  OthersKept(w) /\ SameTurn(w)
    BY <1>b, ReturnKeeps DEF SameTurn, Early
  <1>c. ASSUME Next1, job'[w].turn = job[w].turn, \A v \in Workers \ {w} : job'[v] = job[v],
               Silent \/ Says
        PROVE  OthersKept(w) /\ SameTurn(w)
    BY <1>c, GotoKeeps DEF SameTurn
  <1>1. CASE StartMessage(w) \/ ContinueAppend(w)
    BY <1>1, GotoKeeps, JobOf DEF StartMessage, ContinueAppend
  <1>2. CASE \/ StartRun(w) \/ ContinueRun(w) \/ ResumeRun(w) \/ Prepare(w)
             \/ StreamError(w) \/ StreamCancelled(w) \/ Received(w) \/ Answer(w)
             \/ CompleteRead(w) \/ CompleteSet(w) \/ ToolCheck(w)
    <2>1. Next1 /\ UNCHANGED job /\ Silent
      BY <1>2 DEF StartRun, ContinueRun, ResumeRun, Prepare, StreamError, StreamCancelled,
         Received, Answer, CompleteRead, CompleteSet, ToolCheck, At, Early, row
    <2> QED
      BY <2>1, <1>a
  <1>3. CASE \/ Decide(w) \/ Execute(w) \/ ExecuteError(w) \/ CommandPoll(w)
             \/ CommandJoin(w) \/ PersistRead(w) \/ CancelPartial(w) \/ CancelReject(w)
             \/ CancelMark(w) \/ Described(w) \/ ToolReturns(w) \/ Spawn(w)
             \/ (\E a \in Actions : Ask(w, a))
    <2>1. Next1 /\ UNCHANGED job /\ Silent
      BY <1>3 DEF Decide, Execute, ExecuteError, CommandPoll, CommandJoin, PersistRead,
         CancelPartial, CancelReject, CancelMark, Described, ToolReturns, Spawn, Ask, At,
         Early, row
    <2> QED
      BY <2>1, <1>a
  <1>4. CASE CompleteAppend(w) \/ PersistAppend(w) \/ CancelAppend(w)
    <2>1. Next1 /\ UNCHANGED job /\ Says
      BY <1>4 DEF CompleteAppend, PersistAppend, CancelAppend, At, Early
    <2> QED
      BY <2>1, <1>a
  <1>5. CASE Memory(w) \/ Unwind(w) \/ Pause(w) \/ CancelledResult(w) \/ FailSet(w) \/ CancelSet(w)
    BY <1>5, <1>b DEF Memory, Unwind, Pause, CancelledResult, FailSet, CancelSet, row
  <1>6. CASE ResumeRead(w) \/ ResolveSetup(w) \/ Error(w) \/ FailRead(w)
    <2>1. CASE Return(w)
      BY <1>6, <2>1, <1>b DEF ResumeRead, ResolveSetup, Error, FailRead, row
    <2>2. CASE ~Return(w)
      <3>1. Next1 /\ UNCHANGED job /\ Silent
        BY <1>6, <2>2 DEF ResumeRead, ResolveSetup, Error, FailRead, At, Early, row
      <3> QED
        BY <3>1, <1>a
    <2> QED
      BY <2>1, <2>2
  <1>7. CASE ResolveAction(w)
    <2>1. CASE Return(w)
      BY <1>7, <2>1, <1>b DEF ResolveAction
    <2>2. CASE ~Return(w)
      <3>1. Next1 /\ Silent
        BY <1>7, <2>2 DEF ResolveAction, At, Early
      <3>2. job'[w].turn = job[w].turn /\ \A v \in Workers \ {w} : job'[v] = job[v]
        BY <1>7, <2>2, JobOf DEF ResolveAction
      <3> QED
        BY <3>1, <3>2, <1>c
    <2> QED
      BY <2>1, <2>2
  <1>8. CASE RejectMessage(w)
    <2>1. Next1 /\ Says
      BY <1>8 DEF RejectMessage, At, Early, row
    <2>2. job'[w].turn = job[w].turn /\ \A v \in Workers \ {w} : job'[v] = job[v]
      BY <1>8, JobOf DEF RejectMessage
    <2> QED
      BY <2>1, <2>2, <1>c
  <1>9. CASE Round(w)
    <2>1. Next1 /\ Silent
      BY <1>9 DEF Round, At, Early, row
    <2>2. job'[w].turn = job[w].turn /\ \A v \in Workers \ {w} : job'[v] = job[v]
      BY <1>9, JobOf DEF Round
    <2> QED
      BY <2>1, <2>2, <1>c
  <1>10. CASE \E n \in 0..MaxCalls : StreamReply(w, n)
    <2>1. Next1 /\ Silent
      BY <1>10 DEF StreamReply, At, Early, row
    <2>2. job'[w].turn = job[w].turn /\ \A v \in Workers \ {w} : job'[v] = job[v]
      BY <1>10, JobOf DEF StreamReply
    <2> QED
      BY <2>1, <2>2, <1>c
  <1>11. CASE Launch(w)
    <2>1. Next1 /\ Silent
      BY <1>11 DEF Launch, At, Early, row
    <2>2. job'[w].turn = job[w].turn /\ \A v \in Workers \ {w} : job'[v] = job[v]
      BY <1>11, JobOf DEF Launch
    <2> QED
      BY <2>1, <2>2, <1>c
  <1>12. CASE Record(w)
    <2>1. Next1 /\ Says
      BY <1>12 DEF Record, At, Early, row
    <2>2. job'[w].turn = job[w].turn /\ \A v \in Workers \ {w} : job'[v] = job[v]
      BY <1>12, JobOf DEF Record
    <2> QED
      BY <2>1, <2>2, <1>c
  <1>13. CASE CommandWait(w)
    <2>1. Next1 /\ Silent
      BY <1>13 DEF CommandWait, At, Early, row
    <2>2. job'[w].turn = job[w].turn /\ \A v \in Workers \ {w} : job'[v] = job[v]
      BY <1>13, JobOf DEF CommandWait
    <2> QED
      BY <2>1, <2>2, <1>c
  <1> QED
    BY <1>1, <1>2, <1>3, <1>4, <1>5, <1>6, <1>7, <1>8, <1>9, <1>10, <1>11, <1>12, <1>13 DEF
       Works, Step, Unbounded

\* Every command works for the newest turn.
TurnOf == \A w \in Workers : pc[w] \notin Early => job[w].turn = turn

OrderInv ==
    /\ TurnOf
    /\ \A i \in 1..Len(transcript) : transcript[i].turn <= turn
    /\ TranscriptInOrder

LEMMA AppendInOrder ==
  ASSUME TypeInv, OrderInv, NEW role, NEW t \in Nat, t >= turn, Append1(role, t), turn' = t
  PROVE  (\A i \in 1..Len(transcript) : transcript[i].turn <= turn)' /\ TranscriptInOrder'
  <1>1. /\ transcript \in Seq(Message) /\ turn \in Nat
    BY DEF TypeInv, TypeOK
  <1>2. \A i \in 1..Len(transcript) : transcript[i].turn \in Nat
    <2>1. \A i \in 1..Len(transcript) : transcript[i] \in Message
      BY <1>1
    <2>2. \A m \in Message : m.turn \in Nat
      BY DEF Message
    <2> QED
      BY <2>1, <2>2
  <1>3. /\ Len(transcript') = Len(transcript) + 1
        /\ transcript'[Len(transcript) + 1].turn = t
        /\ \A i \in 1..Len(transcript) : transcript'[i] = transcript[i]
    BY <1>1 DEF Append1
  <1>4. \A i \in 1..Len(transcript) : transcript[i].turn <= t
    BY <1>1, <1>2 DEF OrderInv
  <1>5. \A i \in 1..Len(transcript') : i \in 1..Len(transcript) \/ i = Len(transcript) + 1
    BY <1>1, <1>3
  <1>6. \A i \in 1..Len(transcript') : transcript'[i].turn <= t
    BY <1>3, <1>4, <1>5
  <1>7. TranscriptInOrder'
    <2>1. SUFFICES ASSUME NEW i \in 1..Len(transcript'), NEW j \in 1..Len(transcript'), i < j
                   PROVE  transcript'[i].turn <= transcript'[j].turn
      BY DEF TranscriptInOrder
    <2>2. CASE j = Len(transcript) + 1
      BY <1>3, <1>6, <2>2
    <2>3. CASE j \in 1..Len(transcript)
      <3>1. i \in 1..Len(transcript)
        BY <1>1, <2>1, <2>3
      <3> QED
        BY <1>3, <2>1, <2>3, <3>1 DEF OrderInv, TranscriptInOrder
    <2> QED
      BY <1>5, <2>2, <2>3
  <1> QED
    BY <1>6, <1>7

LEMMA StepOrder ==
  ASSUME TypeInv, SharedCore, ServerInv, OrderInv, NEW w \in Workers, Works(w)
  PROVE  OrderInv'
  <1>1. OthersKept(w)
    BY StepShape
  <1>2. turn \in Nat /\ job[w].turn \in Nat
    BY JobOf DEF TypeInv, TypeOK
  <1>3. CASE StartMessage(w) \/ ContinueAppend(w)
    <2>1. /\ pc[w] \in TurnLabels /\ Scheduled(w)
          /\ turn' = turn + 1 /\ Append1("user", turn + 1)
          /\ job' = [job EXCEPT ![w].turn = turn + 1]
      BY <1>3 DEF StartMessage, ContinueAppend, At, TurnLabels, StartLabels
    <2>2. \A v \in Workers \ {w} : pc'[v] = "idle"
      BY <1>1, <2>1, TurnLabel, Elsewhere DEF OthersKept
    <2>3. job'[w].turn = turn'
      BY <2>1, JobOf
    <2>4. TurnOf'
      BY <2>2, <2>3 DEF TurnOf, Early
    <2> QED
      BY <1>2, <2>1, <2>4, AppendInOrder DEF OrderInv
  <1>4. CASE SameTurn(w)
    <2>1. TurnOf'
      BY <1>1, <1>4 DEF OthersKept, SameTurn, OrderInv, TurnOf, Early
    <2>2. CASE transcript' = transcript
      BY <1>4, <2>1, <2>2 DEF SameTurn, OrderInv, TranscriptInOrder
    <2>3. CASE transcript' # transcript
      <3>1. PICK role : Append1(role, job[w].turn)
        BY <1>4, <2>3 DEF SameTurn
      <3>2. job[w].turn = turn /\ turn' = turn
        BY <1>4, <2>3 DEF SameTurn, OrderInv, TurnOf
      <3> QED
        BY <1>2, <2>1, <3>1, <3>2, AppendInOrder DEF OrderInv
    <2> QED
      BY <2>2, <2>3
  <1> QED
    BY <1>3, <1>4, StepShape

LEMMA OrderNext ==
  ASSUME TypeInv, SharedCore, ServerInv, OrderInv, [Next]_vars
  PROVE  OrderInv'
  <1>1. ASSUME NEW w \in Workers, Request(w), ~Rollback(w) PROVE OrderInv'
    <2>1. UNCHANGED <<transcript, turn>>
      BY <1>1 DEF Request, CreateSession, StartChat, ContinueChat, Cancel, Resolve, row
    <2>2. TurnOf'
      <3>1. CASE CreateSession(w)
        BY <3>1 DEF CreateSession, OrderInv, TurnOf
      <3>2. CASE StartChat(w) \/ ContinueChat(w)
        BY <3>2, GotoKeeps DEF StartChat, ContinueChat, row, OrderInv, TurnOf, Early,
           TypeInv,
           TypeOK, Goto
      <3>3. CASE Cancel(w) \/ \E a \in Actions, approved \in BOOLEAN : Resolve(w, a, approved)
        <4>1. /\ \A v \in Workers \ {w} : pc'[v] = pc[v] /\ job'[v] = job[v]
              /\ job'[w].turn = turn
          BY <3>3 DEF Cancel, Resolve, NoJob, Goto, TypeInv, TypeOK
        <4> QED
          BY <2>1, <4>1 DEF OrderInv, TurnOf
      <3> QED
        BY <1>1, <3>1, <3>2, <3>3 DEF Request
    <2> QED
      BY <2>1, <2>2 DEF OrderInv, TranscriptInOrder
  <1>2. ASSUME NEW w \in Workers, Works(w) PROVE OrderInv'
    BY <1>2, StepOrder
  <1>3. CASE Crash
    BY <1>3 DEF Crash, row, OrderInv, TurnOf, Early, TranscriptInOrder
  <1>4. CASE Restart \/ UNCHANGED vars
    BY <1>4 DEF Restart, vars, OrderInv, TurnOf, TranscriptInOrder
  <1>5. ASSUME NEW w \in Workers, Rollback(w) PROVE OrderInv'
    <2>1. turn \in Nat /\ turn' = turn /\ Append1("rollback", turn) /\ UNCHANGED <<pc, job>>
      BY <1>5 DEF Rollback, TypeInv, TypeOK
    <2>2. TurnOf'
      BY <2>1 DEF OrderInv, TurnOf
    <2> QED
      BY <2>1, <2>2, AppendInOrder DEF OrderInv
  <1> QED
    BY <1>1, <1>2, <1>3, <1>4, <1>5 DEF Next, Works

LEMMA OrderInvariant ==
  ASSUME SharedCore
  PROVE  Spec => []OrderInv
  <1>1. Init => OrderInv
    BY DEF Init, OrderInv, TurnOf, Early, TranscriptInOrder
  <1>2. TypeInv /\ ServerInv /\ OrderInv /\ [Next]_vars => OrderInv'
    BY OrderNext
  <1> QED
    BY <1>1, <1>2, ServerInvariant, PTL DEF Spec

\* The server stores the messages of a session in the order of its turns, also
\* the partial answers that a cancel and the cancelled worker both write.
THEOREM ServerKeepsOrder ==
  ASSUME Deployment = "stdio"
  PROVE  Spec => []TranscriptInOrder
  <1>1. OrderInv => TranscriptInOrder
    BY DEF OrderInv
  <1>2. SharedCore
    BY DEF SharedCore
  <1> QED
    BY <1>1, <1>2, OrderInvariant, PTL

-----------------------------------------------------------------------------
(* A finished turn of the server shows its answer *)

DoneInv ==
    /\ status = "done" => Ends("assistant", turn) \/ \E w \in Workers : pc[w] = "cont_run"
    /\ \A w \in Workers : pc[w] = "complete_set" => Ends("assistant", turn)

LEMMA SilentDone ==
  ASSUME DoneInv, NEW w \in Workers, OthersKept(w), UNCHANGED <<status, transcript, turn>>,
         pc[w] # "cont_run", pc'[w] # "complete_set"
  PROVE  DoneInv'
  BY DEF DoneInv, OthersKept, Ends

\* A step of a turn that leaves the session in another state than Done.
LEMMA BusyDone ==
  ASSUME SharedCore, ServerInv, NEW w \in Workers, OthersKept(w), Scheduled(w),
         status' # "done", pc'[w] # "complete_set"
  PROVE  DoneInv'
  <1>1. \A v \in Workers : pc'[v] # "complete_set"
    BY DEF Scheduled, AwaitPoints, OthersKept
  <1> QED
    BY <1>1 DEF DoneInv

LEMMA StepDone ==
  ASSUME TypeInv, SharedCore, ServerInv, OrderInv, DoneInv, NEW w \in Workers, Works(w)
  PROVE  DoneInv'
  <1>a. OthersKept(w)
    BY StepShape
  <1>b. Allows(pc[w])
    BY DEF ServerInv, Fits
  <1>1. CASE \/ Prepare(w) \/ StreamError(w) \/ StreamCancelled(w) \/ Received(w)
             \/ Answer(w) \/ CompleteRead(w) \/ ToolCheck(w) \/ Decide(w)
             \/ Execute(w) \/ ExecuteError(w)
    <2>1. /\ UNCHANGED <<status, transcript, turn>> /\ pc[w] # "cont_run"
          /\ \E l : Goto(w, l) /\ l # "complete_set"
      BY <1>1 DEF Prepare, StreamError, StreamCancelled, Received, Answer,
         CompleteRead, ToolCheck, Decide, Execute, ExecuteError, At, row
    <2>2. pc'[w] # "complete_set"
      BY <2>1 DEF Goto, TypeInv, TypeOK
    <2> QED
      BY <1>a, <2>1, <2>2, SilentDone
  <1>9. CASE CommandPoll(w) \/ CommandJoin(w) \/ Described(w) \/ ToolReturns(w) \/ Spawn(w)
    <2>1. /\ UNCHANGED <<status, transcript, turn>> /\ pc[w] # "cont_run"
          /\ \E l : Goto(w, l) /\ l # "complete_set"
      BY <1>9 DEF CommandPoll, CommandJoin, Described, ToolReturns, Spawn, At, row
    <2>2. pc'[w] # "complete_set"
      BY <2>1 DEF Goto, TypeInv, TypeOK
    <2> QED
      BY <1>a, <2>1, <2>2, SilentDone
  <1>12. CASE PersistRead(w) \/ CancelPartial(w) \/ CancelReject(w) \/ CancelMark(w)
    <2>a. \E l \in {"cancelled", "persist_append", "can_reject", "can_append", "can_mark", "can_set"} :
            Goto(w, l)
      BY <1>12 DEF PersistRead, CancelPartial, CancelReject, CancelMark
    <2>1. /\ UNCHANGED <<status, transcript, turn>> /\ pc[w] # "cont_run"
          /\ \E l : Goto(w, l) /\ l # "complete_set"
      BY <1>12, <2>a DEF PersistRead, CancelPartial, CancelReject, CancelMark, At, row
    <2>2. pc'[w] # "complete_set"
      BY <2>1 DEF Goto, TypeInv, TypeOK
    <2> QED
      BY <1>a, <2>1, <2>2, SilentDone
  <1>11. CASE \E a \in Actions : Ask(w, a)
    <2>1. /\ UNCHANGED <<status, transcript, turn>> /\ pc[w] # "cont_run"
          /\ Goto(w, "pause")
      BY <1>11 DEF Ask, At
    <2>2. pc'[w] # "complete_set"
      BY <2>1 DEF Goto, TypeInv, TypeOK
    <2> QED
      BY <1>a, <2>1, <2>2, SilentDone
  <1>10. CASE \/ Round(w) \/ (\E n \in 0..MaxCalls : StreamReply(w, n)) \/ Launch(w)
             \/ CommandWait(w)
    <2>1. /\ UNCHANGED <<status, transcript, turn>> /\ pc[w] # "cont_run"
          /\ \E l : Goto(w, l) /\ l # "complete_set"
      BY <1>10 DEF Round, StreamReply, Launch, CommandWait, At, row
    <2>2. pc'[w] # "complete_set"
      BY <2>1 DEF Goto, TypeInv, TypeOK
    <2> QED
      BY <1>a, <2>1, <2>2, SilentDone
  <1>2. CASE Memory(w) \/ Unwind(w) \/ CancelledResult(w)
    BY <1>2, <1>a, ReturnKeeps, SilentDone DEF Memory, Unwind, CancelledResult, At, row
  <1>3. CASE ResumeRead(w) \/ ResolveSetup(w) \/ Error(w) \/ FailRead(w) \/ ResolveAction(w)
    <2>1. /\ UNCHANGED <<status, transcript, turn>> /\ pc[w] # "cont_run"
          /\ Return(w) \/ \E l : Goto(w, l) /\ l # "complete_set"
      BY <1>3 DEF ResumeRead, ResolveSetup, Error, FailRead, ResolveAction, At, row
    <2>2. pc'[w] # "complete_set"
      BY <2>1, ReturnKeeps DEF Goto, TypeInv, TypeOK
    <2> QED
      BY <1>a, <2>1, <2>2, SilentDone
  <1>4. CASE \/ StartRun(w) \/ StartMessage(w) \/ ContinueRun(w) \/ ResumeRun(w)
             \/ RejectMessage(w) \/ Record(w) \/ PersistAppend(w) \/ CancelAppend(w)
    <2>1. /\ Scheduled(w) /\ status' # "done" /\ \E l : Goto(w, l) /\ l # "complete_set"
      BY <1>4, <1>b DEF StartRun, StartMessage, ContinueRun, ResumeRun, RejectMessage,
         Record,
         PersistAppend, CancelAppend, At, Allows, CancelLabels
    <2>2. pc'[w] # "complete_set"
      BY <2>1 DEF Goto, TypeInv, TypeOK
    <2> QED
      BY <1>a, <2>1, <2>2, BusyDone
  <1>5. CASE Pause(w) \/ FailSet(w) \/ CancelSet(w)
    BY <1>5, <1>a, ReturnKeeps, BusyDone DEF Pause, FailSet, CancelSet, At
  <1>6. CASE ContinueAppend(w)
    <2>1. Scheduled(w) /\ pc'[w] = "cont_run"
      BY <1>6 DEF ContinueAppend, At, Goto, TypeInv, TypeOK
    <2>2. \A v \in Workers : pc'[v] # "complete_set"
      BY <1>a, <2>1 DEF Scheduled, AwaitPoints, OthersKept
    <2> QED
      BY <2>1, <2>2 DEF DoneInv
  <1>7. CASE CompleteAppend(w)
    <2>1. status' # "done"
      BY <1>7, <1>b DEF CompleteAppend, At, Allows
    <2>2. job[w].turn = turn /\ turn' = turn /\ Append1("assistant", turn)
      BY <1>7 DEF CompleteAppend, At, OrderInv, TurnOf, Early
    <2>3. transcript \in Seq(Message)
      BY DEF TypeInv, TypeOK
    <2>4. Ends("assistant", turn)'
      <3>1. /\ Len(transcript') = Len(transcript) + 1 /\ Len(transcript) \in Nat
            /\ transcript'[Len(transcript) + 1] = [role |-> "assistant", turn |-> turn]
        BY <2>2, <2>3 DEF Append1
      <3>2. Len(transcript) + 1 \in 1..Len(transcript')
        BY <3>1
      <3> QED
        BY <2>2, <3>1, <3>2 DEF Ends
    <2> QED
      BY <2>1, <2>4 DEF DoneInv
  <1>8. CASE CompleteSet(w)
    <2>1. Ends("assistant", turn) /\ UNCHANGED <<transcript, turn>>
      BY <1>8 DEF CompleteSet, At, DoneInv
    <2> QED
      BY <2>1 DEF DoneInv, Ends
  <1> QED
    BY <1>1, <1>2, <1>3, <1>4, <1>5, <1>6, <1>7, <1>8, <1>9, <1>10, <1>11,
       <1>12 DEF Works, Step, Unbounded

LEMMA RequestKeeps ==
  ASSUME TypeInv, NEW w \in Workers, Request(w)
  PROVE  /\ OthersKept(w) /\ UNCHANGED <<action, turn, up>>
         /\ transcript' = transcript \/ (Append1("rollback", turn) /\ UNCHANGED <<status, pc>>)
         /\ pc[w] = "idle"
         /\ pc'[w] \in {"idle", "start_run", "cont_append", "res_cas", "can_partial"}
         /\ status' = status \/ (status = "none" /\ status' = "created")
  <1>1. CASE CreateSession(w)
    BY <1>1 DEF CreateSession, OthersKept, process
  <1>2. CASE StartChat(w)
    <2>1. \A v \in Workers \ {w} : job'[v] = job[v]
      BY <1>2 DEF StartChat, TypeInv, TypeOK
    <2>2. OthersKept(w) /\ pc'[w] = "start_run"
      BY <1>2, <2>1, GotoKeeps DEF StartChat
    <2>3. /\ UNCHANGED <<action, transcript, turn, up>>
          /\ pc[w] = "idle" /\ status = "none" /\ status' = "created"
      BY <1>2 DEF StartChat, Accepts, process
    <2> QED
      BY <2>2, <2>3
  <1>3. CASE ContinueChat(w)
    <2>1. \A v \in Workers \ {w} : job'[v] = job[v]
      BY <1>3 DEF ContinueChat, TypeInv, TypeOK
    <2>2. OthersKept(w) /\ pc'[w] = "cont_append"
      BY <1>3, <2>1, GotoKeeps DEF ContinueChat
    <2>3. UNCHANGED <<action, transcript, turn, up>> /\ pc[w] = "idle" /\ status' = status
      BY <1>3 DEF ContinueChat, Accepts, process, row
    <2> QED
      BY <2>2, <2>3
  <1>4. CASE Cancel(w)
    <2>1. \A v \in Workers \ {w} : job'[v] = job[v]
      BY <1>4 DEF Cancel, TypeInv, TypeOK
    <2>2. OthersKept(w) /\ pc'[w] = "can_partial"
      BY <1>4, <2>1, GotoKeeps DEF Cancel
    <2>3. UNCHANGED <<action, transcript, turn, up>> /\ pc[w] = "idle" /\ status' = status
      BY <1>4 DEF Cancel, process, row
    <2> QED
      BY <2>2, <2>3
  <1>5. CASE \E a \in Actions, approved \in BOOLEAN : Resolve(w, a, approved)
    <2>1. \A v \in Workers \ {w} : job'[v] = job[v]
      BY <1>5 DEF Resolve, TypeInv, TypeOK
    <2>2. OthersKept(w) /\ pc'[w] = "res_cas"
      BY <1>5, <2>1, GotoKeeps DEF Resolve
    <2>3. UNCHANGED <<action, transcript, turn, up>> /\ pc[w] = "idle" /\ status' = status
      BY <1>5 DEF Resolve, Accepts, process, row
    <2> QED
      BY <2>2, <2>3
  <1>6. CASE Rollback(w)
    BY <1>6 DEF Rollback, Accepts, OthersKept, process
  <1> QED
    BY <1>1, <1>2, <1>3, <1>4, <1>5, <1>6 DEF Request

\* The record of a rollback comes after the answer.
LEMMA RollbackDone ==
  ASSUME TypeInv, NEW role, NEW t, Ends(role, t), Append1("rollback", turn)
  PROVE  \E k \in 1..Len(transcript') :
           /\ transcript'[k] = [role |-> role, turn |-> t]
           /\ \A j \in k+1..Len(transcript') : transcript'[j].role = "rollback"
  <1>1. PICK k \in 1..Len(transcript) :
          /\ transcript[k] = [role |-> role, turn |-> t]
          /\ \A j \in k+1..Len(transcript) : transcript[j].role = "rollback"
    BY DEF Ends
  <1>2. transcript \in Seq(Message) /\ Len(transcript) \in Nat
    BY DEF TypeInv, TypeOK
  <1>3. /\ Len(transcript') = Len(transcript) + 1
        /\ transcript'[Len(transcript) + 1].role = "rollback"
        /\ \A i \in 1..Len(transcript) : transcript'[i] = transcript[i]
    BY <1>2 DEF Append1
  <1>4. \A j \in k+1..Len(transcript') : j = Len(transcript) + 1 \/ j \in k+1..Len(transcript)
    BY <1>2, <1>3
  <1>5. \A j \in k+1..Len(transcript) : j \in 1..Len(transcript)
    BY <1>2
  <1>6. \A j \in k+1..Len(transcript') : transcript'[j].role = "rollback"
    BY <1>1, <1>3, <1>4, <1>5
  <1>7. k \in 1..Len(transcript') /\ transcript'[k] = [role |-> role, turn |-> t]
    BY <1>1, <1>2, <1>3
  <1> QED
    BY <1>6, <1>7

LEMMA DoneNext ==
  ASSUME TypeInv, SharedCore, ServerInv, OrderInv, DoneInv, MaxCrashes = 0, [Next]_vars
  PROVE  DoneInv'
  <1>1. ASSUME NEW w \in Workers, Request(w) PROVE DoneInv'
    <2>1. CASE status' = status /\ transcript' = transcript
      BY <1>1, <2>1, RequestKeeps, SilentDone
    <2>2. CASE status' = "created" /\ transcript' = transcript
      BY <1>1, <2>2, RequestKeeps DEF DoneInv, OthersKept, Ends
    <2>3. CASE transcript' # transcript
      <3>1. Append1("rollback", turn) /\ UNCHANGED <<status, pc, turn>>
        BY <1>1, <2>3, RequestKeeps
      <3>2. Ends("assistant", turn) => Ends("assistant", turn)'
        BY <3>1, RollbackDone DEF Ends
      <3> QED
        BY <3>1, <3>2 DEF DoneInv
    <2> QED
      BY <1>1, <2>1, <2>2, <2>3, RequestKeeps
  <1>2. ASSUME NEW w \in Workers, Works(w) PROVE DoneInv'
    BY <1>2, StepDone
  <1>3. ~Crash
    BY DEF Crash, TypeInv, TypeOK
  <1>4. CASE Restart \/ UNCHANGED vars
    BY <1>4 DEF Restart, Reconciled, SharedCore, vars, DoneInv, Ends
  <1> QED
    BY <1>1, <1>2, <1>3, <1>4 DEF Next, Works

\* A session the server calls Done ends with the answer to its newest message,
\* unless the process was killed between the message and the turn.
THEOREM ServerAnswersDone ==
  ASSUME Deployment = "stdio", MaxCrashes = 0
  PROVE  Spec => []DoneIsAnswered
  <1>1. SharedCore
    BY DEF SharedCore
  <1>2. Init => DoneInv
    BY DEF Init, DoneInv
  <1>3. TypeInv /\ ServerInv /\ OrderInv /\ DoneInv /\ [Next]_vars => DoneInv'
    BY <1>1, DoneNext
  <1>4. DoneInv => DoneIsAnswered
    BY DEF DoneInv, DoneIsAnswered, AtRest, AwaitPoints
  <1> QED
    BY <1>1, <1>2, <1>3, <1>4, ServerInvariant, OrderInvariant, PTL DEF Spec

-----------------------------------------------------------------------------
(* A cancel stops the tools of the server *)

\* Labels of the thread that runs a command.
ThreadLabels == {"spawn", "command", "waiting"}

\* A cancel has marked the probe before it writes the row, and nothing clears the probe
\* while a command is running.
Marked ==
    /\ Cancelling => \A w \in Workers : probe[w]
    /\ \A w \in Workers : pc[w] \in ThreadLabels /\ status = "cancelled" => probe[w]

\* The steps that matter to the probe, and all the others.
Unmarking(w) ==
    /\ probe' = probe
    /\ status' = "cancelled" => status = "cancelled"
    /\ pc'[w] # "can_set"
    /\ pc'[w] \in ThreadLabels => pc[w] \in ThreadLabels

LEMMA StepMarks ==
  ASSUME TypeInv, NEW w \in Workers, Works(w)
  PROVE  \/ CancelMark(w) \/ CancelSet(w) \/ ContinueAppend(w) \/ Launch(w)
         \/ Unmarking(w)
  <1> DEFINE Out == {"can_set"} \cup ThreadLabels
  <1>a. ASSUME NEW l, Goto(w, l), l \notin Out, probe' = probe, status' # "cancelled" \/ status' = status
        PROVE  Unmarking(w)
    BY <1>a DEF Unmarking, Goto, TypeInv, TypeOK
  <1>b. ASSUME Return(w), probe' = probe, status' # "cancelled" \/ status' = status
        PROVE  Unmarking(w)
    BY <1>b DEF Unmarking, Return, TypeInv, TypeOK, ThreadLabels
  <1> HIDE DEF Out
  <1>1. CASE \/ StartRun(w) \/ StartMessage(w) \/ ContinueRun(w) \/ ResumeRun(w)
             \/ RejectMessage(w) \/ Prepare(w) \/ Round(w) \/ StreamError(w)
             \/ StreamCancelled(w) \/ Received(w) \/ Answer(w) \/ CompleteRead(w)
    <2>1. PICK l : Goto(w, l) /\ l \notin Out
      BY <1>1 DEF StartRun, StartMessage, ContinueRun, ResumeRun, RejectMessage, Prepare,
         Round, StreamError, StreamCancelled, Received, Answer, CompleteRead, Out,
         ThreadLabels
    <2>2. probe' = probe /\ (status' # "cancelled" \/ status' = status)
      BY <1>1 DEF StartRun, StartMessage, ContinueRun, ResumeRun, RejectMessage, Prepare,
         Round, StreamError, StreamCancelled, Received, Answer, CompleteRead, row
    <2> QED
      BY <2>1, <2>2, <1>a
  <1>2. CASE \/ CompleteAppend(w) \/ CompleteSet(w) \/ ToolCheck(w) \/ Decide(w) \/ Execute(w)
             \/ ExecuteError(w) \/ Described(w) \/ ToolReturns(w) \/ CommandJoin(w)
             \/ Record(w) \/ PersistAppend(w) \/ CancelAppend(w) \/ CancelReject(w)
             \/ (\E n \in 0..MaxCalls : StreamReply(w, n)) \/ (\E a \in Actions : Ask(w, a))
    <2>1. PICK l : Goto(w, l) /\ l \notin Out
      BY <1>2 DEF CompleteAppend, CompleteSet, ToolCheck, Decide, Execute, ExecuteError,
         Described, ToolReturns, CommandJoin, Record, PersistAppend, CancelAppend,
         CancelReject, StreamReply, Ask, Out, ThreadLabels
    <2>2. probe' = probe /\ (status' # "cancelled" \/ status' = status)
      BY <1>2 DEF CompleteAppend, CompleteSet, ToolCheck, Decide, Execute, ExecuteError,
         Described, ToolReturns, CommandJoin, Record, PersistAppend, CancelAppend,
         CancelReject, StreamReply, Ask, row
    <2> QED
      BY <2>1, <2>2, <1>a
  <1>3. CASE PersistRead(w) \/ CancelPartial(w)
    <2>1. PICK l \in {"cancelled", "persist_append", "can_reject", "can_append"} : Goto(w, l)
      BY <1>3 DEF PersistRead, CancelPartial
    <2>2. probe' = probe /\ status' = status
      BY <1>3 DEF PersistRead, CancelPartial, row
    <2> QED
      BY <2>1, <2>2, <1>a DEF Out, ThreadLabels
  <1>4. CASE Memory(w) \/ Unwind(w) \/ Pause(w) \/ CancelledResult(w) \/ FailSet(w)
    BY <1>4, <1>b DEF Memory, Unwind, Pause, CancelledResult, FailSet, row
  <1>5. CASE ResumeRead(w) \/ ResolveSetup(w) \/ Error(w) \/ FailRead(w) \/ ResolveAction(w)
    <2>1. Return(w) \/ \E l : Goto(w, l) /\ l \notin Out
      BY <1>5 DEF ResumeRead, ResolveSetup, Error, FailRead, ResolveAction, Out,
         ThreadLabels
    <2>2. probe' = probe /\ status' = status
      BY <1>5 DEF ResumeRead, ResolveSetup, Error, FailRead, ResolveAction, row
    <2> QED
      BY <2>1, <2>2, <1>a, <1>b
  <1>6. CASE Spawn(w) \/ CommandPoll(w) \/ CommandWait(w)
    <2>1. PICK l \in {"command", "waiting", "exited", "killed"} : Goto(w, l)
      BY <1>6 DEF Spawn, CommandPoll, CommandWait
    <2>2. probe' = probe /\ status' = status /\ pc[w] \in ThreadLabels
      BY <1>6 DEF Spawn, CommandPoll, CommandWait, row, ThreadLabels
    <2> QED
      BY <2>1, <2>2 DEF Unmarking, Goto, TypeInv, TypeOK
  <1> QED
    BY <1>1, <1>2, <1>3, <1>4, <1>5, <1>6 DEF Works, Step, Unbounded

LEMMA MarkedNext ==
  ASSUME TypeInv, SharedCore, ServerInv, Marked, [Next]_vars
  PROVE  Marked'
  <1>1. ASSUME NEW w \in Workers, Works(w) PROVE Marked'
    <2>a. \A v \in Workers \ {w} : pc'[v] = pc[v]
      BY <1>1, StepShape DEF OthersKept
    <2>1. CASE CancelMark(w)
      BY <2>1 DEF CancelMark, SetProbe, SameCore, Marked
    <2>2. CASE CancelSet(w)
      <3>1. \A v \in Workers : probe'[v]
        BY <2>2 DEF CancelSet, At, Marked, Cancelling
      <3> QED
        BY <3>1 DEF Marked
    <2>3. CASE ContinueAppend(w)
      <3>1. pc[w] \in TurnLabels /\ Scheduled(w)
        BY <2>3 DEF ContinueAppend, At, TurnLabels, StartLabels
      <3>2. \A v \in Workers \ {w} : pc'[v] = "idle"
        BY <2>a, <3>1, TurnLabel, Elsewhere
      <3>3. pc'[w] = "cont_run"
        BY <2>3 DEF ContinueAppend, Goto, TypeInv, TypeOK
      <3> QED
        BY <3>2, <3>3 DEF Marked, Cancelling, ThreadLabels
    <2>4. CASE Launch(w)
      <3>1. Scheduled(w) /\ pc[w] = "launch" /\ status = "running" /\ status' = status
        BY <2>4 DEF Launch, At, ServerInv, Fits, Allows, row
      <3>2. LongRunning(w)
        BY <3>1, TurnLabel DEF TurnLabels, DriveLabels
      <3>3. pc'[w] # "can_set"
        BY <2>4 DEF Launch, Goto, TypeInv, TypeOK
      <3> QED
        BY <2>a, <3>1, <3>2, <3>3, Elsewhere DEF Marked, Cancelling
    <2>5. CASE Unmarking(w)
      BY <2>a, <2>5 DEF Unmarking, Marked, Cancelling
    <2> QED
      BY <1>1, <2>1, <2>2, <2>3, <2>4, <2>5, StepMarks
  <1>2. ASSUME NEW w \in Workers, Request(w) PROVE Marked'
    <2>1. probe' = probe
      <3>1. probe' = probe \/ FreshCore(w)
        BY <1>2 DEF Request, CreateSession, StartChat, ContinueChat, Cancel, Rollback,
           Resolve
      <3> QED
        BY <3>1 DEF FreshCore, TypeInv, TypeOK
    <2>2. /\ \A v \in Workers \ {w} : pc'[v] = pc[v]
          /\ pc'[w] \in {"idle", "start_run", "cont_append", "res_cas", "can_partial"}
          /\ status' = status \/ status' = "created"
      BY <1>2, RequestKeeps DEF OthersKept
    <2> QED
      BY <2>1, <2>2 DEF Marked, Cancelling, ThreadLabels
  <1>3. CASE Crash
    BY <1>3 DEF Crash, Marked, Cancelling, ThreadLabels
  <1>4. CASE Restart \/ UNCHANGED vars
    <2>1. UNCHANGED <<status, probe, pc>>
      BY <1>4 DEF Restart, Reconciled, SharedCore, vars
    <2> QED
      BY <2>1 DEF Marked, Cancelling
  <1> QED
    BY <1>1, <1>2, <1>3, <1>4 DEF Next, Works

\* A child is waited for only after a look at a clear probe.
LEMMA PollLooks ==
  ASSUME TypeInv, [Next]_vars, NEW w \in Workers, pc[w] = "command", pc'[w] = "waiting"
  PROVE  ~probe[w]
  <1>1. ~(Crash \/ Restart \/ UNCHANGED vars)
    BY DEF Crash, Restart, vars
  <1>2. PICK v \in Workers : Request(v) \/ Works(v)
    BY <1>1 DEF Next, Works
  <1>3. v = w
    BY <1>2, RequestKeeps, StepShape DEF OthersKept
  <1>4. Works(w)
    BY <1>2, <1>3, RequestKeeps
  <1>5. ~Unbounded(w)
    BY DEF Unbounded, ResolveSetup, Prepare, Described, ToolReturns, Memory, At
  <1>6. CommandPoll(w)
    BY <1>4, <1>5 DEF Works, Step, StartRun, StartMessage, ContinueAppend, ContinueRun,
       ResolveAction, ResumeRead, ResumeRun, RejectMessage, Round, StreamReply, StreamError,
       StreamCancelled, Received, Answer, CompleteRead, CompleteAppend, CompleteSet, Unwind,
       ToolCheck, Decide, Execute, Launch, Spawn, ExecuteError, CommandWait, CommandJoin,
       Record, Ask, Pause, PersistRead, PersistAppend, CancelledResult, Error, FailRead,
       FailSet, CancelPartial, CancelAppend, CancelReject, CancelMark, CancelSet, At
  <1> QED
    BY <1>6 DEF CommandPoll, Goto, TypeInv, TypeOK

\* The server hands over a call only in a Running session, and a command whose hand-over
\* a cancel has overtaken is ended by the first look at its child: the cancel marks the
\* shared probe before it writes the row, and only a new turn clears it.
THEOREM ServerStopsTools ==
  ASSUME Deployment = "stdio"
  PROVE  Spec => CancelStopsTools
  <1>1. SharedCore
    BY DEF SharedCore
  <1>2. Init => Marked
    BY DEF Init, Marked, Cancelling, ThreadLabels
  <1>3. TypeInv /\ ServerInv /\ Marked /\ [Next]_vars => Marked'
    BY <1>1, MarkedNext
  <1>4. ASSUME TypeInv, ServerInv, Marked, [Next]_vars, NEW w \in Workers,
               Launches(w) \/ (pc[w] = "command" /\ pc'[w] = "waiting")
        PROVE  status # "cancelled"
    <2>1. CASE Launches(w)
      BY <1>4, <2>1 DEF ServerInv, Fits, Allows, Launches
    <2>2. CASE pc[w] = "command" /\ pc'[w] = "waiting"
      <3>1. ~probe[w]
        BY <1>1, <1>4, <2>2, PollLooks
      <3> QED
        BY <1>4, <2>2, <3>1 DEF Marked, ThreadLabels
    <2> QED
      BY <1>4, <2>1, <2>2
  <1>5. TypeInv /\ ServerInv /\ Marked /\ [Next]_vars
          => [\A w \in Workers : Launches(w) \/ (pc[w] = "command" /\ pc'[w] = "waiting")
                => status # "cancelled"]_vars
    BY <1>4
  <1> QED
    BY <1>1, <1>2, <1>3, <1>5, ServerInvariant, PTL DEF Spec, CancelStopsTools

-----------------------------------------------------------------------------
(* The approval queue of the server *)

\* Labels at which the approval queue was emptied and the row is not written yet.
Emptied == {"res_resume", "res_run", "can_mark", "can_set"}

OnePending == \E a \in Actions : Pending = {a}

PendingInv ==
    /\ status = "need_user" => OnePending \/ \E w \in Workers : pc[w] \in Emptied
    /\ Pending # {} => status = "need_user" \/ \E w \in Workers : pc[w] = "pause"
    /\ \A w \in Workers : pc[w] = "pause" => OnePending
    /\ \A w \in Workers : pc[w] \in Emptied => Pending = {}

\* A resolve names an action.
Targets == \A w \in Workers : pc[w] = "res_cas" => job[w].target \in Actions

LEMMA TargetsNext ==
  ASSUME TypeInv, Targets, [Next]_vars
  PROVE  Targets'
  <1>1. ASSUME NEW w \in Workers, Request(w) PROVE Targets'
    <2>1. OthersKept(w)
      BY <1>1, RequestKeeps
    <2>2. pc'[w] = "res_cas" => job'[w].target \in Actions
      <3>1. CASE CreateSession(w)
        BY <3>1 DEF CreateSession
      <3>2. CASE StartChat(w) \/ ContinueChat(w) \/ Cancel(w)
        BY <3>2 DEF StartChat, ContinueChat, Cancel, Goto, TypeInv, TypeOK
      <3>3. CASE \E a \in Actions, approved \in BOOLEAN : Resolve(w, a, approved)
        BY <3>3 DEF Resolve, NoJob, TypeInv, TypeOK
      <3>4. CASE Rollback(w)
        BY <3>4 DEF Rollback, Accepts
      <3> QED
        BY <1>1, <3>1, <3>2, <3>3, <3>4 DEF Request
    <2> QED
      BY <2>1, <2>2 DEF Targets, OthersKept
  <1>2. ASSUME NEW w \in Workers, Works(w) PROVE Targets'
    <2>1. OthersKept(w)
      BY <1>2, StepShape
    <2>2. pc'[w] # "res_cas"
      BY <1>2, StepShape DEF SameTurn, StartMessage, ContinueAppend, Goto, TypeInv, TypeOK
    <2> QED
      BY <2>1, <2>2 DEF Targets, OthersKept
  <1>3. CASE Crash \/ Restart \/ UNCHANGED vars
    BY <1>3 DEF Crash, Restart, vars, Targets
  <1> QED
    BY <1>1, <1>2, <1>3 DEF Next, Works

LEMMA SilentPending ==
  ASSUME PendingInv, NEW w \in Workers, OthersKept(w), UNCHANGED <<status, action>>,
         pc[w] \notin Emptied \cup {"pause"}, pc'[w] \notin Emptied \cup {"pause"}
  PROVE  PendingInv'
  <1>1. Pending' = Pending
    BY DEF Pending
  <1> QED
    BY <1>1 DEF PendingInv, OthersKept, OnePending

\* No action is pending before and after the step.
LEMMA NonePending ==
  ASSUME SharedCore, ServerInv, NEW w \in Workers, Scheduled(w), OthersKept(w),
         Pending' = {}, pc'[w] # "pause", status' = "need_user" => pc'[w] \in Emptied
  PROVE  PendingInv'
  <1>1. \A v \in Workers : pc'[v] # "pause"
    BY DEF Scheduled, AwaitPoints, OthersKept
  <1> QED
    BY <1>1 DEF PendingInv

\* A running or resting session has no pending action.
LEMMA QuietQueue ==
  ASSUME SharedCore, ServerInv, PendingInv, NEW w \in Workers, Scheduled(w), pc[w] # "pause",
         status # "need_user"
  PROVE  Pending = {}
  BY DEF PendingInv, Scheduled, AwaitPoints

LEMMA StepPending ==
  ASSUME TypeInv, SharedCore, ServerInv, Targets, PendingInv, ~ToolingMayFail,
         NEW w \in Workers, Works(w)
  PROVE  PendingInv'
  <1>a. OthersKept(w)
    BY StepShape
  <1>b. Allows(pc[w])
    BY DEF ServerInv, Fits
  <1>c. UNCHANGED action => Pending' = Pending
    BY DEF Pending
  <1> DEFINE Other == Emptied \cup {"pause"}
  <1>1. CASE StartMessage(w) \/ ContinueAppend(w) \/ RejectMessage(w) \/ Prepare(w)
    <2>a. \E l \in {"prepare", "cont_run", "round", "error"} : Goto(w, l)
      BY <1>1 DEF StartMessage, ContinueAppend, RejectMessage, Prepare
    <2>1. /\ UNCHANGED <<status, action>> /\ pc[w] \notin Other
          /\ \E l : Goto(w, l) /\ l \notin Other
      BY <1>1, <2>a DEF StartMessage, ContinueAppend, RejectMessage, Prepare, At, row,
         Emptied
    <2>2. pc'[w] \notin Other
      BY <2>1 DEF Goto, TypeInv, TypeOK
    <2> QED
      BY <1>a, <2>1, <2>2, SilentPending
  <1>15. CASE Round(w) \/ (\E n \in 0..MaxCalls : StreamReply(w, n)) \/ StreamError(w)
    <2>1. /\ UNCHANGED <<status, action>> /\ pc[w] \notin Other
          /\ \E l : Goto(w, l) /\ l \notin Other
      BY <1>15 DEF Round, StreamReply, StreamError, At, row, Emptied
    <2>2. pc'[w] \notin Other
      BY <2>1 DEF Goto, TypeInv, TypeOK
    <2> QED
      BY <1>a, <2>1, <2>2, SilentPending
  <1>16. CASE StreamCancelled(w) \/ Received(w) \/ Answer(w)
    <2>1. /\ UNCHANGED <<status, action>> /\ pc[w] \notin Other
          /\ \E l : Goto(w, l) /\ l \notin Other
      BY <1>16 DEF StreamCancelled, Received, Answer, At, row, Emptied
    <2>2. pc'[w] \notin Other
      BY <2>1 DEF Goto, TypeInv, TypeOK
    <2> QED
      BY <1>a, <2>1, <2>2, SilentPending
  <1>13. CASE \/ CompleteRead(w) \/ CompleteAppend(w) \/ ToolCheck(w) \/ Decide(w)
             \/ Execute(w) \/ Launch(w) \/ Described(w) \/ ToolReturns(w) \/ Spawn(w)
             \/ CommandPoll(w)
    <2>1. /\ UNCHANGED <<status, action>> /\ pc[w] \notin Other
          /\ \E l : Goto(w, l) /\ l \notin Other
      BY <1>13 DEF CompleteRead, CompleteAppend, ToolCheck, Decide, Execute, Launch,
         Described, ToolReturns, Spawn, CommandPoll, At, row, Emptied
    <2>2. pc'[w] \notin Other
      BY <2>1 DEF Goto, TypeInv, TypeOK
    <2> QED
      BY <1>a, <2>1, <2>2, SilentPending
  <1>14. CASE \/ CommandWait(w) \/ CommandJoin(w) \/ Record(w) \/ PersistRead(w)
             \/ PersistAppend(w) \/ CancelPartial(w) \/ CancelAppend(w)
    <2>1. /\ UNCHANGED <<status, action>> /\ pc[w] \notin Other
          /\ \E l : Goto(w, l) /\ l \notin Other
      BY <1>14 DEF CommandWait, CommandJoin, Record, PersistRead, PersistAppend,
         CancelPartial, CancelAppend, At, row, Emptied
    <2>2. pc'[w] \notin Other
      BY <2>1 DEF Goto, TypeInv, TypeOK
    <2> QED
      BY <1>a, <2>1, <2>2, SilentPending
  <1>2. CASE \/ Memory(w) \/ Unwind(w) \/ CancelledResult(w) \/ Error(w) \/ FailRead(w)
             \/ ResolveSetup(w)
    <2>1. /\ UNCHANGED <<status, action>> /\ pc[w] \notin Other
          /\ Return(w) \/ \E l : Goto(w, l) /\ l \notin Other
      BY <1>2 DEF Memory, Unwind, CancelledResult, Error, FailRead, ResolveSetup, At,
         Emptied, row
    <2>2. pc'[w] \notin Other
      BY <2>1, ReturnKeeps DEF Goto, TypeInv, TypeOK, Emptied
    <2> QED
      BY <1>a, <2>1, <2>2, SilentPending
  <1>3. CASE StartRun(w) \/ ContinueRun(w) \/ CompleteSet(w)
    <2>1. /\ Scheduled(w) /\ UNCHANGED action /\ status # "need_user" /\ pc[w] # "pause"
          /\ status' # "need_user" /\ \E l : Goto(w, l) /\ l # "pause"
      BY <1>3, <1>b DEF StartRun, ContinueRun, CompleteSet, At, Allows
    <2>2. pc'[w] # "pause"
      BY <2>1 DEF Goto, TypeInv, TypeOK
    <2> QED
      BY <1>a, <1>c, <2>1, <2>2, QuietQueue, NonePending
  <1>4. CASE FailSet(w)
    <2>1. /\ Scheduled(w) /\ UNCHANGED action /\ status # "need_user" /\ pc[w] # "pause"
          /\ status' # "need_user" /\ pc'[w] # "pause"
      BY <1>4, <1>b, ReturnKeeps DEF FailSet, At, Allows
    <2> QED
      BY <1>a, <1>c, <2>1, QuietQueue, NonePending
  <1>5. CASE ResumeRead(w)
    <2>1. Scheduled(w) /\ UNCHANGED action /\ Pending = {} /\ Goto(w, "res_run")
      BY <1>5, <1>b DEF ResumeRead, At, Allows, PendingInv, Emptied, row
    <2>2. pc'[w] = "res_run"
      BY <2>1 DEF Goto, TypeInv, TypeOK
    <2> QED
      BY <1>a, <1>c, <2>1, <2>2, NonePending DEF Emptied
  <1>6. CASE ResumeRun(w)
    <2>1. Scheduled(w) /\ UNCHANGED action /\ Pending = {} /\ status' = "running"
      BY <1>6 DEF ResumeRun, At, PendingInv, Emptied
    <2>2. pc'[w] = "res_setup"
      BY <1>6 DEF ResumeRun, Goto, TypeInv, TypeOK
    <2> QED
      BY <1>a, <1>c, <2>1, <2>2, NonePending
  <1>7. CASE CancelReject(w)
    <2>1. Scheduled(w) /\ Pending' = {}
      BY <1>7 DEF CancelReject, At, Pending
    <2>2. pc'[w] = "can_mark"
      BY <1>7 DEF CancelReject, Goto, TypeInv, TypeOK
    <2> QED
      BY <1>a, <2>1, <2>2, NonePending DEF Emptied
  <1>8. CASE CancelMark(w)
    <2>1. Scheduled(w) /\ UNCHANGED action /\ Pending = {}
      BY <1>8 DEF CancelMark, At, PendingInv, Emptied, row
    <2>2. pc'[w] = "can_set"
      BY <1>8 DEF CancelMark, Goto, TypeInv, TypeOK
    <2> QED
      BY <1>a, <1>c, <2>1, <2>2, NonePending DEF Emptied
  <1>9. CASE CancelSet(w)
    <2>1. Scheduled(w) /\ UNCHANGED action /\ Pending = {} /\ status' = "cancelled"
      BY <1>9 DEF CancelSet, At, PendingInv, Emptied
    <2>2. pc'[w] = "idle"
      BY <1>9, ReturnKeeps DEF CancelSet
    <2> QED
      BY <1>a, <1>c, <2>1, <2>2, NonePending
  <1>10. ASSUME NEW a \in Actions, Ask(w, a) PROVE PendingInv'
    <2>1. Scheduled(w) /\ Pending = {} /\ status' = "running"
      BY <1>10, <1>b, QuietQueue DEF Ask, At, Allows
    <2>2. Pending' = {a}
      BY <1>10, <2>1 DEF Ask, Pending, TypeInv, TypeOK
    <2>3. pc'[w] = "pause"
      BY <1>10 DEF Ask, Goto, TypeInv, TypeOK
    <2>4. \A v \in Workers : pc'[v] \notin Emptied
      BY <1>a, <2>1, <2>3 DEF Scheduled, AwaitPoints, OthersKept, Emptied
    <2> QED
      BY <2>1, <2>2, <2>3, <2>4 DEF PendingInv, OnePending
  <1>11. CASE Pause(w)
    <2>1. Scheduled(w) /\ UNCHANGED action /\ OnePending /\ status' = "need_user"
      BY <1>11 DEF Pause, At, PendingInv
    <2>2. pc'[w] = "idle"
      BY <1>11, ReturnKeeps DEF Pause
    <2>3. \A v \in Workers : pc'[v] \notin Other
      BY <1>a, <2>1, <2>2 DEF Scheduled, AwaitPoints, OthersKept, Emptied
    <2> QED
      BY <1>c, <2>1, <2>3 DEF PendingInv, OnePending
  <1>12. CASE ResolveAction(w)
    <2>1. Scheduled(w) /\ UNCHANGED status /\ status = "need_user" /\ pc[w] = "res_cas"
      BY <1>12, <1>b DEF ResolveAction, At, Allows
    <2>2. \A v \in Workers : pc[v] \notin Other
      BY <2>1 DEF Scheduled, AwaitPoints, Emptied
    <2>3. OnePending
      BY <2>1, <2>2 DEF PendingInv
    <2>4. CASE action[job[w].target] # "pending"
      BY <1>12, <1>a, <2>1, <2>2, <2>4, ReturnKeeps, SilentPending DEF ResolveAction,
         Emptied
    <2>5. CASE action[job[w].target] = "pending"
      <3>1. PICK a \in Actions : Pending = {a}
        BY <2>3 DEF OnePending
      <3>2. job[w].target = a
        BY <2>1, <2>5, <3>1 DEF Pending, Targets
      <3>3. action'[a] # "pending" /\ \A b \in Actions \ {a} : action'[b] = action[b]
        BY <1>12, <2>5, <3>2 DEF ResolveAction, TypeInv, TypeOK
      <3>4. Pending' = {}
        BY <3>1, <3>3 DEF Pending
      <3>5. pc'[w] = "res_resume"
        BY <1>12, <2>5 DEF ResolveAction, Goto, TypeInv, TypeOK
      <3> QED
        BY <1>a, <2>1, <3>4, <3>5, NonePending DEF Emptied
    <2> QED
      BY <2>4, <2>5
  <1>17. ~ExecuteError(w)
    BY DEF ExecuteError
  <1> QED
    BY <1>1, <1>2, <1>3, <1>4, <1>5, <1>6, <1>7, <1>8, <1>9, <1>10, <1>11, <1>12,
       <1>13, <1>14, <1>15, <1>16, <1>17 DEF Works, Step, Unbounded

LEMMA PendingNext ==
  ASSUME TypeInv, SharedCore, ServerInv, Targets, PendingInv, MaxCrashes = 0,
         ~ToolingMayFail, [Next]_vars
  PROVE  PendingInv'
  <1>1. ASSUME NEW w \in Workers, Request(w) PROVE PendingInv'
    <2>1. /\ OthersKept(w) /\ UNCHANGED action
          /\ pc[w] \notin Emptied \cup {"pause"} /\ pc'[w] \notin Emptied \cup {"pause"}
          /\ status' = status \/ (status # "need_user" /\ status' # "need_user")
      BY <1>1, RequestKeeps DEF Emptied
    <2>2. Pending' = Pending
      BY <2>1 DEF Pending
    <2> QED
      BY <2>1, <2>2 DEF PendingInv, OthersKept, OnePending
  <1>2. ASSUME NEW w \in Workers, Works(w) PROVE PendingInv'
    BY <1>2, StepPending
  <1>3. ~Crash
    BY DEF Crash, TypeInv, TypeOK
  <1>4. CASE Restart \/ UNCHANGED vars
    <2>1. UNCHANGED <<status, action, pc>>
      BY <1>4 DEF Restart, Reconciled, SharedCore, vars
    <2>2. Pending' = Pending
      BY <2>1 DEF Pending
    <2> QED
      BY <2>1, <2>2 DEF PendingInv, OnePending
  <1> QED
    BY <1>1, <1>2, <1>3, <1>4 DEF Next, Works

\* On the server a session waits for the user exactly when one action is pending:
\* the writes of ask, resolve and cancel that change both are never seen apart,
\* as long as the process is not killed between them and the second one does not fail.
THEOREM ServerMatchesPending ==
  ASSUME Deployment = "stdio", MaxCrashes = 0, ~ToolingMayFail
  PROVE  Spec => []PendingMatchesStatus
  <1>1. SharedCore
    BY DEF SharedCore
  <1>2. Init => PendingInv /\ Targets
    BY DEF Init, PendingInv, Pending, Targets, Emptied
  <1>3. TypeInv /\ ServerInv /\ Targets /\ PendingInv /\ [Next]_vars => PendingInv'
    BY <1>1, PendingNext
  <1>4. TypeInv /\ Targets /\ [Next]_vars => Targets'
    BY TargetsNext
  <1>5. PendingInv => PendingMatchesStatus
    <2>1. SUFFICES ASSUME PendingInv, AtRest
                   PROVE  /\ status = "need_user" => Cardinality(Pending) = 1
                          /\ Pending # {} => status = "need_user"
      BY DEF PendingMatchesStatus
    <2>2. \A w \in Workers : pc[w] \notin Emptied \cup {"pause"}
      BY <2>1 DEF AtRest, AwaitPoints, Emptied
    <2>3. ASSUME status = "need_user" PROVE Cardinality(Pending) = 1
      <3>1. PICK a \in Actions : Pending = {a}
        BY <2>1, <2>2, <2>3 DEF PendingInv, OnePending
      <3> QED
        BY <3>1, FS_Singleton
    <2> QED
      BY <2>1, <2>2, <2>3 DEF PendingInv
  <1> QED
    BY <1>1, <1>2, <1>3, <1>4, <1>5, ServerInvariant, PTL DEF Spec
-----------------------------------------------------------------------------
(* A running session has an owner, in both deployments *)

\* Labels of a turn whose command has no call of a resolve left to do, as long as
\* tools can be opened and their results stored.
FreshLabels == {"start_run", "start_msg", "cont_append", "cont_run", "prepare", "round",
                "describe", "stream", "received", "answer", "tool", "decide", "error"}

\* On Desktop the probe of a chat or a resolve is its own and is never marked.
Local(w) ==
    /\ pc[w] \in TurnLabels => LongRunning(w)
    /\ pc[w] \in FreshLabels => ~job[w].resuming
    /\ ~SharedCore /\ pc[w] \in TurnLabels => ~probe[w] /\ pc[w] # "killed"

LocalInv == \A w \in Workers : Local(w)

\* Commands that have set the session to Running and not yet left the turn.
Driving(w) ==
    /\ LongRunning(w)
    /\ pc[w] \in DriveLabels \cup {"start_msg", "res_setup", "reject_msg", "error",
                                   "fail_read", "fail_set"}

Driven == up /\ status = "running" => \E w \in Workers : Driving(w)

\* The command of a step goes on driving the session, or the step finds or leaves
\* it in another state than Running.
DrivesOn(w) ==
    status' = "running" => \/ Driving(w)'
                           \/ status = "running" /\ ~Driving(w)

LEMMA LocalStep ==
  ASSUME LocalInv, NEW w \in Workers, OthersKept(w), Local(w)',
         \A v \in Workers \ {w} : ~SharedCore => probe'[v] = probe[v]
  PROVE  LocalInv'
  BY DEF LocalInv, Local, OthersKept, LongRunning

LEMMA DrivenStep ==
  ASSUME Driven, NEW w \in Workers, OthersKept(w), DrivesOn(w), up' = up
  PROVE  Driven'
  BY DEF Driven, DrivesOn, Driving, OthersKept, LongRunning

\* A chat or a resolve that sees a cancellation sees it in the row as well.
SeesRow(w) ==
    Scheduled(w) /\ pc[w] \in TurnLabels /\ (IsCancelled(w) \/ pc[w] = "killed")
      => status = "cancelled"

LEMMA StepSeesRow ==
  ASSUME LocalInv, SharedCore => ServerInv, NEW w \in Workers
  PROVE  SeesRow(w)
  <1>1. CASE SharedCore
    BY <1>1, TurnLabel, Elsewhere DEF SeesRow, ServerInv, Fits
  <1>2. CASE ~SharedCore
    BY <1>2 DEF SeesRow, LocalInv, Local, IsCancelled
  <1> QED
    BY <1>1, <1>2

LEMMA StepUp ==
  ASSUME NEW w \in Workers, Works(w)
  PROVE  up' = up
  BY DEF Works, Step, Unbounded, Described, ToolReturns, Spawn, StartRun, StartMessage,
     ContinueAppend, ContinueRun, ResolveAction,
     ResumeRead,
     ResumeRun, ResolveSetup, RejectMessage, Prepare, Round, StreamReply, StreamError,
     StreamCancelled, Received, Answer, CompleteRead, CompleteAppend, CompleteSet, Memory,
     Unwind, ToolCheck, Decide, Execute, Launch, ExecuteError, CommandPoll, CommandWait,
     CommandJoin, Record, Ask, Pause, PersistRead, PersistAppend, CancelledResult, Error,
     FailRead, FailSet, CancelPartial, CancelAppend, CancelReject, CancelMark, CancelSet,
     process

LEMMA StepDriven ==
  ASSUME TypeInv, LocalInv, SharedCore => ServerInv, Driven, ~ToolingMayFail,
         NEW w \in Workers, Works(w)
  PROVE  LocalInv' /\ Driven'
  <1> DEFINE Kept == /\ job'[w].kind = job[w].kind /\ job'[w].resuming = job[w].resuming
                     /\ probe' = probe
             Turns == DriveLabels \cup {"start_msg", "res_setup", "reject_msg", "error",
                                        "fail_read", "fail_set"}
             Fitting(l) == /\ l \in FreshLabels => ~job[w].resuming
                           /\ ~SharedCore => l # "killed"
                           /\ status' = "running" => l \in Turns
  <1>a. OthersKept(w) /\ Local(w) /\ SeesRow(w)
    BY StepShape, StepSeesRow DEF LocalInv
  <1>b. up' = up
    BY StepUp
  <1>c. ASSUME Local(w)', DrivesOn(w), \A v \in Workers \ {w} : ~SharedCore => probe'[v] = probe[v]
        PROVE  LocalInv' /\ Driven'
    BY <1>a, <1>b, <1>c, LocalStep, DrivenStep
  <1>d. ASSUME Kept, NEW l, Goto(w, l), pc[w] \in TurnLabels,
               l \in FreshLabels => ~job[w].resuming,
               ~SharedCore => l # "killed",
               status' = "running" => l \in Turns
        PROVE  LocalInv' /\ Driven'
    <2>1. pc'[w] = l
      BY <1>d, GotoKeeps DEF Goto, TypeInv, TypeOK
    <2>2. Local(w)'
      BY <1>a, <1>d, <2>1 DEF Local, LongRunning
    <2>3. LongRunning(w)'
      BY <1>a, <1>d DEF Local, LongRunning
    <2>4. DrivesOn(w)
      BY <1>d, <2>1, <2>3 DEF DrivesOn, Driving
    <2> QED
      BY <1>c, <1>d, <2>2, <2>4
  <1>e. ASSUME Return(w), probe' = probe, status' # "running" \/ (status = "running" /\ ~Driving(w))
        PROVE  LocalInv' /\ Driven'
    <2>1. pc'[w] = "idle"
      BY <1>e, ReturnKeeps
    <2>2. Local(w)'
      BY <2>1 DEF Local, TurnLabels, StartLabels, DriveLabels, ExitLabels, FreshLabels
    <2>3. DrivesOn(w)
      BY <1>e DEF DrivesOn
    <2> QED
      BY <1>c, <1>e, <2>2, <2>3
  <1>f. UNCHANGED <<job, probe>> => Kept
    OBVIOUS
  <1>g. pc[w] \in FreshLabels => ~job[w].resuming
    BY <1>a DEF Local
  <1> HIDE DEF Kept, Turns, Fitting
  <1>1. CASE StartRun(w)
    <2>1. Kept /\ pc[w] \in TurnLabels
      BY <1>1, <1>f DEF StartRun, At, row, TurnLabels, StartLabels, DriveLabels, ExitLabels
    <2>2. PICK l : Goto(w, l) /\ Fitting(l)
      BY <1>1, <1>a, <1>g, <2>1 DEF StartRun, At, row, SeesRow, Fitting, FreshLabels,
         TurnLabels, StartLabels, DriveLabels, ExitLabels, Turns
    <2> QED
      BY <2>1, <2>2, <1>d DEF Fitting
  <1>2. CASE ContinueRun(w)
    <2>1. Kept /\ pc[w] \in TurnLabels
      BY <1>2, <1>f DEF ContinueRun, At, row, TurnLabels, StartLabels, DriveLabels,
         ExitLabels
    <2>2. PICK l : Goto(w, l) /\ Fitting(l)
      BY <1>2, <1>a, <1>g, <2>1 DEF ContinueRun, At, row, SeesRow, Fitting, FreshLabels,
         TurnLabels, StartLabels, DriveLabels, ExitLabels, Turns
    <2> QED
      BY <2>1, <2>2, <1>d DEF Fitting
  <1>3. CASE ResumeRun(w)
    <2>1. Kept /\ pc[w] \in TurnLabels
      BY <1>3, <1>f DEF ResumeRun, At, row, TurnLabels, StartLabels, DriveLabels, ExitLabels
    <2>2. PICK l : Goto(w, l) /\ Fitting(l)
      BY <1>3, <1>a, <1>g, <2>1 DEF ResumeRun, At, row, SeesRow, Fitting, FreshLabels,
         TurnLabels, StartLabels, DriveLabels, ExitLabels, Turns
    <2> QED
      BY <2>1, <2>2, <1>d DEF Fitting
  <1>4. CASE Prepare(w)
    <2>1. Kept /\ pc[w] \in TurnLabels
      BY <1>4, <1>f DEF Prepare, At, row, TurnLabels, StartLabels, DriveLabels, ExitLabels
    <2>2. PICK l : Goto(w, l) /\ Fitting(l)
      BY <1>4, <1>a, <1>g, <2>1 DEF Prepare, At, row, SeesRow, Fitting, FreshLabels,
         TurnLabels, StartLabels, DriveLabels, ExitLabels, Turns
    <2> QED
      BY <2>1, <2>2, <1>d DEF Fitting
  <1>5. CASE StreamError(w)
    <2>1. Kept /\ pc[w] \in TurnLabels
      BY <1>5, <1>f DEF StreamError, At, row, TurnLabels, StartLabels, DriveLabels,
         ExitLabels
    <2>2. PICK l : Goto(w, l) /\ Fitting(l)
      BY <1>5, <1>a, <1>g, <2>1 DEF StreamError, At, row, SeesRow, Fitting, FreshLabels,
         TurnLabels, StartLabels, DriveLabels, ExitLabels, Turns
    <2> QED
      BY <2>1, <2>2, <1>d DEF Fitting
  <1>6. CASE StreamCancelled(w)
    <2>1. Kept /\ pc[w] \in TurnLabels
      BY <1>6, <1>f DEF StreamCancelled, At, row, TurnLabels, StartLabels, DriveLabels,
         ExitLabels
    <2>2. PICK l : Goto(w, l) /\ Fitting(l)
      BY <1>6, <1>a, <1>g, <2>1 DEF StreamCancelled, At, row, SeesRow, Fitting, FreshLabels,
         TurnLabels, StartLabels, DriveLabels, ExitLabels, Turns
    <2> QED
      BY <2>1, <2>2, <1>d DEF Fitting
  <1>7. CASE Received(w)
    <2>1. Kept /\ pc[w] \in TurnLabels
      BY <1>7, <1>f DEF Received, At, row, TurnLabels, StartLabels, DriveLabels, ExitLabels
    <2>2. PICK l : Goto(w, l) /\ Fitting(l)
      BY <1>7, <1>a, <1>g, <2>1 DEF Received, At, row, SeesRow, Fitting, FreshLabels,
         TurnLabels, StartLabels, DriveLabels, ExitLabels, Turns
    <2> QED
      BY <2>1, <2>2, <1>d DEF Fitting
  <1>8. CASE Answer(w)
    <2>1. Kept /\ pc[w] \in TurnLabels
      BY <1>8, <1>f DEF Answer, At, row, TurnLabels, StartLabels, DriveLabels, ExitLabels
    <2>2. PICK l : Goto(w, l) /\ Fitting(l)
      BY <1>8, <1>a, <1>g, <2>1 DEF Answer, At, row, SeesRow, Fitting, FreshLabels,
         TurnLabels, StartLabels, DriveLabels, ExitLabels, Turns
    <2> QED
      BY <2>1, <2>2, <1>d DEF Fitting
  <1>9. CASE CompleteRead(w)
    <2>1. Kept /\ pc[w] \in TurnLabels
      BY <1>9, <1>f DEF CompleteRead, At, row, TurnLabels, StartLabels, DriveLabels,
         ExitLabels
    <2>2. PICK l : Goto(w, l) /\ Fitting(l)
      BY <1>9, <1>a, <1>g, <2>1 DEF CompleteRead, At, row, SeesRow, Fitting, FreshLabels,
         TurnLabels, StartLabels, DriveLabels, ExitLabels, Turns
    <2> QED
      BY <2>1, <2>2, <1>d DEF Fitting
  <1>10. CASE CompleteAppend(w)
    <2>1. Kept /\ pc[w] \in TurnLabels
      BY <1>10, <1>f DEF CompleteAppend, At, row, TurnLabels, StartLabels, DriveLabels,
         ExitLabels
    <2>2. PICK l : Goto(w, l) /\ Fitting(l)
      BY <1>10, <1>a, <1>g, <2>1 DEF CompleteAppend, At, row, SeesRow, Fitting, FreshLabels,
         TurnLabels, StartLabels, DriveLabels, ExitLabels, Turns
    <2> QED
      BY <2>1, <2>2, <1>d DEF Fitting
  <1>11. CASE CompleteSet(w)
    <2>1. Kept /\ pc[w] \in TurnLabels
      BY <1>11, <1>f DEF CompleteSet, At, row, TurnLabels, StartLabels, DriveLabels,
         ExitLabels
    <2>2. PICK l : Goto(w, l) /\ Fitting(l)
      BY <1>11, <1>a, <1>g, <2>1 DEF CompleteSet, At, row, SeesRow, Fitting, FreshLabels,
         TurnLabels, StartLabels, DriveLabels, ExitLabels, Turns
    <2> QED
      BY <2>1, <2>2, <1>d DEF Fitting
  <1>12. CASE ToolCheck(w)
    <2>1. Kept /\ pc[w] \in TurnLabels
      BY <1>12, <1>f DEF ToolCheck, At, row, TurnLabels, StartLabels, DriveLabels,
         ExitLabels
    <2>2. PICK l : Goto(w, l) /\ Fitting(l)
      BY <1>12, <1>a, <1>g, <2>1 DEF ToolCheck, At, row, SeesRow, Fitting, FreshLabels,
         TurnLabels, StartLabels, DriveLabels, ExitLabels, Turns
    <2> QED
      BY <2>1, <2>2, <1>d DEF Fitting
  <1>13. CASE Decide(w)
    <2>1. Kept /\ pc[w] \in TurnLabels
      BY <1>13, <1>f DEF Decide, At, row, TurnLabels, StartLabels, DriveLabels, ExitLabels
    <2>2. PICK l : Goto(w, l) /\ Fitting(l)
      BY <1>13, <1>a, <1>g, <2>1 DEF Decide, At, row, SeesRow, Fitting, FreshLabels,
         TurnLabels, StartLabels, DriveLabels, ExitLabels, Turns
    <2> QED
      BY <2>1, <2>2, <1>d DEF Fitting
  <1>14. CASE Execute(w)
    <2>1. Kept /\ pc[w] \in TurnLabels
      BY <1>14, <1>f DEF Execute, At, row, TurnLabels, StartLabels, DriveLabels, ExitLabels
    <2>2. PICK l : Goto(w, l) /\ Fitting(l)
      BY <1>14, <1>a, <1>g, <2>1 DEF Execute, At, row, SeesRow, Fitting, FreshLabels,
         TurnLabels, StartLabels, DriveLabels, ExitLabels, Turns
    <2> QED
      BY <2>1, <2>2, <1>d DEF Fitting
  <1>15. CASE CommandJoin(w)
    <2>1. Kept /\ pc[w] \in TurnLabels
      BY <1>15, <1>f DEF CommandJoin, At, row, TurnLabels, StartLabels, DriveLabels,
         ExitLabels
    <2>2. PICK l : Goto(w, l) /\ Fitting(l)
      BY <1>15, <1>a, <1>g, <2>1 DEF CommandJoin, At, row, SeesRow, Fitting, FreshLabels,
         TurnLabels, StartLabels, DriveLabels, ExitLabels, Turns
    <2> QED
      BY <2>1, <2>2, <1>d DEF Fitting
  <1>16. CASE CommandPoll(w)
    <2>1. Kept /\ pc[w] \in TurnLabels
      BY <1>16, <1>f DEF CommandPoll, At, row, TurnLabels, StartLabels, DriveLabels,
         ExitLabels
    <2>2. PICK l : Goto(w, l) /\ Fitting(l)
      BY <1>16, <1>a, <1>g, <2>1 DEF CommandPoll, At, row, SeesRow, Fitting, FreshLabels,
         TurnLabels, StartLabels, DriveLabels, ExitLabels, Turns, Local
    <2> QED
      BY <2>1, <2>2, <1>d DEF Fitting
  <1>17. CASE Round(w)
    <2>1. Kept /\ pc[w] \in TurnLabels
      BY <1>17, <1>f, JobOf DEF Round, At, row, Kept, TurnLabels, StartLabels, DriveLabels,
         ExitLabels
    <2>2. PICK l : Goto(w, l) /\ Fitting(l)
      BY <1>17, <1>a, <1>g, <2>1 DEF Round, At, row, SeesRow, Fitting, FreshLabels,
         TurnLabels, StartLabels, DriveLabels, ExitLabels, Turns
    <2> QED
      BY <2>1, <2>2, <1>d DEF Fitting
  <1>18. CASE \E n \in 0..MaxCalls : StreamReply(w, n)
    <2>1. Kept /\ pc[w] \in TurnLabels
      BY <1>18, <1>f, JobOf DEF StreamReply, At, row, Kept, TurnLabels, StartLabels,
         DriveLabels, ExitLabels
    <2>2. PICK l : Goto(w, l) /\ Fitting(l)
      BY <1>18, <1>a, <1>g, <2>1 DEF StreamReply, At, row, SeesRow, Fitting, FreshLabels,
         TurnLabels, StartLabels, DriveLabels, ExitLabels, Turns
    <2> QED
      BY <2>1, <2>2, <1>d DEF Fitting
  <1>19. CASE Launch(w)
    <2>1. Kept /\ pc[w] \in TurnLabels
      BY <1>19, <1>f, JobOf DEF Launch, At, row, Kept, TurnLabels, StartLabels, DriveLabels,
         ExitLabels
    <2>2. PICK l : Goto(w, l) /\ Fitting(l)
      BY <1>19, <1>a, <1>g, <2>1 DEF Launch, At, row, SeesRow, Fitting, FreshLabels,
         TurnLabels, StartLabels, DriveLabels, ExitLabels, Turns
    <2> QED
      BY <2>1, <2>2, <1>d DEF Fitting
  <1>20. CASE CommandWait(w)
    <2>1. Kept /\ pc[w] \in TurnLabels
      BY <1>20, <1>f, JobOf DEF CommandWait, At, row, Kept, TurnLabels, StartLabels,
         DriveLabels, ExitLabels
    <2>2. PICK l : Goto(w, l) /\ Fitting(l)
      BY <1>20, <1>a, <1>g, <2>1 DEF CommandWait, At, row, SeesRow, Fitting, FreshLabels,
         TurnLabels, StartLabels, DriveLabels, ExitLabels, Turns
    <2> QED
      BY <2>1, <2>2, <1>d DEF Fitting
  <1>21. CASE StartMessage(w)
    <2>1. Kept /\ pc[w] \in TurnLabels
      BY <1>21, <1>f, JobOf DEF StartMessage, At, row, Kept, TurnLabels, StartLabels,
         DriveLabels, ExitLabels
    <2>2. PICK l : Goto(w, l) /\ Fitting(l)
      BY <1>21, <1>a, <1>g, <2>1 DEF StartMessage, At, row, SeesRow, Fitting, FreshLabels,
         TurnLabels, StartLabels, DriveLabels, ExitLabels, Turns
    <2> QED
      BY <2>1, <2>2, <1>d DEF Fitting
  <1>22. CASE \E a \in Actions : Ask(w, a)
    <2>1. Kept /\ pc[w] \in TurnLabels
      BY <1>22, <1>f DEF Ask, At, row, TurnLabels, StartLabels, DriveLabels, ExitLabels
    <2>2. PICK l : Goto(w, l) /\ Fitting(l)
      BY <1>22, <1>a, <1>g, <2>1 DEF Ask, At, row, SeesRow, Fitting, FreshLabels,
         TurnLabels, StartLabels, DriveLabels, ExitLabels, Turns
    <2> QED
      BY <2>1, <2>2, <1>d DEF Fitting
  <1>23. CASE ContinueAppend(w)
    <2>1. pc'[w] = "cont_run" /\ job'[w].kind = job[w].kind /\ job'[w].resuming = job[w].resuming
      BY <1>23, JobOf DEF ContinueAppend, Goto, TypeInv, TypeOK
    <2>2. ~probe'[w] /\ \A v \in Workers \ {w} : ~SharedCore => probe'[v] = probe[v]
      BY <1>23 DEF ContinueAppend, SetProbe, SameCore
    <2>3. Local(w)'
      BY <1>23, <1>a, <2>1, <2>2 DEF ContinueAppend, At, Local, LongRunning, TurnLabels,
         StartLabels, DriveLabels, ExitLabels, FreshLabels
    <2>4. DrivesOn(w)
      BY <1>23 DEF ContinueAppend, At, DrivesOn, Driving, DriveLabels
    <2> QED
      BY <1>c, <2>2, <2>3, <2>4
  <1>24. CASE PersistRead(w)
    <2>1. /\ probe' = probe /\ status' = status /\ ~Driving(w) /\ job' = job
          /\ pc[w] \in TurnLabels
      BY <1>24 DEF PersistRead, At, Driving, row, TurnLabels, StartLabels, DriveLabels,
         ExitLabels
    <2>2. \E l \in {"cancelled", "persist_append"} : Goto(w, l)
      BY <1>24 DEF PersistRead
    <2>3. pc'[w] \in {"cancelled", "persist_append"}
      BY <2>2 DEF Goto, TypeInv, TypeOK
    <2>4. Local(w)'
      BY <1>a, <2>1, <2>3 DEF Local, LongRunning, FreshLabels
    <2> QED
      BY <1>c, <2>1, <2>4 DEF DrivesOn
  <1>25. CASE PersistAppend(w)
    <2>1. /\ probe' = probe /\ status' = status /\ ~Driving(w) /\ job' = job
          /\ pc[w] \in TurnLabels
      BY <1>25 DEF PersistAppend, At, Driving, row, TurnLabels, StartLabels, DriveLabels,
         ExitLabels
    <2>2. \E l \in {"cancelled", "persist_append"} : Goto(w, l)
      BY <1>25 DEF PersistAppend
    <2>3. pc'[w] \in {"cancelled", "persist_append"}
      BY <2>2 DEF Goto, TypeInv, TypeOK
    <2>4. Local(w)'
      BY <1>a, <2>1, <2>3 DEF Local, LongRunning, FreshLabels
    <2> QED
      BY <1>c, <2>1, <2>4 DEF DrivesOn
  <1>26. CASE ExecuteError(w)
    BY <1>26 DEF ExecuteError
  <1>27. CASE RejectMessage(w)
    <2>1. pc'[w] = "prepare" /\ job'[w].kind = job[w].kind /\ ~job'[w].resuming /\ probe' = probe
      BY <1>27, JobOf DEF RejectMessage, Goto, TypeInv, TypeOK
    <2>2. Local(w)' /\ LongRunning(w)'
      BY <1>27, <1>a, <2>1 DEF RejectMessage, At, Local, LongRunning, TurnLabels,
         StartLabels, DriveLabels, ExitLabels
    <2>3. DrivesOn(w)
      BY <2>1, <2>2 DEF DrivesOn, Driving, DriveLabels
    <2> QED
      BY <1>c, <2>1, <2>2, <2>3
  <1>28. CASE Record(w)
    <2>1. /\ pc'[w] \in {"prepare", "tool", "round"} /\ job'[w].kind = job[w].kind
          /\ ~job'[w].resuming /\ probe' = probe
      <3>1. CASE job[w].resuming
        BY <1>28, <3>1, JobOf DEF Record, Goto, TypeInv, TypeOK
      <3>2. CASE ~job[w].resuming
        BY <1>28, <3>2, JobOf DEF Record, Goto, TypeInv, TypeOK
      <3> QED
        BY <3>1, <3>2
    <2>2. Local(w)' /\ LongRunning(w)'
      BY <1>28, <1>a, <2>1 DEF Record, At, Local, LongRunning, TurnLabels, StartLabels,
         DriveLabels, ExitLabels
    <2>3. DrivesOn(w)
      BY <2>1, <2>2 DEF DrivesOn, Driving, DriveLabels
    <2> QED
      BY <1>c, <2>1, <2>2, <2>3
  <1>29. CASE Pause(w)
    BY <1>29, <1>e DEF Pause
  <1>30. CASE FailSet(w)
    BY <1>30, <1>e DEF FailSet
  <1>31. CASE CancelSet(w)
    BY <1>31, <1>e DEF CancelSet
  <1>32. CASE Memory(w)
    <2>1. Return(w) /\ probe' = probe /\ status' = status /\ ~Driving(w)
      BY <1>32 DEF Memory, At, Driving, DriveLabels, row
    <2> QED
      BY <2>1, <1>e
  <1>33. CASE Unwind(w)
    <2>1. Return(w) /\ probe' = probe /\ status' = status /\ ~Driving(w)
      BY <1>33 DEF Unwind, At, Driving, DriveLabels, row
    <2> QED
      BY <2>1, <1>e
  <1>34. CASE CancelledResult(w)
    <2>1. Return(w) /\ probe' = probe /\ status' = status /\ ~Driving(w)
      BY <1>34 DEF CancelledResult, At, Driving, DriveLabels, row
    <2> QED
      BY <2>1, <1>e
  <1>35. CASE ResolveAction(w)
    <2>1. probe' = probe /\ status' = status /\ ~Driving(w) /\ pc[w] \in TurnLabels
      BY <1>35 DEF ResolveAction, At, Driving, TurnLabels, StartLabels, DriveLabels,
         ExitLabels
    <2>2. CASE Return(w)
      BY <2>1, <2>2, <1>e
    <2>3. CASE ~Return(w)
      <3>1. Kept /\ pc'[w] = "res_resume"
        BY <1>35, <2>1, <2>3, JobOf DEF ResolveAction, Kept, Goto, TypeInv, TypeOK
      <3>2. Local(w)'
        BY <1>a, <2>1, <3>1 DEF Local, Kept, LongRunning, FreshLabels
      <3>3. DrivesOn(w)
        BY <2>1 DEF DrivesOn
      <3> QED
        BY <1>c, <2>1, <3>2, <3>3
    <2> QED
      BY <2>2, <2>3
  <1>36. CASE ResumeRead(w)
    <2>1. probe' = probe /\ status' = status /\ ~Driving(w) /\ pc[w] \in TurnLabels
      BY <1>36 DEF ResumeRead, At, Driving, row, TurnLabels, StartLabels, DriveLabels,
         ExitLabels
    <2>2. CASE Return(w)
      BY <2>1, <2>2, <1>e
    <2>3. CASE ~Return(w)
      <3>1. Kept /\ pc'[w] = "res_run"
        BY <1>36, <2>1, <2>3 DEF ResumeRead, Kept, Goto, TypeInv, TypeOK
      <3>2. Local(w)'
        BY <1>a, <2>1, <3>1 DEF Local, Kept, LongRunning, FreshLabels
      <3>3. DrivesOn(w)
        BY <2>1 DEF DrivesOn
      <3> QED
        BY <1>c, <2>1, <3>2, <3>3
    <2> QED
      BY <2>2, <2>3
  <1>37. CASE ResolveSetup(w)
    <2>1. Kept /\ pc[w] \in TurnLabels
      BY <1>37, <1>f, JobOf DEF ResolveSetup, At, row, Kept, TurnLabels, StartLabels,
         DriveLabels, ExitLabels
    <2>2. PICK l : Goto(w, l) /\ Fitting(l)
      BY <1>37, <1>a, <1>g, <2>1 DEF ResolveSetup, At, row, SeesRow, Fitting, FreshLabels,
         TurnLabels, StartLabels, DriveLabels, ExitLabels, Turns
    <2> QED
      BY <2>1, <2>2, <1>d DEF Fitting
  <1>38. CASE Error(w)
    <2>1. probe' = probe /\ status' = status /\ pc[w] \in TurnLabels
      BY <1>38 DEF Error, At, row, TurnLabels, StartLabels, DriveLabels, ExitLabels
    <2>2. CASE Return(w) /\ status # "running"
      BY <2>1, <2>2, <1>e
    <2>3. CASE ~(Return(w) /\ status # "running")
      <3>1. Kept /\ \E l \in {"cancelled", "fail_read", "fail_set"} :
                       Goto(w, l) /\ (status = "running" => l # "cancelled")
        BY <1>38, <1>a, <1>f, <1>g, <2>1, <2>3 DEF Error, At, SeesRow, FreshLabels
      <3> QED
        BY <1>d, <2>1, <3>1 DEF Turns, FreshLabels
    <2> QED
      BY <2>2, <2>3
  <1>39. CASE FailRead(w)
    <2>1. probe' = probe /\ status' = status /\ pc[w] \in TurnLabels
      BY <1>39 DEF FailRead, At, row, TurnLabels, StartLabels, DriveLabels, ExitLabels
    <2>2. CASE Return(w) /\ status # "running"
      BY <2>1, <2>2, <1>e
    <2>3. CASE ~(Return(w) /\ status # "running")
      <3>1. Kept /\ \E l \in {"cancelled", "fail_read", "fail_set"} :
                       Goto(w, l) /\ (status = "running" => l # "cancelled")
        BY <1>39, <1>a, <1>f, <1>g, <2>1, <2>3 DEF FailRead, At, SeesRow, FreshLabels
      <3> QED
        BY <1>d, <2>1, <3>1 DEF Turns, FreshLabels
    <2> QED
      BY <2>2, <2>3
  <1>40. CASE CancelPartial(w) \/ CancelAppend(w) \/ CancelReject(w)
    <2>1. /\ probe' = probe /\ status' = status /\ ~Driving(w)
      BY <1>40 DEF CancelPartial, CancelAppend, CancelReject, At, Driving, DriveLabels, row
    <2>2. \E l \in {"can_reject", "can_append", "can_mark"} : Goto(w, l)
      BY <1>40 DEF CancelPartial, CancelAppend, CancelReject
    <2>3. pc'[w] \in {"can_reject", "can_append", "can_mark"}
      BY <2>2 DEF Goto, TypeInv, TypeOK
    <2>4. Local(w)'
      BY <2>3 DEF Local, FreshLabels, TurnLabels, StartLabels, DriveLabels, ExitLabels
    <2> QED
      BY <1>c, <2>1, <2>4 DEF DrivesOn
  <1>41. CASE CancelMark(w)
    <2>1. status' = status /\ ~Driving(w)
      BY <1>41 DEF CancelMark, At, Driving, DriveLabels, row
    <2>2. \A v \in Workers \ {w} : ~SharedCore => probe'[v] = probe[v]
      BY <1>41 DEF CancelMark, SetProbe, SameCore
    <2>3. pc'[w] = "can_set"
      BY <1>41 DEF CancelMark, Goto, TypeInv, TypeOK
    <2>4. Local(w)'
      BY <2>3 DEF Local, FreshLabels, TurnLabels, StartLabels, DriveLabels, ExitLabels
    <2> QED
      BY <1>c, <2>1, <2>2, <2>4 DEF DrivesOn
  <1>42. CASE Described(w)
    <2>1. Kept /\ pc[w] \in TurnLabels
      BY <1>42, <1>f DEF Described, At, row, TurnLabels, StartLabels, DriveLabels,
         ExitLabels
    <2>2. PICK l : Goto(w, l) /\ Fitting(l)
      BY <1>42, <1>a, <1>g, <2>1 DEF Described, At, row, Fitting, FreshLabels,
         TurnLabels, StartLabels, DriveLabels, ExitLabels, Turns
    <2> QED
      BY <2>1, <2>2, <1>d DEF Fitting
  <1>43. CASE ToolReturns(w)
    <2>1. Kept /\ pc[w] \in TurnLabels
      BY <1>43, <1>f DEF ToolReturns, At, row, TurnLabels, StartLabels, DriveLabels,
         ExitLabels
    <2>2. PICK l : Goto(w, l) /\ Fitting(l)
      BY <1>43, <1>a, <1>g, <2>1 DEF ToolReturns, At, row, Fitting, FreshLabels,
         TurnLabels, StartLabels, DriveLabels, ExitLabels, Turns
    <2> QED
      BY <2>1, <2>2, <1>d DEF Fitting
  <1>44. CASE Spawn(w)
    <2>1. Kept /\ pc[w] \in TurnLabels
      BY <1>44, <1>f DEF Spawn, At, row, TurnLabels, StartLabels, DriveLabels, ExitLabels
    <2>2. PICK l : Goto(w, l) /\ Fitting(l)
      BY <1>44, <1>a, <1>g, <2>1 DEF Spawn, At, row, Fitting, FreshLabels,
         TurnLabels, StartLabels, DriveLabels, ExitLabels, Turns
    <2> QED
      BY <2>1, <2>2, <1>d DEF Fitting
  <1> QED
    BY <1>1, <1>2, <1>3, <1>4, <1>5, <1>6, <1>7, <1>8, <1>9, <1>10, <1>11, <1>12,
       <1>13, <1>14, <1>15, <1>16, <1>17, <1>18, <1>19, <1>20, <1>21, <1>22, <1>23,
       <1>24, <1>25, <1>26, <1>27, <1>28, <1>29, <1>30, <1>31, <1>32, <1>33, <1>34,
       <1>35, <1>36, <1>37, <1>38, <1>39, <1>40, <1>41, <1>42, <1>43, <1>44 DEF Works, Step, Unbounded

LEMMA RequestDriven ==
  ASSUME TypeInv, LocalInv, Driven, NEW w \in Workers, Request(w)
  PROVE  LocalInv' /\ Driven'
  <1>1. OthersKept(w) /\ pc[w] = "idle" /\ up' = up
        /\ (status' = status \/ (status = "none" /\ status' = "created"))
    BY RequestKeeps
  <1>2. DrivesOn(w)
    BY <1>1 DEF DrivesOn, Driving, DriveLabels
  <1>3. \A v \in Workers \ {w} : probe'[v] = probe[v]
    BY DEF Request, CreateSession, StartChat, ContinueChat, Cancel, Rollback, Resolve,
       FreshCore,
       TypeInv,
       TypeOK
  <1>4. Local(w)'
    <2>1. CASE CreateSession(w) \/ Rollback(w)
      BY <1>1, <2>1 DEF CreateSession, Rollback, Local, FreshLabels, TurnLabels,
         StartLabels,
         DriveLabels,
         ExitLabels
    <2>2. CASE \/ StartChat(w) \/ ContinueChat(w)
               \/ \E a \in Actions, approved \in BOOLEAN : Resolve(w, a, approved)
      <3>1. /\ pc'[w] \in {"start_run", "cont_append", "res_cas"}
            /\ ~SharedCore => ~probe'[w]
        BY <2>2 DEF StartChat, ContinueChat, Resolve, FreshCore, Goto, TypeInv, TypeOK
      <3>2. /\ job'[w].kind \in {"chat", "resolve"}
            /\ pc'[w] # "res_cas" => ~job'[w].resuming
        BY <2>2 DEF StartChat, ContinueChat, Resolve, NoJob, Goto, TypeInv, TypeOK
      <3> QED
        BY <3>1, <3>2 DEF Local, LongRunning, FreshLabels
    <2>3. CASE Cancel(w)
      <3>1. pc'[w] = "can_partial"
        BY <2>3 DEF Cancel, Goto, TypeInv, TypeOK
      <3> QED
        BY <3>1 DEF Local, FreshLabels, TurnLabels, StartLabels, DriveLabels, ExitLabels
    <2> QED
      BY <2>1, <2>2, <2>3 DEF Request
  <1> QED
    BY <1>1, <1>2, <1>3, <1>4, LocalStep, DrivenStep

\* Without a crash the process stays up.
Alive == MaxCrashes = 0 => up

LEMMA AliveInvariant == Spec => []Alive
  <1>1. Init => Alive
    BY DEF Init, Alive
  <1>2. TypeInv /\ Alive /\ [Next]_vars => Alive'
    <2> SUFFICES ASSUME TypeInv, Alive, MaxCrashes = 0, [Next]_vars PROVE up'
      BY DEF Alive
    <2>1. up /\ crashes \in Nat
      BY DEF Alive, TypeInv, TypeOK
    <2>2. CASE Crash
      BY <2>1, <2>2 DEF Crash
    <2>3. CASE Restart
      BY <2>3 DEF Restart
    <2>4. CASE UNCHANGED vars
      BY <2>1, <2>4 DEF vars, process
    <2>5. ASSUME NEW w \in Workers, Request(w) PROVE up'
      BY <2>1, <2>5, RequestKeeps
    <2>6. ASSUME NEW w \in Workers, Works(w) PROVE up'
      BY <2>1, <2>6, StepUp
    <2> QED
      BY <2>2, <2>3, <2>4, <2>5, <2>6 DEF Next, Works
  <1> QED
    BY <1>1, <1>2, TypeInit, TypeNext, PTL DEF Spec

LEMMA DrivenNext ==
  ASSUME TypeInv, LocalInv, Alive, SharedCore => ServerInv, Driven, ~ToolingMayFail,
         Deployment = "desktop" \/ MaxCrashes = 0, [Next]_vars
  PROVE  LocalInv' /\ Driven'
  <1>1. ASSUME NEW w \in Workers, Request(w) PROVE LocalInv' /\ Driven'
    BY <1>1, RequestDriven
  <1>2. ASSUME NEW w \in Workers, Works(w) PROVE LocalInv' /\ Driven'
    BY <1>2, StepDriven
  <1>3. CASE Crash
    BY <1>3 DEF Crash, LocalInv, Local, Driven, FreshLabels, TurnLabels, StartLabels,
       DriveLabels,
       ExitLabels
  <1>4. CASE Restart
    <2>1. LocalInv'
      BY <1>4 DEF Restart, LocalInv, Local, LongRunning
    <2>2. CASE Deployment = "desktop"
      <3>1. status' # "running"
        <4>1. status' = Reconciled
          BY <1>4 DEF Restart
        <4> QED
          BY <2>2, <4>1 DEF Reconciled
      <3> QED
        BY <2>1, <3>1 DEF Driven
    <2>3. CASE MaxCrashes = 0
      BY <1>4, <2>3 DEF Restart, Alive
    <2> QED
      BY <2>1, <2>2, <2>3
  <1>5. CASE UNCHANGED vars
    BY <1>5 DEF vars, LocalInv, Local, LongRunning, Driven, Driving
  <1> QED
    BY <1>1, <1>2, <1>3, <1>4, <1>5 DEF Next, Works

\* A Running row always has a chat or a resolve that will take it out of Running,
\* however many commands run at once: on Desktop with crashes (reconcile_interrupted_sessions
\* clears the row on the way up), on the server as long as it does not crash.
\* The exception is an error of resolve before run_session: it leaves the row Running.
THEOREM RunningHasOwner ==
  ASSUME ~ToolingMayFail, Deployment = "desktop" \/ MaxCrashes = 0
  PROVE  Spec => []RunningIsOwned
  <1>1. Init => LocalInv /\ Driven
    BY DEF Init, LocalInv, Local, Driven, FreshLabels, TurnLabels, StartLabels, DriveLabels,
       ExitLabels
  <1>2. TypeInv /\ Alive /\ (SharedCore => ServerInv) /\ LocalInv /\ Driven /\ [Next]_vars
          => LocalInv' /\ Driven'
    BY DrivenNext
  <1>3. Driven => RunningIsOwned
    BY DEF Driven, Driving, RunningIsOwned, Owns, StartLabels
  <1>4. Spec => [](SharedCore => ServerInv)
    <2>1. CASE SharedCore
      <3>1. Spec => []ServerInv
        BY <2>1, ServerInvariant
      <3> QED
        BY <3>1, PTL
    <2>2. CASE ~SharedCore
      <3>1. SharedCore => ServerInv
        BY <2>2
      <3> QED
        BY <3>1, PTL
    <2> QED
      BY <2>1, <2>2
  <1> QED
    BY <1>1, <1>2, <1>3, <1>4, TypeInit, TypeNext, AliveInvariant, PTL DEF Spec
=============================================================================
