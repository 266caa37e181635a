------------------------------ MODULE RunCommand ------------------------------
(***************************************************************************)
(* One run_command call: the thread of the call, the process it starts,    *)
(* the processes that one starts, the pipe their output goes through and   *)
(* the thread that drains it.  stdout and stderr are opened, inherited,    *)
(* drained and awaited alike and are one pipe here.  Timers may fire at    *)
(* any moment.                                                             *)
(***************************************************************************)
EXTENDS Naturals, FiniteSets

CONSTANTS Child,          \* the process the call starts
          Descendants,    \* the processes it may start in turn
          Nobody,
          MaxOutput,      \* bound on the chunks of output
          OutputCap       \* chunks truncate_output lets through (MAX_OUTPUT_BYTES)

Tree == {Child} \cup Descendants

ASSUME TreeAssumption == Child \notin Descendants /\ Nobody \notin Tree
ASSUME OutputBound == MaxOutput \in Nat /\ OutputCap \in Nat

Kinds == {"foreground", "background", "service"}   \* a service has a ready_port

VARIABLES windows,      \* the build has job objects
          kind,         \* how the model asked for the command to be run
          pc,           \* of the call
          outcome,      \* what the call reports
          proc,         \* every process: not started, running or dead
          zero,         \* the child ended by itself with exit code 0
          job,          \* members of the kill-on-close job object
          pipe,         \* processes that have the write end of the pipe
          unread,       \* chunks in the pipe
          buffer,       \* chunks the reader has put into the shared buffer
          reader,       \* the reader thread: reading, at the end of the pipe, or given up
          late,         \* the grace of await_pipe_drain ran out
          reported,     \* chunks in the result, and whether it says [output truncated]
          listener,     \* who accepts connections on the port
          cancelled     \* what is_cancelled answers

vars == <<windows, kind, pc, outcome, proc, zero, job, pipe, unread, buffer, reader, late,
          reported, listener, cancelled>>
call == <<windows, kind>>
output == <<pipe, unread, buffer, reader>>

Outcomes == {"none", "refused", "error", "cancelled", "ok", "failed", "timed_out",
             "exited", "started", "ready", "not_ready"}

Running(p) == proc[p] = "running"
Holders == {p \in pipe : Running(p)}

Return(o) == pc' = "returned" /\ outcome' = o

-----------------------------------------------------------------------------
\* Denied by policy, a bad working directory, an unknown program, a failed spawn.
Refuse ==
    /\ pc = "start"
    /\ Return("refused")
    /\ UNCHANGED <<call, proc, zero, job, output, late, reported, listener, cancelled>>

SpawnForeground ==
    /\ pc = "start" /\ kind = "foreground"
    /\ proc' = [proc EXCEPT ![Child] = "running"]
    /\ pipe' = {Child} /\ reader' = "reading"
    /\ pc' = IF windows THEN "adopt" ELSE "poll"
    /\ UNCHANGED <<call, outcome, zero, job, unread, buffer, late, reported, listener, cancelled>>

\* The job object takes in the child alone; creating it or adopting may fail.
Adopt ==
    /\ pc = "adopt"
    /\ job' \in {{}, {Child}}
    /\ pc' = "poll"
    /\ UNCHANGED <<call, outcome, proc, zero, output, late, reported, listener, cancelled>>

\* The guard of the job object goes out of scope: every member is terminated.
CloseJob ==
    /\ proc' = [p \in Tree |-> IF p \in job /\ Running(p) THEN "dead" ELSE proc[p]]
    /\ job' = {}

\* Child::kill and Child::wait reach the direct child only.
Killed == [proc EXCEPT ![Child] = "dead"]

PollCancelled ==
    /\ pc = "poll" /\ cancelled
    /\ proc' = Killed
    /\ pc' = "drain" /\ outcome' = "cancelled"
    /\ UNCHANGED <<call, zero, job, output, late, reported, listener, cancelled>>

\* Mutant: the output is copied as soon as the child has ended.
PollExitedUndrained ==
    /\ pc = "poll" /\ ~cancelled /\ ~Running(Child)
    /\ pc' = "report"
    /\ outcome' = IF zero THEN "ok" ELSE "failed"
    /\ UNCHANGED <<call, proc, zero, job, output, late, reported, listener, cancelled>>

PollExited ==
    /\ pc = "poll" /\ ~cancelled /\ ~Running(Child)
    /\ pc' = "drain"
    /\ outcome' = IF zero THEN "ok" ELSE "failed"
    /\ UNCHANGED <<call, proc, zero, job, output, late, reported, listener, cancelled>>

\* The deadline of a command that does not end by itself.
PollDeadline ==
    /\ pc = "poll" /\ ~cancelled /\ Running(Child)
    /\ proc' = Killed
    /\ pc' = "drain" /\ outcome' = "timed_out"
    /\ UNCHANGED <<call, zero, job, output, late, reported, listener, cancelled>>

\* try_wait fails: the call gives up on its child, the job object is closed.
WaitFails ==
    /\ pc \in {"poll", "probe", "ready"} /\ (cancelled => pc = "probe")
    /\ CloseJob
    /\ Return("error")
    /\ UNCHANGED <<call, zero, output, late, reported, listener, cancelled>>

\* await_pipe_drain: both readers are done, or the grace is over.
DrainDone ==
    /\ pc = "drain" /\ reader # "reading"
    /\ pc' = "report"
    /\ UNCHANGED <<call, outcome, proc, zero, job, output, late, reported, listener, cancelled>>

\* Mutant: the readers are awaited without a bound.
DrainUnbounded ==
    /\ pc = "drain" /\ reader # "reading"
    /\ pc' = "report" /\ late' = TRUE
    /\ UNCHANGED <<call, outcome, proc, zero, job, output, reported, listener, cancelled>>

DrainGrace ==
    /\ pc = "drain" /\ reader = "reading"
    /\ pc' = "report" /\ late' = TRUE
    /\ UNCHANGED <<call, outcome, proc, zero, job, output, reported, listener, cancelled>>

\* truncate_output: the beginning of the output, and a note when there was more.
Truncated(chunks) ==
    [chunks |-> IF chunks <= OutputCap THEN chunks ELSE OutputCap, note |-> chunks > OutputCap]

\* The buffer is copied and cut; leaving the function closes the job object.
Report ==
    /\ pc = "report"
    /\ reported' = IF outcome = "cancelled" THEN reported ELSE Truncated(buffer)
    /\ CloseJob
    /\ Return(outcome)
    /\ UNCHANGED <<call, zero, output, late, listener, cancelled>>

-----------------------------------------------------------------------------
\* A background launch writes to a log file and belongs to no job.
SpawnBackground ==
    /\ pc = "start" /\ kind # "foreground"
    /\ proc' = [proc EXCEPT ![Child] = "running"]
    /\ pc' = "probe"
    /\ UNCHANGED <<call, outcome, zero, job, output, late, reported, listener, cancelled>>

\* After BACKGROUND_STARTUP_PROBE, without a look at the cancel flag.
Probe ==
    /\ pc = "probe"
    /\ \/ ~Running(Child) /\ Return("exited")
       \/ Running(Child) /\ kind = "background" /\ Return("started")
       \/ Running(Child) /\ kind = "service" /\ pc' = "ready" /\ UNCHANGED outcome
    /\ UNCHANGED <<call, proc, zero, job, output, late, reported, listener, cancelled>>

\* Mutant: a cancel stops waiting for the port and leaves the service.
ReadyCancelledLeaves ==
    /\ pc = "ready" /\ cancelled
    /\ Return("cancelled")
    /\ UNCHANGED <<call, proc, zero, job, output, late, reported, listener, cancelled>>

ReadyCancelled ==
    /\ pc = "ready" /\ cancelled
    /\ proc' = Killed
    /\ listener' = IF listener = Child THEN Nobody ELSE listener
    /\ Return("cancelled")
    /\ UNCHANGED <<call, zero, job, output, late, reported, cancelled>>

\* await_port_ready asks the port before it asks for the child.
ReadyConnected ==
    /\ pc = "ready" /\ ~cancelled /\ listener # Nobody
    /\ Return("ready")
    /\ UNCHANGED <<call, proc, zero, job, output, late, reported, listener, cancelled>>

ReadyExited ==
    /\ pc = "ready" /\ ~cancelled /\ listener = Nobody /\ ~Running(Child)
    /\ Return("exited")
    /\ UNCHANGED <<call, proc, zero, job, output, late, reported, listener, cancelled>>

ReadyTimeout ==
    /\ pc = "ready" /\ ~cancelled /\ listener = Nobody /\ Running(Child)
    /\ Return("not_ready")
    /\ UNCHANGED <<call, proc, zero, job, output, late, reported, listener, cancelled>>

-----------------------------------------------------------------------------
\* The reader thread moves what is in the pipe to the buffer; the pipe ends when
\* it is empty and nobody can write to it any more.  A failing read ends the thread
\* as well, and what is in the pipe is lost.
ReadPipe ==
    /\ reader = "reading"
    /\ \/ /\ unread > 0
          /\ unread' = unread - 1 /\ buffer' = buffer + 1
          /\ UNCHANGED reader
       \/ /\ unread = 0 /\ Holders = {}
          /\ reader' = "eof"
          /\ UNCHANGED <<unread, buffer>>
       \/ /\ reader' = "gave_up"
          /\ UNCHANGED <<unread, buffer>>
    /\ UNCHANGED <<call, pc, outcome, proc, zero, job, pipe, late, reported, listener, cancelled>>

\* A process starts another, which joins the job of its parent and may inherit
\* the pipe.
Fork(p, d) ==
    /\ Running(p) /\ proc[d] = "none"
    /\ proc' = [proc EXCEPT ![d] = "running"]
    /\ job' = IF p \in job THEN job \cup {d} ELSE job
    /\ pipe' \in {pipe} \cup (IF p \in pipe THEN {pipe \cup {d}} ELSE {})
    /\ UNCHANGED <<call, pc, outcome, zero, unread, buffer, reader, late, reported, listener, cancelled>>

Emit(p) ==
    /\ p \in Holders /\ unread + buffer < MaxOutput
    /\ unread' = unread + 1
    /\ UNCHANGED <<call, pc, outcome, proc, zero, job, pipe, buffer, reader, late, reported, listener, cancelled>>

Exit(p) ==
    /\ Running(p)
    /\ proc' = [proc EXCEPT ![p] = "dead"]
    /\ zero' \in IF p = Child THEN BOOLEAN ELSE {zero}
    /\ listener' = IF listener = p THEN Nobody ELSE listener
    /\ UNCHANGED <<call, pc, outcome, job, output, late, reported, cancelled>>

Listen(p) ==
    /\ Running(p) /\ kind = "service" /\ listener = Nobody
    /\ listener' = p
    /\ UNCHANGED <<call, pc, outcome, proc, zero, job, output, late, reported, cancelled>>

Cancel ==
    /\ ~cancelled
    /\ cancelled' = TRUE
    /\ UNCHANGED <<call, pc, outcome, proc, zero, job, output, late, reported, listener>>

Call == \/ Refuse \/ SpawnForeground \/ Adopt \/ PollCancelled \/ PollExited \/ PollDeadline \/ WaitFails
        \/ DrainDone \/ DrainGrace \/ Report
        \/ SpawnBackground \/ Probe
        \/ ReadyCancelled \/ ReadyConnected \/ ReadyExited \/ ReadyTimeout

World == \/ \E p \in Tree : Emit(p) \/ Exit(p) \/ Listen(p)
         \/ \E p \in Tree, d \in Descendants : Fork(p, d)

\* "foreign": the port is already served by a process outside the tree.
Init ==
    /\ windows \in BOOLEAN /\ kind \in Kinds
    /\ pc = "start" /\ outcome = "none"
    /\ proc = [p \in Tree |-> "none"] /\ zero = FALSE
    /\ job = {} /\ pipe = {} /\ unread = 0 /\ buffer = 0 /\ reader = "none"
    /\ late = FALSE /\ reported = Truncated(0)
    /\ listener \in {Nobody, "foreign"} /\ (kind # "service" => listener = Nobody)
    /\ cancelled = FALSE

Next == Call \/ ReadPipe \/ World \/ Cancel

Spec == Init /\ [][Next]_vars

\* The thread of the call runs and its timers fire; nothing is assumed of the
\* processes or of the pipe.
FairSpec == Spec /\ WF_vars(Call)

-----------------------------------------------------------------------------
\* Types of the call, its processes and its output.
TypeOK ==
    /\ windows \in BOOLEAN /\ kind \in Kinds
    /\ pc \in {"start", "adopt", "poll", "drain", "report", "probe", "ready", "returned"}
    /\ outcome \in Outcomes
    /\ proc \in [Tree -> {"none", "running", "dead"}] /\ zero \in BOOLEAN
    /\ job \subseteq Tree /\ pipe \subseteq Tree
    /\ unread \in Nat /\ buffer \in Nat /\ reported \in [chunks : Nat, note : BOOLEAN]
    /\ reader \in {"none", "reading", "eof", "gave_up"} /\ late \in BOOLEAN
    /\ listener \in Tree \cup {Nobody, "foreign"} /\ cancelled \in BOOLEAN

\* A foreground call that has returned has ended its direct child, whichever of
\* exit, deadline and cancel came first, unless try_wait itself failed.  A background
\* launch leaves it running only when the result says that it runs (started, ready,
\* not yet ready) or when try_wait failed: a result "cancelled" means a dead child.
ChildAccountedFor ==
    pc = "returned" /\ Running(Child)
        => \/ outcome = "error"
           \/ kind # "foreground" /\ outcome \in {"started", "ready", "not_ready"}

\* With nothing but the call's own thread running on, the call returns: neither a
\* command that never ends nor a grandchild that keeps the pipe open can hold the
\* turn (the deadline of the loop, PIPE_DRAIN_GRACE, the ready timeout).
CallReturns == (pc # "returned") ~> (pc = "returned")

\* Unless the grace ran out or a read of the pipe failed, the result holds the
\* beginning, as much as truncate_output lets through, of everything the tree has
\* written or will write, what was still in the pipe when the child ended included;
\* and it says that output is missing exactly when some is.
OutputComplete ==
    pc = "returned" /\ outcome \in {"ok", "failed", "timed_out"} /\ ~late /\ reader # "gave_up"
        => reported = Truncated(buffer + unread)

\* "Running commands are killed: `run_command` [...] terminates the child process when
\* cancelled": a call that returns after the cancel, and not because try_wait failed,
\* leaves no child.
\* The code does not satisfy it: README, section 6.
CancelEndsChild ==
    [][pc # "returned" /\ pc' = "returned" /\ cancelled /\ outcome' # "error"
         => proc'[Child] # "running"]_vars

\* "Waits until a background service accepts a local connection on `port`": when
\* the call reports the service ready, a process of its tree listens.
\* The code does not satisfy it: README, section 6.
ReadyMeansServing ==
    [][pc' = "returned" /\ pc # "returned" /\ outcome' = "ready" => listener \in Tree]_vars

\* "A job object with `KILL_ON_JOB_CLOSE` makes the whole tree die with the guard":
\* on a build with job objects, where adopting the child worked, nobody of the tree
\* is left when a foreground call has returned.
\* The code does not satisfy it: README, section 6.
TreeDies ==
    [][pc = "report" /\ Child \in job /\ pc' = "returned"
         => \A p \in Tree : proc'[p] # "running"]_vars
=============================================================================
