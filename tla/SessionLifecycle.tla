--------------------------- MODULE SessionLifecycle ---------------------------
(***************************************************************************)
(* One session of xcoding: its row in the SQLite store, its approval queue *)
(* and its transcript, and the commands that act on it at the same time.   *)
(*                                                                         *)
(* A worker is one command in flight: AgentService::chat, a resolve of an  *)
(* approval, or a cancel.  Every SQLite statement is a step of its own, so *)
(* a check and the write it protects can be separated by another worker.   *)
(*                                                                         *)
(* The stdio server runs every command on one current-thread runtime with  *)
(* one CoreService: commands switch only at an await, a second chat or     *)
(* resolve is refused while one is in flight, and all commands share one   *)
(* CancelProbe.  Desktop, and several CLI processes on one workspace, open *)
(* a CoreService per command on a thread or process of its own: any two    *)
(* statements interleave and a CancelProbe is seen by its own command only.*)
(***************************************************************************)
EXTENDS Naturals, Sequences, FiniteSets

CONSTANTS
    Workers,            \* commands that may be in flight at the same time
    Actions,            \* identities of rows of pending_actions
    NoAction,           \* the Option::None of an action
    Deployment,         \* "stdio" or "desktop"
    ToolingMayFail,     \* can opening the tools, recording a call or reconciling fail
    MaxTurns,           \* bound: user messages sent to the session
    MaxRounds,          \* max_tool_rounds of the user configuration
    MaxCalls,           \* bound: tool calls in one reply of the model
    MaxPolls,           \* bound: looks at a child before its deadline
    MaxRollbacks,       \* bound: restore points rolled back
    MaxCrashes          \* bound: times the process is killed

ASSUME DeploymentAssumption == Deployment \in {"stdio", "desktop"}
ASSUME NoActionAssumption == NoAction \notin Actions
ASSUME ToolingAssumption == ToolingMayFail \in BOOLEAN
ASSUME BoundsAssumption ==
    /\ MaxTurns \in Nat /\ MaxRounds \in Nat
    /\ MaxCalls \in Nat /\ MaxPolls \in Nat /\ MaxRollbacks \in Nat /\ MaxCrashes \in Nat

VARIABLES
    status,         \* sessions.status
    action,         \* pending_actions.status, by action
    transcript,     \* messages, oldest first: role and the turn that wrote it
    turn,           \* number of user messages so far
    probe,          \* the CancelProbe a worker sees, for this session
    pc,             \* where a worker is in its command
    job,            \* the locals of a worker's command
    up,             \* is the process running
    crashes,        \* times the process was killed
    executed        \* history: how often an approved call was started

row     == <<status, action, transcript, turn>>
process == <<up, crashes>>
vars    == <<status, action, transcript, turn, probe, pc, job, up, crashes, executed>>

SharedCore == Deployment = "stdio"

SessionStatus == {"none", "created", "running", "need_user", "done", "failed", "cancelled"}
ActionStatus  == {"absent", "pending", "approved", "rejected"}
\* The roles of the protocol, with a partial answer told apart from an answer, and
\* the tool message of a rollback from that of a call.
Message       == [role : {"user", "assistant", "partial", "tool", "rollback"}, turn : Nat]

\* Mutant of AwaitPoints: an await between the last look at the cancel state and
\* the start of a tool.
AwaitBeforeLaunch   == {"idle", "panicked", "prepare", "describe", "stream", "spawn", "command",
                        "waiting", "exited", "killed", "memory", "launch"}

\* Labels at which a command holds no thread: it has not started, or it awaits
\* the provider, history compaction or the thread that runs a command.
AwaitPoints == {"idle", "panicked", "prepare", "describe", "stream", "spawn", "command",
                "waiting", "exited", "killed", "memory"}

\* chat and resolve up to the point where run_session owns the turn
StartLabels  == {"start_run", "start_msg", "cont_append", "cont_run",
                 "res_cas", "res_resume", "res_run", "res_setup", "reject_msg"}
\* run_session and the tools it runs
DriveLabels  == {"prepare", "round", "describe", "stream", "received", "answer", "complete",
                 "complete_append", "complete_set", "tool", "decide", "exec", "launch",
                 "blocking", "spawn", "command", "waiting", "exited", "killed", "record",
                 "ask", "pause"}
\* the ways out of a turn
ExitLabels   == {"persist_read", "persist_append", "cancelled", "error",
                 "fail_read", "fail_set", "memory"}
CancelLabels == {"can_partial", "can_append", "can_reject", "can_mark", "can_set"}
Labels == {"idle", "panicked"} \cup StartLabels \cup DriveLabels \cup ExitLabels
              \cup CancelLabels

Job == [kind     : {"none", "chat", "resolve", "cancel"},
        turn     : Nat,                             \* turn it was started for
        target   : Actions \cup {NoAction},         \* ResolveActionParams.action_id
        approved : BOOLEAN,                         \* ResolveActionParams.approved
        ticket   : Actions \cup {NoAction},         \* approved call not yet started
        resuming : BOOLEAN,                         \* in resolve, before run_session
        rounds   : Nat,                             \* tool_round_index
        calls    : Nat,                             \* calls of the reply still to do
        polls    : Nat]                             \* turns of the loop in run_command

NoJob == [kind |-> "none", turn |-> 0, target |-> NoAction, approved |-> FALSE,
          ticket |-> NoAction, resuming |-> FALSE, rounds |-> 0, calls |-> 0,
          polls |-> 0]

-----------------------------------------------------------------------------
(* Scheduling *)

\* On the server's single thread a command runs until its next await; on
\* Desktop every command has a thread of its own.
Scheduled(w) ==
    /\ up
    /\ SharedCore => \A v \in Workers \ {w} : pc[v] \in AwaitPoints

At(w, label) == pc[w] = label /\ Scheduled(w)

Goto(w, label) == pc' = [pc EXCEPT ![w] = label]

\* The command of w returns: its locals are gone.
Return(w) ==
    /\ pc'  = [pc EXCEPT ![w] = "idle"]
    /\ job' = [job EXCEPT ![w] = NoJob]

\* Is w a chat or a resolve that is still in flight?
LongRunning(w) == job[w].kind \in {"chat", "resolve"}

\* Mutant of Accepts: the server takes a second chat while one is in flight.
AcceptsWhileBusy(w) == pc[w] = "idle" /\ Scheduled(w)

\* handle_concurrent_request refuses a second chat or resolve.
Accepts(w) ==
    /\ pc[w] = "idle"
    /\ Scheduled(w)
    /\ SharedCore => \A v \in Workers : ~LongRunning(v)

SameCore(v, w) == SharedCore \/ v = w

SetProbe(w, b) == probe' = [v \in Workers |-> IF SameCore(v, w) THEN b ELSE probe[v]]

\* A Desktop command opens a CoreService of its own, with an empty probe.
FreshCore(w) == probe' = [probe EXCEPT ![w] = SharedCore /\ @]

\* CoreService::is_session_cancelled
IsCancelled(w) == probe[w] \/ status = "cancelled"

Append1(role, t) == transcript' = Append(transcript, [role |-> role, turn |-> t])

\* The message is the last one, but for the records of rollbacks.
Ends(role, t) ==
    \E k \in 1..Len(transcript) :
        /\ transcript[k] = [role |-> role, turn |-> t]
        /\ \A j \in k+1..Len(transcript) : transcript[j].role = "rollback"

-----------------------------------------------------------------------------
(* Mutants of the actions below, one plausible mistake each *)

\* resolve_pending_action without WHERE status = Pending
ResolveActionUnchecked(w) ==
    /\ At(w, "res_cas")
    /\ LET a == job[w].target IN
       /\ action' = [action EXCEPT ![a] = IF job[w].approved THEN "approved" ELSE "rejected"]
       /\ job' = [job EXCEPT ![w].ticket = IF job[w].approved THEN a ELSE NoAction]
       /\ Goto(w, "res_resume")
    /\ UNCHANGED <<status, transcript, turn, probe, process, executed>>

\* an error of the turn is reported without fail_chat
ErrorReportedOnly(w) ==
    /\ At(w, "error")
    /\ Return(w)
    /\ UNCHANGED <<row, probe, process, executed>>

\* complete_chat sets Done without storing the answer
CompleteReadNoMessage(w) ==
    /\ At(w, "complete")
    /\ Goto(w, IF status = "cancelled" THEN "panicked" ELSE "complete_set")
    /\ UNCHANGED <<row, probe, job, process, executed>>

\* cancel_session without the test for an active session
CancelAny(w) ==
    /\ pc[w] = "idle"
    /\ Scheduled(w)
    /\ status # "none"
    /\ job' = [job EXCEPT ![w] = [NoJob EXCEPT !.kind = "cancel", !.turn = turn]]
    /\ Goto(w, "can_partial")
    /\ FreshCore(w)
    /\ UNCHANGED <<row, process, executed>>

\* cancel_session without reject_pending_actions
CancelKeepsActions(w) ==
    /\ At(w, "can_reject")
    /\ Goto(w, "can_mark")
    /\ UNCHANGED <<row, probe, job, process, executed>>

\* run_command polls its child without looking at the timeout
CommandWaitNoTimeout(w) ==
    /\ up /\ pc[w] = "waiting"
    /\ Goto(w, "exited") \/ Goto(w, "command")
    /\ UNCHANGED <<row, probe, job, process, executed>>

\* Cancelled treated as a retryable error
CancelledRetried(w) ==
    /\ At(w, "cancelled")
    /\ Goto(w, "round")
    /\ UNCHANGED <<row, probe, job, process, executed>>

\* Desktop starts without reconcile_interrupted_sessions
NotReconciled == status

-----------------------------------------------------------------------------
(* chat: start_chat and continue_chat *)

\* start_chat of a new session: the row is inserted as Created ...
StartChat(w) ==
    /\ Accepts(w)
    /\ status = "none"
    /\ turn < MaxTurns
    /\ status' = "created"
    /\ job' = [job EXCEPT ![w] = [NoJob EXCEPT !.kind = "chat"]]
    /\ Goto(w, "start_run")
    /\ FreshCore(w)
    /\ UNCHANGED <<action, transcript, turn, process, executed>>

\* session.create of the JSON-RPC server inserts the row and starts nothing.
CreateSession(w) ==
    /\ pc[w] = "idle"
    /\ Scheduled(w)
    /\ status = "none"
    /\ status' = "created"
    /\ UNCHANGED <<action, transcript, turn, probe, pc, job, process, executed>>

\* ... then set to Running ...
StartRun(w) ==
    /\ At(w, "start_run")
    /\ status' = "running"
    /\ Goto(w, "start_msg")
    /\ UNCHANGED <<action, transcript, turn, probe, job, process, executed>>

\* ... and the user message is appended last.
StartMessage(w) ==
    /\ At(w, "start_msg")
    /\ turn' = turn + 1
    /\ Append1("user", turn + 1)
    /\ job' = [job EXCEPT ![w].turn = turn + 1]
    /\ Goto(w, "prepare")
    /\ UNCHANGED <<status, action, probe, process, executed>>

\* continue_chat reads the status: only a session at rest takes a message.
ContinueChat(w) ==
    /\ Accepts(w)
    /\ status \in {"created", "done", "failed", "cancelled"}
    /\ turn < MaxTurns
    /\ job' = [job EXCEPT ![w] = [NoJob EXCEPT !.kind = "chat"]]
    /\ Goto(w, "cont_append")
    /\ FreshCore(w)
    /\ UNCHANGED <<row, process, executed>>

\* The probe is cleared and the user message is appended ...
ContinueAppend(w) ==
    /\ At(w, "cont_append")
    /\ SetProbe(w, FALSE)
    /\ turn' = turn + 1
    /\ Append1("user", turn + 1)
    /\ job' = [job EXCEPT ![w].turn = turn + 1]
    /\ Goto(w, "cont_run")
    /\ UNCHANGED <<status, action, process, executed>>

\* ... and the session is Running again, whatever its status is by now.
ContinueRun(w) ==
    /\ At(w, "cont_run")
    /\ status' = "running"
    /\ Goto(w, "prepare")
    /\ UNCHANGED <<action, transcript, turn, probe, job, process, executed>>

-----------------------------------------------------------------------------
(* resolve: the answer to an approval request *)

\* resolve_pending_action reads the status and the action.
Resolve(w, a, approved) ==
    /\ Accepts(w)
    /\ status = "need_user"
    /\ action[a] # "absent"
    /\ job' = [job EXCEPT ![w] = [NoJob EXCEPT !.kind = "resolve", !.turn = turn,
                                  !.target = a, !.approved = approved,
                                  !.resuming = TRUE]]
    /\ Goto(w, "res_cas")
    /\ FreshCore(w)
    /\ UNCHANGED <<row, process, executed>>

\* UPDATE ... WHERE status = Pending: one resolver gets the action, the others
\* are told that it has already been resolved.
ResolveAction(w) ==
    /\ At(w, "res_cas")
    /\ LET a == job[w].target IN
       \/ /\ action[a] = "pending"
          /\ action' = [action EXCEPT ![a] = IF job[w].approved THEN "approved"
                                                                ELSE "rejected"]
          /\ job' = [job EXCEPT ![w].ticket = IF job[w].approved THEN a ELSE NoAction]
          /\ Goto(w, "res_resume")
       \/ /\ action[a] # "pending"
          /\ Return(w)
          /\ UNCHANGED action
    /\ UNCHANGED <<status, transcript, turn, probe, process, executed>>

\* resume_chat refuses a cancelled session ...
ResumeRead(w) ==
    /\ At(w, "res_resume")
    /\ \/ status = "cancelled" /\ Return(w)
       \/ status # "cancelled" /\ Goto(w, "res_run") /\ UNCHANGED job
    /\ UNCHANGED <<row, probe, process, executed>>

\* ... and sets any other one to Running.
ResumeRun(w) ==
    /\ At(w, "res_run")
    /\ status' = "running"
    /\ Goto(w, "res_setup")
    /\ UNCHANGED <<action, transcript, turn, probe, job, process, executed>>

\* Tools and MCP servers are opened; their errors leave resolve at once.
ResolveSetup(w) ==
    /\ At(w, "res_setup")
    /\ \/ ToolingMayFail /\ Return(w)
       \/ /\ Goto(w, IF job[w].approved THEN "exec" ELSE "reject_msg")
          /\ UNCHANGED job
    /\ UNCHANGED <<row, probe, process, executed>>

\* A rejected call is answered with a tool message and the turn goes on.
RejectMessage(w) ==
    /\ At(w, "reject_msg")
    /\ Append1("tool", job[w].turn)
    /\ job' = [job EXCEPT ![w].resuming = FALSE]
    /\ Goto(w, "prepare")
    /\ UNCHANGED <<status, action, turn, probe, process, executed>>

-----------------------------------------------------------------------------
(* run_session: rounds of the model, and the tools it calls *)

\* Opening tools, MCP servers and provider, and compacting the history: the request
\* for a summary is awaited without a timeout and without a look at the cancel state.
Prepare(w) ==
    /\ At(w, "prepare")
    /\ \E next \in {"round", "error"} : Goto(w, next)
    /\ UNCHANGED <<row, probe, job, process, executed>>

\* A round starts with a look at the cancel state; ToolCallLimit ends the loop.
Round(w) ==
    /\ At(w, "round")
    /\ \/ /\ job[w].rounds = MaxRounds
          /\ Goto(w, "error")
          /\ UNCHANGED job
       \/ /\ job[w].rounds < MaxRounds
          /\ IsCancelled(w)
          /\ Goto(w, "persist_read")
          /\ UNCHANGED job
       \/ /\ job[w].rounds < MaxRounds
          /\ ~IsCancelled(w)
          /\ job' = [job EXCEPT ![w].rounds = @ + 1]
          /\ Goto(w, "stream") \/ Goto(w, "describe")
    /\ UNCHANGED <<row, probe, process, executed>>

\* The images of the message are described by another model first, which is awaited
\* like a summary; a failed description is left out.
Described(w) ==
    /\ At(w, "describe")
    /\ Goto(w, "stream")
    /\ UNCHANGED <<row, probe, job, process, executed>>

\* The provider attempts of a round end with a reply of some tool calls (none:
\* the final answer) ...
StreamReply(w, n) ==
    /\ At(w, "stream")
    /\ job' = [job EXCEPT ![w].calls = n]
    /\ Goto(w, "received")
    /\ UNCHANGED <<row, probe, process, executed>>

\* ... with an error no fallback recovers ...
StreamError(w) ==
    /\ At(w, "stream")
    /\ Goto(w, "error")
    /\ UNCHANGED <<row, probe, job, process, executed>>

\* ... or at a poll of the cancel state.
StreamCancelled(w) ==
    /\ At(w, "stream")
    /\ IsCancelled(w)
    /\ Goto(w, "persist_read")
    /\ UNCHANGED <<row, probe, job, process, executed>>

\* The check after the stream.
Received(w) ==
    /\ At(w, "received")
    /\ Goto(w, IF IsCancelled(w) THEN "persist_read"
               ELSE IF job[w].calls = 0 THEN "answer" ELSE "tool")
    /\ UNCHANGED <<row, probe, job, process, executed>>

\* The task summary is built, then the cancel state is checked once more.
Answer(w) ==
    /\ At(w, "answer")
    /\ \/ Goto(w, "error")
       \/ Goto(w, IF IsCancelled(w) THEN "persist_read" ELSE "complete")
    /\ UNCHANGED <<row, probe, job, process, executed>>

\* complete_chat reads the status; for a cancelled session it returns no
\* message, and the caller's expect() panics.
CompleteRead(w) ==
    /\ At(w, "complete")
    /\ Goto(w, IF status = "cancelled" THEN "panicked" ELSE "complete_append")
    /\ UNCHANGED <<row, probe, job, process, executed>>

CompleteAppend(w) ==
    /\ At(w, "complete_append")
    /\ Append1("assistant", job[w].turn)
    /\ Goto(w, "complete_set")
    /\ UNCHANGED <<status, action, turn, probe, job, process, executed>>

CompleteSet(w) ==
    /\ At(w, "complete_set")
    /\ status' = "done"
    /\ Goto(w, "memory")
    /\ UNCHANGED <<action, transcript, turn, probe, job, process, executed>>

\* record_local_memories runs after the terminal events and cannot fail the turn.
Memory(w) ==
    /\ At(w, "memory")
    /\ Return(w)
    /\ UNCHANGED <<row, probe, process, executed>>

\* A panic ends the command that made it.
Unwind(w) ==
    /\ At(w, "panicked")
    /\ Return(w)
    /\ UNCHANGED <<row, probe, process, executed>>

\* The check before each tool call.
ToolCheck(w) ==
    /\ At(w, "tool")
    /\ Goto(w, IF IsCancelled(w) THEN "persist_read" ELSE "decide")
    /\ UNCHANGED <<row, probe, job, process, executed>>

\* The policy allows a call, asks the user, or denies it (a call that cannot be
\* decoded, previewed or permitted is denied with a tool message as well).  A secret
\* reference that may not be resolved ends the turn.  The rows of Actions bound the
\* number of questions.
Decide(w) ==
    /\ At(w, "decide")
    /\ \/ Goto(w, "exec")
       \/ Goto(w, "record")
       \/ Goto(w, "error")
       \/ (\E a \in Actions : action[a] = "absent") /\ Goto(w, "ask")
    /\ UNCHANGED <<row, probe, job, process, executed>>

\* execute_and_record: one more check of the cancel state ...
Execute(w) ==
    /\ At(w, "exec")
    /\ Goto(w, IF IsCancelled(w) THEN "cancelled" ELSE "launch")
    /\ UNCHANGED <<row, probe, job, process, executed>>

\* ... and the call is handed over, a command to a blocking thread, whose end is
\* awaited; any other tool runs where it is called.  The ticket of an approved action
\* is spent.
Launch(w) ==
    /\ At(w, "launch")
    /\ \E next \in {"spawn", "blocking"} : Goto(w, next)
    /\ job' = [job EXCEPT ![w].ticket = NoAction, ![w].polls = 0]
    /\ executed' = [a \in Actions |-> IF a = job[w].ticket THEN executed[a] + 1
                                                          ELSE executed[a]]
    /\ UNCHANGED <<row, probe, process>>

\* The tool returns to the thread that called it.  Git and the servers of MCP are
\* waited for without a timeout.
ToolReturns(w) ==
    /\ At(w, "blocking")
    /\ Goto(w, "record")
    /\ UNCHANGED <<row, probe, job, process, executed>>

\* The blocking thread gets to the call and spawns the child, without a look at the
\* probe; or there is nothing to spawn.
Spawn(w) ==
    /\ up /\ pc[w] = "spawn"
    /\ Goto(w, "command") \/ Goto(w, "exited")
    /\ UNCHANGED <<row, probe, job, process, executed>>

\* The restore point of a patch, the result of a call, a question or the status that
\* goes with it cannot be stored.
ExecuteError(w) ==
    /\ \E label \in {"launch", "record", "ask", "pause"} : At(w, label)
    /\ ToolingMayFail
    /\ Goto(w, "error")
    /\ UNCHANGED <<row, probe, job, process, executed>>

\* run_command, on a blocking thread beside the server's: each time round it
\* looks at the cancel probe, and only at the probe ...
CommandPoll(w) ==
    /\ up /\ pc[w] = "command"
    /\ Goto(w, IF probe[w] THEN "killed" ELSE "waiting")
    /\ UNCHANGED <<row, probe, job, process, executed>>

\* ... and then at the child, which has exited, is killed at the deadline, or is
\* given another 50 ms.
CommandWait(w) ==
    /\ up /\ pc[w] = "waiting"
    /\ \/ Goto(w, "exited") /\ UNCHANGED job
       \/ /\ job[w].polls < MaxPolls
          /\ job' = [job EXCEPT ![w].polls = @ + 1]
          /\ Goto(w, "command")
    /\ UNCHANGED <<row, probe, process, executed>>

\* The future that awaits the thread gets its result.
CommandJoin(w) ==
    /\ \/ At(w, "killed") /\ Goto(w, "cancelled")
       \/ At(w, "exited") /\ Goto(w, "record")
    /\ UNCHANGED <<row, probe, job, process, executed>>

\* The tool message is stored; the next call, the next round, or run_session
\* after the call of a resolve.
Record(w) ==
    /\ At(w, "record")
    /\ Append1("tool", job[w].turn)
    /\ \/ /\ job[w].resuming
          /\ job' = [job EXCEPT ![w].resuming = FALSE]
          /\ Goto(w, "prepare")
       \/ /\ ~job[w].resuming
          /\ job' = [job EXCEPT ![w].calls = @ - 1]
          /\ Goto(w, IF job[w].calls > 1 THEN "tool" ELSE "round")
    /\ UNCHANGED <<status, action, turn, probe, process, executed>>

\* create_pending_action inserts a new row.
Ask(w, a) ==
    /\ At(w, "ask")
    /\ action[a] = "absent"
    /\ action' = [action EXCEPT ![a] = "pending"]
    /\ Goto(w, "pause")
    /\ UNCHANGED <<status, transcript, turn, probe, job, process, executed>>

\* pause_chat: NeedUser whatever the status is by now; the remaining calls of
\* the reply are dropped and the command returns.
Pause(w) ==
    /\ At(w, "pause")
    /\ status' = "need_user"
    /\ Return(w)
    /\ UNCHANGED <<action, transcript, turn, probe, process, executed>>

-----------------------------------------------------------------------------
(* Ways out of a turn *)

\* persist_partial_assistant_output: nothing to keep, or already the last
\* message, or one to append.  A partial answer stored by the cancel is the text
\* the client had seen, which may be shorter than what the worker has.
PersistRead(w) ==
    /\ At(w, "persist_read")
    /\ Goto(w, "cancelled") \/ Goto(w, "persist_append")
    /\ UNCHANGED <<row, probe, job, process, executed>>

PersistAppend(w) ==
    /\ At(w, "persist_append")
    /\ Append1("partial", job[w].turn)
    /\ Goto(w, "cancelled")
    /\ UNCHANGED <<status, action, turn, probe, job, process, executed>>

\* cancelled_result reads the row and reports; it never writes the status.
CancelledResult(w) ==
    /\ At(w, "cancelled")
    /\ Return(w)
    /\ UNCHANGED <<row, probe, process, executed>>

\* An error of run_session in chat or resolve, or of execute_and_record.
Error(w) ==
    /\ At(w, "error")
    /\ LET chat == job[w].kind = "chat" IN
       \/ IsCancelled(w) /\ Goto(w, "cancelled") /\ UNCHANGED job
       \/ ~IsCancelled(w) /\ job[w].resuming /\ Return(w)
       \/ /\ ~IsCancelled(w) /\ ~job[w].resuming
          /\ chat /\ status \notin {"running", "need_user"}
          /\ Return(w)
       \/ /\ ~IsCancelled(w) /\ ~job[w].resuming
          /\ chat => status \in {"running", "need_user"}
          /\ Goto(w, "fail_read")
          /\ UNCHANGED job
    /\ UNCHANGED <<row, probe, process, executed>>

\* fail_chat leaves a cancelled or done session alone ...
FailRead(w) ==
    /\ At(w, "fail_read")
    /\ \/ status \in {"cancelled", "done"} /\ Return(w)
       \/ status \notin {"cancelled", "done"} /\ Goto(w, "fail_set") /\ UNCHANGED job
    /\ UNCHANGED <<row, probe, process, executed>>

FailSet(w) ==
    /\ At(w, "fail_set")
    /\ status' = "failed"
    /\ Return(w)
    /\ UNCHANGED <<action, transcript, turn, probe, process, executed>>

-----------------------------------------------------------------------------
(* cancel_session *)

\* Only an active session can be cancelled.
Cancel(w) ==
    /\ pc[w] = "idle"
    /\ Scheduled(w)
    /\ status \in {"running", "need_user"}
    /\ job' = [job EXCEPT ![w] = [NoJob EXCEPT !.kind = "cancel", !.turn = turn]]
    /\ Goto(w, "can_partial")
    /\ FreshCore(w)
    /\ UNCHANGED <<row, process, executed>>

\* partial_assistant is absent, or already the last message, or appended.
CancelPartial(w) ==
    /\ At(w, "can_partial")
    /\ Goto(w, "can_reject") \/ Goto(w, "can_append")
    /\ UNCHANGED <<row, probe, job, process, executed>>

CancelAppend(w) ==
    /\ At(w, "can_append")
    /\ Append1("partial", job[w].turn)
    /\ Goto(w, "can_reject")
    /\ UNCHANGED <<status, action, turn, probe, job, process, executed>>

\* reject_pending_actions is one UPDATE ...
CancelReject(w) ==
    /\ At(w, "can_reject")
    /\ action' = [a \in Actions |-> IF action[a] = "pending" THEN "rejected" ELSE action[a]]
    /\ Goto(w, "can_mark")
    /\ UNCHANGED <<status, transcript, turn, probe, job, process, executed>>

\* ... the probe of this CoreService is marked ...
CancelMark(w) ==
    /\ At(w, "can_mark")
    /\ SetProbe(w, TRUE)
    /\ Goto(w, "can_set")
    /\ UNCHANGED <<row, job, process, executed>>

\* ... and the row is Cancelled, whatever its status is by now.
CancelSet(w) ==
    /\ At(w, "can_set")
    /\ status' = "cancelled"
    /\ Return(w)
    /\ UNCHANGED <<action, transcript, turn, probe, process, executed>>

-----------------------------------------------------------------------------
(* rollback *)

Records(role) == {k \in 1..Len(transcript) : transcript[k].role = role}

\* A restore point, which an earlier tool call has left, is rolled back: a tool message
\* is appended whatever the status is.  (The file: PatchFiles, Rollback.)
Rollback(w) ==
    /\ Accepts(w)
    /\ Records("tool") # {}
    /\ Cardinality(Records("rollback")) < MaxRollbacks
    /\ Append1("rollback", turn)
    /\ UNCHANGED <<status, action, turn, probe, pc, job, process, executed>>

-----------------------------------------------------------------------------
(* The process is killed, and started again *)

Crash ==
    /\ up
    /\ crashes < MaxCrashes
    /\ crashes' = crashes + 1
    /\ up' = FALSE
    /\ pc' = [w \in Workers |-> "idle"]
    /\ job' = [w \in Workers |-> NoJob]
    /\ probe' = [w \in Workers |-> FALSE]
    /\ UNCHANGED <<row, executed>>

\* reconcile_interrupted_sessions runs when Desktop starts, and only there; if it
\* fails, Desktop starts without.
Reconciled == IF Deployment = "desktop" /\ status = "running" THEN "cancelled" ELSE status

Restart ==
    /\ ~up
    /\ up' = TRUE
    /\ \/ status' = Reconciled
       \/ ToolingMayFail /\ UNCHANGED status
    /\ UNCHANGED <<action, transcript, turn, probe, pc, job, crashes, executed>>

-----------------------------------------------------------------------------
Init ==
    /\ status = "none"
    /\ action = [a \in Actions |-> "absent"]
    /\ transcript = <<>>
    /\ turn = 0
    /\ probe = [w \in Workers |-> FALSE]
    /\ pc = [w \in Workers |-> "idle"]
    /\ job = [w \in Workers |-> NoJob]
    /\ up = TRUE
    /\ crashes = 0
    /\ executed = [a \in Actions |-> 0]

\* What the user or a client starts.
Request(w) ==
    \/ CreateSession(w) \/ StartChat(w) \/ ContinueChat(w) \/ Cancel(w) \/ Rollback(w)
    \/ \E a \in Actions, approved \in BOOLEAN : Resolve(w, a, approved)

\* A command gets what it waits for without a timeout and without a look at the cancel
\* state: the servers of MCP, a summary, a description, memories, a tool.
Unbounded(w) ==
    \/ ResolveSetup(w) \/ Prepare(w) \/ Described(w) \/ ToolReturns(w) \/ Memory(w)

\* What a command in flight does next by itself.
Step(w) ==
    \/ StartRun(w) \/ StartMessage(w) \/ ContinueAppend(w) \/ ContinueRun(w)
    \/ ResolveAction(w) \/ ResumeRead(w) \/ ResumeRun(w)
    \/ RejectMessage(w) \/ Round(w)
    \/ \E n \in 0..MaxCalls : StreamReply(w, n)
    \/ StreamError(w) \/ StreamCancelled(w) \/ Received(w)
    \/ Answer(w) \/ CompleteRead(w) \/ CompleteAppend(w) \/ CompleteSet(w)
    \/ Unwind(w)
    \/ ToolCheck(w) \/ Decide(w)
    \/ Execute(w) \/ Launch(w) \/ Spawn(w) \/ ExecuteError(w)
    \/ CommandPoll(w) \/ CommandWait(w) \/ CommandJoin(w) \/ Record(w)
    \/ \E a \in Actions : Ask(w, a)
    \/ Pause(w)
    \/ PersistRead(w) \/ PersistAppend(w) \/ CancelledResult(w)
    \/ Error(w) \/ FailRead(w) \/ FailSet(w)
    \/ CancelPartial(w) \/ CancelAppend(w) \/ CancelReject(w) \/ CancelMark(w)
    \/ CancelSet(w)

Next ==
    \/ \E w \in Workers : Request(w) \/ Step(w) \/ Unbounded(w)
    \/ Crash
    \/ Restart

Spec == Init /\ [][Next]_vars

\* A command that has been started keeps running: the runtime polls its future
\* or the thread is scheduled; the stream of a round, its retry delays and run_command
\* have timeouts.  Nothing is assumed of Unbounded.
Fairness == \A w \in Workers : WF_vars(Step(w))

FairSpec == Spec /\ Fairness

-----------------------------------------------------------------------------
(* Properties *)

TypeOK ==
    /\ status \in SessionStatus
    /\ action \in [Actions -> ActionStatus]
    /\ transcript \in Seq(Message)
    /\ turn \in Nat
    /\ probe \in [Workers -> BOOLEAN]
    /\ pc \in [Workers -> Labels]
    /\ job \in [Workers -> Job]
    /\ up \in BOOLEAN
    /\ crashes \in Nat
    /\ executed \in [Actions -> Nat]

\* A call that needed approval is started at most once, and only after the user
\* approved it, however resolves, cancels, crashes and stale workers interleave:
\* resolve_pending_action hands a Pending row to one resolver.
ApprovedOnce ==
    \A a \in Actions : executed[a] <= 1 /\ (executed[a] > 0 => action[a] = "approved")

\* Workers that will still write the status of the session.
Owns(w) ==
    /\ LongRunning(w)
    /\ pc[w] \in (StartLabels \cup DriveLabels \cup {"error", "fail_read", "fail_set"})

\* A Running row has a command that will take it out of Running.  A row without
\* one blocks the session: continue_chat and resolve refuse it.
RunningIsOwned == up /\ status = "running" => \E w \in Workers : Owns(w)

AtRest == up /\ \A w \in Workers : pc[w] \in AwaitPoints

Pending == {a \in Actions : action[a] = "pending"}

\* Between two statements of any command the approval queue and the status agree:
\* a session waits for the user exactly when one action is pending.
PendingMatchesStatus ==
    AtRest => /\ status = "need_user" => Cardinality(Pending) = 1
              /\ Pending # {} => status = "need_user"

\* Messages are stored in the order of the turns they belong to: no worker of
\* an older turn writes after the user message of a newer one.
TranscriptInOrder ==
    \A i, j \in 1..Len(transcript) : i < j => transcript[i].turn <= transcript[j].turn

\* A session that is Done ends in the answer to its newest user message, whatever was
\* cancelled, refused or rolled back; only records of rollbacks come after it.
DoneIsAnswered ==
    AtRest /\ status = "done" => Ends("assistant", turn)

\* expect("completed chat has a message"): complete_chat finds no session that
\* was cancelled after the check before it.
\* Desktop does not satisfy it: README, section 6.
NoPanic == \A w \in Workers : pc[w] # "panicked"

Launches(w) == pc[w] = "launch" /\ pc'[w] \in {"spawn", "blocking"}

\* "user cancels session: stop tools": no call is handed over in a cancelled session,
\* and a command whose hand-over the cancel has overtaken is not waited for: the
\* first look at its child ends it.
CancelStopsTools ==
    [][\A w \in Workers : Launches(w) \/ (pc[w] = "command" /\ pc'[w] = "waiting")
         => status # "cancelled"]_vars

\* The same of the spawn itself.
\* The code does not satisfy it: README, section 6.
NoSpawnAfterCancel ==
    [][\A w \in Workers : pc[w] = "spawn" /\ pc'[w] = "command" => status # "cancelled"]_vars

\* Only a new user message takes a session out of Cancelled.
\* The code does not satisfy it: README, section 6.
CancelSticks ==
    [][status = "cancelled" /\ status' # "cancelled"
         => \E w \in Workers : pc[w] = "cont_run" /\ pc'[w] = "prepare"]_vars

\* The stdio server keeps the contract of a session: the commands of several
\* clients move the status only along the transitions of SessionContract.
Contract == INSTANCE SessionContract

KeepsContract == Contract!Spec

\* "Stale workers must not fail a session already finished or restarted."
\* Desktop does not satisfy it: README, section 6.
StaleNeverFails ==
    [][\A v, w \in Workers :
         /\ pc[w] = "fail_set" /\ pc'[w] = "idle" /\ status' = "failed"
         /\ pc[v] \in DriveLabels
         => job[v].turn <= job[w].turn]_vars

\* A poll of run_command in a cancelled session terminates the child.
CommandIsKilled ==
    [][\A w \in Workers : pc[w] = "command" /\ pc'[w] = "waiting" => status # "cancelled"]_vars

WaitsUnbounded(w) == pc[w] \in {"res_setup", "prepare", "describe", "blocking", "memory"}

\* Every turn ends: the command that drives it leaves it Done, Failed, Cancelled or
\* waiting for the user, unless the process is killed first or the turn hangs for ever
\* in one of the waits that nothing bounds.
TurnEnds == \A w \in Workers : Owns(w) ~> (~Owns(w) \/ []WaitsUnbounded(w))

\* A worker notices a cancellation and returns, with the same exception.
CancelStopsWorkers ==
    \A w \in Workers :
        (status = "cancelled" /\ LongRunning(w)) ~> (~LongRunning(w) \/ []WaitsUnbounded(w))

\* "In-flight model streams are interrupted cooperatively", the stream of a summary
\* and of a description included.
\* The code does not satisfy it: README, section 6.
CancelReachesStreams ==
    \A w \in Workers : (status = "cancelled" /\ pc[w] \in {"prepare", "describe"}) ~> ~LongRunning(w)

=============================================================================
