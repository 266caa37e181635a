# A verification of xcoding

xcoding is a coding agent: a Rust workspace (agent loop, core service, SQLite
store, tools, provider clients, a JSON-RPC server on stdio) with a Tauri desktop
application and a CLI in front of it. This directory models the parts of it that
carry its own logic in TLA+, checks them with TLC on small instances and proves
their central properties with TLAPS for all instances.

| File | What it is |
|---|---|
| `SessionLifecycle.tla` | a session: its row, approvals and transcript, and the commands that act on it concurrently |
| `SessionContract.tla` | the status transitions a client may rely on; `SessionLifecycle` implements it |
| `SessionLifecycleProofs.tla` | theorems about `SessionLifecycle` |
| `ProviderFailover.tla` | candidates, retries, key health, circuit breakers and the relay |
| `ProviderFailoverProofs.tla` | theorems about `ProviderFailover` |
| `RequestTranscript.tla` | what of the stored history a request carries |
| `RequestTranscriptProofs.tla` | theorems about `RequestTranscript` |
| `StreamAttempt.tla` | one streamed answer: endpoint, chunks, decoder, agent loop and echo guard |
| `PatchFiles.tla`, `WorkspaceFile.tla` | `apply_patch`, restore points and rollback on one file; the contract they implement |
| `RunCommand.tla` | one `run_command` call with its process tree, pipe and timers |
| `McpRuntime.tla` | the tool servers of one run |
| `FollowUpQueue.tla` | the Desktop window's queue of follow-up messages |
| `PatchFilesProofs.tla`, `RunCommandProofs.tla`, `McpRuntimeProofs.tla`, `FollowUpQueueProofs.tla`, `StreamAttemptProofs.tla` | theorems about those |
| `MC*.tla`, `*.cfg` | instances for TLC |
| `PROJECT.json` | components, runs, mutants, map from definitions to source lines, findings, hazards, theorems |

Run a model with `tlc -config <run>.cfg <MC module>` and a proof with
`tlapm <module>.tla`.

## 1. Inventory

### Components, their state and operations

**Agent loop** (`crates/xcoding-agent`). `AgentService::chat` starts or continues a
session and `resolve` answers an approval; both call `run_session`, which sends
rounds of requests, runs the tool calls of each answer and ends in an answer, an
error, a cancellation or a question to the user. Its state is local to the call
(the request, the retry counters, the partial answer) except for two process-wide
maps (`PROVIDER_KEY_HEALTH`, `PROVIDER_CIRCUITS`), rotation cursors and caches.

**Core service** (`crates/xcoding-core`). The operations on a session:
`start_chat`, `continue_chat`, `pause_chat`, `resume_chat`, `complete_chat`,
`fail_chat`, `cancel_session`, `resolve_pending_action`. It adds the `CancelProbe`,
an in-memory set of cancelled sessions that a running command polls.

**Store** (`crates/xcoding-store`). SQLite tables: sessions, messages,
pending_actions, restore_points, context_windows, context_compactions, memories,
attachments, vision descriptions. Each method is one or several statements; most
have no transaction around them.

**Server** (`crates/xcoding-server`). A current-thread runtime reads requests from
stdin. One chat or resolve runs at a time; short requests (cancel among them) are
served whenever it awaits.

**Desktop** (`apps/desktop`). Every command opens a `CoreService` of its own on a
thread of its own (`open_core`, `run_agent_blocking`); at start-up rows left
Running by a dead process become Cancelled and queued follow-ups `not_started`,
unless that fails, which is logged as non-fatal. The React application keeps the queue of
follow-up messages. A relay, a terminal, an embedded browser, a password vault
and panels stand beside it.

**Tools, policy, MCP** (`crates/xcoding-tools`, `-policy`, `-mcp`). Executors of tool
calls, the decision allow / ask / deny, and external tool servers.

**Context and providers** (`crates/xcoding-context`, `-providers`). The system
prompt and the compression of tool output; HTTP clients and SSE decoding.

**Protocol, clients** (`crates/xcoding-protocol`, `packages/*`, `apps/cli`). Types, a
line-framed JSON client and the command line; every CLI invocation starts a
server of its own on the workspace's database.

`PROJECT.json` lists all thirty parts with their status and, for those not
modelled, the reason.

### How they interact

    CLI / client --stdin--> server --+                      +--> tools --> child processes
                                     +--> agent --> core --> store (SQLite)
    Desktop UI --invoke--> command --+      |
                                            +--> providers --> endpoints
    relay (HTTP) ---------------------------+  (key health and circuits are shared)

Shared state: the database (between commands, and between processes), the
`CancelProbe` (between the commands of one `CoreService`), and the key health and
circuits (between all turns and relayed requests of one process).

### What is hard, and what makes each part correct

| Part | Hard behaviour | Correct when |
|---|---|---|
| session | a check and its write are separate statements; cancel, resolve and stale workers run between them; the process dies anywhere | approved calls run once, a Running row has an owner, a cancelled session stays so and its tools stop, messages stay in the order of turns, every turn ends |
| failover | several retry paths share a counter; many turns share the health maps; all keys may be out at once | trust levels are never crossed, text never repeated, one answer per round, attempts bounded, only a verdict on its own request ends a key's refusal, a usable key is asked |
| transcript | windows, summaries, truncation, approvals and retries each cut the history | every request is well formed, a message that is not sent is counted, summarised or trimmed for its size, nothing is shown twice, summaries only advance |
| stream attempt | chunks end inside lines, connections inside answers; text is held back while it may be an echo; cancel and timeouts at every poll | an accepted answer is whole, what is stored was shown, a failure reports what was shown, no whole card of the tool history is shown |
| patches and rollback | a crash or a failing rename between restore point, temporary file and target; an editor saves meanwhile | the file is whole at every moment, changes only from a text that was compared, and each patch can be taken back exactly |
| commands | exit, deadline, cancel and port race each other; grandchildren keep the pipe | no exit loses the child, the report has the output up to its limit and says when some is missing, the call returns |
| MCP | a server dies, hangs, answers late, twice or wrongly; its child keeps the pipe | an answer belongs to its request, a call goes to the tool it names, a request to an ended server comes back |
| follow-up queue | sends, steers, drains, approvals and hydrations interleave at awaits; the process restarts | no entry is sent twice from the table, none that a restart has reconciled is sent unasked, every call ends, the queue is served |
| policy | three modes, command classes, allowlist, relay | nothing irreversible runs unasked outside full-auto |

## 2. Plan

Done, in this order:

1. `SessionLifecycle` with `SessionContract`; nine theorems, the refinement among
   them.
2. `ProviderFailover`; nine theorems.
3. `RequestTranscript`; seven theorems.
4. `PatchFiles` with the abstract `WorkspaceFile`; four theorems, the refinement
   among them.
5. `RunCommand`; three theorems.
6. `FollowUpQueue`; three theorems.
7. `McpRuntime`; three theorems.
8. `StreamAttempt`; four theorems.

Next:

9. Proofs: a weaker contract that Desktop does keep (every change of the status outside
   `SessionContract` is one of the unconditional writes of section 6), and what is left
   of `GuardsWork` when several turns share the maps.
10. `Policy`: the decision as an operator over classes of calls, with the relay's
    tightening; theorem: monotone in the mode.
11. `SessionStore`: `delete_session` against a running worker, memories and their
    limits, attachments.
12. The smooth weighted rotation as a refinement of the free choice in
    `ProviderFailover`; theorem: over a cycle every key wins its weight.
13. Terminal sessions and their reader threads; rotation of the request log.

## 3. The models

### SessionLifecycle

State: `status` (sessions.status), `action` (pending_actions.status), `transcript`
(messages, as role and turn), `turn`, `probe` (the cancel set a worker sees), and
for every worker `pc` and the locals `job` of its command; `up` and `crashes` for
the process; `executed` is a history variable.

A *worker* is one command in flight: a chat, a resolve or a cancel. A step is one
SQLite statement or one stretch of code between two of them, so that a check and
the write it protects can be separated. `Scheduled` says who may run: on the
server (`Deployment = "stdio"`) a command runs from one await to the next and all
share one probe; on Desktop, and for CLI processes on one workspace, any two
statements interleave and a probe belongs to its own command.

A command is handed to a blocking thread and spawned there later (`Launch`, then
`Spawn`), with no look at the probe in between; any other tool runs on the thread that
calls it (`ToolReturns`). `rollback` may come at any time and appends a tool message
whatever the status is; it has a role of its own here. The waits without a timeout and
without a look at the cancel state are steps of their own, gathered in `Unbounded`: the
servers of MCP (`ResolveSetup`), a summary (`Prepare`), a description of images
(`Described`), a tool other than a command (`ToolReturns`), memories (`Memory`).
With `ToolingMayFail` the tools do not open, a question or a result is not stored, or
the reconcile of a start fails.

| Actions | Code |
|---|---|
| `CreateSession`, `StartChat`, `StartRun`, `StartMessage`, `ContinueChat`, `ContinueAppend`, `ContinueRun` | `start_chat`, `continue_chat` |
| `Resolve`, `ResolveAction`, `ResumeRead`, `ResumeRun`, `ResolveSetup`, `RejectMessage` | `AgentService::resolve` and the compare-and-set on a pending action |
| `Prepare`, `Round`, `Described`, `StreamReply`, `StreamError`, `StreamCancelled`, `Received`, `Answer`, `CompleteRead`, `CompleteAppend`, `CompleteSet`, `Memory`, `Unwind` | `run_session` and `complete_chat` |
| `ToolCheck`, `Decide`, `Execute`, `Launch`, `Spawn`, `ToolReturns`, `ExecuteError`, `CommandPoll`, `CommandWait`, `CommandJoin`, `Record`, `Ask`, `Pause` | the tool batch, `execute_and_record`, `run_command`, `pause_chat` |
| `PersistRead`, `PersistAppend`, `CancelledResult`, `Error`, `FailRead`, `FailSet` | the exits of a turn |
| `Cancel`, `CancelPartial`, `CancelAppend`, `CancelReject`, `CancelMark`, `CancelSet` | `cancel_session` |
| `Rollback` | `AgentService::rollback`, as far as it touches the session (the file: `PatchFiles`) |
| `Crash`, `Restart` | the process is killed; `reconcile_interrupted_sessions` on Desktop |

Abstracted: texts, tool arguments, the policy's decision (any), the failover
inside a round (a reply or an error), events.

### ProviderFailover

State: `block` (why a key is out of rotation), `circuit` (per key), and per turn or
relayed request `pc` and the locals `turn`. An action is one critical section of a
mutex or one scan of the candidate list. `Select` builds the list (routes, active
provider, fallback inside the trust level, healthy keys first); `ReleaseCircuits`
and `ReleaseKeys` are the two guards; `CheckKey`, `CheckCircuit`, `OpenProvider`
the tests per candidate; `Send`, `Succeed`, `SucceedKey`, `Answered` and `Fail` an
attempt; `RetryEcho`, `RetryVision`, `RetryPlain`, `RetryTrimmed` the retry paths;
`BlameKey`, `GiveUp`, `RejectModel` and `Exhausted` the ends of a candidate and of
a round. `Select` may also end the turn with an error before any candidate is asked.
A vision refusal is any failure whose words say so, of a request with images or
without: `RetryVision` goes back to the head of the loop with no count and no delay,
and the delegate describes the images (`Describe`, `Described`; no timeout opens its
request). `StartRelay` and `Relay*` are `open_active_provider_request`. Timers fire at any
time (`Cooled`, `Expire`). Failures are the twenty kinds the retry loop tells
apart. The weighted rotation is left open: any key may come first.

`sent` (requests to a candidate, vision refusals not counted), `shown`, `tried`, `owed`,
`answers` and `refusers` are history fields for the properties.

### RequestTranscript

State: `stored` (the rows, with an estimated size), `compacted` and `window` (what the
store keeps of summaries and windows), and the request of the turn as `head` (what the
system messages say of the messages left out) and `body`; `unread` is a history
variable, the messages that no summary has read although one counts for them. `Chat`
or `Resolve` reads the history; `KeepWindow`, `KeepSummary`, `Summarize` and
`Truncate` are the outcomes of the history budget; `Send` fits and repairs the request
of a round; `OverflowRetry` shortens it; `Calls`, `ToolResult`, `NewContext` and `Ask`
are a batch of calls; `Answer`, `TooManyRounds`, `Stop` and `StopPreserving` end the
turn. The budget arithmetic (`TargetCount`, `Trigger`, `CompactionTarget`,
`HardTarget`) and the cuts (`TrimBlocks`, `Prepared`, `Repaired`, `OverflowDrop`) are
operators that follow the functions of the same names. The prompt of a summary has a
budget of its own (`PromptRoom`): `Omits` are the messages `compaction_prompt_body`
leaves out of it, oldest first, and the summary is saved for all of them. No row with
the system role is ever stored, so `body` holds the conversation only. Concurrency is
left to `SessionLifecycle`: one turn at a time writes here.

### StreamAttempt

State: what the endpoint has `sent` and whether the connection is `closed`, the half
lines the network has delivered (`got`), the decoder (`read`, the accumulator `acc`
per call index, `ending`), the events it has `queue`d, and the agent's side: `guard`,
`shown`, `content`, `calls`, `outcome`. One of three wire protocols is chosen at the
start. `Emit`, `Close` and `Chunk` are the world; `DecodeText`, `DecodeAlive`,
`DecodeCall`, `DecodeItem`, `DecodeCut`, `DecodeStop`, `DecodeEnd`, `DecodeBad` and
`Disconnect` the decoders of `xcoding-providers`; `Opened`, `OpenFailed`, `Take`,
`StreamFails`, `Timeout`, `NoticeCancel` and `Finish` are `stream_provider_attempt`.
Text is a sequence of classes of text, which keeps the control of the echo guard
(buffer, let go, suppress) and of the late checks (leaked calls, echo, empty) and
leaves out the patterns. A copy of a tool card comes in pieces ("bit"): the guard
matches once `EchoLen` of them stand in a row, white space apart (`Recognises`; 193
characters in the code), and in emitting mode the earlier ones are on the screen by
then. A delta may also bring a whole copy ("echo"). A marker has two parts, and the
second is one only directly behind the first. The last reason given for the end wins
(`DecodeCut`, `DecodeStop`). `Finish` looks for leaked calls only if tools were
offered.

`ProviderFailover` takes the outcome of an attempt as its `Fail` or `Succeed`; that a
failed attempt tells whether text is on the screen (`ShownIsReported` here) is what
its `NoDuplicateText` builds on.

### PatchFiles and WorkspaceFile

State: file objects with their `data`, the names `path` and `tmp`, the table `points`, and
per session the call in flight. Statements of `write_text_utf8` are steps: `Create`,
`WriteText`, `RemoveTarget` (Windows), `Rename`; `Preview`, `Record` and `Check` are the
agent's and the tool's steps before it, `Rollback` and `Unlink` the way back. `Edit` is an
editor outside, `Crash` the end of the process at any statement; every statement that
can fail has a failing branch (`Fail`).

`WorkspaceFile` says what a reader of the file may rely on: a change is armed while the
file holds the text it starts from, then committed in one step or dropped. The
refinement mapping reads the file through the name, `armed` from the label of the
call, and on Windows allows the file to be missing in between.

### RunCommand

State: the call (`kind`, `pc`, `outcome`), its process tree (`proc`, the job object
`job`), the pipe (`pipe`, `unread`), the reader thread (`reader`, `buffer`), the
port's `listener`, `cancelled` and what is `reported`, at most `OutputCap` of the
buffer with a note when more was there (`Truncated`). The reader may give up at an
error of a read. Foreground: `SpawnForeground`, `Adopt`, the poll loop
(`PollCancelled`, `PollExited`, `PollDeadline`, `WaitFails`), `DrainDone` or
`DrainGrace`, `Report`. Background: `SpawnBackground`, `Probe`, the wait for a port
(`Ready*`); the probe does not look at the cancel state. The processes fork, write,
exit and listen as they like. `SessionLifecycle` contains this call as `Spawn`,
`CommandPoll`, `CommandWait` and `CommandJoin`; that it always returns (`CallReturns`)
is what the fairness of those steps rests on.

### McpRuntime

State: the servers still to start (`todo`), the runtime (`sessions`, `tools`), the one
request in flight (`pc`, `server`, `purpose`, `id`), and for every server its process, the
requests it has read (`inbox`) and the lines it has written (`pipe`). The initial states
are the results of every workspace, user and plugin configuration (`Effective`).
`Start`, `Initialized`, `Listed`, `StartFailed` and `Prepared` are
`prepare_with_plugin_config`; `Call` and `CallReturns` a tool call; `CheckFails`,
`CheckRuns`, `Read` and `ReadEnd` the loop of `read_response`; `Drop` the end of the run.
`Write`, `Spawn` and `Exit` are the servers, of which nothing is assumed: a line is an
answer, an error, noise, or a request of the server's own, which may carry the id the
run waits for and is then taken for an answer without a result. What a server writes
while nobody reads is written, in the model, when the run comes to read it (`Heard`).

A tool goes to the model under the name `mcp__<server>__<tool>`. Names are sequences of
the parts between the occurrences of `__`; `Encoded` puts the two together and `Decodes`
cuts at the first `__`, as `decode_tool_name` does. `asked` and `reached` remember the name
of the last call and the tool it went to.

### FollowUpQueue

State: the session (`status`, `owner`), the table `rows`, and the window: its copy
`shown`, calls of the store in flight (`arriving`, `snapshot`, `cancelling`), the maps
behind `sendChatMessage` (`draining`, `generation`, `inFlight`, `unsettled`) and the
asynchronous calls themselves (`task`). Between two awaits a call runs alone: each
action is such a stretch, and every label an await. `SendComposer`, `SendItem`,
`EditItem`, `Resolve` and `StopClicked` are the user (`ResolveAccepted` and
`ResolveRefused` the answer to the second); `Deleted`, `DeleteFails`, `SteerCancels`,
`SteerRefused`, `Joined`, `ChatAccepted`, `ChatRefused`, `TurnReturns`, `TakenIn`,
`TurnFails`, `List`, `DrainStops`, `DrainMarks`, `DrainSends`, `Marked` and `Stopped`
are what follows; `Enqueue`, `Arrived`, `CancelItem`, `CancelledItem`, `HydrateRead`
and `HydrateMerge` the entries and the window's copy; `Restart` ends the process with
everything in flight and reconciles the table, or fails to and goes on with it as it
is; `inherited` remembers which entries were reconciled. The session's own behaviour
is that of `SessionContract`: a turn runs, ends, asks or is cancelled.

## 4. The runs

| Run | Instance | Shows |
|---|---|---|
| `lifecycle_stdio` | server, 2 workers, 2 actions, 2 turns of 2 rounds with up to 2 calls, a rollback | `PendingMatchesStatus`, `TranscriptInOrder`, `DoneIsAnswered`, `CancelStopsTools`, and that the session implements `SessionContract` (`KeepsContract`) |
| `lifecycle_stdio_faults` | server, 1 action, a crash, tools that fail to open, results that are not stored, fairness | `TurnEnds` and `CancelStopsWorkers`, with the waits that nothing bounds as their exception |
| `lifecycle_desktop` | Desktop, a crash | `ApprovedOnce` and `RunningIsOwned` under full interleaving |
| `failover_round` | one turn or relayed request at a time, 2 keys of the active provider and one of another level, 2 rounds, 1 retry, circuits opening at once, vision refusals of any request | `TrustBoundary`, `OneAnswer`, `AttemptsBounded`, `GuardsWork`, `ModelRefusalHolds`, `TurnEnds` |
| `failover_shared` | two in flight, model routes to providers of both levels, circuits opening by rate | `NoDuplicateText` and `RefusedStaysOut` under interleaving on the shared maps |
| `transcript` | 6 messages of size 1 or 3 against a budget of 7, 2 rounds, 2 calls, 1 retry | `RequestsWellFormed`, `NothingLeftOut`, `ShownOnce`, `CurrentMessageSent`, `SummaryAdvances`, `RetriesShrink` |
| `stream` | answers of up to 4 lines, 3 protocols, 8 classes of text, copies of 2 pieces, 2 calls of 2 fragments | `WholeAnswer`, `NothingHidden`, `ShownIsReported`, `EchoNeverShown` |
| `patches` | one session, 3 texts, both builds, 2 restore points, 1 edit, 1 crash | `FileWhole`, `UndoRecorded`, and the refinement of `WorkspaceFile` (`KeepsFileContract`) |
| `command` | one call of each kind, the child and 2 descendants, 3 chunks of output of which 2 are reported | `ChildAccountedFor`, `OutputComplete`, `CallReturns` |
| `mcp` | every configuration of 2 servers, one with `__` in its name, 2 calls, 1 line ahead | `AnswersMatch`, `CallsArrive`, `RequestEnds` |
| `followups` | 2 calls of the window, 2 entries, 2 clicks, a failing call of the store or reconcile, a restart | `SentIsGone`, `RestartNeverSends`, `TasksFinish`, `QueuedIsHandled` |
| `find_command_not_killed` | Desktop | a violation: a cancel from another `CoreService` (a Desktop command, a second CLI process) does not reach the loop that polls a running command |

Each property of each passing run has a mutant in `PROJECT.json`: a plausible bug
in one mapped definition under which TLC finds the property violated. The mutated
definitions stand next to the ones they change and are marked as such.

### Bounds

`MaxTurns`, `MaxRounds`, `MaxCalls`, `MaxPolls`, `MaxRollbacks`, `MaxCrashes`,
`MaxStarts`, `MaxMessages`, `MaxLines`, `MaxAhead`, `MaxPoints`, `MaxEdits`,
`MaxOutput`, `MaxItems`, `MaxClicks`, `MaxFailures` and `MaxRestarts` are the bounds;
the code's own limits (`MaxRounds`, `MaxRetries`, `MaxServers`, `MaxTools`,
`OutputCap`, `EchoLen`, `Instructions`, `MaxExcerpt`, thresholds) are constants that
the instances set small. They are chosen so that what the properties are about
happens:

* sessions: two workers are enough for every race between a command and a cancel,
  resolve or stale worker, since the code never coordinates three; two turns let a
  stale worker meet a newer turn; two rounds let a provider that was given up come
  back; two actions let an old approval meet a new one; a crash may come before and
  after every statement. `lifecycle_stdio` looks at a child once (`MaxPolls = 0`): what
  its properties say of a command is decided at the first look, and the other two runs
  look again. One rollback comes before, between and after everything else.
* transcript: two long messages exceed the budget, so summaries, truncations with
  and without an older summary, windows in the middle of a batch, repaired results
  and second overflows occur; the prompt of a summary has room for some of what it is
  to summarise and not for all.
* stream: four lines hold a marker in two parts with text after it, two pieces that
  make a copy behind text that was shown, two interleaved calls, a cut-off call and its
  end, or two reasons for the end that disagree; half lines make every chunk boundary inside
  a line a case.
* patches: two restore points let a patch follow a patch, or a rollback a patch that
  failed; three file objects are the target, the temporary file and a replaced file
  that somebody still has open.
* command: one descendant may inherit the pipe while the other does not, one may be
  forked before the child is adopted and one after; three chunks of output are one more
  than a report holds.
* mcp: two servers let one fail while the other serves, and let the name of one decode
  to the other; one line ahead and a request given up leave a late answer in the pipe
  of the next request; the ids of the servers' own requests are those the run uses.
* followups: two calls of the window are a turn and what the user does meanwhile;
  two entries let the drain chain.

Symmetry permutes workers, actions, turns, texts or file objects in runs without
liveness. The view of `lifecycle_desktop` keeps the last message of the transcript
only: no action reads more, and its properties do not mention it.

Deadlock is checked in `stream`, where an attempt that is over stutters. Elsewhere it
is not: a system at rest may stay so, and the bounded inputs run out.

### Fairness

In `SessionLifecycle` and `ProviderFailover`, weak fairness of the steps of a command or
turn in flight, and of nothing else: no user input, no timer, no crash or restart is
assumed. The code justifies it by the first event and idle timeouts of a round's stream,
the retry delay, the deadline of a command, and a runtime that polls its only tasks.
Where it has no timeout nothing is assumed: the steps of `Unbounded` in
`SessionLifecycle` (MCP set-up, the request of a summary, the description of images, tools
other than commands, memories) and `Described` in `ProviderFailover` are not fair, and
`TurnEnds` and `CancelStopsWorkers` name a turn that stays in such a wait as their
exception. `TurnEnds` of the failover also excepts an endpoint that goes on answering
that it does not support images, since those answers are neither counted nor delayed.
In `RunCommand` the call's own thread runs and its deadlines fire; nothing is
assumed of the processes or of the reader. In `McpRuntime` the run's thread goes on;
nothing is assumed of the servers, so a read that blocks stays blocked. In
`FollowUpQueue` every call the window awaits is answered, a turn included: its liveness
properties are about the window, for turns that end (`TurnEnds` of the session says which
do).

## 5. What is proved

The theorems hold for every value of the constants that satisfies the assumptions
named in the modules (`DeploymentAssumption`, `NoActionAssumption`,
`ToolingAssumption`, `BoundsAssumption`; `ConfigAssumption`, `LimitsAssumption`;
`TextAssumption`, `ObjectAssumption`, `PatchBounds`; `TreeAssumption`, `OutputBound`;
`ServerAssumption`, `NameAssumption`; `TaskAssumption`, `QueueBounds`;
`TokensAssumption`, `ApisAssumption` and the `SizesAssumption` of `StreamAttempt` and
of `RequestTranscript`): any number of workers, turns, keys, providers, texts,
processes, servers, entries and calls. The assumptions say only that bounds are
natural numbers and that the special values are none of the ordinary ones, that names
are not empty and that servers differ in theirs. A theorem that needs more says so in
its own `ASSUME`, and below is why.

`SessionLifecycleProofs`

* `TypeCorrect`. `TypeOK` is not inductive: the count of calls left is decremented in
  `Record`. `CallsLeft` says that a worker at a call's label has a call to handle or is
  resuming one.
* `ApprovalSafe` (`ApprovedOnce`). The inductive invariant is `Tickets`: an approved
  action whose call has not started is held by one worker, is approved and has not
  been executed. `ResolveAction`, a compare-and-set in the store, hands it out;
  `Launch` consumes it. Every other action is `Quiet`: it touches no approval and
  creates no ticket.
* `ServerKeepsContract` (`KeepsContract`), `ServerNeverPanics` (`NoPanic`) and
  `ServerStopsTools` (`CancelStopsTools`), for `Deployment = "stdio"`; on Desktop the
  first two are false (section 6). The invariant is `ServerInv`: of two commands one
  rests at an await (`Alone`); at most one chat or resolve is in flight (`OneTurn`); for
  every label, what the status may be while a command is at it (`Fits`, `Allows`); the
  shared probe is marked only in a session that is, or is about to be, cancelled
  (`Probes`). So what a command read of the row holds until it writes, which is the
  whole argument of the current-thread server. Crashes are allowed anywhere. A command
  runs on a thread beside it, where this argument ends: `Marked` says that a cancel has
  marked the probe before it writes the row and that nothing clears it while a command
  runs, so the first look at a child that was spawned after a cancel ends it.
* `ServerKeepsOrder` (`TranscriptInOrder`), for the server: every command past its first
  statements works for the newest turn (`TurnOf`), and so does a rollback.
* `ServerAnswersDone` (`DoneIsAnswered`) and `ServerMatchesPending`
  (`PendingMatchesStatus`), for a server that does not crash (`MaxCrashes = 0`), the
  second also with a store that takes every question and status (`~ToolingMayFail`): a
  crash between the statements of `continue_chat` or of `resolve`, or a question that
  is stored without the status that goes with it, really leaves the two tables apart
  (section 6). `DoneInv` and `PendingInv` say between which statements the row and the
  messages, or the row and the queue of approvals, may disagree.
* `RunningHasOwner` (`RunningIsOwned`), for both deployments. `Driven` names the commands
  that have set the row to Running and not yet left the turn; `LocalInv` is what a
  Desktop command knows of its own probe. The hypotheses are those of the code: without
  `~ToolingMayFail` an early return of `resolve` leaves the row (section 6), and only
  Desktop reconciles the row after a crash.

`ProviderFailoverProofs`

* `Invariance`: `FailoverInv`, the types of the shared maps (`Maps`) and for every turn a
  predicate `Good(pc[t], turn[t])` over its locals. It relates label and locals: the
  list holds keys inside the trust level only; a candidate being tried is inside the
  list and its provider has not refused the model; text is on the screen only while
  its failure is handled, and then the failure is one that allows it; requests, those
  that end in a vision refusal apart, are at most retries plus uncounted retries, plus
  one in flight; an answer exists only
  between winning and the next round. Each update of the locals has a lemma.
* From it: `TypeCorrect`, `TrustBoundaryHolds`, `NoDuplicateTextHolds`, `OneAnswerHolds`,
  `AttemptsBoundedHolds`, `ModelRefusal`; and the action property `RefusedKeyStaysOut`.
* `GuardsKeepWord` (`GuardsWork`), for one turn or relayed request at a time
  (`Turns = {one}`). `PromiseInv`: after a guard released something, no reachable circuit is
  open and some key is at most cooling down (`Released`); from then on a usable
  candidate is still ahead until the round has asked somebody (`Left`). With two turns
  TLC finds the property violated: the failure of the second opens a circuit again
  before the first has come to it.

`RequestTranscriptProofs`

* `TypeCorrect`, with `Phase` (what is known of a turn at each label) and `HasUser` (a
  turn has a user message to answer).
* `RequestsAreWellFormed` (`RequestsWellFormed`). `BlockInv` is the block structure of a
  request: the results behind a message with calls answer different calls of it
  (`Neat`); every call has its result (`Full`); while a batch runs, the request ends with
  its calls and the results of the first of them (`Open`), unless `new_context` has
  dropped them, and then nothing is left open (`Closed`). Every result has its call
  (`Blocked`) only after the repair in `Send`. One lemma per cut (suffix at a block start,
  trim, repair, append) says what it keeps.
* `HistoryAccountedFor` (`NothingLeftOut`), an action property: it speaks of the
  request as it is sent, after the fitting. `Opened` says what the first request of a
  turn starts from; it shows the history in its order (`InOrder`), so what fitting
  removes of it is a prefix, and nothing if it fits (`FittingIsKept`); and a saved
  summary has read the last message it counts for (`LastRead`). `CurrentMessageKept`
  (`CurrentMessageSent`), from `Placed`: a context window starts before some user
  message, and none comes after the history that a turn has read; `MessagesShownOnce`
  (`ShownOnce`), from `SourceInv`: the rows in a request come in the order of the
  history, each once, the exception apart.
* The action properties `SummariesAdvance` (`SummaryAdvances`) and `RetriesGetShorter`
  (`RetriesShrink`). The tokens of a request are a fold over a set. It is compared
  without a recursion of its own: the sum is the number of units of the messages
  (`SumIsUnits`; a least set for which the two differ cannot exist), the units of a
  suffix are mapped one to one into those of the request, and the first unit of a
  dropped message is not met (`SuffixIsCheaper`). It needs messages that cost something,
  hence `Preview` and `MaxResult` are not 0 (2 000 and 24 000 characters in the code).

`PatchFilesProofs`, for one session on the file (`Workers = {s}`; with two the first
theorem is false, section 6)

* `PatchInv`: the types; what a call at each label knows of its file (`CallOK`); that the
  temporary name is the call's own object and is complete once it may be renamed
  (`TmpOK`, `FileOK`); that the restore point of a call past `Record` is in the table
  (`PointOK`). `FileWhole` alone is not inductive: it needs that the object `Rename` puts
  under the path was written to its end.
* From it: `TypeCorrect`, `FileAlwaysWhole`, `UndoAlwaysRecorded`, and
  `ImplementsWorkspaceFile`, the refinement: one lemma per action says which step of
  `WorkspaceFile` it is, or that it is none.

`RunCommandProofs`

* `CommandInv`: the types; who holds the pipe; that the child does not run once the poll
  loop is over (`ChildGone`); that after the end of the pipe nobody can write to it
  (`EndIsFinal`); and that a report is copied only after the reader has ended or the grace
  ran out (`DrainedFirst`).
* From it: `TypeCorrect`; `ChildNeverLost` (`ChildAccountedFor`: a call returns with
  its child running only from a background launch that says so, or when `try_wait`
  fails); and `NoOutputLost` (`OutputComplete`, up to the limit of `truncate_output`).

`McpRuntimeProofs`

* `McpInv`: every request a server has, and every line in its pipe, carries an id
  smaller than the session's next one, and belongs to the request that was sent with
  that id (`InboxFits`, `PipeFits`); a server that was not started has empty wires
  (`Untouched`). So an answer whose id is the one waited for answers that very request;
  a request of the server's own with that id has no result.
* `NameInv`: the name of the last call, and the tool it went to. A name decodes to one
  server and one tool, and the name of a server without `__` to that server, so no other
  server's tool of the same name can get the call.
* From them: `TypeCorrect`, `AnswersAlwaysMatch`, `CallsAlwaysArrive`.

`FollowUpQueueProofs`

* `QueueInv`: entries that were never created are nowhere (`Fresh`); nothing calls an
  entry queued that a start of the process has reconciled, neither the table, nor the
  window, nor a read or a failed cancel in flight (`Settled`); a call that is past its
  delete has no row, and a drain has not chosen a reconciled entry (`CallsFit`).
* From it: `TypeCorrect`, `SentIsAlwaysGone`, and the action property
  `RestartNeverEverSends`.

`StreamAttemptProofs`

* `StreamInv`: what is on the screen or held back came from the text collected
  (`Tracked`); the events on their way carry text the endpoint can send (`QueueOK`); the
  guard holds at most a marker, and what it let go is harmless, nothing appended to it
  makes it a marker with text (`Held`). From it `ShownIsAlwaysReported`.
* `EchoIsNeverShown` (`EchoNeverShown`) adds `CopyInv`: while text passes the guard, the
  collected text has no copy of a card, and no row of pieces at its end is longer than
  the guard's count (`Counted`). `EchoNeverShown` alone is not inductive: text that is no
  copy yet becomes one with the next piece, and the guard knows only its count. An
  answer that is accepted without the guard having let it go is a bare marker, which
  holds no copy.
* `NothingIsHidden` (`NothingHidden`). `Faithful` says what became of the collected text in
  each mode of the guard: all of it is held, all of it is shown, or it begins with a
  marker or matched a fingerprint. A marker the guard saw is one for the last check
  too, which trims the text first (`TrimmedMarker`).
* `AnswersAreWhole` (`WholeAnswer`), by three invariants, one on top of the other. `EndInv`:
  a line is decoded once it was received, received once it was sent, and the stream
  ends at the line that ends the answer. `DecoderInv`: until then every accumulator holds
  what the decoded lines say of its call (`Recorded`: the head, the number of fragments,
  whether they were garbled) and the decoder remembers whether the last reason given
  was a cut (`CutBy`). `FlowInv`: the text the
  agent has, followed by the text of the event on its way, is the text of the decoded
  lines, and the same for the calls; the events of a line are one event or only calls
  (`Shaped`). `FinishedAre` says that `ToolCallAccumulator::finish` tells of every call what
  its lines said. The text and the calls of a sequence of lines are given by places and
  their order (`Nth`), so that one more line adds one value at the end (`PickedGrows`).
  `WholeAnswer` alone speaks of the end only and is far from inductive. It compares
  with what the endpoint sent, and names where the code keeps less: white space of Chat
  Completions, the mark of a call cut before its first fragment, the text around a leaked
  block.

Only model-checked: liveness (`TurnEnds` twice, `CancelStopsWorkers`, `CallReturns`,
`RequestEnds`, `TasksFinish`, `QueuedIsHandled`), which is outside the prover's reach. Every
safety property of a passing run has its theorem, under the hypotheses given above.

The invariants of this section can be checked on the instances of section 4 too: extend
the proof module instead of the model and name them under `INVARIANTS`.

## 6. What the code does not satisfy

Besides the run `find_command_not_killed`, the modules state formulas that a document,
a comment or a text of the interface promises and the code does not keep. No run
checks them; put the formula in place of the properties of the named cfg and TLC
prints a behaviour.

| Formula | cfg | The promise | What happens |
|---|---|---|---|
| `CancelSticks` | `lifecycle_desktop` | docs/en/architecture.md:393 "user cancels session \| stop tools, persist cancelled state" | `pause_chat`, `complete_chat`, `fail_chat` and `resume_chat` write the status without a condition after a separate read; a cancel in between is overwritten |
| `StaleNeverFails` | `lifecycle_desktop` | xcoding-agent/src/lib.rs:2747 "Stale workers must not fail a session already finished or restarted." | the check lets a Running session pass, and a restarted session is Running: the worker of the old turn fails the new one |
| `NoPanic` | `lifecycle_desktop` | xcoding-agent/src/lib.rs:4185 `expect("completed chat has a message")` | a cancel between the last check of a turn and `complete_chat` gives a result without a message |
| `NoSpawnAfterCancel` | `lifecycle_stdio` | docs/en/architecture.md:393 "user cancels session \| stop tools" | `spawn_blocking` is awaited and its thread spawns the child without a look at the probe; a cancel in between starts a process, which its first poll kills |
| `CancelReachesStreams` | `lifecycle_stdio_faults` | docs/en/session-safety.md:51 "In-flight model streams are interrupted cooperatively" | the streams of a summary and of a description of images are opened with neither a timeout nor a look at the cancel state |
| `RefusedIsFinal` | `failover_shared` | docs/en/getting-started.md:116 "A key refused with 401/403 is dropped for the rest of the process until its value changes" | `record_provider_key_failure` overwrites the block; a late 429, 5xx or timeout turns the refusal into a cooldown |
| `EveryRoundAttempts` | `failover_round` | xcoding-agent/src/lib.rs:3495 "a turn whose every key is cooling down must still get one attempt" | one key cooling down and the other's circuit open: neither guard fires and nobody is asked |
| `EveryTurnEnds` | `failover_round` | xcoding-agent/src/lib.rs:3931 "Vision-unsupported: mark route and retry with delegate." | the retry is neither counted nor delayed and asks for no image in the request: an endpoint that goes on answering so is asked for ever |
| `OverflowKeepsFloor` | `transcript` | xcoding-agent/src/lib.rs:2645 "`None` means the request is already at the floor and trimming further would not leave a usable request" | a number of messages is dropped as a number of blocks, and the retry may carry no conversation at all |
| `DropsAreNoticed` | `transcript` | xcoding-agent/src/lib.rs:6369 "the ones beyond the saved handoff are dropped outright, which only happens when compaction itself failed" | fitting a lossy request over its budget removes its oldest blocks without a notice |
| `HandoffReadsAll` | `transcript` | xcoding-agent/src/lib.rs:4426 "Any existing handoff still covers the messages it summarized." | `compaction_prompt_body` leaves the oldest messages out of a prompt over its budget, and the summary is saved as covering them |
| `FailedCallKeepsFile` | `patches` | xcoding-tools/src/lib.rs:275 "using an atomic rename strategy" | on Windows the target is removed first; a failing rename, or a crash, leaves no file, and rollback then refuses |
| `FileWhole` with `Workers = {w1, w2}` | `patches` | the same line | two sessions on one file share the temporary sibling and one renames what the other is writing |
| `ReadyMeansServing` | `command` | xcoding-tools/src/lib.rs:2857 "Waits until a background service accepts a local connection on `port`." | a port that another program already serves counts as ready |
| `TreeDies` | `command` | xcoding-tools/src/lib.rs:146 "A job object with `KILL_ON_JOB_CLOSE` makes the whole tree die with the guard" | a process forked before the child was adopted is not in the job |
| `CancelEndsChild` | `command` | docs/en/session-safety.md:52 "`run_command` [...] terminates the child process when cancelled" | a background launch that is cancelled during its startup probe returns as started, with its child running |
| `QueuedNeverStranded` | `followups` | i18n.ts:331 "Sent automatically when the current turn finishes." | a steer that races the end of a turn leaves the rest of the queue waiting |
| `CancelledNotSent` | `followups` | i18n.ts:327 "This message was cancelled and will not be sent automatically" | a cancel that races the drain's delete comes too late |
| `RestartSettlesQueue` | `followups` | xcoding-store/src/lib.rs:2071 "Any queue entries that were waiting automatically must be surfaced as "not started" so the user decides what to send." | Desktop logs a failed reconcile as non-fatal and goes on; the rows are still queued, and the next drain sends them |
| `ProcessDeathDetected` | `mcp` | xcoding-mcp/src/lib.rs:628 "process death is still detected by the caller loop" | the read blocks while a child of the dead server has its stdout |
| `AnswerIsReply` | `mcp` | xcoding-mcp/src/lib.rs:576 "Notifications / unrelated messages: skip unless id matches." | a request of the server's own whose id is the one waited for is taken for the answer, with a Null result; the real answer is skipped later |
| `EveryToolReachable` | `mcp` | xcoding-mcp/src/lib.rs:157 "Decode `mcp__<server>__<tool>` into `(server, tool)`." | the name is cut at the first `__`: the tools of a server named `a__b` are looked for at a server `a` |
| `CutCallsMarked` | `stream` | xcoding-providers/src/lib.rs:285 "Set when the upstream stream stopped mid-arguments" | a call cut off before its first fragment goes out as complete, with `{}` |
| `CardsNeverVisible` | `stream` | xcoding-agent/src/lib.rs:2382 "internal context and must never become visible assistant prose" | the fingerprints need 193 characters; once the guard emits, the pieces before the match are on the screen |

### Observations

* With `ToolingMayFail`, `RunningIsOwned` does not hold: `resolve` sets the row to Running
  and returns early when the tools or the MCP configuration cannot be opened; the
  session then refuses every message until it is cancelled.
* A half-open circuit admits every turn at once, not one probe.
* The reset of partial text is sent as soon as the list has a next candidate, even
  when every later candidate is then skipped; the comment at the place says that
  without a fallback the text stays.
* `new_context` rebuilds the request from the history read when the turn began: the
  results of earlier calls of the same turn leave the request (they stay readable
  through `history_read`). The remaining results of the batch have lost their call and
  become user text.
* In a lossy turn the window of `new_context` is ignored from the next turn on, and
  fitting a request may remove the user's own message.
* The output of a resolved call that failed and is longer than the preview is shown
  twice, as a note and as a result (`ShownOnce` names this exception).
* Calls after one that needs approval in the same batch are neither run nor answered.
* The partial answer a client sends with its cancel is compared with the worker's by
  equality; when the worker has received more meanwhile, both are stored.
* A crash between `resolve_pending_action` and the Running status leaves a session that
  waits for the user with nothing pending; a cancel is the way out. A question that is
  stored while the status that goes with it is not leaves it Failed with one pending.
* A failed patch leaves its restore point, which `task_summary` counts as a changed file.
* An error of the reader thread's read ends it without a word: the report lacks the rest
  of the output (`OutputComplete` names this exception).
* A failed wait (`try_wait`) returns an error with the child still running.
* A failed reconcile at start-up leaves rows Running and entries queued.
* The git tools run their program without a timeout or a poll of the cancel state.
* A follow-up is deleted before it is sent; a refused chat, or a steer whose cancel is
  refused, loses its text. A stale `session_detail`, or two drains at once, may send
  the window's copy of an entry a second time.
* The timeout of an MCP request is tested between reads only, and a read blocks; a
  server that hangs holds the turn. An answer in the pipe is lost when the server
  exits before it is read. A server that fails `initialize` or `tools/list` is not killed.
  Disabled servers count against `MAX_SERVERS`.
* Chat Completions deltas that are white space only are dropped (`WholeAnswer` names
  it). Fragments of tool arguments yield no event, so a long argument may meet the
  idle timeout. The echo guard measures a bare marker with the white space after it
  and the last check without: such an answer is hidden and accepted (`NothingHidden`
  names it).

## 7. Not modelled

Text processing (the JSON inside a line, the patterns of echo and leak detection,
redaction, command parsing, formatting), because a bounded instance restates the
patterns; rendering and window management; thin wrappers over external programs
(git, GitNexus, file commands); one-off migrations; vendored code and build
scripts.

Hazards known and not covered by a property: `delete_session` removes the rows of a
session in nine statements without a transaction while a worker may insert
(xcoding-store/src/lib.rs:509); the
crash at xcoding-core/src/lib.rs:888 and the two partial answers at
xcoding-agent/src/lib.rs:4978, which section 6 describes. The policy, memories,
deletion, request logs, terminal and browser are the plan's next steps (section 2).

The map covers a small part of the repository's lines. More than half of them are
vendored crates (`patches/`) and tests, and most of the Desktop is rendering; the
mapped lines are those that change shared state, decide about a retry, a request, a
file or a process, or wait.
