---------------------------- MODULE FollowUpQueue ----------------------------
(***************************************************************************)
(* The follow-up queue of one Desktop session.  The window keeps a copy of *)
(* the table and runs any number of asynchronous calls over it (`Tasks');  *)
(* between two awaits a call runs alone, at an await every other call, the *)
(* user and the agent may go on.  A call of a task is a send, with the     *)
(* drain it ends in and the sends that drain makes; an approval, with the  *)
(* same drain; an edit; or the stop button.                                *)
(***************************************************************************)
EXTENDS Naturals, FiniteSets

CONSTANTS Tasks, NoTask,
          MaxItems, MaxClicks, MaxFailures, MaxRestarts

ASSUME TaskAssumption == NoTask \notin Tasks
ASSUME QueueBounds == {MaxItems, MaxClicks, MaxFailures, MaxRestarts} \subseteq Nat

Items == 1 .. MaxItems     \* entries by age; 0 is a message typed into the composer

VARIABLES status,       \* of the session, in the store
          owner,        \* the task whose turn the session is running
          rows,         \* table follow_up_queue
          shown,        \* the window's copy, followUpQueueRef
          arriving,     \* entries whose queue_follow_up has not answered yet
          snapshot,     \* the entries a session_detail in flight has read
          cancelling,   \* cancelled entries whose update is in flight, with their old status
          draining,     \* drainFollowUpsBySessionRef
          generation,   \* chatGenerationBySessionRef, which always holds the newest one
          inFlight,     \* chatInFlightBySessionRef: the send whose promise it holds, or 0
          unsettled,    \* sends whose promise is still pending
          task,         \* the calls of the window
          clicks, created, failures, restarts,
          sent,         \* history: how often an entry became a message of the session
          refused,      \* history: entries the user has cancelled and not continued since
          inherited     \* history: the youngest entry that a start of the process has reconciled

vars == <<status, owner, rows, shown, arriving, snapshot, cancelling, draining, generation,
          inFlight, unsettled, task, clicks, created, failures, restarts, sent, refused, inherited>>

-----------------------------------------------------------------------------
Active == {"running", "need_user"}
AtRest == {"done", "failed", "cancelled"}
Entry == {"queued", "not_started", "cancelled"}
Cell == Entry \cup {"none"}
NoSnapshot == [i \in {} |-> "none"]

Kinds == {"send", "edit", "resolve", "stop"}
Labels == {"idle", "delete", "cancel", "join", "chat", "resolve", "turn", "back", "list", "decide",
           "mark", "stop"}

Task == [kind : Kinds, pc : Labels, item : Items \cup {0}, steer : BOOLEAN,
         auto : BOOLEAN,            \* the send was made by a drain (skipDrain)
         gen : Nat, outer : Nat,    \* the send, and the one the task began with
         prev : Nat,                \* previousInFlight
         saw : AtRest \cup Active]  \* the status the call has read
Idle == [kind |-> "send", pc |-> "idle", item |-> 0, steer |-> FALSE, auto |-> FALSE,
         gen |-> 0, outer |-> 0, prev |-> 0, saw |-> "done"]

pc(t) == task[t].pc
Current(t) == task[t].gen = generation

backend == <<status, owner, rows, sent>>
window == <<shown, arriving, snapshot, cancelling>>
chain == <<draining, generation, inFlight, unsettled>>
history == <<refused, inherited>>
input == <<clicks, created>>
others == <<input, failures, restarts, history>>

\* What a call has read for its last step is forgotten.
Move(t, label) == task' = [task EXCEPT ![t].pc = label, ![t].prev = 0, ![t].saw = "done"]

\* The window shows the session as running from the call of chat, or the decision on
\* an action, until its answer has been taken in.
Busy == status \in Active \/ \E t \in Tasks : pc(t) \in {"chat", "resolve", "turn", "back"}

Queued == {i \in Items : shown[i] = "queued"}

\* markQueuedFollowUpsNotStarted, before its await.
ShownNotStarted == [i \in Items |-> IF i \in Queued THEN "not_started" ELSE shown[i]]

Oldest(S) == CHOOSE i \in S : \A j \in S : i <= j

\* A call of the store may fail.
StoreFails == failures < MaxFailures /\ failures' = failures + 1

-----------------------------------------------------------------------------
\* The end of a task: the promise of its outermost send is settled.
Settle(gens) ==
    /\ unsettled' = unsettled \ gens
    /\ inFlight' = IF inFlight \in gens THEN 0 ELSE inFlight

Finish(t) ==
    /\ task' = [task EXCEPT ![t] = Idle]
    /\ Settle({task[t].gen, task[t].outer})
    /\ draining' = IF task[t].auto THEN FALSE ELSE draining

\* drainFollowUpQueue is entered: another drain of the session wins.
EnterDrain(t) ==
    IF draining
    THEN Finish(t)
    ELSE Move(t, "list") /\ UNCHANGED <<draining, inFlight, unsettled>>

\* Mutant: a drain sends one entry.
ReturnedOnce(t) == Finish(t)

\* sendChatMessage returns with the session id.  A send made by a drain gives
\* the guard back and drains again.
Returned(t) ==
    IF task[t].auto
    THEN /\ draining' = FALSE
         /\ Settle({task[t].gen})
         /\ task' = [task EXCEPT ![t].pc = "list", ![t].auto = FALSE, ![t].item = 0, ![t].gen = task[t].outer]
    ELSE Finish(t)

\* A new send takes the next generation and puts its promise into the map.  A
\* steer goes through a cancel if the window shows the session as running, now or
\* when it was clicked.
NewSend(t, call) ==
    /\ generation' = generation + 1
    /\ inFlight' = generation + 1
    /\ unsettled' = unsettled \cup {generation + 1}
    /\ task' = [task EXCEPT ![t] =
           [call EXCEPT !.gen = generation + 1, !.saw = "done",
                        !.outer = IF call.auto THEN @ ELSE generation + 1,
                        !.prev = IF call.steer THEN inFlight ELSE 0,
                        !.pc = IF call.steer /\ (Busy \/ call.saw = "running") THEN "cancel" ELSE "chat"]]

-----------------------------------------------------------------------------
\* Everything the user starts, opening the session included, counts against one bound.
Click == clicks < MaxClicks /\ clicks' = clicks + 1

\* The user sends a message from the composer, or steers while a turn is under way.
SendComposer(t, steer) ==
    /\ pc(t) = "idle" /\ steer = Busy /\ Click
    /\ NewSend(t, [Idle EXCEPT !.steer = steer])
    /\ UNCHANGED <<backend, window, draining, created, failures, restarts, history>>

\* steerFollowUp, for a queued entry, and continueFollowUp, for another one.
SendItem(t, i) ==
    /\ pc(t) = "idle" /\ shown[i] # "none" /\ Click
    /\ shown[i] # "queued" => ~Busy
    /\ task' = [task EXCEPT ![t] = [Idle EXCEPT !.item = i, !.pc = "delete",
                                                !.steer = shown[i] = "queued",
                                                !.saw = IF Busy THEN "running" ELSE "done"]]
    /\ refused' = refused \ {i}
    /\ UNCHANGED <<backend, window, chain, failures, restarts, inherited, created>>

EditItem(t, i) ==
    /\ pc(t) = "idle" /\ shown[i] # "none" /\ Click
    /\ task' = [task EXCEPT ![t] = [Idle EXCEPT !.kind = "edit", !.item = i, !.pc = "delete"]]
    /\ UNCHANGED <<backend, window, chain, failures, restarts, history, created>>

\* Mutant: a send keeps the entry until the turn has been accepted.
DeletedLater(t) ==
    /\ pc(t) = "delete"
    /\ NewSend(t, task[t])
    /\ UNCHANGED <<backend, window, draining, others>>

\* The row of an entry is updated if it is still there, or deleted.
Updated(i, s) == [rows EXCEPT ![i] = IF @ = "none" THEN "none" ELSE s]
WithoutRow(i) == [rows EXCEPT ![i] = "none"]

\* deleteFollowUp answers; whether there was a row is not looked at.
Deleted(t) ==
    /\ pc(t) = "delete"
    /\ rows' = WithoutRow(task[t].item)
    /\ shown' = [shown EXCEPT ![task[t].item] = "none"]
    /\ \/ task[t].kind = "edit" /\ Finish(t) /\ UNCHANGED generation
       \/ task[t].kind = "send" /\ NewSend(t, task[t]) /\ UNCHANGED draining
    /\ UNCHANGED <<status, owner, sent, arriving, snapshot, cancelling, others>>

DeleteFails(t) ==
    /\ pc(t) = "delete" /\ StoreFails
    /\ Finish(t)
    /\ UNCHANGED <<backend, window, generation, restarts, history, input>>

\* Mutant: a steer takes the promise in the map when it waits, its own by then.
SteerCancelsSelf(t) ==
    /\ pc(t) = "cancel" /\ status \in Active
    /\ status' = "cancelled"
    /\ task' = [task EXCEPT ![t].pc = "join", ![t].prev = inFlight]
    /\ UNCHANGED <<owner, rows, sent, window, chain, others>>

\* cancel_session of a steer.
SteerCancels(t) ==
    /\ pc(t) = "cancel" /\ status \in Active
    /\ status' = "cancelled"
    /\ task' = [task EXCEPT ![t].pc = "join"]
    /\ UNCHANGED <<owner, rows, sent, window, chain, others>>

\* Only active sessions can be cancelled: the steer gives up, and its text with it.
SteerRefused(t) ==
    /\ pc(t) = "cancel" /\ status \notin Active
    /\ Finish(t)
    /\ UNCHANGED <<backend, window, generation, others>>

Joined(t) ==
    /\ pc(t) = "join" /\ task[t].prev \notin unsettled
    /\ Move(t, "chat")
    /\ UNCHANGED <<backend, window, chain, others>>

\* The catch of a send: the newest one tells the queue that it was not started.
Catch(t) ==
    IF ~Current(t) THEN Returned(t) /\ UNCHANGED shown
    ELSE /\ shown' = ShownNotStarted
         /\ IF Queued = {} THEN Returned(t)
            ELSE Move(t, "mark") /\ UNCHANGED <<draining, inFlight, unsettled>>

\* start_chat takes the message of a session that is at rest.
ChatAccepted(t) ==
    /\ pc(t) = "chat" /\ status \in AtRest
    /\ status' = "running" /\ owner' = t
    /\ sent' = [i \in Items |-> sent[i] + (IF i = task[t].item THEN 1 ELSE 0)]
    /\ Move(t, "turn")
    /\ UNCHANGED <<rows, window, chain, others>>

ChatRefused(t) ==
    /\ pc(t) = "chat" /\ status \in Active
    /\ Catch(t)
    /\ UNCHANGED <<backend, arriving, snapshot, cancelling, generation, others>>

\* The turn ends with an answer or a question; a turn that was cancelled returns
\* the session as it is.  A send that is still the newest takes the answer in, which
\* takes further awaits.
TurnReturns(t) ==
    /\ pc(t) = "turn"
    /\ status' \in IF owner = t /\ status = "running" THEN {"done", "need_user"} ELSE {status}
    /\ owner' = IF owner = t THEN NoTask ELSE owner
    /\ IF task[t].kind = "resolve" \/ Current(t)
       THEN Move(t, "back") /\ UNCHANGED <<draining, inFlight, unsettled>>
       ELSE Returned(t)
    /\ UNCHANGED <<rows, sent, window, generation, others>>

\* The end of a send that is still the newest, and of an approval: drain the queue.
TakenIn(t) ==
    /\ pc(t) = "back"
    /\ IF task[t].kind = "resolve" \/ (Current(t) /\ ~task[t].auto) THEN EnterDrain(t) ELSE Returned(t)
    /\ UNCHANGED <<backend, window, generation, others>>

\* A turn that ends in an error fails the session it finds active, be it that of
\* a newer turn.
TurnFails(t) ==
    /\ pc(t) = "turn" /\ status \in Active
    /\ status' = "failed" /\ owner' = NoTask
    /\ \/ task[t].kind = "resolve" /\ EnterDrain(t) /\ UNCHANGED shown
       \/ task[t].kind = "send" /\ Catch(t)
    /\ UNCHANGED <<rows, sent, arriving, snapshot, cancelling, generation, others>>

\* list_sessions reads the status; if it fails the window's own copy is used,
\* which may be of any age.
List(t) ==
    /\ pc(t) = "list"
    /\ \/ task' = [task EXCEPT ![t].pc = "decide", ![t].saw = status] /\ UNCHANGED failures
       \/ StoreFails /\ \E s \in AtRest \cup Active :
            task' = [task EXCEPT ![t].pc = "decide", ![t].saw = s]
    /\ UNCHANGED <<backend, window, chain, restarts, history, input>>

\* What the drain does with the answer.
DrainStops(t) ==
    /\ pc(t) = "decide"
    /\ task[t].saw \in Active \/ (task[t].saw = "done" /\ Queued = {})
    /\ Finish(t)
    /\ UNCHANGED <<backend, window, generation, others>>

DrainMarks(t) ==
    /\ pc(t) = "decide" /\ task[t].saw \in {"failed", "cancelled"}
    /\ shown' = ShownNotStarted
    /\ IF Queued = {} THEN Finish(t) ELSE Move(t, "mark") /\ UNCHANGED <<draining, inFlight, unsettled>>
    /\ UNCHANGED <<backend, arriving, snapshot, cancelling, generation, others>>

DrainSends(t) ==
    /\ pc(t) = "decide" /\ task[t].saw = "done" /\ Queued # {}
    /\ draining' = TRUE
    /\ task' = [task EXCEPT ![t] = [Idle EXCEPT !.item = Oldest(Queued), !.pc = "delete", !.auto = TRUE,
                                                !.outer = task[t].outer]]
    /\ UNCHANGED <<backend, window, generation, inFlight, unsettled, others>>

\* mark_follow_ups_not_started answers or fails.
Marked(t) ==
    /\ pc(t) = "mark"
    /\ \/ /\ rows' = [i \in Items |-> IF rows[i] = "queued" THEN "not_started" ELSE rows[i]]
          /\ UNCHANGED failures
       \/ StoreFails /\ UNCHANGED rows
    /\ \/ task[t].kind = "stop" /\ Move(t, "stop") /\ UNCHANGED <<draining, inFlight, unsettled>>
       \/ task[t].kind # "stop" /\ Returned(t)
    /\ UNCHANGED <<status, owner, sent, window, generation, restarts, history, input>>

-----------------------------------------------------------------------------
\* Approve or reject: the card is hidden at once, and resolve_action is called, after
\* two calls of the configuration if the approval is to be remembered.
Resolve(t) ==
    /\ pc(t) = "idle" /\ status = "need_user" /\ Click
    /\ task' = [task EXCEPT ![t] = [Idle EXCEPT !.kind = "resolve", !.pc = "resolve"]]
    /\ UNCHANGED <<backend, window, chain, created, failures, restarts, history>>

ResolveAccepted(t) ==
    /\ pc(t) = "resolve" /\ status = "need_user"
    /\ status' = "running" /\ owner' = t
    /\ Move(t, "turn")
    /\ UNCHANGED <<rows, sent, window, chain, others>>

\* The action has been decided or dropped since, or a call fails: the session is
\* read again and the queue is drained all the same.
ResolveRefused(t) ==
    /\ pc(t) = "resolve"
    /\ \/ status # "need_user" /\ UNCHANGED failures
       \/ StoreFails
    /\ Move(t, "back")
    /\ UNCHANGED <<backend, window, chain, restarts, history, input>>

\* The stop button marks the queue before it cancels.
StopClicked(t) ==
    /\ pc(t) = "idle" /\ status \in Active /\ Click
    /\ \A u \in Tasks : task[u].kind # "stop"
    /\ shown' = ShownNotStarted
    /\ task' = [task EXCEPT ![t] = [Idle EXCEPT !.kind = "stop",
                                                !.pc = IF Queued = {} THEN "stop" ELSE "mark"]]
    /\ UNCHANGED <<backend, arriving, snapshot, cancelling, chain, created, failures, restarts, history>>

Stopped(t) ==
    /\ pc(t) = "stop"
    /\ status' = IF status \in Active THEN "cancelled" ELSE status
    /\ Finish(t)
    /\ UNCHANGED <<owner, rows, sent, window, generation, others>>

-----------------------------------------------------------------------------
\* While a turn is under way the composer queues.
Enqueue(i) ==
    /\ Busy
    /\ i = created + 1 /\ created' = i
    /\ rows' = [rows EXCEPT ![i] = "queued"]
    /\ arriving' = arriving \cup {i}
    /\ UNCHANGED <<status, owner, sent, shown, snapshot, cancelling, chain, task, failures, restarts, history, clicks>>

Arrived(i) ==
    /\ i \in arriving
    /\ arriving' = arriving \ {i}
    /\ shown' = [shown EXCEPT ![i] = "queued"]
    /\ UNCHANGED <<backend, snapshot, cancelling, chain, task, others>>

CancelItem(i) ==
    /\ shown[i] \in {"queued", "not_started"} /\ \A c \in cancelling : c.item # i
    /\ Click
    /\ shown' = [shown EXCEPT ![i] = "cancelled"]
    /\ cancelling' = cancelling \cup {[item |-> i, was |-> shown[i]]}
    /\ refused' = refused \cup {i}
    /\ UNCHANGED <<backend, arriving, snapshot, chain, task, failures, restarts, inherited, created>>

CancelledItem(c) ==
    /\ c \in cancelling
    /\ cancelling' = cancelling \ {c}
    /\ \/ /\ rows' = Updated(c.item, "cancelled")
          /\ shown' = [shown EXCEPT ![c.item] = IF rows[c.item] = "none" THEN "none" ELSE @]
          /\ UNCHANGED <<failures, refused>>
       \/ /\ StoreFails
          /\ shown' = [shown EXCEPT ![c.item] = IF @ = "none" THEN "none" ELSE c.was]
          /\ refused' = refused \ {c.item}
          /\ UNCHANGED rows
    /\ UNCHANGED <<status, owner, sent, arriving, snapshot, chain, task, restarts, inherited, input>>

\* hydrateSession reads the table and later merges it into the window's copy.
HydrateRead ==
    /\ snapshot = NoSnapshot /\ Click
    /\ snapshot' = rows
    /\ UNCHANGED <<backend, shown, arriving, cancelling, chain, task, created, failures, restarts, history>>

HydrateMerge ==
    /\ snapshot # NoSnapshot
    /\ shown' = [i \in Items |-> IF snapshot[i] = "none" THEN shown[i] ELSE snapshot[i]]
    /\ snapshot' = NoSnapshot
    /\ UNCHANGED <<backend, arriving, cancelling, chain, task, others>>

\* Mutant: only the sessions are reconciled.
ReconciledSessions == rows

\* reconcile_interrupted_sessions, its two updates.
Interrupted == IF status = "running" THEN "cancelled" ELSE status
Reconciled == [i \in Items |-> IF rows[i] = "queued" THEN "not_started" ELSE rows[i]]

\* The process ends and starts again; the window is empty until its first
\* session_detail has answered.  A database that cannot be opened, and an update
\* that fails, the first or the second one, are not fatal.
Restart ==
    /\ restarts < MaxRestarts
    /\ restarts' = restarts + 1
    /\ \/ /\ status' = Interrupted /\ rows' = Reconciled /\ inherited' = created
          /\ UNCHANGED failures
       \/ /\ StoreFails
          /\ status' \in {status, Interrupted}
          /\ UNCHANGED <<rows, inherited>>
    /\ owner' = NoTask
    /\ shown' = [i \in Items |-> "none"] /\ arriving' = {} /\ snapshot' = rows' /\ cancelling' = {}
    /\ draining' = FALSE /\ generation' = 0 /\ inFlight' = 0 /\ unsettled' = {}
    /\ task' = [t \in Tasks |-> Idle]
    /\ UNCHANGED <<sent, refused, input>>

-----------------------------------------------------------------------------
\* The steps a call makes by itself, when what it awaits has answered.
Proceed(t) ==
    \/ Deleted(t) \/ DeleteFails(t) \/ SteerCancels(t) \/ SteerRefused(t) \/ Joined(t)
    \/ ChatAccepted(t) \/ ChatRefused(t) \/ TurnReturns(t) \/ TakenIn(t) \/ TurnFails(t)
    \/ ResolveAccepted(t) \/ ResolveRefused(t)
    \/ List(t) \/ DrainStops(t) \/ DrainMarks(t) \/ DrainSends(t) \/ Marked(t) \/ Stopped(t)

User(t) == \/ \E steer \in BOOLEAN : SendComposer(t, steer)
           \/ \E i \in Items : SendItem(t, i) \/ EditItem(t, i)
           \/ Resolve(t) \/ StopClicked(t)

Init ==
    /\ status = "done" /\ owner = NoTask
    /\ rows = [i \in Items |-> "none"] /\ shown = rows
    /\ arriving = {} /\ snapshot = NoSnapshot /\ cancelling = {}
    /\ draining = FALSE /\ generation = 0 /\ inFlight = 0 /\ unsettled = {}
    /\ task = [t \in Tasks |-> Idle]
    /\ clicks = 0 /\ created = 0 /\ failures = 0 /\ restarts = 0
    /\ sent = [i \in Items |-> 0] /\ refused = {} /\ inherited = 0

Next == \/ \E t \in Tasks : Proceed(t) \/ User(t)
        \/ \E i \in Items : Enqueue(i) \/ Arrived(i) \/ CancelItem(i)
        \/ \E c \in cancelling : CancelledItem(c)
        \/ HydrateRead \/ HydrateMerge \/ Restart

Spec == Init /\ [][Next]_vars

\* What a call awaits answers: the store, the list of sessions, and a turn, which
\* ends (SessionLifecycle, TurnEnds).
FairSpec == /\ Spec /\ \A t \in Tasks : WF_vars(Proceed(t))
            /\ \A i \in Items : WF_vars(Arrived(i))
            /\ WF_vars(\E c \in cancelling : CancelledItem(c))
            /\ WF_vars(HydrateMerge)

-----------------------------------------------------------------------------
\* Types of the table, the window and its calls.
TypeOK ==
    /\ status \in AtRest \cup Active /\ owner \in Tasks \cup {NoTask}
    /\ rows \in [Items -> Cell] /\ shown \in [Items -> Cell]
    /\ arriving \subseteq Items
    /\ snapshot = NoSnapshot \/ snapshot \in [Items -> Cell]
    /\ cancelling \subseteq [item : Items, was : Entry]
    /\ draining \in BOOLEAN /\ generation \in Nat
    /\ inFlight \in 0 .. generation /\ unsettled \subseteq 1 .. generation
    /\ task \in [Tasks -> Task]
    /\ clicks \in 0 .. MaxClicks /\ created \in 0 .. MaxItems
    /\ failures \in 0 .. MaxFailures /\ restarts \in 0 .. MaxRestarts
    /\ sent \in [Items -> Nat] /\ refused \subseteq Items /\ inherited \in 0 .. created

\* An entry that became a message of the session has no row any more, so that no
\* crash, restart or second window can send it from the table again.
SentIsGone == \A i \in Items : sent[i] > 0 => rows[i] = "none"

\* "so the user decides what to send": an entry that a start of the process has
\* reconciled is never sent by a drain, whatever later turns, steers, drains,
\* failed cancels and hydrations do.  A start whose reconcile fails promises
\* nothing: RestartSettlesQueue.
RestartNeverSends ==
    [][\A t \in Tasks : task[t].auto /\ pc(t) = "chat" /\ pc(t)' = "turn"
         => task[t].item > inherited]_vars

\* Every call of the window ends, however sends, steers, drains, approvals and
\* the stop button wait for each other.
TasksFinish == \A t \in Tasks : (pc(t) # "idle") ~> (pc(t) = "idle")

\* An entry the window shows as queued while the newest turn runs does not stay queued
\* once that turn is over: the drain sends one entry after the other or marks
\* them.  Not promised: a turn that ends with a question, a call of the store that
\* fails, and another call of the window that comes in between.
QueuedIsHandled ==
    \A i \in Items :
        (shown[i] = "queued" /\ \E t \in Tasks : pc(t) = "turn" /\ Current(t))
            ~> (\/ shown[i] # "queued" \/ status = "need_user" \/ failures > 0
                \/ \E t, u \in Tasks : t # u /\ pc(t) # "idle" /\ pc(u) # "idle")

\* "Any queue entries that were waiting automatically must be surfaced as not
\* started": after a restart no row is queued.
\* The code does not satisfy it: README, section 6.
RestartSettlesQueue ==
    [][restarts' # restarts => \A i \in Items : rows'[i] # "queued"]_vars

\* "Sent automatically when the current turn finishes": no entry stays queued
\* with the session at rest and no call under way.
\* The code does not satisfy it: README, section 6.
QueuedNeverStranded ==
    \A i \in Items :
        (rows[i] = "queued" /\ status \in AtRest /\ failures = 0)
            ~> (rows[i] # "queued" \/ status \in Active \/ failures > 0)

\* "This message was cancelled and will not be sent automatically".
\* The code does not satisfy it: README, section 6.
CancelledNotSent ==
    [][\A t \in Tasks : task[t].auto /\ pc(t) = "chat" /\ pc(t)' = "turn"
         => task[t].item \notin refused]_vars
=============================================================================
