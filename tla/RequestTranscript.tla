-------------------------- MODULE RequestTranscript --------------------------
(***************************************************************************)
(* What of a session's stored messages a request to the model carries.     *)
(*                                                                         *)
(* run_session decides how many of the oldest messages to leave out (a     *)
(* context window, a saved summary, or hard truncation when no summary     *)
(* could be made), turns the others into request messages, appends tool    *)
(* calls and their results round by round, and shortens the request when   *)
(* it is over the token budget or the endpoint says so.  Providers refuse  *)
(* a request in which a tool result does not answer a call of the message  *)
(* before it, or a call is left unanswered.                                *)
(*                                                                         *)
(* Texts are abstracted to their estimated size.  The system messages      *)
(* stand in front of the conversation and are never removed; `head` keeps  *)
(* what they tell the model of the messages left out.                      *)
(***************************************************************************)
EXTENDS Integers, Sequences, FiniteSets, FiniteSetsExt

CONSTANTS
    Costs,        \* estimated tokens of a stored message
    Fixed,        \* RequestBudget::fixed_tokens: system prompt and tool schemas
    Budget,       \* RequestBudget::budget_tokens
    Window,       \* context_window_for_model
    Hysteresis,   \* CONTEXT_COMPACTION_HYSTERESIS_PERCENT
    Reserve,      \* CONTEXT_SUMMARY_RESERVE_TOKENS
    SummaryCost,  \* RequestBudget::summary_tokens
    Instructions, \* the summary request without history
    MaxExcerpt,   \* MAX_COMPACTION_MESSAGE_CHARS, in tokens
    Preview,      \* HISTORICAL_TOOL_CARD_PREVIEW_CHARS, in tokens
    MaxResult,    \* MAX_TOOL_RESULT_CHARS, in tokens
    KeepRecent,   \* CONTEXT_COMPACTION_KEEP_RECENT_MESSAGES
    MinKept,      \* MIN_KEPT_MESSAGES
    MaxRetries,   \* max_provider_retries
    MaxRounds,    \* max_tool_rounds
    MaxCalls,     \* bound: calls in one answer
    MaxMessages   \* bound: stored messages

ASSUME SizesAssumption ==
    /\ Costs \subseteq Nat \ {0}
    /\ \A n \in {Fixed, Budget, Window, Hysteresis, Reserve, SummaryCost, Instructions,
                 MaxExcerpt, MaxRetries, MaxMessages} : n \in Nat
    /\ Preview \in Nat \ {0} /\ MaxResult \in Nat \ {0}
    /\ KeepRecent \in Nat \ {0} /\ MinKept \in Nat \ {0}
    /\ MaxRounds \in Nat \ {0} /\ MaxCalls \in Nat \ {0}

VARIABLES
    stored,     \* the rows of messages, oldest first
    compacted,  \* compacted_message_count of the saved summary, 0 without one
    unread,     \* history: messages it counts that were in no summary request
    window,     \* latest_context_window_start
    head,       \* what the system messages stand for
    body,       \* the other messages of the request
    pc, turn

vars == <<stored, compacted, unread, window, head, body, pc, turn>>

store == <<stored, compacted, unread, window>>

Labels == {"idle", "budget", "round", "sent", "tools", "paused"}

StoredMessage == [role : {"user", "assistant", "tool"}, cost : Costs \cup {1}]

\* src is the stored message an entry shows, 0 for none; ids are the calls of an
\* assistant message with tool_calls, or the one call that a result answers.
ChatMessage == [role : {"user", "assistant", "calls", "tool"}, src : Nat,
                ids : SUBSET (1..MaxCalls), cost : Nat \ {0}]

HeadNote == [covered : Nat, dropped : Nat]

NoHead == [covered |-> 0, dropped |-> 0]

Turn == [lossy    : BOOLEAN,         \* lossy_context_compaction_enabled
         base     : Nat,             \* history.len()
         rounds   : Nat,
         retry    : Nat,
         next     : Nat,             \* next call of the batch, and how many it has
         total    : Nat,
         resolved : 0..MaxCalls,     \* the call a resolve answers, 0 in a chat
         known    : BOOLEAN]         \* resolve has the message_id of its result

NewTurn == [lossy |-> FALSE, base |-> 0, rounds |-> 0, retry |-> 0, next |-> 1,
            total |-> 0, resolved |-> 0, known |-> FALSE]

-----------------------------------------------------------------------------
(* The history budget *)

AtMost(a, b) == IF a <= b THEN a ELSE b
AtLeast(a, b) == IF a >= b THEN a ELSE b

\* Tokens of the stored messages first..last.
Spent(first, last) == MapThenSumSet(LAMBDA i : stored[i].cost, first..last)

\* usable_compaction
Covered == IF compacted <= turn.base THEN compacted ELSE 0

\* history_target_count: the newest messages that fit are kept, the KeepRecent
\* newest ones in any case.
TargetCount(fixed) ==
    LET n == turn.base
        available == AtLeast(Budget - fixed, 0)
        kept == Max({k \in 0..n :
                       \A j \in (KeepRecent + 1)..k : Spent(n - j + 1, n) <= available})
    IN  AtMost(n - kept, AtLeast(n - KeepRecent, 0))

\* compaction_trigger_tokens
Trigger ==
    IF Covered = 0 THEN Budget
                   ELSE AtMost(Budget + (Budget * Hysteresis) \div 100, Window)

\* context_compaction_target_count; no more than Covered when nothing is to be done
CompactionTarget ==
    LET summary == IF Covered > 0 THEN SummaryCost ELSE 0
    IN  IF \/ turn.base <= KeepRecent
           \/ Fixed + summary + Spent(Covered + 1, turn.base) < Trigger
          THEN Covered
          ELSE TargetCount(Fixed + Reserve)

\* hard_truncation_target_count
HardTarget == TargetCount(Fixed + (IF Covered > 0 THEN SummaryCost ELSE 0))

\* compaction_prompt_token_budget
PromptRoom ==
    AtLeast(Budget - Instructions - (IF Covered > 0 THEN SummaryCost ELSE 0) - Reserve, 0)

\* compaction_prompt_body: the messages a summary up to last does not read.  The
\* newest ones that fit go into its prompt, each cut to MaxExcerpt, the last one in
\* any case.
Omits(last) ==
    {i \in (Covered + 1)..(last - 1) :
        MapThenSumSet(LAMBDA j : AtMost(stored[j].cost, MaxExcerpt) + 1, i..last) > PromptRoom}

-----------------------------------------------------------------------------
(* Request messages *)

\* historical_tool_card shows a preview of the output.
Previewed(cost) == AtMost(cost, Preview)

\* provider_message_from_stored: a tool row becomes an assistant note.
Card(i) ==
    LET row == stored[i]
    IN  IF row.role = "tool"
          THEN [role |-> "assistant", src |-> i, ids |-> {}, cost |-> Previewed(row.cost)]
          ELSE [role |-> row.role, src |-> i, ids |-> {}, cost |-> row.cost]

Cards(skip, last) == [k \in 1..AtLeast(last - skip, 0) |-> Card(skip + k)]

CallsMessage(ids) == [role |-> "calls", src |-> 0, ids |-> ids, cost |-> 1]

\* bounded_tool_result; MAX_TOOL_RESULT_CHARS holds in lossy turns only.
Result(call, src, cost) ==
    [role |-> "tool", src |-> src, ids |-> {call},
     cost |-> IF turn.lossy THEN AtMost(cost, MaxResult) ELSE cost]

\* Mutant of Assembled: the note of a known row stays.
AssembledTwice(skip) ==
    IF turn.resolved = 0 THEN Cards(skip, turn.base)
    ELSE LET replaced == stored[turn.base].cost <= Preview
         IN  Cards(skip, IF replaced THEN turn.base - 1 ELSE turn.base)
               \o <<CallsMessage({turn.resolved}),
                    Result(turn.resolved, turn.base, stored[turn.base].cost)>>

\* The result of a resolved call is the newest row.  Its note gives way to the
\* call and its result when resolve knows the row, or finds the output in the
\* note, which shows Preview tokens of it.
Assembled(skip) ==
    IF turn.resolved = 0 THEN Cards(skip, turn.base)
    ELSE LET replaced == turn.known \/ stored[turn.base].cost <= Preview
         IN  Cards(skip, IF replaced THEN turn.base - 1 ELSE turn.base)
               \o <<CallsMessage({turn.resolved}),
                    Result(turn.resolved, turn.base, stored[turn.base].cost)>>

\* compacted_history_message and dropped_history_message
HeadCost == (IF head.covered > 0 THEN SummaryCost ELSE 0)
              + (IF head.dropped > 0 THEN 1 ELSE 0)

\* estimate_chat_request_tokens
Tokens(b) == Fixed + HeadCost + MapThenSumSet(LAMBDA i : b[i].cost, DOMAIN b)

\* context_block_end: calls and the results right after them are one block.
InBlock(b, i) ==
    \E j \in 1..(i - 1) : b[j].role = "calls" /\ \A k \in (j + 1)..i : b[k].role = "tool"

BlockStarts(b) == {i \in DOMAIN b : ~InBlock(b, i)}

\* Mutant of TrimBlocks: messages are counted instead of blocks.
TrimMessages(b, count) == SubSeq(b, count + 1, Len(b))

\* trim_oldest_message_blocks
TrimBlocks(b, count) ==
    LET starts == BlockStarts(b)
    IN  IF count >= Cardinality(starts) THEN <<>>
        ELSE LET first == CHOOSE i \in starts :
                            Cardinality({j \in starts : j < i}) = count
             IN  SubSeq(b, first, Len(b))

\* prepare_request_messages: the oldest blocks go until the request fits.
Prepared(b) ==
    IF ~turn.lossy THEN b
    ELSE LET blocks == Cardinality(BlockStarts(b))
             count == Min({n \in 0..blocks : n = blocks \/ Tokens(TrimBlocks(b, n)) <= Budget})
         IN  TrimBlocks(b, count)

\* A tool result follows its call: no user or assistant message stands between
\* them, and no other result takes the call.
Answers(b, i) ==
    \E j \in 1..(i - 1) :
        /\ b[j].role = "calls" /\ b[i].ids \subseteq b[j].ids
        /\ \A k \in (j + 1)..(i - 1) : b[k].role = "tool" /\ b[k].ids # b[i].ids

\* repair_tool_transcript: any other result becomes user text.
Repaired(b) ==
    [i \in DOMAIN b |-> IF b[i].role = "tool" /\ ~Answers(b, i)
                          THEN [b[i] EXCEPT !.role = "user", !.ids = {}] ELSE b[i]]

\* overflow_trim_drop_count
OverflowDrop(count) == count - AtLeast(count \div 2, MinKept)

-----------------------------------------------------------------------------
(* A turn *)

Record(role, cost) == stored' = Append(stored, [role |-> role, cost |-> cost])

Room == Len(stored) < MaxMessages

\* run_session returns: the request is gone.
End ==
    /\ pc' = "idle"
    /\ turn' = NewTurn /\ head' = NoHead /\ body' = <<>>

\* start_chat or continue_chat, then run_session reads the history.  The setting
\* is read once per turn.
Chat(lossy, cost) ==
    /\ pc = "idle" /\ Room
    /\ Record("user", cost)
    /\ turn' = [NewTurn EXCEPT !.lossy = lossy, !.base = Len(stored) + 1]
    /\ pc' = "budget"
    /\ UNCHANGED <<compacted, unread, window, head, body>>

Begin(h, skip) ==
    /\ head' = h
    /\ body' = Assembled(skip)
    /\ pc' = "round"
    /\ UNCHANGED <<stored, window, turn>>

\* Lossless: everything from the latest context window on.
KeepWindow ==
    /\ pc = "budget" /\ ~turn.lossy
    /\ Begin(NoHead, AtMost(window, turn.base))
    /\ UNCHANGED <<compacted, unread>>

\* maybe_compact_history: what the saved summary does not cover still fits.
KeepSummary ==
    /\ pc = "budget" /\ turn.lossy
    /\ CompactionTarget <= Covered
    /\ Begin([covered |-> Covered, dropped |-> 0], Covered)
    /\ UNCHANGED <<compacted, unread>>

\* Mutant of Summarize: the whole history is recorded as summarised.
SummarizeAll ==
    /\ pc = "budget" /\ turn.lossy
    /\ CompactionTarget > Covered
    /\ compacted' = turn.base /\ unread' = unread \cup Omits(CompactionTarget)
    /\ Begin([covered |-> CompactionTarget, dropped |-> 0], CompactionTarget)

\* ... it does not, and summarize_history gives a new summary that is saved.  It
\* counts for every message up to the target, also for those it has not read ...
Summarize ==
    /\ pc = "budget" /\ turn.lossy
    /\ CompactionTarget > Covered
    /\ compacted' = CompactionTarget /\ unread' = unread \cup Omits(CompactionTarget)
    /\ Begin([covered |-> CompactionTarget, dropped |-> 0], CompactionTarget)

\* Mutant of Truncate: no notice of what was dropped.
TruncateUnnoticed ==
    /\ pc = "budget" /\ turn.lossy
    /\ CompactionTarget > Covered
    /\ Begin([covered |-> Covered, dropped |-> 0], AtLeast(HardTarget, Covered))
    /\ UNCHANGED <<compacted, unread>>

\* ... or fails: the oldest messages are dropped, and a notice says how many.
Truncate ==
    /\ pc = "budget" /\ turn.lossy
    /\ CompactionTarget > Covered
    /\ LET skip == AtLeast(HardTarget, Covered)
       IN  Begin([covered |-> Covered, dropped |-> skip - Covered], skip)
    /\ UNCHANGED <<compacted, unread>>

\* Mutant of Send: the round sends what it has, unrepaired.
SendUnrepaired ==
    /\ pc = "round" /\ turn.rounds < MaxRounds
    /\ body' = Prepared(body)
    /\ turn' = [turn EXCEPT !.rounds = @ + 1, !.retry = 0]
    /\ pc' = "sent"
    /\ UNCHANGED <<store, head>>

\* A tool round: the request is fitted, repaired and sent.
Send ==
    /\ pc = "round" /\ turn.rounds < MaxRounds
    /\ body' = Repaired(Prepared(body))
    /\ turn' = [turn EXCEPT !.rounds = @ + 1, !.retry = 0]
    /\ pc' = "sent"
    /\ UNCHANGED <<store, head>>

\* ToolCallLimit
TooManyRounds ==
    /\ pc = "round" /\ turn.rounds = MaxRounds
    /\ End
    /\ UNCHANGED store

\* Mutant of OverflowRetry: a request at the floor is tried again as well.
OverflowAtFloor ==
    /\ pc = "sent" /\ turn.lossy
    /\ turn.retry < MaxRetries
    /\ Len(body) >= MinKept
    /\ body' = TrimBlocks(body, OverflowDrop(Len(body)))
    /\ turn' = [turn EXCEPT !.retry = @ + 1]
    /\ UNCHANGED <<store, head, pc>>

\* The endpoint says the context is too long: the request is shortened and sent
\* again.
OverflowRetry ==
    /\ pc = "sent" /\ turn.lossy
    /\ turn.retry < MaxRetries
    /\ Len(body) > MinKept
    /\ body' = TrimBlocks(body, OverflowDrop(Len(body)))
    /\ turn' = [turn EXCEPT !.retry = @ + 1]
    /\ UNCHANGED <<store, head, pc>>

\* The next candidate gets what is left of the request, and retries of its own.
NextCandidate ==
    /\ pc = "sent" /\ turn.retry > 0
    /\ turn' = [turn EXCEPT !.retry = 0]
    /\ UNCHANGED <<store, head, body, pc>>

\* An answer without calls: complete_chat.
Answer ==
    /\ pc = "sent" /\ Room
    /\ Record("assistant", 1)
    /\ End
    /\ UNCHANGED <<compacted, unread, window>>

\* An answer with n calls.
Calls(n) ==
    /\ pc = "sent"
    /\ body' = Append(body, CallsMessage(1..n))
    /\ turn' = [turn EXCEPT !.next = 1, !.total = n]
    /\ pc' = "tools"
    /\ UNCHANGED <<store, head>>

NextCall ==
    /\ turn' = [turn EXCEPT !.next = @ + 1]
    /\ pc' = IF turn.next = turn.total THEN "round" ELSE "tools"

\* A call that runs, or is rejected, blocked or denied: its output is stored and
\* goes into the request as its result.
ToolResult(cost) ==
    /\ pc = "tools" /\ Room
    /\ Record("tool", cost)
    /\ body' = Append(body, Result(turn.next, Len(stored) + 1, cost))
    /\ NextCall
    /\ UNCHANGED <<compacted, unread, window, head>>

\* The position of the newest user message.
LastUser == Max({i \in DOMAIN stored : stored[i].role = "user"})

\* rebuild_messages_for_new_context: from the history read when the turn began,
\* without the calls and results of this turn.
Rebuilt(skip) == Cards(skip, turn.base)

\* Mutant of NewContext: the window starts after the user message.
NewContextAfter ==
    /\ pc = "tools" /\ Room
    /\ LastUser > 1
    /\ window' = LastUser
    /\ Record("tool", 1)
    /\ body' = Append(Rebuilt(LastUser), Result(turn.next, Len(stored) + 1, 1))
    /\ NextCall
    /\ UNCHANGED <<compacted, unread, head>>

\* new_context: a window from the newest user message on.  The first window is
\* implicit: without an older message the tool reports an error (ToolResult).
NewContext ==
    /\ pc = "tools" /\ Room
    /\ LastUser > 1
    /\ window' = LastUser - 1
    /\ Record("tool", 1)
    /\ body' = Append(Rebuilt(LastUser - 1), Result(turn.next, Len(stored) + 1, 1))
    /\ NextCall
    /\ UNCHANGED <<compacted, unread, head>>

\* A call the user must approve: the turn pauses, its request is given up.
Ask ==
    /\ pc = "tools"
    /\ pc' = "paused"
    /\ turn' = [NewTurn EXCEPT !.resolved = turn.next]
    /\ head' = NoHead /\ body' = <<>>
    /\ UNCHANGED store

\* resolve: the output of the approved call, or the rejection, is stored and a
\* new run_session answers the call with it.  known is the success of an
\* approved call.
Resolve(lossy, known, cost) ==
    /\ pc = "paused" /\ Room
    /\ Record("tool", cost)
    /\ turn' = [turn EXCEPT !.lossy = lossy, !.base = Len(stored) + 1, !.known = known]
    /\ pc' = "budget"
    /\ UNCHANGED <<compacted, unread, window, head, body>>

\* An error or a cancellation ends the turn.
Stop ==
    /\ pc # "idle"
    /\ End
    /\ UNCHANGED store

\* A cancellation keeps the partial answer of this round or of an earlier one.
StopPreserving ==
    /\ pc \in {"round", "sent", "tools"} /\ turn.rounds > 0 /\ Room
    /\ Record("assistant", 1)
    /\ End
    /\ UNCHANGED <<compacted, unread, window>>

-----------------------------------------------------------------------------
Init ==
    /\ stored = <<>> /\ compacted = 0 /\ unread = {} /\ window = 0
    /\ head = NoHead /\ body = <<>>
    /\ pc = "idle" /\ turn = NewTurn

Next ==
    \/ \E lossy \in BOOLEAN, cost \in Costs : Chat(lossy, cost)
    \/ KeepWindow \/ KeepSummary \/ Summarize \/ Truncate
    \/ Send \/ TooManyRounds \/ OverflowRetry
    \/ NextCandidate \/ Answer
    \/ \E n \in 1..MaxCalls : Calls(n)
    \/ \E cost \in Costs : ToolResult(cost)
    \/ NewContext \/ Ask
    \/ \E lossy \in BOOLEAN, known \in BOOLEAN, cost \in Costs : Resolve(lossy, known, cost)
    \/ Stop \/ StopPreserving

Spec == Init /\ [][Next]_vars

-----------------------------------------------------------------------------
(* Properties *)

\* The types, and the limits on rounds, retries and calls.
TypeOK ==
    /\ stored \in Seq(StoredMessage)
    /\ compacted \in 0..Len(stored) /\ unread \subseteq 1..compacted
    /\ window \in 0..Len(stored)
    /\ head \in HeadNote /\ body \in Seq(ChatMessage)
    /\ pc \in Labels /\ turn \in Turn
    /\ turn.base <= Len(stored)
    /\ turn.rounds <= MaxRounds /\ turn.retry <= MaxRetries /\ turn.total <= MaxCalls

\* "Halving keeps each retry strictly smaller than the last": what an overflow
\* retry sends is smaller, in messages and in tokens, than what the endpoint found
\* too long, also when calls and their results are dropped as one block.
RetriesShrink ==
    [][turn'.retry > turn.retry => Len(body') < Len(body) /\ Tokens(body') < Tokens(body)]_vars

\* No result without its call and no call without its result in any request that
\* is sent, however windows, trimming, approvals and retries cut the history.
RequestsWellFormed ==
    pc = "sent" =>
        /\ \A i \in DOMAIN body : body[i].role = "tool" => Answers(body, i)
        /\ \A j \in DOMAIN body : \A id \in body[j].ids :
             body[j].role = "calls" =>
               \E i \in (j + 1)..Len(body) :
                   body[i].ids = {id} /\ \A k \in (j + 1)..i : body[k].role = "tool"

Shown(i) == \E k \in DOMAIN body : body[k].src = i

\* Where each stored message is when the first request of a turn is sent: in the
\* request, in the notice's count, before a lossless turn's context window, or in
\* the summary's count; and the two ways to be in none of them are bounded.  A
\* message no summary has read is counted by one that read a newer message; a
\* message trimmed without a notice is trimmed from a lossy request over its budget,
\* all older ones with it.
NothingLeftOut ==
    [][pc = "round" /\ turn.rounds = 0 /\ pc' = "sent" =>
         \A i \in 1..turn.base :
             \/ Shown(i)'
             \/ i \in (head.covered + 1)..(head.covered + head.dropped)
             \/ ~turn.lossy /\ i <= window
             \/ i <= head.covered /\ \E j \in i..head.covered : j \notin unread
             \/ turn.lossy /\ Tokens(body) > Budget /\ \A j \in 1..i : ~Shown(j)']_vars

\* The output of a resolved call is shown as its result and not as a note, except
\* a long one that failed: its note does not hold the whole output.
ShownOnce ==
    \A i, k \in DOMAIN body :
        i < k /\ body[i].src = body[k].src /\ body[i].src > 0
          => body[i].src = turn.base /\ ~turn.known /\ stored[turn.base].cost > Preview

\* A lossless request carries the user message it is to answer.
CurrentMessageSent == pc = "sent" /\ ~turn.lossy => Shown(LastUser)

\* A summary never covers less than the one before it, nor any of the newest
\* messages.
SummaryAdvances ==
    [][compacted' # compacted
         => compacted' > compacted /\ compacted' + KeepRecent <= Len(stored)]_vars

\* "`None` means the request is already at the floor and trimming further would
\* not leave a usable request": an overflow retry keeps MIN_KEPT_MESSAGES of the
\* conversation.
\* The code does not satisfy it: README, section 6.
OverflowKeepsFloor ==
    [][pc = "sent" /\ pc' = "sent" => Len(body') >= MinKept]_vars

\* "the ones beyond the saved handoff are dropped outright, which only happens when
\* compaction itself failed" (and then a notice counts them): a request leaves out
\* nothing else.
\* The code does not satisfy it: README, section 6.
DropsAreNoticed ==
    pc = "sent" =>
        \A i \in 1..turn.base :
            Shown(i) \/ i <= head.covered + head.dropped \/ (~turn.lossy /\ i <= window)

\* "Any existing handoff still covers the messages it summarized": what the saved
\* summary counts for was put before the model that wrote it.
\* The code does not satisfy it: README, section 6.
HandoffReadsAll == unread = {}

=============================================================================
