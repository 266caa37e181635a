--------------------------- MODULE StreamAttempt ---------------------------
(***************************************************************************)
(* One attempt to stream an answer: the endpoint, the byte stream, the     *)
(* decoder of crates/xcoding-providers (stream_chat_completions,           *)
(* stream_responses, stream_anthropic_messages) and the loop of the agent  *)
(* that consumes its events (stream_provider_attempt).                     *)
(*                                                                         *)
(* The endpoint sends lines; the network cuts them into chunks anywhere;   *)
(* the decoder works on whole lines and is run by the agent's poll, so it  *)
(* decodes a line only when its last event was taken.  A line stands for   *)
(* one server-sent event with one thing in it; an event with several is    *)
(* the same as several lines.  Text is a sequence of tokens:               *)
(*   "word"   anything harmless          "blank"  white space only         *)
(*   "pre"    a proper beginning of the marker of a historical tool card   *)
(*   "post"   the rest of that marker, shorter than the 64 characters of   *)
(*            MIN_HISTORICAL_TOOL_ECHO_CHARS together with "pre"           *)
(*   "bit"    a piece of a tool card's text, too short for a fingerprint;  *)
(*            EchoLen of them in a row, white space aside, are recognised  *)
(*   "echo"   a piece long enough to be recognised by itself               *)
(*   "dsml"   a complete leaked tool-call block, "half" a rejected one     *)
(***************************************************************************)
EXTENDS Naturals, Sequences, FiniteSets

CONSTANTS Tokens,     \* the kinds of text the endpoint may send
          Apis,       \* the wire protocols: "chat", "responses", "messages"
          Frags,      \* into how many fragments the arguments of a call are cut
          EchoLen,    \* pieces of HISTORICAL_FINGERPRINT_WINDOW_CHARS + 1 characters
          MaxIndex,   \* calls of one answer
          MaxLines,   \* bound: lines the endpoint sends
          MaxAhead    \* bound: lines on their way to the decoder

ASSUME TokensAssumption ==
    Tokens \subseteq {"word", "blank", "pre", "post", "bit", "echo", "dsml", "half"}
ASSUME ApisAssumption == Apis \subseteq {"chat", "responses", "messages"}
ASSUME SizesAssumption ==
    Frags \in Nat \ {0} /\ EchoLen \in Nat \ {0} /\ MaxIndex \in Nat /\ MaxLines \in Nat /\ MaxAhead \in Nat

VARIABLES
    api,        \* the protocol of the provider
    sent,       \* the lines the endpoint has sent
    closed,     \* "no", or the connection was closed after a "whole" or a "half" line
    got,        \* half lines received (two make a line: a chunk may end inside one)
    read,       \* lines decoded
    acc,        \* tool_calls of the decoder: an accumulator per index
    cut,        \* truncated_by_length
    emitted,    \* emitted_event
    ending,     \* the decoder's stream: "open", "ended" or "broken" (an error)
    queue,      \* events decoded and not yet taken by the agent
    content,    \* the text the agent has collected
    guard,      \* HistoricalToolEchoStreamGuard
    shown,      \* the text the client has on the screen
    calls,      \* tool_calls of the agent
    cancelled,  \* the session was cancelled
    outcome,    \* where the attempt stands
    reported    \* the failure says output_chars > 0

decoder == <<got, read, acc, cut, emitted, ending>>
agent == <<content, guard, shown, calls, outcome, reported>>
vars == <<api, sent, closed, decoder, queue, agent, cancelled>>

Index == 1..MaxIndex
Garbled == Frags + 1
Line(kind, i, t) == [kind |-> kind, i |-> i, t |-> t]
Text(t) == Line("text", 0, t)
Call(i, args, truncated) == [i |-> i, args |-> args, truncated |-> truncated]
Recovered == Call(0, 0, FALSE)
NoCall == [seen |-> FALSE, head |-> FALSE, args |-> 0, garbled |-> FALSE]
Failures == {"disconnected", "failed", "timeout", "leaked", "echo", "empty"}
Over == Failures \cup {"ok", "cancelled"}

Lines == {Text(t) : t \in Tokens}
         \cup {Line(k, 0, "none") : k \in {"alive", "noise", "cut", "stop", "end", "bad"}}
         \cup {Line(k, i, "none") : k \in {"head", "arg", "garbled", "item"}, i \in Index}

TypeOK ==
    /\ api \in Apis /\ closed \in {"no", "whole", "half"}
    /\ sent \in Seq(Lines) /\ got \in Nat /\ read \in Nat
    /\ acc \in [Index -> [seen : BOOLEAN, head : BOOLEAN, args : 0..Frags, garbled : BOOLEAN]]
    /\ {cut, emitted, cancelled, reported} \subseteq BOOLEAN
    /\ ending \in {"open", "ended", "broken"}
    /\ outcome \in Over \cup {"opening", "streaming"}
    /\ guard \in [pending : Seq(Tokens), mode : {"buffering", "emitting", "suppressing"},
                  run : Nat, matched : BOOLEAN]
    /\ content \in Seq(Tokens) /\ shown \in Seq(Tokens)

Init ==
    /\ api \in Apis
    /\ sent = <<>> /\ closed = "no" /\ got = 0 /\ read = 0
    /\ acc = [i \in Index |-> NoCall]
    /\ cut = FALSE /\ emitted = FALSE /\ ending = "open" /\ queue = <<>>
    /\ content = <<>> /\ shown = <<>> /\ calls = <<>>
    /\ guard = [pending |-> <<>>, mode |-> "buffering", run |-> 0, matched |-> FALSE]
    /\ cancelled = FALSE /\ outcome = "opening" /\ reported = FALSE

-----------------------------------------------------------------------------
(* The endpoint and the network (external). *)

Count(l) == Len(SelectSeq(sent, LAMBDA x : x = l))

\* An endpoint sends the head of a call once and before its fragments, or
\* never, and no more fragments than the arguments have; Responses sends a
\* finished call as one item.  Nothing follows the end of the answer.  The rest of
\* a marker is only one behind its beginning.
Sendable(l) ==
    /\ Count(Line("end", 0, "none")) = 0
    /\ (l.t = "post") => sent # <<>> /\ sent[Len(sent)].t = "pre"
    /\ (l.kind = "item") => api = "responses" /\ Count(l) = 0
    /\ (l.kind \in {"head", "arg", "garbled", "stop"}) => api # "responses"
    /\ (l.kind = "head") => \A k \in {"head", "arg", "garbled"} : Count(Line(k, l.i, "none")) = 0
    /\ (l.kind = "arg") => Count(l) < Frags
    /\ (l.kind = "garbled") => Count(l) = 0

Emit(l) ==
    /\ outcome = "streaming" /\ closed = "no"
    /\ Len(sent) < MaxLines /\ Len(sent) - read < MaxAhead /\ Sendable(l)
    /\ sent' = Append(sent, l)
    /\ UNCHANGED <<api, closed, decoder, queue, agent, cancelled>>

\* The connection is closed, possibly in the middle of the last line.
Close(how) ==
    /\ outcome = "streaming" /\ closed = "no"
    /\ (how = "half") => got < 2 * Len(sent)
    /\ closed' = how
    /\ UNCHANGED <<api, sent, decoder, queue, agent, cancelled>>

Available == 2 * Len(sent) - (IF closed = "half" THEN 1 ELSE 0)
LineReady == got >= 2 * (read + 1)
Polling == outcome = "streaming" /\ ending = "open" /\ queue = <<>>

-----------------------------------------------------------------------------
(* The decoder, run by the agent's stream.next(). *)

\* bytes.next(): some more bytes, appended to the buffer.
Chunk(n) ==
    /\ Polling /\ ~LineReady
    /\ got + n <= Available
    /\ got' = got + n
    /\ UNCHANGED <<api, sent, closed, read, acc, cut, emitted, ending, queue, agent, cancelled>>

\* ToolCallAccumulator::finish.
Finished(i) ==
    Call(i, IF acc[i].garbled THEN Garbled ELSE acc[i].args,
         \/ acc[i].garbled /\ cut
         \/ ~acc[i].garbled /\ acc[i].args \in 1..(Frags - 1))

\* The k-th number of a set.
Nth(S, k) == CHOOSE i \in S : Cardinality({j \in S : j < i}) = k - 1

\* The calls before the first one without id or name, which is an error.
FinishedCalls ==
    LET named == {i \in Index : acc[i].seen /\ \A j \in 1..i : acc[j].seen => acc[j].head}
    IN [k \in 1..Cardinality(named) |-> [kind |-> "call", call |-> Finished(Nth(named, k))]]

AllNamed == \A i \in Index : acc[i].seen => acc[i].head

Decode(l, events, output, end) ==
    /\ Polling /\ LineReady
    /\ l = sent[read + 1]
    /\ read' = read + 1
    /\ queue' = events
    /\ emitted' = (emitted \/ output)
    /\ ending' = end
    /\ UNCHANGED <<api, sent, closed, got, agent, cancelled>>

\* A text delta; Chat Completions drops one that is only white space.
DecodeText ==
    /\ \E t \in Tokens :
        IF api = "chat" /\ t = "blank"
        THEN Decode(Text(t), <<>>, FALSE, "open")
        ELSE Decode(Text(t), <<[kind |-> "text", t |-> t]>>, TRUE, "open")
    /\ UNCHANGED <<acc, cut>>

\* Reasoning, usage, the model's name and lifecycle events prove that the
\* stream is alive and are not output; a comment or an unknown event is skipped.
DecodeAlive ==
    /\ \/ Decode(Line("alive", 0, "none"), <<[kind |-> "alive"]>>, FALSE, "open")
       \/ Decode(Line("noise", 0, "none"), <<>>, FALSE, "open")
    /\ UNCHANGED <<acc, cut>>

\* ToolCallAccumulator::merge, and the tool_use events of Anthropic.  The start
\* of a tool_use replaces what the accumulator held: nothing, as it comes first.
Merged(a, kind) ==
    IF kind = "head" THEN [a EXCEPT !.seen = TRUE, !.head = TRUE]
    ELSE IF kind = "arg" THEN [a EXCEPT !.seen = TRUE, !.args = @ + 1]
    ELSE [a EXCEPT !.seen = TRUE, !.garbled = TRUE]

DecodeCall ==
    /\ \E i \in Index, kind \in {"head", "arg", "garbled"} :
        /\ Decode(Line(kind, i, "none"), <<>>, FALSE, "open")
        /\ acc' = [acc EXCEPT ![i] = Merged(@, kind)]
    /\ cut' = cut

\* response.output_item.done: a finished call, handed on at once.
DecodeItem ==
    /\ \E i \in Index :
        Decode(Line("item", i, "none"), <<[kind |-> "call", call |-> Call(i, Frags, FALSE)]>>, TRUE, "open")
    /\ UNCHANGED <<acc, cut>>

\* finish_reason "length" and stop_reason "max_tokens" are remembered until another
\* reason comes; response.incomplete is an error.
DecodeCut ==
    /\ Decode(Line("cut", 0, "none"), <<>>, FALSE, IF api = "responses" THEN "broken" ELSE "open")
    /\ cut' = (api # "responses")
    /\ acc' = acc

DecodeStop ==
    /\ Decode(Line("stop", 0, "none"), <<>>, FALSE, "open")
    /\ cut' = FALSE
    /\ acc' = acc

\* Chat Completions finishes all calls before it hands on the first; Anthropic
\* hands them on one by one and fails at the first without a name.
Handed == IF api = "chat" /\ ~AllNamed THEN <<>> ELSE FinishedCalls

\* [DONE], response.completed, message_stop.  A stream without output is an error.
DecodeEnd ==
    /\ Decode(Line("end", 0, "none"), Handed, Handed # <<>>,
              IF AllNamed /\ (emitted \/ Handed # <<>>) THEN "ended" ELSE "broken")
    /\ acc' = [i \in Index |-> NoCall]
    /\ cut' = cut

\* A failure event, malformed JSON or a call without id in an item.
DecodeBad ==
    /\ Decode(Line("bad", 0, "none"), <<>>, FALSE, "broken")
    /\ UNCHANGED <<acc, cut>>

\* Mutant: a connection that was closed counts as the end of the answer.
DisconnectEnds ==
    /\ Polling /\ closed # "no" /\ got = Available /\ ~LineReady
    /\ ending' = IF emitted THEN "ended" ELSE "broken"
    /\ UNCHANGED <<api, sent, closed, got, read, acc, cut, emitted, queue, agent, cancelled>>

\* "connection closed before [DONE]", or an error of the transport.
Disconnect ==
    /\ Polling /\ closed # "no" /\ got = Available /\ ~LineReady
    /\ ending' = "broken"
    /\ UNCHANGED <<api, sent, closed, got, read, acc, cut, emitted, queue, agent, cancelled>>

-----------------------------------------------------------------------------
(* The guard against an echo of the history. *)

Stripped(text) ==
    LET solid == {k \in 1..Len(text) : text[k] # "blank"}
    IN IF solid = {} THEN <<>>
       ELSE SubSeq(text, CHOOSE k \in solid : \A j \in solid : k <= j, Len(text))

Trimmed(text) ==
    LET solid == {k \in 1..Len(text) : text[k] # "blank"}
    IN IF solid = {} THEN <<>>
       ELSE Stripped(SubSeq(text, 1, CHOOSE k \in solid : \A j \in solid : j <= k))

IsMarker(text) == Len(text) >= 2 /\ text[1] = "pre" /\ text[2] = "post"
\* The marker and at least one more token are 64 characters.
LongEnough(text) == Len(text) >= 3
LooksLikeEcho(text) == IsMarker(Trimmed(text)) /\ LongEnough(Trimmed(text))
CouldBeMarker(text) == text \in {<<>>, <<"pre">>}

\* HistoricalContentFingerprints::observe: the pieces of a card in a row, and
\* whether they are recognised with t.
Run(t) == IF t = "blank" THEN guard.run ELSE IF t = "bit" THEN guard.run + 1 ELSE 0

\* Mutant: every delta is compared on its own.
RecognisesAlone(t) == t = "echo" \/ (t = "bit" /\ EchoLen = 1)

Recognises(t) == t = "echo" \/ (t = "bit" /\ Run(t) >= EchoLen)

\* HistoricalToolEchoStreamGuard::push: the guard afterwards and what is shown.
\* Pieces that were shown before the last one is recognised stay on the screen.
Push(t) ==
    LET pending == Append(guard.pending, t)
        solid == Stripped(pending)
        seen == [guard EXCEPT !.run = Run(t)]
    IN IF guard.mode = "suppressing" THEN [guard |-> guard, show |-> <<>>]
       ELSE IF Recognises(t)
       THEN [guard |-> [seen EXCEPT !.pending = <<>>, !.mode = "suppressing", !.matched = TRUE],
             show |-> <<>>]
       ELSE IF guard.mode = "emitting" THEN [guard |-> seen, show |-> <<t>>]
       ELSE IF CouldBeMarker(solid) \/ (IsMarker(solid) /\ ~LongEnough(solid))
       THEN [guard |-> [seen EXCEPT !.pending = pending], show |-> <<>>]
       ELSE IF IsMarker(solid)
       THEN [guard |-> [seen EXCEPT !.pending = <<>>, !.mode = "suppressing"], show |-> <<>>]
       ELSE [guard |-> [seen EXCEPT !.pending = <<>>, !.mode = "emitting"], show |-> pending]

\* Mutant: what the guard still holds is forgotten.
FlushedNever == <<>>

\* HistoricalToolEchoStreamGuard::finish.
Flushed == IF guard.mode = "buffering" THEN guard.pending ELSE <<>>

-----------------------------------------------------------------------------
(* The agent's loop. *)

\* Mutant: a failure counts the text that was shown only when it has calls.
EndAsCallless(how, output) ==
    /\ outcome' = how
    /\ reported' = (how \in Failures /\ output /\ calls # <<>>)

EndAs(how, output) ==
    /\ outcome' = how
    /\ reported' = (how \in Failures /\ output)

StopWith(how) ==
    /\ EndAs(how, content # <<>>)
    /\ UNCHANGED <<content, guard, shown, calls>>

\* provider.stream_chat returned a stream, or an error.
Opened ==
    /\ outcome = "opening"
    /\ outcome' = "streaming"
    /\ UNCHANGED <<api, sent, closed, decoder, queue, content, guard, shown, calls, reported, cancelled>>

OpenFailed ==
    /\ outcome = "opening"
    /\ StopWith("failed")
    /\ UNCHANGED <<api, sent, closed, decoder, queue, cancelled>>

\* An event: the cancellation is looked at first.
Take ==
    /\ outcome = "streaming" /\ queue # <<>>
    /\ queue' = Tail(queue)
    /\ LET e == Head(queue)
       IN IF cancelled THEN StopWith("cancelled")
          ELSE /\ content' = IF e.kind = "text" THEN Append(content, e.t) ELSE content
               /\ guard' = IF e.kind = "text" THEN Push(e.t).guard ELSE guard
               /\ shown' = IF e.kind = "text" THEN shown \o Push(e.t).show ELSE shown
               /\ calls' = IF e.kind = "call" THEN Append(calls, e.call) ELSE calls
               /\ UNCHANGED <<outcome, reported>>
    /\ UNCHANGED <<api, sent, closed, decoder, cancelled>>

\* The stream ended in an error: text and calls of the attempt are dropped.
StreamFails ==
    /\ outcome = "streaming" /\ queue = <<>> /\ ending = "broken"
    /\ StopWith(IF closed = "no" THEN "failed" ELSE "disconnected")
    /\ UNCHANGED <<api, sent, closed, decoder, queue, cancelled>>

\* No event until the deadline: of the first event, or since the last one.
Timeout ==
    /\ outcome \in {"opening", "streaming"}
    /\ StopWith("timeout")
    /\ UNCHANGED <<api, sent, closed, decoder, queue, cancelled>>

\* The cancellation is polled every 50 ms, and while the stream is opened.
NoticeCancel ==
    /\ outcome \in {"opening", "streaming"} /\ cancelled
    /\ StopWith("cancelled")
    /\ UNCHANGED <<api, sent, closed, decoder, queue, cancelled>>

Blocks(text) == SelectSeq(text, LAMBDA t : t \in {"dsml", "half"})
Leaks == calls = <<>> /\ Blocks(content) # <<>>

\* The stream is over: flush the guard, then the checks in their order.  Leaked
\* calls are looked for when the request had offered tools.
Finish(offered) ==
    LET screen == shown \o Flushed
    IN /\ outcome = "streaming" /\ queue = <<>> /\ ending = "ended"
       /\ guard' = IF Flushed = <<>> THEN guard ELSE [guard EXCEPT !.pending = <<>>, !.mode = "emitting"]
       /\ IF cancelled
          THEN EndAs("cancelled", TRUE) /\ shown' = screen /\ UNCHANGED <<content, calls>>
          ELSE IF offered /\ Leaks /\ Head(Blocks(content)) = "dsml"
          THEN EndAs("ok", TRUE) /\ shown' = <<>> /\ content' = <<>> /\ calls' = <<Recovered>>
          ELSE /\ shown' = screen
               /\ UNCHANGED <<content, calls>>
               /\ IF offered /\ Leaks THEN EndAs("leaked", content # <<>>)
                  ELSE IF calls = <<>> /\ (LooksLikeEcho(content) \/ guard.matched)
                  THEN EndAs("echo", content # <<>>)
                  ELSE IF calls = <<>> /\ Trimmed(content) = <<>> THEN EndAs("empty", FALSE)
                  ELSE EndAs("ok", TRUE)
       /\ UNCHANGED <<api, sent, closed, decoder, queue, cancelled>>

\* The user cancels the session (external).
Cancel ==
    /\ outcome \notin Over /\ ~cancelled
    /\ cancelled' = TRUE
    /\ UNCHANGED <<api, sent, closed, decoder, queue, agent>>

\* The attempt is over.
Done == outcome \in Over /\ UNCHANGED vars

Next ==
    \/ \E l \in Lines : Emit(l)
    \/ \E how \in {"whole", "half"} : Close(how)
    \/ \E n \in 1..(2 * MaxAhead) : Chunk(n)
    \/ DecodeText \/ DecodeAlive \/ DecodeCall \/ DecodeItem \/ DecodeCut \/ DecodeStop
    \/ DecodeEnd \/ DecodeBad \/ Disconnect
    \/ Opened \/ OpenFailed \/ Take \/ StreamFails \/ Timeout \/ NoticeCancel
    \/ \E offered \in BOOLEAN : Finish(offered)
    \/ Cancel \/ Done

Spec == Init /\ [][Next]_vars

-----------------------------------------------------------------------------
(* What the endpoint said, read off its lines. *)

EndAt == CHOOSE k \in 1..Len(sent) : sent[k].kind = "end" /\ \A j \in 1..(k - 1) : sent[j].kind # "end"
Places(l) == {k \in 1..(EndAt - 1) : sent[k] = l}
Has(l) == Places(l) # {}
\* The text, and the part of it that Chat Completions keeps.
Spoken(tokens) ==
    LET texts == {k \in 1..(EndAt - 1) : sent[k].kind = "text" /\ sent[k].t \in tokens}
    IN [n \in 1..Cardinality(texts) |-> sent[Nth(texts, n)].t]
Said == Spoken(Tokens)
Unspaced == Spoken(Tokens \ {"blank"})
Kept == IF api = "chat" THEN Unspaced ELSE Said
\* The last reason given for the end is the limit on the length.
CutShort ==
    \E k \in 1..(EndAt - 1) : sent[k].kind = "cut" /\ \A j \in (k + 1)..(EndAt - 1) : sent[j].kind # "stop"
\* A call, with the mark of one that the endpoint did not finish: its arguments
\* have begun and have no end, or the answer was cut before they began.
Requested ==
    IF api = "responses"
    THEN LET items == {k \in 1..(EndAt - 1) : sent[k].kind = "item"}
         IN [n \in 1..Cardinality(items) |-> Call(sent[Nth(items, n)].i, Frags, FALSE)]
    ELSE LET named == {i \in Index : Has(Line("head", i, "none"))}
             Args(i) == Cardinality(Places(Line("arg", i, "none")))
             Spoilt(i) == Has(Line("garbled", i, "none"))
             Told(i) == Call(i, IF Spoilt(i) THEN Garbled ELSE Args(i),
                             IF Spoilt(i) \/ Args(i) = 0 THEN CutShort ELSE Args(i) < Frags)
         IN [n \in 1..Cardinality(named) |-> Told(Nth(named, n))]

\* However the bytes were cut into chunks and wherever the connection broke, an
\* attempt succeeds only on an answer the endpoint finished, with its text, and its
\* calls in the order of their indices, those it did not finish marked
\* (stream_chat_completions, ToolCallAccumulator::finish).  Three exceptions: Chat
\* Completions loses deltas of white space only; a call that was cut before its
\* first fragment is not marked; and the text of a leaked tool-call block is
\* replaced by the calls in it.
WholeAnswer ==
    outcome = "ok" =>
        /\ \E k \in 1..read : sent[k].kind = "end"
        /\ \/ /\ content = Kept
              /\ Len(calls) = Len(Requested)
              /\ \A n \in 1..Len(calls) :
                    \/ calls[n] = Requested[n]
                    \/ calls[n] = [Requested[n] EXCEPT !.truncated = FALSE] /\ Requested[n].args = 0
           \/ content = <<>> /\ calls = <<Recovered>> /\ Requested = <<>>
              /\ Blocks(Kept) # <<>> /\ Head(Blocks(Kept)) = "dsml"

\* The answer that is stored is the answer the user saw: the guard has let go of
\* everything it held back.  Two answers are kept apart: one with calls, whose
\* text may be a suppressed echo, and a bare marker followed by white space only,
\* which the guard measures with that white space and the last check without.
NothingHidden ==
    outcome = "ok" /\ calls = <<>> => shown = content \/ IsMarker(Trimmed(content))

\* A failed attempt that left text on the screen says so (output_chars > 0), for
\* visible_output_was_started decides by it whether a retry would repeat text.
ShownIsReported ==
    outcome \in Failures /\ Trimmed(shown) # <<>> => reported

\* Text in which the fingerprints find a copy of a card.
Copied(text) ==
    \/ \E k \in 1..Len(text) : text[k] = "echo"
    \/ \E a, b \in 1..Len(text) :
         /\ \A j \in a..b : text[j] \in {"bit", "blank"}
         /\ Cardinality({j \in a..b : text[j] = "bit"}) >= EchoLen

\* However an echo of the history is cut into deltas, it is neither shown nor
\* stored: the screen never has a tool card's marker with text after it at its
\* beginning, nor as much of a card in a row as the fingerprints recognise, and an
\* answer without calls is not accepted when they recognise any of it
\* (HistoricalToolEchoStreamGuard).  Shorter pieces of a card may be shown before
\* the guard recognises them.
EchoNeverShown ==
    /\ ~LooksLikeEcho(shown) /\ ~Copied(shown)
    /\ outcome = "ok" /\ calls = <<>> => ~Copied(content)

\* "Both the legacy marker and the compact historical-tool card are internal
\* context and must never become visible assistant prose": a card that is
\* recognised has left nothing on the screen.
\* The code does not satisfy it: README, section 6.
CardsNeverVisible == guard.matched => \A k \in 1..Len(shown) : shown[k] # "bit"

\* "Set when the upstream stream stopped mid-arguments (for example
\* `finish_reason: "length"`)": a call that was cut off says so.
\* The code does not satisfy it: README, section 6.
CutCallsMarked ==
    outcome = "ok" /\ api # "responses" /\ CutShort =>
        \A k \in 1..Len(calls) : calls[k].i # 0 /\ calls[k].args < Frags => calls[k].truncated

=============================================================================
