------------------------------ MODULE McpRuntime ------------------------------
(***************************************************************************)
(* The MCP servers of one agent run: which of the configured ones are      *)
(* started, the conversation over their pipes and the end of the run.  A   *)
(* server is another program: it answers late, out of order, twice, with   *)
(* something that is no answer or not at all, and may end at any time.     *)
(***************************************************************************)
EXTENDS Naturals, Sequences, FiniteSets

CONSTANTS MaxServer,      \* server names, in the order of the alphabet, are numbers
          ServerName,     \* their text, cut at every "__"
          Tools,          \* tool names, cut in the same way
          MaxServers,     \* MAX_SERVERS
          MaxTools,       \* MAX_TOOLS_PER_SERVER
          MaxLines,       \* bound on the lines in a pipe
          OwnIds,         \* the ids of the requests a server makes by itself
          MaxCalls        \* bound on the calls of a run

Servers == 1 .. MaxServer

ASSUME ServerAssumption == {MaxServer, MaxServers, MaxTools, MaxLines, MaxCalls} \cup OwnIds \subseteq Nat

\* Names are texts that are not empty, and a server is known by its name.
Name == Seq(STRING)
ASSUME NameAssumption ==
    /\ \A s \in Servers : ServerName[s] \in Name /\ ServerName[s] # << >>
    /\ \A s, r \in Servers : ServerName[s] = ServerName[r] => s = r
    /\ \A t \in Tools : t \in Name /\ t # << >>

VARIABLES todo,         \* enabled servers that are not started yet
          sessions, tools,
          pc,           \* of the run
          server,       \* the server it is talking to
          purpose,      \* of the request it waits for
          id,           \* of that request
          next,         \* next_id of every session
          proc,         \* the process of every server
          holder,       \* a child of the server has its stdout as well
          inbox,        \* requests a server has read and not answered
          pipe,         \* lines a server has written and nobody has read
          calls,
          serial,       \* history: the requests of the run so far
          result,       \* history: the request whose answer the run goes on with, or 0
          asked,        \* history: the name of the last tool call, in a set, and
          reached       \* history: the tool it went to, if any

vars == <<todo, sessions, tools, pc, server, purpose, id, next, proc, holder, inbox,
          pipe, calls, serial, result, asked, reached>>
servers == <<proc, holder>>
wires == <<inbox, pipe>>
catalog == <<sessions, tools>>
request == <<server, purpose, id, next, serial>>
lastCall == <<asked, reached>>

-----------------------------------------------------------------------------
Entries == {"absent", "off", "on"}
Switches == {"none", "off", "on"}
\* .xcoding/mcp.json, the servers of plugins.json, and its switches.
Config == [workspace : [Servers -> Entries], user : [Servers -> Entries],
           workspaceSwitch : [Servers -> Switches], userSwitch : [Servers -> Switches]]

\* plugin_enabled.
Enabled(switch, entry) == IF switch = "none" THEN entry ELSE switch

\* The sorted list of mcp.json is cut at MAX_SERVERS before it is merged.
InWorkspace(c, s) ==
    /\ c.workspace[s] # "absent"
    /\ Cardinality({r \in 1 .. s : c.workspace[r] # "absent"}) <= MaxServers

\* load_effective_mcp_config: the workspace's entry hides the user's, and its own
\* switch decides; the list is cut again, disabled servers included.
Entry(c, s) == IF InWorkspace(c, s)
               THEN Enabled(c.workspaceSwitch[s], c.workspace[s])
               ELSE IF c.user[s] # "absent" THEN Enabled(c.userSwitch[s], c.user[s]) ELSE "absent"

Effective(c) ==
    LET named == {s \in Servers : Entry(c, s) # "absent"}
    IN  {s \in named : Cardinality({r \in named : r <= s}) <= MaxServers /\ Entry(c, s) = "on"}

-----------------------------------------------------------------------------
\* A request on the wire, and which one of the run it is; and a line of a server:
\* the answer to a request, an error for one, a request of the server itself with an
\* id of its own (a ping), a message without an id, or no JSON.
Asked == [id : Nat, n : Nat]
Line == [kind : {"answer", "error"}, to : Asked]
            \cup [kind : {"own"}, to : [id : Nat, n : {0}]]
            \cup [kind : {"notification", "garbage"}]

\* encode_tool_name joins server and tool with "__".
Encoded(s, t) == ServerName[s] \o t

\* Mutant: the name is split at the last "__".
DecodesLast(name, s, t) ==
    /\ Len(name) > 1 /\ name[Len(name)] # ""
    /\ ServerName[s] = SubSeq(name, 1, Len(name) - 1) /\ t = <<name[Len(name)]>>

\* decode_tool_name splits at the first "__", wherever it is, and refuses an empty half.
Decodes(name, s, t) ==
    /\ Len(name) > 1 /\ Head(name) # ""
    /\ ServerName[s] = <<Head(name)>> /\ t = Tail(name)

Alive(s) == proc[s] = "running"
First(S) == CHOOSE s \in S : \A r \in S : s <= r

\* Mutant: every request of a session has the same id.
RequestSameId(s, why) ==
    /\ next' = next /\ serial' = serial + 1
    /\ server' = s /\ purpose' = why /\ id' = 1
    /\ pc' = IF Alive(s) THEN "check" ELSE "failed"
    /\ inbox' = [inbox EXCEPT ![s] = IF Alive(s) THEN @ \cup {[id |-> 1, n |-> serial + 1]} ELSE @]

\* request: the next id, written to the server's stdin; the write fails when the
\* server is gone.
Request(s, why) ==
    /\ next' = [next EXCEPT ![s] = @ + 1] /\ serial' = serial + 1
    /\ server' = s /\ purpose' = why /\ id' = next[s]
    /\ pc' = IF Alive(s) THEN "check" ELSE "failed"
    /\ inbox' = [inbox EXCEPT ![s] = IF Alive(s) THEN @ \cup {[id |-> next[s], n |-> serial + 1]} ELSE @]

-----------------------------------------------------------------------------
\* McpSession::start spawns the server and asks it to initialize.
Start ==
    /\ pc = "start" /\ todo # {}
    /\ LET s == First(todo) IN
         /\ todo' = todo \ {s}
         /\ \/ /\ proc' = [proc EXCEPT ![s] = "running"]
               /\ inbox' = [inbox EXCEPT ![s] = {[id |-> 1, n |-> serial + 1]}] /\ serial' = serial + 1
               /\ next' = [next EXCEPT ![s] = 2]
               /\ server' = s /\ purpose' = "initialize" /\ id' = 1 /\ pc' = "check"
            \/ UNCHANGED <<proc, inbox, request, pc>>
    /\ UNCHANGED <<catalog, holder, pipe, calls, result, lastCall>>

Prepared ==
    /\ pc = "start" /\ todo = {}
    /\ pc' = "ready"
    /\ UNCHANGED <<catalog, todo, request, servers, wires, calls, result, lastCall>>

\* The top of the loop of read_response: the deadline, then the process.
CheckFails ==
    /\ pc = "check"
    /\ pc' = "failed"
    /\ UNCHANGED <<catalog, todo, request, servers, wires, calls, result, lastCall>>

CheckRuns ==
    /\ pc = "check" /\ Alive(server)
    /\ pc' = "read"
    /\ UNCHANGED <<catalog, todo, request, servers, wires, calls, result, lastCall>>

\* read_line blocks until there is a line.  Whatever does not answer this request
\* is skipped; a line that is no JSON ends the request, whose answer may follow.  A
\* message with the right id and no result, such as a request of the server itself,
\* is an answer: Null.
Read ==
    /\ pc = "read" /\ pipe[server] # << >>
    /\ pipe' = [pipe EXCEPT ![server] = Tail(@)]
    /\ LET line == Head(pipe[server])
           mine == line.kind \in {"answer", "error", "own"} /\ line.to.id = id
       IN  \/ line.kind # "garbage" /\ ~mine /\ pc' = "check" /\ UNCHANGED result
           \/ (line.kind = "garbage" \/ (mine /\ line.kind = "error")) /\ pc' = "failed" /\ UNCHANGED result
           \/ mine /\ line.kind # "error" /\ pc' = "answered" /\ result' = line.to.n
    /\ UNCHANGED <<catalog, todo, request, servers, inbox, calls, lastCall>>

\* Mutant: the end of the stream is another empty line.
ReadEndless ==
    /\ pc = "read" /\ pipe[server] = << >> /\ ~Alive(server) /\ ~holder[server]
    /\ pc' = "read"
    /\ UNCHANGED <<catalog, todo, request, servers, wires, calls, result, lastCall>>

\* The stream ends when nobody can write to it any more.
ReadEnd ==
    /\ pc = "read" /\ pipe[server] = << >> /\ ~Alive(server) /\ ~holder[server]
    /\ pc' = "failed"
    /\ UNCHANGED <<catalog, todo, request, servers, wires, calls, result, lastCall>>

\* After initialize comes a notification, which the server may be too dead to
\* read, and the list of its tools.
Initialized ==
    /\ pc = "answered" /\ purpose = "initialize"
    /\ Request(server, "list") /\ result' = 0
    /\ UNCHANGED <<catalog, todo, servers, pipe, calls, lastCall>>

\* A Null answer lists no tools.
Listed ==
    /\ pc = "answered" /\ purpose = "list"
    /\ \E T \in SUBSET Tools :
         /\ Cardinality(T) <= MaxTools /\ (result = 0 => T = {})
         /\ tools' = tools \cup {<<server, t>> : t \in T}
    /\ sessions' = sessions \cup {server}
    /\ pc' = "start" /\ result' = 0
    /\ UNCHANGED <<todo, request, servers, wires, calls, lastCall>>

\* A server that fails to initialize or to list its tools is reported and left
\* alone: its session is dropped, which closes its pipes and does not end it.
StartFailed ==
    /\ pc = "failed" /\ purpose \in {"initialize", "list"}
    /\ pc' = "start"
    /\ inbox' = [inbox EXCEPT ![server] = {}]
    /\ pipe' = [pipe EXCEPT ![server] = << >>]
    /\ UNCHANGED <<catalog, todo, request, servers, calls, result, lastCall>>

-----------------------------------------------------------------------------
\* The model calls a tool by its name: protocol_tool_call decodes it and
\* McpRuntime::call looks for the tool, then for the session.
Call(name) ==
    /\ pc = "ready" /\ calls < MaxCalls
    /\ calls' = calls + 1 /\ asked' = {name}
    /\ LET found == {x \in tools : Decodes(name, x[1], x[2])} IN
         \/ \E x \in found :
              /\ x[1] \in sessions
              /\ Request(x[1], "call") /\ reached' = {x}
         \/ /\ \A x \in found : x[1] \notin sessions
            /\ reached' = {} /\ UNCHANGED <<pc, request, inbox>>
    /\ UNCHANGED <<catalog, todo, servers, pipe, result>>

\* The turn goes on with the answer or with an error.
CallReturns ==
    /\ pc \in {"answered", "failed"} /\ purpose = "call"
    /\ pc' = "ready" /\ result' = 0 /\ asked' = {} /\ reached' = {}
    /\ UNCHANGED <<catalog, todo, request, servers, wires, calls>>

\* The end of the run kills every session.
Drop ==
    /\ pc = "ready"
    /\ pc' = "dropped"
    /\ proc' = [s \in Servers |-> IF s \in sessions THEN "dead" ELSE proc[s]]
    /\ inbox' = [s \in Servers |-> {}] /\ pipe' = [s \in Servers |-> << >>]
    /\ UNCHANGED <<catalog, todo, request, holder, calls, result, lastCall>>

-----------------------------------------------------------------------------
\* A server may write at any time, but only the lines that are in its pipe when the run
\* reads from it are ever seen: what it writes before counts as written by then.
Heard(s) == Alive(s) /\ s = server /\ pc \in {"check", "read"}

\* A server answers a request, once more perhaps, makes one, or writes something else.
Write(s) ==
    /\ Heard(s) /\ Len(pipe[s]) < MaxLines
    /\ \/ \E k \in inbox[s], kind \in {"answer", "error"}, again \in BOOLEAN :
            /\ pipe' = [pipe EXCEPT ![s] = Append(@, [kind |-> kind, to |-> k])]
            /\ inbox' = [inbox EXCEPT ![s] = IF again THEN @ ELSE @ \ {k}]
       \/ \E i \in OwnIds :
            /\ pipe' = [pipe EXCEPT ![s] = Append(@, [kind |-> "own", to |-> [id |-> i, n |-> 0]])]
            /\ UNCHANGED inbox
       \/ \E kind \in {"notification", "garbage"} :
            /\ pipe' = [pipe EXCEPT ![s] = Append(@, [kind |-> kind])]
            /\ UNCHANGED inbox
    /\ UNCHANGED <<catalog, todo, pc, request, servers, calls, result, lastCall>>

\* A server starts a child of its own, or ends.
Spawn(s) ==
    /\ Heard(s) /\ ~holder[s]
    /\ holder' = [holder EXCEPT ![s] = TRUE]
    /\ UNCHANGED <<catalog, todo, pc, request, proc, wires, calls, result, lastCall>>

Exit(s) ==
    /\ Alive(s)
    /\ proc' = [proc EXCEPT ![s] = "dead"]
    /\ UNCHANGED <<catalog, todo, pc, request, holder, wires, calls, result, lastCall>>

Run == \/ Start \/ Prepared \/ CheckFails \/ CheckRuns \/ Read \/ ReadEnd
       \/ Initialized \/ Listed \/ StartFailed
       \/ (\E s \in Servers, t \in Tools : Call(Encoded(s, t))) \/ CallReturns \/ Drop

Init ==
    /\ \E c \in Config : todo = Effective(c)
    /\ sessions = {} /\ tools = {}
    /\ pc = "start" /\ server = 0 /\ purpose = "none" /\ id = 0
    /\ next = [s \in Servers |-> 1]
    /\ proc = [s \in Servers |-> "none"] /\ holder = [s \in Servers |-> FALSE]
    /\ inbox = [s \in Servers |-> {}] /\ pipe = [s \in Servers |-> << >>]
    /\ calls = 0 /\ serial = 0 /\ result = 0 /\ asked = {} /\ reached = {}

Next == Run \/ \E s \in Servers : Write(s) \/ Spawn(s) \/ Exit(s)

Spec == Init /\ [][Next]_vars

\* The thread of the run goes on; nothing is assumed of the servers.
FairSpec == Spec /\ WF_vars(Run)

-----------------------------------------------------------------------------
\* Types of the run, its sessions, the wires and the last call.
RunTypes ==
    /\ todo \subseteq Servers /\ sessions \subseteq Servers /\ tools \subseteq Servers \X Tools
    /\ pc \in {"start", "check", "read", "answered", "failed", "ready", "dropped"}
    /\ server \in Servers \cup {0} /\ purpose \in {"none", "initialize", "list", "call"}
    /\ id \in Nat /\ next \in [Servers -> Nat] /\ serial \in Nat /\ result \in Nat /\ calls \in Nat
    /\ proc \in [Servers -> {"none", "running", "dead"}] /\ holder \in [Servers -> BOOLEAN]
    /\ inbox \in [Servers -> SUBSET Asked] /\ pipe \in [Servers -> Seq(Line)]

TypeOK == RunTypes /\ asked \subseteq Name /\ reached \subseteq tools

\* The run never goes on with the answer to another request, also after requests that
\* timed out or broke off and whose answers came later, twice or never (the ids of
\* request, the loop of read_response): it has the answer to the request it is waiting
\* for, or the Null of a message that the server itself sent under that id.
AnswersMatch == pc = "answered" => result \in {serial, 0}

\* A tool the model is shown can be called by the name it is shown under, and the call
\* goes to that tool, whatever other servers failed to start or offer under the same
\* name, if the name of its server has no "__" (encode_tool_name, decode_tool_name, the
\* tools and sessions of prepare_with_plugin_config).
CallsArrive ==
    \A x \in tools : Len(ServerName[x[1]]) = 1 /\ Head(ServerName[x[1]]) # ""
        => (Encoded(x[1], x[2]) \in asked => reached = {x})

\* A request to a server whose output has ended comes back, whatever is still in
\* the pipe.
RequestEnds ==
    (pc = "read" /\ ~Alive(server) /\ ~holder[server]) ~> (pc \notin {"read", "check"})

\* "process death is still detected by the caller loop": a request to a server that
\* has died comes back.
\* The code does not satisfy it: README, section 6.
ProcessDeathDetected == (pc = "read" /\ ~Alive(server)) ~> (pc # "read")

\* "Notifications / unrelated messages: skip unless id matches": what the run takes for
\* an answer was written as one.
\* The code does not satisfy it: README, section 6.
AnswerIsReply == pc = "answered" => result = serial

\* "Decode `mcp__<server>__<tool>` into `(server, tool)`": every tool the model is shown
\* can be called by its name.
\* The code does not satisfy it: README, section 6.
EveryToolReachable == \A x \in tools : Encoded(x[1], x[2]) \in asked => reached = {x}
=============================================================================
