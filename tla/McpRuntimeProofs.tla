--------------------------- MODULE McpRuntimeProofs ---------------------------
(***************************************************************************)
(* Theorems about McpRuntime, for any number of servers, tools, calls and  *)
(* lines, whatever the servers write and whenever they end.                *)
(***************************************************************************)
EXTENDS McpRuntime, WellFoundedInduction, SequenceTheorems, TLAPS

Waiting == pc \in {"check", "read"}
Talking == Waiting \/ pc \in {"answered", "failed"}

\* What a request on a wire may be: an id that was given out, and if it is the id
\* the run waits for, the request the run has made last.
Fits(s, k) ==
    /\ k.id < next[s]
    /\ Waiting /\ s = server /\ k.id = id => k.n = serial

IsAnswer(line) == line.kind \in {"answer", "error"}

InboxFits(s) == \A k \in inbox[s] : Fits(s, k)
PipeFits(s) == \A i \in 1 .. Len(pipe[s]) : IsAnswer(pipe[s][i]) => Fits(s, pipe[s][i].to)

\* A server that is not started yet has written nothing.
Untouched == \A s \in todo : ~Alive(s) /\ pipe[s] = << >>

WireInv ==
    /\ Talking => server \in Servers
    /\ \A s \in Servers : InboxFits(s) /\ PipeFits(s)
    /\ Untouched
    /\ AnswersMatch

McpInv == RunTypes /\ WireInv

-----------------------------------------------------------------------------
LEMMA ServersNat == Servers \subseteq Nat /\ 0 \notin Servers
  BY ServerAssumption DEF Servers

LEMMA LeastServer ==
  ASSUME NEW T \in SUBSET Servers, T # {}
  PROVE  First(T) \in T
  <1> DEFINE R == {ss \in Nat \X Nat : ss[1] < ss[2]}
  <1>1. IsWellFoundedOn(R, Nat)
    BY NatLessThanWellFounded DEF OpToRel
  <1>2. T \subseteq Nat
    BY ServersNat
  <1>3. PICK x \in T : \A y \in T : ~(<<y, x>> \in R)
    <2> HIDE DEF R
    <2> QED
      BY <1>1, <1>2, WFMin
  <1>4. ASSUME NEW y \in T PROVE x <= y
    <2>1. x \in Nat /\ y \in Nat
      BY <1>2
    <2>2. ~(y < x)
      <3>1. SUFFICES ASSUME y < x PROVE FALSE
        OBVIOUS
      <3>2. <<y, x>> \in Nat \X Nat /\ <<y, x>>[1] < <<y, x>>[2]
        BY <2>1, <3>1
      <3>3. <<y, x>> \in R
        BY <3>2
      <3> QED
        BY <1>3, <3>3
    <2> QED
      BY <2>1, <2>2
  <1>5. \E z \in T : \A y \in T : z <= y
    BY <1>4
  <1> QED
    BY <1>5 DEF First

LEMMA RequestTypes ==
  ASSUME NEW i \in Nat, NEW n \in Nat
  PROVE  [id |-> i, n |-> n] \in Asked
  BY DEF Asked

-----------------------------------------------------------------------------
LEMMA McpInit == Init => McpInv
  <1> SUFFICES ASSUME Init PROVE McpInv
    OBVIOUS
  <1>1. todo \subseteq Servers
    BY DEF Init, Effective
  <1>2. RunTypes
    BY <1>1 DEF Init, RunTypes
  <1>3. WireInv
    BY <1>1 DEF Init, WireInv, Waiting, Talking, InboxFits, PipeFits, Untouched, Alive, AnswersMatch
  <1> QED
    BY <1>2, <1>3 DEF McpInv

\* request: the id is new to the server, so nothing on its wires can be taken for
\* the answer.
LEMMA RequestStep ==
  ASSUME McpInv, NEW s \in Servers, NEW why \in {"list", "call"}, Request(s, why),
         UNCHANGED <<todo, proc, holder, pipe, sessions, tools>>,
         result' \in Nat, calls' \in Nat
  PROVE  McpInv'
  <1>0. PICK new : new = [id |-> next[s], n |-> serial + 1]
    OBVIOUS
  <1>1. /\ next[s] \in Nat /\ serial' = serial + 1 /\ serial' \in Nat
        /\ next' \in [Servers -> Nat] /\ next'[s] = next[s] + 1
        /\ \A r \in Servers : r # s => next'[r] = next[r]
    BY DEF McpInv, RunTypes, Request
  <1>2. new \in Asked
    BY <1>0, <1>1, RequestTypes
  <1>3. server' = s /\ id' = next[s] /\ pc' \in {"check", "failed"} /\ purpose' = why
    BY DEF Request
  <1>4. /\ \A r \in Servers : r # s => inbox'[r] = inbox[r]
        /\ inbox'[s] \in {inbox[s], inbox[s] \cup {new}}
        /\ inbox' \in [Servers -> SUBSET Asked]
    <2>1. inbox' = [inbox EXCEPT ![s] = IF Alive(s) THEN inbox[s] \cup {new} ELSE inbox[s]]
      BY <1>0 DEF Request, McpInv, RunTypes
    <2> QED
      BY <1>2, <2>1 DEF McpInv, RunTypes
  <1>5. RunTypes'
    BY <1>1, <1>3, <1>4 DEF McpInv, RunTypes
  <1>6. ASSUME NEW r \in Servers, NEW k \in Asked, Fits(r, k)
        PROVE  Fits(r, k)'
    BY <1>1, <1>3, <1>6 DEF Fits, Waiting, Asked
  <1>7. Fits(s, new)'
    BY <1>0, <1>1, <1>3 DEF Fits
  <1>8. \A r \in Servers : InboxFits(r)'
    <2> TAKE r \in Servers
    <2>1. inbox[r] \subseteq Asked /\ InboxFits(r)
      BY DEF McpInv, RunTypes, WireInv
    <2>2. CASE r # s
      BY <1>4, <1>6, <2>1, <2>2 DEF InboxFits
    <2>3. CASE r = s
      BY <1>4, <1>6, <1>7, <2>1, <2>3 DEF InboxFits
    <2> QED
      BY <2>2, <2>3
  <1>9. \A r \in Servers : PipeFits(r)'
    <2> TAKE r \in Servers
    <2>1. PipeFits(r) /\ pipe[r] \in Seq(Line) /\ pipe' = pipe
      BY DEF McpInv, RunTypes, WireInv
    <2>2. ASSUME NEW i \in 1 .. Len(pipe[r]), IsAnswer(pipe[r][i])
          PROVE  Fits(r, pipe[r][i].to)'
      <3>1. pipe[r][i] \in Line
        BY <2>1
      <3>2. pipe[r][i].to \in Asked
        BY <2>2, <3>1 DEF Line, IsAnswer
      <3>3. Fits(r, pipe[r][i].to)
        BY <2>1, <2>2 DEF PipeFits
      <3> QED
        BY <1>6, <2>1, <3>2, <3>3
    <2> QED
      BY <2>1, <2>2 DEF PipeFits, IsAnswer
  <1>10. Untouched' /\ AnswersMatch' /\ (Talking => server \in Servers)'
    BY <1>3 DEF McpInv, WireInv, Untouched, AnswersMatch, Alive
  <1> QED
    BY <1>5, <1>8, <1>9, <1>10 DEF McpInv, WireInv

\* A step that makes no request and puts nothing on a wire.
LEMMA QuietWires ==
  ASSUME McpInv, UNCHANGED request, Waiting' => Waiting,
         \A s \in Servers : inbox'[s] \subseteq inbox[s],
         \A s \in Servers : \A i \in 1 .. Len(pipe'[s]) : \E j \in 1 .. Len(pipe[s]) : pipe'[s][i] = pipe[s][j]
  PROVE  \A s \in Servers : InboxFits(s)' /\ PipeFits(s)'
  <1> TAKE s \in Servers
  <1>1. InboxFits(s) /\ PipeFits(s)
    BY DEF McpInv, WireInv
  <1>2. ASSUME NEW k, Fits(s, k)
        PROVE  Fits(s, k)'
    BY <1>2 DEF Fits, request
  <1>3. InboxFits(s)'
    BY <1>1, <1>2 DEF InboxFits
  <1>4. ASSUME NEW i \in 1 .. Len(pipe'[s]), IsAnswer(pipe'[s][i])
        PROVE  Fits(s, pipe[s][i].to)'
    <2>1. PICK j \in 1 .. Len(pipe[s]) : pipe'[s][i] = pipe[s][j]
      OBVIOUS
    <2>2. PICK k : k = pipe[s][j].to
      OBVIOUS
    <2>3. Fits(s, k)'
      BY <1>1, <1>2, <1>4, <2>1, <2>2 DEF PipeFits
    <2>4. k = pipe'[s][i].to
      BY <2>1, <2>2
    <2> QED
      BY <2>3, <2>4 DEF Fits
  <1>5. PipeFits(s)'
    BY <1>4 DEF PipeFits, IsAnswer
  <1> QED
    BY <1>3, <1>5

\* Steps of the run that only move on.
LEMMA MoveStep ==
  ASSUME McpInv, UNCHANGED <<todo, request, servers, wires, catalog>>,
         pc' \in {"start", "read", "failed", "ready"}, Waiting' => Waiting, Talking' => Talking,
         result' \in Nat, calls' \in Nat
  PROVE  McpInv'
  <1>1. \A s \in Servers : InboxFits(s)' /\ PipeFits(s)'
    BY QuietWires DEF wires
  <1>2. RunTypes'
    BY DEF McpInv, RunTypes, request, servers, wires, catalog
  <1>3. (Talking => server \in Servers)' /\ Untouched' /\ AnswersMatch'
    BY DEF McpInv, WireInv, Untouched, AnswersMatch, Alive, request, servers, wires
  <1> QED
    BY <1>1, <1>2, <1>3 DEF McpInv, WireInv

LEMMA StartStep == McpInv /\ Start => McpInv'
  <1> SUFFICES ASSUME McpInv, Start PROVE McpInv'
    OBVIOUS
  <1>0. PICK s \in Servers : s \in todo /\ s = First(todo)
    BY LeastServer DEF Start, McpInv, RunTypes
  <1>1. todo' = todo \ {s} /\ UNCHANGED <<catalog, holder, pipe, calls, result>>
    BY <1>0 DEF Start
  <1>2. CASE UNCHANGED <<proc, inbox, request, pc>>
    <2>1. \A r \in Servers : InboxFits(r)' /\ PipeFits(r)'
      BY <1>1, <1>2, QuietWires DEF Waiting
    <2>2. RunTypes'
      BY <1>1, <1>2 DEF McpInv, RunTypes, request, catalog
    <2>3. (Talking => server \in Servers)' /\ Untouched' /\ AnswersMatch'
      BY <1>1, <1>2 DEF McpInv, WireInv, Talking, Waiting, Untouched, AnswersMatch, Alive, request, catalog
    <2> QED
      BY <2>1, <2>2, <2>3 DEF McpInv, WireInv
  <1>3. CASE ~UNCHANGED <<proc, inbox, request, pc>>
    <2>0. PICK new : new = [id |-> 1, n |-> serial + 1]
      OBVIOUS
    <2>1. /\ proc' = [proc EXCEPT ![s] = "running"]
          /\ inbox' = [inbox EXCEPT ![s] = {new}] /\ serial' = serial + 1
          /\ next' = [next EXCEPT ![s] = 2]
          /\ server' = s /\ purpose' = "initialize" /\ id' = 1 /\ pc' = "check"
      BY <1>0, <1>3, <2>0 DEF Start
    <2>2. new \in Asked /\ serial' \in Nat
      BY <2>0, <2>1, RequestTypes DEF McpInv, RunTypes
    <2>3. RunTypes'
      <3>1. inbox' \in [Servers -> SUBSET Asked]
        BY <2>1, <2>2 DEF McpInv, RunTypes
      <3>2. next' \in [Servers -> Nat] /\ proc' \in [Servers -> {"none", "running", "dead"}]
        BY <2>1 DEF McpInv, RunTypes
      <3> QED
        BY <1>1, <2>1, <2>2, <3>1, <3>2 DEF McpInv, RunTypes, catalog
    <2>4. InboxFits(s)'
      <3>1. inbox'[s] = {new} /\ next'[s] = 2
        BY <2>1 DEF McpInv, RunTypes
      <3> QED
        BY <2>0, <2>1, <3>1 DEF InboxFits, Fits
    <2>5. PipeFits(s)'
      <3>1. pipe'[s] = << >>
        BY <1>0, <1>1 DEF McpInv, WireInv, Untouched
      <3> QED
        BY <3>1 DEF PipeFits
    <2>6. ASSUME NEW r \in Servers, r # s
          PROVE  InboxFits(r)' /\ PipeFits(r)'
      <3>1. inbox'[r] = inbox[r] /\ next'[r] = next[r] /\ pipe'[r] = pipe[r]
        BY <1>1, <2>1, <2>6 DEF McpInv, RunTypes
      <3>2. InboxFits(r) /\ PipeFits(r)
        BY DEF McpInv, WireInv
      <3> QED
        BY <2>1, <2>6, <3>1, <3>2 DEF InboxFits, PipeFits, Fits
    <2>7. \A r \in Servers : InboxFits(r)' /\ PipeFits(r)'
      BY <2>4, <2>5, <2>6
    <2>8. Untouched'
      BY <1>1, <2>1 DEF McpInv, WireInv, Untouched, Alive, RunTypes
    <2>9. (Talking => server \in Servers)' /\ AnswersMatch'
      BY <1>1, <2>1 DEF McpInv, AnswersMatch, catalog
    <2> QED
      BY <2>3, <2>7, <2>8, <2>9 DEF McpInv, WireInv
  <1> QED
    BY <1>2, <1>3

\* read_response: an answer is taken only under the id of the request.
LEMMA ReadStep == McpInv /\ Read => McpInv'
  <1> SUFFICES ASSUME McpInv, Read PROVE McpInv'
    OBVIOUS
  <1> DEFINE line == Head(pipe[server])
             mine == line.kind \in {"answer", "error", "own"} /\ line.to.id = id
  <1>1. /\ pc = "read" /\ server \in Servers /\ pipe[server] # << >> /\ pipe[server] \in Seq(Line)
        /\ UNCHANGED <<catalog, todo, request, servers, inbox, calls>>
        /\ pipe' = [pipe EXCEPT ![server] = Tail(pipe[server])]
    BY DEF Read, McpInv, WireInv, Talking, Waiting, RunTypes
  <1>2. /\ pipe'[server] = Tail(pipe[server])
        /\ \A s \in Servers : s # server => pipe'[s] = pipe[s]
        /\ pipe' \in [Servers -> Seq(Line)]
    BY <1>1 DEF McpInv, RunTypes
  <1>3. line = pipe[server][1] /\ 1 \in 1 .. Len(pipe[server]) /\ line \in Line
    BY <1>1
  <1>4. mine => line.to.n \in Nat /\ line.to.n \in {serial, 0}
    <2> SUFFICES ASSUME mine PROVE line.to.n \in Nat /\ line.to.n \in {serial, 0}
      OBVIOUS
    <2>1. CASE line.kind = "own"
      BY <1>3, <2>1 DEF Line
    <2>2. CASE line.kind # "own"
      <3>1. line.to \in Asked
        BY <1>3, <2>2 DEF Line
      <3>2. Fits(server, line.to)
        BY <1>1, <1>3, <2>2 DEF McpInv, WireInv, PipeFits, IsAnswer
      <3> QED
        BY <1>1, <3>1, <3>2 DEF Fits, Waiting, Asked
    <2> QED
      BY <2>1, <2>2
  <1> HIDE DEF line
  <1>5. \/ pc' = "check" /\ UNCHANGED result
        \/ pc' = "failed" /\ UNCHANGED result
        \/ mine /\ pc' = "answered" /\ result' = line.to.n
    BY DEF Read, line
  <1> HIDE DEF mine
  <1>6. RunTypes'
    BY <1>1, <1>2, <1>4, <1>5 DEF McpInv, RunTypes, request, catalog, servers
  <1>7. \A s \in Servers : \A i \in 1 .. Len(pipe'[s]) : \E j \in 1 .. Len(pipe[s]) : pipe'[s][i] = pipe[s][j]
    <2> TAKE s \in Servers
    <2> TAKE i \in 1 .. Len(pipe'[s])
    <2>1. CASE s # server
      BY <1>2, <2>1
    <2>2. CASE s = server
      <3>1. i + 1 \in 1 .. Len(pipe[s]) /\ pipe'[s][i] = pipe[s][i + 1]
        BY <1>1, <1>2, <2>2
      <3> QED
        BY <3>1
    <2> QED
      BY <2>1, <2>2
  <1>8. \A s \in Servers : InboxFits(s)' /\ PipeFits(s)'
    BY <1>1, <1>7, QuietWires DEF Waiting
  <1>9. (Talking => server \in Servers)' /\ AnswersMatch'
    BY <1>1, <1>4, <1>5 DEF McpInv, AnswersMatch, request, catalog
  <1>10. Untouched'
    <2>1. server \notin todo
      BY <1>1 DEF McpInv, WireInv, Untouched
    <2> QED
      BY <1>1, <1>2, <2>1 DEF McpInv, WireInv, Untouched, Alive, RunTypes, servers
  <1> QED
    BY <1>6, <1>8, <1>9, <1>10 DEF McpInv, WireInv

LEMMA InitializedStep == McpInv /\ Initialized => McpInv'
  <1> SUFFICES ASSUME McpInv, Initialized PROVE McpInv'
    OBVIOUS
  <1>1. server \in Servers /\ Request(server, "list")
    BY DEF Initialized, McpInv, WireInv, Talking
  <1>2. UNCHANGED <<todo, proc, holder, pipe, sessions, tools>> /\ result' \in Nat /\ calls' \in Nat
    BY DEF Initialized, catalog, servers, McpInv, RunTypes
  <1>3. PICK s \in Servers : s = server
    BY <1>1
  <1> QED
    BY <1>1, <1>2, <1>3, RequestStep

LEMMA ListedStep == McpInv /\ Listed => McpInv'
  <1> SUFFICES ASSUME McpInv, Listed PROVE McpInv'
    OBVIOUS
  <1>1. /\ server \in Servers /\ sessions' = sessions \cup {server}
        /\ pc' = "start" /\ result' = 0 /\ UNCHANGED <<todo, request, servers, wires, calls>>
    BY DEF Listed, McpInv, WireInv, Talking
  <1>2. PICK T \in SUBSET Tools : tools' = tools \cup {<<server, t>> : t \in T}
    BY DEF Listed
  <1>3. \A s \in Servers : InboxFits(s)' /\ PipeFits(s)'
    BY <1>1, QuietWires DEF Waiting, wires
  <1>4. RunTypes'
    BY <1>1, <1>2 DEF McpInv, RunTypes, request, servers, wires
  <1>5. (Talking => server \in Servers)' /\ Untouched' /\ AnswersMatch'
    BY <1>1 DEF McpInv, WireInv, Talking, Waiting, Untouched, AnswersMatch, Alive, servers, wires
  <1> QED
    BY <1>3, <1>4, <1>5 DEF McpInv, WireInv

LEMMA StartFailedStep == McpInv /\ StartFailed => McpInv'
  <1> SUFFICES ASSUME McpInv, StartFailed PROVE McpInv'
    OBVIOUS
  <1>1. /\ server \in Servers /\ pc' = "start"
        /\ inbox' = [inbox EXCEPT ![server] = {}] /\ pipe' = [pipe EXCEPT ![server] = << >>]
        /\ UNCHANGED <<catalog, todo, request, servers, calls, result>>
    BY DEF StartFailed, McpInv, WireInv, Talking
  <1>2. \A s \in Servers : /\ inbox'[s] \in {inbox[s], {}}
                           /\ pipe'[s] \in {pipe[s], << >>}
    BY <1>1 DEF McpInv, RunTypes
  <1>3. \A s \in Servers : InboxFits(s)' /\ PipeFits(s)'
    BY <1>1, <1>2, QuietWires DEF Waiting
  <1>4. RunTypes'
    BY <1>1 DEF McpInv, RunTypes, request, servers, catalog
  <1>5. (Talking => server \in Servers)' /\ AnswersMatch'
    BY <1>1 DEF McpInv, WireInv, Talking, Waiting, AnswersMatch, catalog
  <1>6. Untouched'
    BY <1>1, <1>2 DEF McpInv, WireInv, Untouched, Alive, servers, RunTypes
  <1> QED
    BY <1>3, <1>4, <1>5, <1>6 DEF McpInv, WireInv

LEMMA CallStep ==
  ASSUME McpInv, NEW name, Call(name)
  PROVE  McpInv'
  <1>1. /\ UNCHANGED <<catalog, todo, servers, pipe, result>> /\ calls' \in Nat /\ result' \in Nat
        /\ pc = "ready"
    BY DEF Call, McpInv, RunTypes
  <1>2. CASE \E x \in tools : Request(x[1], "call")
    <2>1. PICK x \in tools : Request(x[1], "call")
      BY <1>2
    <2>2. PICK s \in Servers : s = x[1]
      BY DEF McpInv, RunTypes
    <2> QED
      BY <1>1, <2>1, <2>2, RequestStep DEF catalog, servers
  <1>3. CASE UNCHANGED <<pc, request, inbox>>
    BY <1>1, <1>3, MoveStep DEF wires, Waiting, Talking
  <1> QED
    BY <1>2, <1>3 DEF Call

LEMMA DropStep == McpInv /\ Drop => McpInv'
  <1> SUFFICES ASSUME McpInv, Drop PROVE McpInv'
    OBVIOUS
  <1>1. /\ pc' = "dropped" /\ UNCHANGED <<catalog, todo, request, holder, calls, result>>
        /\ proc' = [s \in Servers |-> IF s \in sessions THEN "dead" ELSE proc[s]]
        /\ inbox' = [s \in Servers |-> {}] /\ pipe' = [s \in Servers |-> << >>]
    BY DEF Drop
  <1>2. \A s \in Servers : InboxFits(s)' /\ PipeFits(s)'
    BY <1>1, QuietWires DEF Waiting
  <1>3. RunTypes'
    BY <1>1 DEF McpInv, RunTypes, request, catalog
  <1>4. (Talking => server \in Servers)' /\ AnswersMatch'
    BY <1>1 DEF McpInv, WireInv, Talking, Waiting, AnswersMatch, catalog
  <1>5. Untouched'
    BY <1>1 DEF McpInv, WireInv, Untouched, Alive, RunTypes
  <1> QED
    BY <1>2, <1>3, <1>4, <1>5 DEF McpInv, WireInv

\* A server can only write about what it was asked.
LEMMA WriteStep ==
  ASSUME McpInv, NEW s \in Servers, Write(s)
  PROVE  McpInv'
  <1>1. UNCHANGED <<catalog, todo, pc, request, servers, calls, result>> /\ Alive(s)
    BY DEF Write, Heard
  <1>2. PICK new \in Line :
          /\ pipe' = [pipe EXCEPT ![s] = Append(pipe[s], new)]
          /\ IsAnswer(new) => new.to \in inbox[s]
          /\ inbox' = inbox \/ \E k : inbox' = [inbox EXCEPT ![s] = inbox[s] \ {k}]
    <2>1. CASE \E k \in inbox[s], kind \in {"answer", "error"}, again \in BOOLEAN :
                 /\ pipe' = [pipe EXCEPT ![s] = Append(@, [kind |-> kind, to |-> k])]
                 /\ inbox' = [inbox EXCEPT ![s] = IF again THEN @ ELSE @ \ {k}]
      <3>1. PICK k \in inbox[s], kind \in {"answer", "error"}, again \in BOOLEAN :
                 /\ pipe' = [pipe EXCEPT ![s] = Append(@, [kind |-> kind, to |-> k])]
                 /\ inbox' = [inbox EXCEPT ![s] = IF again THEN @ ELSE @ \ {k}]
        BY <2>1
      <3>2. k \in Asked
        BY DEF McpInv, RunTypes
      <3>3. [kind |-> kind, to |-> k] \in Line /\ [kind |-> kind, to |-> k].to = k
        BY <3>2 DEF Line
      <3>4. inbox' = inbox \/ inbox' = [inbox EXCEPT ![s] = inbox[s] \ {k}]
        BY <3>1 DEF McpInv, RunTypes
      <3> QED
        BY <3>1, <3>3, <3>4 DEF McpInv, RunTypes
    <2>3. CASE \E i \in OwnIds :
                 /\ pipe' = [pipe EXCEPT ![s] = Append(@, [kind |-> "own", to |-> [id |-> i, n |-> 0]])]
                 /\ UNCHANGED inbox
      <3>1. PICK i \in OwnIds :
                 /\ pipe' = [pipe EXCEPT ![s] = Append(@, [kind |-> "own", to |-> [id |-> i, n |-> 0]])]
                 /\ UNCHANGED inbox
        BY <2>3
      <3>2. PICK new \in Line : new = [kind |-> "own", to |-> [id |-> i, n |-> 0]] /\ ~IsAnswer(new)
        <4>1. i \in Nat
          BY ServerAssumption
        <4>2. [id |-> i, n |-> 0] \in [id : Nat, n : {0}]
          BY <4>1
        <4>3. [kind |-> "own", to |-> [id |-> i, n |-> 0]] \in [kind : {"own"}, to : [id : Nat, n : {0}]]
          BY <4>2
        <4> QED
          BY <4>3 DEF Line, IsAnswer
      <3> QED
        BY <3>1, <3>2 DEF McpInv, RunTypes
    <2>2. CASE \E kind \in {"notification", "garbage"} :
                 /\ pipe' = [pipe EXCEPT ![s] = Append(@, [kind |-> kind])]
                 /\ UNCHANGED inbox
      <3>1. PICK kind \in {"notification", "garbage"} :
                 /\ pipe' = [pipe EXCEPT ![s] = Append(@, [kind |-> kind])]
                 /\ UNCHANGED inbox
        BY <2>2
      <3>2. [kind |-> kind] \in Line /\ ~IsAnswer([kind |-> kind])
        BY DEF Line, IsAnswer
      <3> QED
        BY <3>1, <3>2 DEF McpInv, RunTypes
    <2> QED
      BY <2>1, <2>2, <2>3 DEF Write
  <1>3. \A r \in Servers : inbox'[r] \subseteq inbox[r]
    BY <1>2 DEF McpInv, RunTypes
  <1>4. inbox' \in [Servers -> SUBSET Asked]
    BY <1>2 DEF McpInv, RunTypes
  <1>5. /\ pipe'[s] = Append(pipe[s], new) /\ pipe[s] \in Seq(Line)
        /\ \A r \in Servers : r # s => pipe'[r] = pipe[r]
        /\ pipe' \in [Servers -> Seq(Line)]
    BY <1>2 DEF McpInv, RunTypes
  <1>6. RunTypes'
    BY <1>1, <1>4, <1>5 DEF McpInv, RunTypes, request, servers, catalog
  <1>7. ASSUME NEW r \in Servers, NEW k, Fits(r, k)
        PROVE  Fits(r, k)'
    BY <1>1, <1>7 DEF Fits, Waiting, request
  <1>8. ASSUME NEW r \in Servers
        PROVE  InboxFits(r)'
    BY <1>3, <1>7 DEF McpInv, WireInv, InboxFits
  <1>9. ASSUME NEW r \in Servers, NEW i \in 1 .. Len(pipe'[r]), IsAnswer(pipe'[r][i])
        PROVE  Fits(r, pipe[r][i].to)'
    <2>1. PICK k : k = pipe'[r][i].to
      OBVIOUS
    <2>2. Fits(r, k)
      <3>1. CASE r # s
        BY <1>5, <1>9, <2>1, <3>1 DEF McpInv, WireInv, PipeFits
      <3>2. CASE r = s /\ i \in 1 .. Len(pipe[s])
        <4>1. pipe'[r][i] = pipe[r][i]
          BY <1>5, <3>2
        <4> QED
          BY <1>9, <2>1, <3>2, <4>1 DEF McpInv, WireInv, PipeFits
      <3>3. CASE r = s /\ i \notin 1 .. Len(pipe[s])
        <4>1. i = Len(pipe[s]) + 1 /\ pipe'[r][i] = new
          BY <1>5, <3>3
        <4> QED
          BY <1>2, <1>9, <2>1, <3>3, <4>1 DEF McpInv, WireInv, InboxFits
      <3> QED
        BY <3>1, <3>2, <3>3
    <2>3. Fits(r, k)'
      BY <1>7, <2>2
    <2> QED
      BY <2>1, <2>3 DEF Fits
  <1>10. \A r \in Servers : PipeFits(r)'
    BY <1>9 DEF PipeFits, IsAnswer
  <1>11. (Talking => server \in Servers)' /\ AnswersMatch'
    BY <1>1 DEF McpInv, WireInv, Talking, Waiting, AnswersMatch, request, catalog
  <1>12. Untouched'
    BY <1>1, <1>5 DEF McpInv, WireInv, Untouched, Alive, servers, RunTypes
  <1> QED
    BY <1>6, <1>8, <1>10, <1>11, <1>12 DEF McpInv, WireInv

LEMMA ServerStep ==
  ASSUME McpInv, NEW s \in Servers, Spawn(s) \/ Exit(s)
  PROVE  McpInv'
  <1>1. UNCHANGED <<catalog, todo, pc, request, wires, calls, result>>
    BY DEF Spawn, Exit
  <1>2. \A r \in Servers : InboxFits(r)' /\ PipeFits(r)'
    BY <1>1, QuietWires DEF Waiting, wires
  <1>3. holder' \in [Servers -> BOOLEAN] /\ proc' \in [Servers -> {"none", "running", "dead"}]
        /\ \A r \in Servers : Alive(r)' => Alive(r)
    BY DEF Spawn, Exit, McpInv, RunTypes, Alive
  <1>4. RunTypes'
    BY <1>1, <1>3 DEF McpInv, RunTypes, request, wires, catalog
  <1>5. (Talking => server \in Servers)' /\ AnswersMatch'
    BY <1>1 DEF McpInv, WireInv, Talking, Waiting, AnswersMatch, request, catalog
  <1>6. Untouched'
    BY <1>1, <1>3 DEF McpInv, WireInv, Untouched, wires, RunTypes
  <1> QED
    BY <1>2, <1>4, <1>5, <1>6 DEF McpInv, WireInv

LEMMA StutterStep == McpInv /\ UNCHANGED vars => McpInv'
  <1> SUFFICES ASSUME McpInv, UNCHANGED vars PROVE McpInv'
    OBVIOUS
  <1>1. \A r \in Servers : InboxFits(r)' /\ PipeFits(r)'
    BY QuietWires DEF Waiting, vars, request
  <1>2. RunTypes'
    BY DEF McpInv, RunTypes, vars
  <1>3. (Talking => server \in Servers)' /\ AnswersMatch' /\ Untouched'
    BY DEF McpInv, WireInv, Talking, Waiting, AnswersMatch, Untouched, Alive, vars
  <1> QED
    BY <1>1, <1>2, <1>3 DEF McpInv, WireInv

LEMMA McpNext == McpInv /\ [Next]_vars => McpInv'
  <1> SUFFICES ASSUME McpInv, [Next]_vars PROVE McpInv'
    OBVIOUS
  <1>1. CASE Start
    BY <1>1, StartStep
  <1>2. CASE Prepared \/ CheckFails \/ CheckRuns \/ ReadEnd \/ CallReturns
    <2>1. /\ UNCHANGED <<todo, request, servers, wires, catalog>> /\ calls' = calls
          /\ pc' \in {"start", "read", "failed", "ready"} /\ result' \in {0, result}
          /\ (Waiting' => Waiting) /\ (Talking' => Talking)
      BY <1>2 DEF Prepared, CheckFails, CheckRuns, ReadEnd, CallReturns, Waiting, Talking
    <2>2. result' \in Nat /\ calls' \in Nat
      BY <2>1 DEF McpInv, RunTypes
    <2> QED
      BY <2>1, <2>2, MoveStep
  <1>3. CASE Read
    BY <1>3, ReadStep
  <1>4. CASE Initialized \/ Listed \/ StartFailed \/ Drop
    BY <1>4, InitializedStep, ListedStep, StartFailedStep, DropStep
  <1>5. ASSUME NEW s \in Servers, NEW t \in Tools, Call(Encoded(s, t)) PROVE McpInv'
    BY <1>5, CallStep
  <1>6. ASSUME NEW s \in Servers, Write(s) \/ Spawn(s) \/ Exit(s) PROVE McpInv'
    BY <1>6, WriteStep, ServerStep
  <1>7. CASE UNCHANGED vars
    BY <1>7, StutterStep
  <1> QED
    BY <1>1, <1>2, <1>3, <1>4, <1>5, <1>6, <1>7 DEF Next, Run

LEMMA McpInvariant == Spec => []McpInv
  BY McpInit, McpNext, PTL DEF Spec

\* What is known of the tools and of the last call: a tool is shown only with the
\* session of its server, and nothing is called before all servers are started.
NameInv ==
    /\ asked \subseteq Name /\ reached \subseteq tools
    /\ \A x \in tools : x[1] \in sessions
    /\ pc = "start" \/ (Talking /\ purpose # "call") => asked = {}
    /\ CallsArrive

\* decode_tool_name undoes encode_tool_name for a server name without "__".
LEMMA DecodesBack ==
  ASSUME NEW S, NEW a \in S, NEW t \in Seq(S), t # << >>
  PROVE  Len(<<a>> \o t) > 1 /\ Head(<<a>> \o t) = a /\ Tail(<<a>> \o t) = t
  <1>1. <<a>> \in Seq(S) /\ Len(<<a>>) = 1 /\ <<a>>[1] = a /\ Len(t) \in Nat /\ Len(t) > 0
    BY EmptySeq
  <1> DEFINE w == <<a>> \o t
  <1>2. /\ w \in Seq(S) /\ Len(w) = Len(t) + 1 /\ w[1] = a
        /\ \A i \in 1 .. Len(t) : w[i + 1] = t[i]
    BY <1>1, ConcatProperties
  <1> HIDE DEF w
  <1>3. w # << >>
    BY <1>1, <1>2
  <1>4. /\ Tail(w) \in Seq(S) /\ Len(Tail(w)) = Len(t) /\ Head(w) = a
        /\ \A i \in 1 .. Len(t) : Tail(w)[i] = t[i]
    BY <1>1, <1>2, <1>3
  <1>5. Tail(w) = t
    BY <1>4, SeqEqual
  <1> QED
    BY <1>1, <1>2, <1>4, <1>5 DEF w

LEMMA SingleName ==
  ASSUME NEW S, NEW q \in Seq(S), Len(q) = 1
  PROVE  Head(q) \in S /\ q = <<Head(q)>>
  <1>1. Head(q) = q[1] /\ q[1] \in S
    BY DEF Head
  <1>2. <<q[1]>> \in Seq(S) /\ Len(<<q[1]>>) = 1 /\ <<q[1]>>[1] = q[1]
    BY <1>1
  <1>3. q = <<q[1]>>
    BY <1>2, SeqEqual
  <1> QED
    BY <1>1, <1>3

\* protocol_tool_call and McpRuntime::call: the tool found is the one the name was
\* shown for.
LEMMA CallArrives ==
  ASSUME McpInv, NameInv, NEW s \in Servers, NEW t \in Tools, Call(Encoded(s, t))
  PROVE  NameInv'
  <1> DEFINE name == Encoded(s, t)
             found == {x \in tools : Decodes(name, x[1], x[2])}
  <1>1. /\ asked' = {name} /\ UNCHANGED <<sessions, tools>> /\ pc = "ready"
        /\ \/ \E x \in found : x[1] \in sessions /\ Request(x[1], "call") /\ reached' = {x}
           \/ /\ \A x \in found : x[1] \notin sessions
              /\ reached' = {} /\ UNCHANGED <<pc, request, inbox>>
    BY DEF Call, catalog
  <1>2. name \in Name
    BY NameAssumption DEF Encoded, Name
  <1>3. tools \subseteq Servers \X Tools
    BY DEF McpInv, RunTypes
  <1> HIDE DEF name
  <1>4. reached' \subseteq tools'
    BY <1>1
  <1>5. (pc = "start" \/ (Talking /\ purpose # "call") => asked = {})'
    BY <1>1 DEF Request, Talking, Waiting
  <1>6. ASSUME NEW x \in tools, Len(ServerName[x[1]]) = 1, Head(ServerName[x[1]]) # "",
               Encoded(x[1], x[2]) = name
        PROVE  reached' = {x}
    <2>1. x[1] \in Servers /\ x[2] \in Tools /\ x = <<x[1], x[2]>> /\ x[1] \in sessions
      BY <1>3 DEF NameInv
    <2>2. /\ ServerName[x[1]] \in Name /\ x[2] \in Name /\ x[2] # << >>
      BY <2>1, NameAssumption
    <2>3. PICK a \in STRING : ServerName[x[1]] = <<a>>
      <3>1. PICK q \in Seq(STRING) : q = ServerName[x[1]] /\ Len(q) = 1
        BY <1>6, <2>2 DEF Name
      <3>2. Head(q) \in STRING /\ q = <<Head(q)>>
        BY <3>1, SingleName
      <3> QED
        BY <3>1, <3>2
    <2>4. name = <<a>> \o x[2]
      BY <1>6, <2>3 DEF Encoded
    <2>5. Len(name) > 1 /\ Head(name) = a /\ Tail(name) = x[2] /\ a # ""
      <3>1. Head(ServerName[x[1]]) = a
        BY <2>3
      <3>2. x[2] \in Seq(STRING)
        BY <2>2 DEF Name
      <3>3. Len(<<a>> \o x[2]) > 1 /\ Head(<<a>> \o x[2]) = a /\ Tail(<<a>> \o x[2]) = x[2]
        BY <2>2, <3>2, DecodesBack
      <3> QED
        BY <1>6, <2>4, <3>1, <3>3
    <2>6. x \in found
      BY <2>3, <2>5 DEF Decodes
    <2>7. ASSUME NEW y \in found PROVE y = x
      <3>1. y \in tools /\ ServerName[y[1]] = <<Head(name)>> /\ y[2] = Tail(name)
        BY DEF Decodes
      <3>2. y[1] \in Servers /\ y = <<y[1], y[2]>>
        BY <1>3, <3>1
      <3>4. ServerName[y[1]] = ServerName[x[1]] /\ y[2] = x[2]
        BY <2>3, <2>5, <3>1
      <3>3. y[1] = x[1]
        BY <2>1, <3>2, <3>4, NameAssumption
      <3> QED
        BY <2>1, <3>2, <3>3, <3>4
    <2> HIDE DEF found
    <2> QED
      BY <1>1, <2>1, <2>6, <2>7
  <1>7. CallsArrive'
    BY <1>1, <1>6 DEF CallsArrive
  <1> QED
    BY <1>1, <1>2, <1>4, <1>5, <1>7 DEF NameInv

LEMMA NameStep == McpInv /\ NameInv /\ [Next]_vars => NameInv'
  <1> SUFFICES ASSUME McpInv, NameInv, [Next]_vars PROVE NameInv'
    OBVIOUS
  <1> USE DEF NameInv, CallsArrive, Talking, Waiting, catalog, request, lastCall
  <1>1. CASE Start BY <1>1 DEF Start
  <1>2. CASE Prepared BY <1>2 DEF Prepared
  <1>3. CASE CheckFails BY <1>3 DEF CheckFails
  <1>4. CASE CheckRuns BY <1>4 DEF CheckRuns
  <1>5. CASE Read BY <1>5 DEF Read
  <1>6. CASE ReadEnd BY <1>6 DEF ReadEnd
  <1>7. CASE Initialized BY <1>7 DEF Initialized, Request
  <1>8. CASE Listed
    <2>1. PICK T \in SUBSET Tools : tools' = tools \cup {<<server, t>> : t \in T}
      BY <1>8 DEF Listed
    <2>2. asked' = asked /\ reached' = reached /\ sessions' = sessions \cup {server}
      BY <1>8 DEF Listed
    <2>4. asked = {}
      BY <1>8 DEF Listed
    <2>5. pc' = "start"
      BY <1>8 DEF Listed
    <2>3. ASSUME NEW x \in tools' PROVE x[1] \in sessions'
      <3>1. CASE x \in tools
        BY <2>2, <3>1
      <3>2. ASSUME NEW t \in T, x = <<server, t>> PROVE x[1] \in sessions'
        BY <2>2, <3>2
      <3> QED
        BY <2>1, <3>1, <3>2
    <2> QED
      BY <2>1, <2>2, <2>3, <2>4, <2>5
  <1>9. CASE StartFailed BY <1>9 DEF StartFailed
  <1>10. CASE CallReturns BY <1>10 DEF CallReturns
  <1>11. CASE Drop BY <1>11 DEF Drop
  <1>12. ASSUME NEW s \in Servers, NEW t \in Tools, Call(Encoded(s, t)) PROVE NameInv'
    BY <1>12, CallArrives
  <1>13. ASSUME NEW s \in Servers, Write(s) PROVE NameInv' BY <1>13 DEF Write
  <1>14. ASSUME NEW s \in Servers, Spawn(s) PROVE NameInv' BY <1>14 DEF Spawn
  <1>15. ASSUME NEW s \in Servers, Exit(s) PROVE NameInv' BY <1>15 DEF Exit
  <1>16. CASE UNCHANGED vars BY <1>16 DEF vars
  <1> QED
    BY <1>1, <1>2, <1>3, <1>4, <1>5, <1>6, <1>7, <1>8, <1>9, <1>10, <1>11, <1>12, <1>13, <1>14, <1>15,
       <1>16 DEF Next, Run

LEMMA NameInvariant == Spec => []NameInv
  <1>1. Init => NameInv
    BY DEF Init, NameInv, CallsArrive
  <1> QED
    BY <1>1, McpInvariant, NameStep, PTL DEF Spec

-----------------------------------------------------------------------------
\* The run, its sessions, the wires and the last call have their types.
THEOREM TypeCorrect == Spec => []TypeOK
  <1>1. McpInv /\ NameInv => TypeOK
    BY DEF McpInv, NameInv, TypeOK
  <1> QED
    BY McpInvariant, NameInvariant, <1>1, PTL

\* request and read_response: the answer to a request is never taken for that of
\* another, however late, often or out of order the servers answer; the most that can
\* be taken for it is a message the server sent by itself under the same id.
THEOREM AnswersAlwaysMatch == Spec => []AnswersMatch
  <1>1. McpInv => AnswersMatch
    BY DEF McpInv, WireInv
  <1> QED
    BY McpInvariant, <1>1, PTL

\* encode_tool_name, decode_tool_name, prepare_with_plugin_config and call: a call by a
\* shown name goes to the tool it was shown for, if its server's name has no "__".
THEOREM CallsAlwaysArrive == Spec => []CallsArrive
  <1>1. NameInv => CallsArrive
    BY DEF NameInv
  <1> QED
    BY NameInvariant, <1>1, PTL
=============================================================================
