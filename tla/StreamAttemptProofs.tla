------------------------ MODULE StreamAttemptProofs ------------------------
(***************************************************************************)
(* What StreamAttempt promises, for every answer: no echo of the history   *)
(* becomes visible, a failure reports what was shown, nothing of a stored  *)
(* answer stays hidden, and a success is an answer the endpoint finished,  *)
(* with its text and its calls.                                            *)
(***************************************************************************)
EXTENDS StreamAttempt, FiniteSetTheorems, WellFoundedInduction, TLAPS

-----------------------------------------------------------------------------
(* Texts *)

Solid(s) == \E k \in 1..Len(s) : s[k] # "blank"

\* f is the first place of s that is not white space.
Begins(s, f) == f \in 1..Len(s) /\ s[f] # "blank" /\ \A j \in 1..Len(s) : j < f => s[j] = "blank"

\* Nothing appended to s can make it a marker.
Harmless(s) ==
    \E f \in 1..Len(s) : Begins(s, f) /\ (s[f] = "pre" => f < Len(s) /\ s[f + 1] # "post")

\* At most the marker itself.
Short(s) == Len(Stripped(s)) <= 2

LEMMA LeastIn ==
  ASSUME NEW T \in SUBSET Nat, T # {}
  PROVE  \E k \in T : \A j \in T : k <= j
  <1> DEFINE R == {ss \in Nat \X Nat : ss[1] < ss[2]}
  <1>1. IsWellFoundedOn(R, Nat)
    BY NatLessThanWellFounded DEF OpToRel
  <1>2. PICK x \in T : \A y \in T : ~(<<y, x>> \in R)
    BY <1>1, WFMin
  <1>3. ASSUME NEW y \in T PROVE x <= y
    <2>1. SUFFICES ASSUME y < x PROVE FALSE
      OBVIOUS
    <2>2. <<y, x>> \in Nat \X Nat /\ <<y, x>>[1] < <<y, x>>[2]
      BY <2>1
    <2>3. <<y, x>> \in R
      BY <2>2
    <2> QED
      BY <1>2, <2>3
  <1> QED
    BY <1>2, <1>3

\* A set of places of a text has a last one.
LEMMA LastIn ==
  ASSUME NEW n \in Nat, NEW T \in SUBSET (1..n), T # {}
  PROVE  \E k \in T : \A j \in T : j <= k
  <1> DEFINE D == {d \in Nat : \E k \in T : d = n - k}
  <1>1. D \in SUBSET Nat /\ D # {}
    <2>1. PICK k \in T : TRUE
      OBVIOUS
    <2>2. n - k \in D
      BY <2>1
    <2> QED
      BY <2>2
  <1> HIDE DEF D
  <1>2. PICK d \in D : \A e \in D : d <= e
    BY <1>1, LeastIn
  <1>3. PICK k \in T : d = n - k
    BY <1>2 DEF D
  <1>4. ASSUME NEW j \in T PROVE j <= k
    <2>1. n - j \in D
      BY DEF D
    <2> QED
      BY <1>2, <1>3, <2>1
  <1> QED
    BY <1>3, <1>4

LEMMA OneToken ==
  ASSUME NEW S, NEW s \in Seq(S), Len(s) = 1
  PROVE  s = <<s[1]>>
  OBVIOUS

LEMMA NoLongBeginning ==
  ASSUME NEW s, LongEnough(s)
  PROVE  ~CouldBeMarker(s)
  <1>1. CASE s = <<>>
    BY <1>1 DEF LongEnough
  <1>2. CASE s = <<"pre">>
    <2>1. Len(s) = 1
      BY <1>2
    <2> QED
      BY <2>1 DEF LongEnough
  <1> QED
    BY <1>1, <1>2 DEF CouldBeMarker

LEMMA BlankText ==
  ASSUME NEW s, ~Solid(s)
  PROVE  Stripped(s) = <<>> /\ Trimmed(s) = <<>>
  BY DEF Solid, Stripped, Trimmed

LEMMA SolidBegins ==
  ASSUME NEW S, NEW s \in Seq(S), Solid(s)
  PROVE  \E f \in 1..Len(s) : Begins(s, f)
  <1> DEFINE T == {k \in 1..Len(s) : s[k] # "blank"}
  <1>1. T \in SUBSET Nat /\ T # {}
    BY DEF Solid
  <1>2. PICK f \in T : \A j \in T : f <= j
    BY <1>1, LeastIn
  <1>3. ASSUME NEW j \in 1..Len(s), j < f PROVE s[j] = "blank"
    BY <1>2, <1>3
  <1> QED
    BY <1>2, <1>3 DEF Begins

LEMMA StrippedIs ==
  ASSUME NEW S, NEW s \in Seq(S), NEW f, Begins(s, f)
  PROVE  Stripped(s) = SubSeq(s, f, Len(s))
  <1> DEFINE T == {k \in 1..Len(s) : s[k] # "blank"}
             P(k) == k \in T /\ \A j \in T : k <= j
  <1>1. P(f)
    BY DEF Begins
  <1>2. \A k : P(k) => k = f
    BY <1>1
  <1>3. (CHOOSE k \in T : \A j \in T : k <= j) = f
    BY <1>1, <1>2
  <1>4. T # {}
    BY <1>1
  <1>5. Stripped(s) = SubSeq(s, CHOOSE k \in T : \A j \in T : k <= j, Len(s))
    BY <1>4 DEF Stripped
  <1> QED
    BY <1>3, <1>5

\* Trimmed(s) runs from the first to the last place that is not white space.
LEMMA TrimmedIs ==
  ASSUME NEW S, NEW s \in Seq(S), NEW f, Begins(s, f)
  PROVE  \E l \in f..Len(s) :
            /\ Trimmed(s) = SubSeq(SubSeq(s, 1, l), f, l)
            /\ \A j \in 1..Len(s) : s[j] # "blank" => j <= l
  <1> DEFINE T == {k \in 1..Len(s) : s[k] # "blank"}
             l == CHOOSE k \in T : \A j \in T : j <= k
  <1>1. f \in T /\ T \in SUBSET (1..Len(s))
    BY DEF Begins
  <1>2. \E k \in T : \A j \in T : j <= k
    <2>1. Len(s) \in Nat /\ T # {}
      BY <1>1
    <2> HIDE DEF T
    <2> QED
      BY <1>1, <2>1, LastIn
  <1>3. l \in T /\ \A j \in T : j <= l
    BY <1>2
  <1>4. l \in f..Len(s) /\ f \in 1..Len(s)
    BY <1>1, <1>3
  <1>5. Trimmed(s) = Stripped(SubSeq(s, 1, l))
    BY <1>1 DEF Trimmed
  <1>9. \A j \in 1..Len(s) : s[j] # "blank" => j <= l
    BY <1>3
  <1> HIDE DEF l, T
  <1>6. SubSeq(s, 1, l) \in Seq(S) /\ Len(SubSeq(s, 1, l)) = l
    BY <1>4
  <1>7. Begins(SubSeq(s, 1, l), f)
    BY <1>4, <1>6 DEF Begins
  <1>8. Stripped(SubSeq(s, 1, l)) = SubSeq(SubSeq(s, 1, l), f, l)
    BY <1>6, <1>7, StrippedIs
  <1> QED
    BY <1>4, <1>5, <1>8, <1>9

LEMMA TrimmedSolid ==
  ASSUME NEW S, NEW s \in Seq(S)
  PROVE  Trimmed(s) = <<>> <=> ~Solid(s)
  <1>1. CASE Solid(s)
    <2>1. PICK f \in 1..Len(s) : Begins(s, f)
      BY <1>1, SolidBegins
    <2>2. PICK l \in f..Len(s) : Trimmed(s) = SubSeq(SubSeq(s, 1, l), f, l)
      BY <2>1, TrimmedIs
    <2>3. Len(Trimmed(s)) = l - f + 1
      BY <2>1, <2>2
    <2>4. Len(Trimmed(s)) > 0
      BY <2>1, <2>3
    <2>5. Trimmed(s) # <<>>
      BY <2>4
    <2> QED
      BY <1>1, <2>5
  <1> QED
    BY <1>1, BlankText

LEMMA HarmlessNoEcho ==
  ASSUME NEW S, NEW s \in Seq(S), Harmless(s)
  PROVE  ~LooksLikeEcho(s)
  <1>1. PICK f \in 1..Len(s) : Begins(s, f) /\ (s[f] = "pre" => f < Len(s) /\ s[f + 1] # "post")
    BY DEF Harmless
  <1>2. PICK l \in f..Len(s) : Trimmed(s) = SubSeq(SubSeq(s, 1, l), f, l)
    BY <1>1, TrimmedIs
  <1>3. Len(Trimmed(s)) = l - f + 1
    BY <1>1, <1>2
  <1>4. Trimmed(s)[1] = s[f]
    BY <1>1, <1>2
  <1>5. l > f => Trimmed(s)[2] = s[f + 1]
    BY <1>1, <1>2
  <1>6. ~IsMarker(Trimmed(s))
    BY <1>1, <1>2, <1>3, <1>4, <1>5 DEF IsMarker
  <1> QED
    BY <1>6 DEF LooksLikeEcho

LEMMA ShortNoEcho ==
  ASSUME NEW S, NEW s \in Seq(S), Short(s)
  PROVE  ~LooksLikeEcho(s)
  <1>1. CASE ~Solid(s)
    BY <1>1, BlankText DEF LooksLikeEcho, LongEnough
  <1>2. CASE Solid(s)
    <2>1. PICK f \in 1..Len(s) : Begins(s, f)
      BY <1>2, SolidBegins
    <2>2. PICK l \in f..Len(s) : Trimmed(s) = SubSeq(SubSeq(s, 1, l), f, l)
      BY <2>1, TrimmedIs
    <2>3. Len(Trimmed(s)) = l - f + 1
      BY <2>1, <2>2
    <2>4. Stripped(s) = SubSeq(s, f, Len(s))
      BY <2>1, StrippedIs
    <2>5. Len(Stripped(s)) = Len(s) - f + 1
      BY <2>1, <2>4
    <2> QED
      BY <2>1, <2>2, <2>3, <2>5 DEF Short, LooksLikeEcho, LongEnough
  <1> QED
    BY <1>1, <1>2

LEMMA HarmlessGrows ==
  ASSUME NEW S, NEW s \in Seq(S), NEW t \in Seq(S), Harmless(s)
  PROVE  Harmless(s \o t)
  <1>1. PICK f \in 1..Len(s) : Begins(s, f) /\ (s[f] = "pre" => f < Len(s) /\ s[f + 1] # "post")
    BY DEF Harmless
  <1>2. s \o t \in Seq(S) /\ Len(s \o t) = Len(s) + Len(t) /\ \A k \in 1..Len(s) : (s \o t)[k] = s[k]
    OBVIOUS
  <1>3. Begins(s \o t, f)
    BY <1>1, <1>2 DEF Begins
  <1>4. s[f] = "pre" => f < Len(s \o t) /\ (s \o t)[f + 1] # "post"
    BY <1>1, <1>2
  <1> QED
    BY <1>1, <1>2, <1>3, <1>4 DEF Harmless

\* Text that is no beginning of a marker and no marker is harmless.
LEMMA LetGo ==
  ASSUME NEW S, NEW s \in Seq(S), ~CouldBeMarker(Stripped(s)), ~IsMarker(Stripped(s))
  PROVE  Harmless(s)
  <1>1. Solid(s)
    BY BlankText DEF CouldBeMarker
  <1>2. PICK f \in 1..Len(s) : Begins(s, f)
    BY <1>1, SolidBegins
  <1>3. Stripped(s) = SubSeq(s, f, Len(s))
    BY <1>2, StrippedIs
  <1>4. ASSUME s[f] = "pre" PROVE f < Len(s) /\ s[f + 1] # "post"
    <2>1. f < Len(s)
      <3>1. SUFFICES ASSUME f = Len(s) PROVE FALSE
        BY <1>2
      <3>2. SubSeq(s, f, Len(s)) = <<"pre">>
        <4>1. /\ SubSeq(s, f, Len(s)) \in Seq(S) /\ Len(SubSeq(s, f, Len(s))) = 1
              /\ SubSeq(s, f, Len(s))[1] = "pre"
          BY <1>4, <3>1
        <4> QED
          BY <4>1, OneToken
      <3> QED
        BY <1>3, <3>2 DEF CouldBeMarker
    <2>2. /\ Len(Stripped(s)) = Len(s) - f + 1
          /\ Stripped(s)[1] = s[f] /\ Stripped(s)[2] = s[f + 1]
      BY <1>2, <1>3, <2>1
    <2> QED
      BY <1>4, <2>1, <2>2 DEF IsMarker
  <1> QED
    BY <1>2, <1>4 DEF Harmless

-----------------------------------------------------------------------------
(* The invariant *)

Guards == [pending : Seq(Tokens), mode : {"buffering", "emitting", "suppressing"},
           run : Nat, matched : BOOLEAN]
Under == {"opening", "streaming"}

AgentOK ==
    /\ content \in Seq(Tokens) /\ shown \in Seq(Tokens) /\ guard \in Guards
    /\ outcome \in Over \cup Under

\* Every text among the events is made of tokens.
QueueOK == \E E : queue \in Seq(E) /\ \A e \in E : e.kind = "text" => e.t \in Tokens

\* What the guard holds or let go came out of the collected text.
Tracked == Solid(shown) \/ Solid(guard.pending) => Solid(content)

\* What the screen shows in each mode of the guard.
Screen(mode, s) ==
    /\ mode = "buffering" => s = <<>>
    /\ mode = "emitting" => Harmless(s)
    /\ s = <<>> \/ Harmless(s)

\* The guard holds at most a marker, and lets go only of text that is none.
Held ==
    /\ guard.mode # "buffering" => guard.pending = <<>>
    /\ Short(guard.pending)
    /\ outcome \in Under => Screen(guard.mode, shown)

StreamInv ==
    AgentOK /\ QueueOK /\ Tracked /\ Held /\ ~LooksLikeEcho(shown) /\ ShownIsReported

LEMMA EmptyText ==
  <<>> \in Seq(Tokens) /\ ~Solid(<<>>) /\ Short(<<>>) /\ ~LooksLikeEcho(<<>>)
  /\ Trimmed(<<>>) = <<>>
  <1>1. <<>> \in Seq(Tokens) /\ ~Solid(<<>>)
    BY DEF Solid
  <1>2. Stripped(<<>>) = <<>> /\ Trimmed(<<>>) = <<>>
    BY <1>1, BlankText
  <1> QED
    BY <1>1, <1>2 DEF Short, LooksLikeEcho, LongEnough

LEMMA JoinedText ==
  ASSUME NEW s \in Seq(Tokens), NEW t \in Seq(Tokens)
  PROVE  /\ s \o t \in Seq(Tokens)
         /\ Solid(s \o t) <=> Solid(s) \/ Solid(t)
         /\ <<>> \o t = t /\ s \o <<>> = s
  <1>1. /\ s \o t \in Seq(Tokens) /\ Len(s \o t) = Len(s) + Len(t)
        /\ \A k \in 1..Len(s) : (s \o t)[k] = s[k]
        /\ \A k \in 1..Len(t) : (s \o t)[Len(s) + k] = t[k]
        /\ \A k \in 1..(Len(s) + Len(t)) :
             \/ k \in 1..Len(s)
             \/ k - Len(s) \in 1..Len(t) /\ (s \o t)[k] = t[k - Len(s)]
    OBVIOUS
  <1>2. Solid(s) \/ Solid(t) => Solid(s \o t)
    BY <1>1 DEF Solid
  <1>3. Solid(s \o t) => Solid(s) \/ Solid(t)
    BY <1>1 DEF Solid
  <1>5. <<>> \o t = t /\ s \o <<>> = s
    OBVIOUS
  <1> QED
    BY <1>1, <1>2, <1>3, <1>5

LEMMA AppendedText ==
  ASSUME NEW s \in Seq(Tokens), NEW t \in Tokens
  PROVE  /\ Append(s, t) \in Seq(Tokens) /\ <<t>> \in Seq(Tokens)
         /\ Solid(Append(s, t)) <=> Solid(s) \/ t # "blank"
         /\ Solid(<<t>>) <=> t # "blank"
  <1>1. /\ Append(s, t) \in Seq(Tokens) /\ <<t>> \in Seq(Tokens) /\ Len(Append(s, t)) = Len(s) + 1
        /\ \A k \in 1..Len(s) : Append(s, t)[k] = s[k]
        /\ Append(s, t)[Len(s) + 1] = t /\ Len(<<t>>) = 1 /\ <<t>>[1] = t
    OBVIOUS
  <1>2. Solid(Append(s, t)) <=> Solid(s) \/ t # "blank"
    BY <1>1 DEF Solid
  <1>3. Solid(<<t>>) <=> t # "blank"
    BY <1>1 DEF Solid
  <1> QED
    BY <1>1, <1>2, <1>3

-----------------------------------------------------------------------------
(* Steps *)

\* The world and the decoder leave the agent alone.
LEMMA AgentRests ==
  ASSUME StreamInv, UNCHANGED agent, QueueOK'
  PROVE  StreamInv'
  <1>1. UNCHANGED <<content, guard, shown, outcome, reported>>
    BY DEF agent
  <1>2. AgentOK' /\ Tracked' /\ Held'
    BY <1>1 DEF StreamInv, AgentOK, Tracked, Held
  <1>3. ~LooksLikeEcho(shown)' /\ ShownIsReported'
    BY <1>1 DEF StreamInv, ShownIsReported
  <1> QED
    BY <1>2, <1>3 DEF StreamInv

\* A failure counts the collected text.
LEMMA Stopped ==
  ASSUME StreamInv, NEW how \in Over, StopWith(how), QueueOK'
  PROVE  StreamInv'
  <1>1. /\ UNCHANGED <<content, guard, shown>> /\ outcome' = how
        /\ reported' = (how \in Failures /\ content # <<>>)
    BY DEF StopWith, EndAs
  <1>2. AgentOK' /\ Tracked'
    BY <1>1 DEF StreamInv, AgentOK, Tracked
  <1>3. Held'
    BY <1>1 DEF StreamInv, Held, Over, Under, Failures
  <1>4. ~LooksLikeEcho(shown)'
    BY <1>1 DEF StreamInv
  <1>5. ShownIsReported'
    <2>1. SUFFICES ASSUME how \in Failures, Trimmed(shown) # <<>> PROVE content # <<>>
      BY <1>1 DEF ShownIsReported
    <2>2. Solid(shown)
      BY <2>1, BlankText
    <2>3. Solid(content)
      BY <2>2 DEF StreamInv, Tracked
    <2> QED
      BY <2>3, EmptyText
  <1> QED
    BY <1>2, <1>3, <1>4, <1>5 DEF StreamInv

\* push, by the guard's mode and what it makes of the text.
LEMMA PushIs ==
  ASSUME guard \in Guards, NEW t \in Tokens
  PROVE  LET pending == Append(guard.pending, t)
             solid == Stripped(pending)
             g == Push(t).guard
             w == Push(t).show
             hold == CouldBeMarker(solid) \/ (IsMarker(solid) /\ ~LongEnough(solid))
         IN  /\ g \in Guards
             /\ guard.mode = "suppressing" => g = guard /\ w = <<>>
             /\ guard.mode # "suppressing" => g.run = Run(t)
             /\ guard.mode # "suppressing" /\ Recognises(t)
                  => g.pending = <<>> /\ g.mode = "suppressing" /\ g.matched /\ w = <<>>
             /\ guard.mode = "emitting" /\ ~Recognises(t)
                  => g.pending = guard.pending /\ g.mode = "emitting" /\ w = <<t>>
             /\ guard.mode = "buffering" /\ ~Recognises(t) /\ hold
                  => g.pending = pending /\ g.mode = "buffering" /\ w = <<>>
             /\ guard.mode = "buffering" /\ ~Recognises(t) /\ ~hold /\ IsMarker(solid)
                  => g.pending = <<>> /\ g.mode = "suppressing" /\ w = <<>>
             /\ guard.mode = "buffering" /\ ~Recognises(t) /\ ~hold /\ ~IsMarker(solid)
                  => g.pending = <<>> /\ g.mode = "emitting" /\ w = pending
  <1> DEFINE pending == Append(guard.pending, t)
             solid == Stripped(pending)
             hold == CouldBeMarker(solid) \/ (IsMarker(solid) /\ ~LongEnough(solid))
             seen == [guard EXCEPT !.run = Run(t)]
             a == [seen EXCEPT !.pending = <<>>, !.mode = "suppressing", !.matched = TRUE]
             b == [seen EXCEPT !.pending = pending]
             c == [seen EXCEPT !.pending = <<>>, !.mode = "suppressing"]
             d == [seen EXCEPT !.pending = <<>>, !.mode = "emitting"]
  <1>1. /\ guard.pending \in Seq(Tokens) /\ guard.run \in Nat /\ guard.matched \in BOOLEAN
        /\ guard.mode \in {"buffering", "emitting", "suppressing"}
    BY DEF Guards
  <1>2. Run(t) \in Nat
    BY <1>1 DEF Run
  <1>3. pending \in Seq(Tokens) /\ <<>> \in Seq(Tokens)
    BY <1>1
  <1>4. /\ seen \in Guards /\ seen.run = Run(t) /\ seen.pending = guard.pending
        /\ seen.mode = guard.mode
    BY <1>2 DEF Guards
  <1>5. Push(t) = IF guard.mode = "suppressing" THEN [guard |-> guard, show |-> <<>>]
                  ELSE IF Recognises(t) THEN [guard |-> a, show |-> <<>>]
                  ELSE IF guard.mode = "emitting" THEN [guard |-> seen, show |-> <<t>>]
                  ELSE IF hold THEN [guard |-> b, show |-> <<>>]
                  ELSE IF IsMarker(solid) THEN [guard |-> c, show |-> <<>>]
                  ELSE [guard |-> d, show |-> pending]
    BY DEF Push
  <1> HIDE DEF seen, pending, solid
  <1>6. /\ a \in Guards /\ a.run = Run(t) /\ a.pending = <<>> /\ a.mode = "suppressing"
        /\ a.matched = TRUE
    BY <1>3, <1>4 DEF Guards
  <1>7. b \in Guards /\ b.run = Run(t) /\ b.pending = pending /\ b.mode = guard.mode
    BY <1>3, <1>4 DEF Guards
  <1>8. c \in Guards /\ c.run = Run(t) /\ c.pending = <<>> /\ c.mode = "suppressing"
    BY <1>3, <1>4 DEF Guards
  <1>9. d \in Guards /\ d.run = Run(t) /\ d.pending = <<>> /\ d.mode = "emitting"
    BY <1>3, <1>4 DEF Guards
  <1> DEFINE p == Push(t)
  <1>10. \/ guard.mode = "suppressing" /\ p.guard = guard /\ p.show = <<>>
         \/ guard.mode # "suppressing" /\ Recognises(t) /\ p.guard = a /\ p.show = <<>>
         \/ guard.mode = "emitting" /\ ~Recognises(t) /\ p.guard = seen /\ p.show = <<t>>
         \/ guard.mode = "buffering" /\ ~Recognises(t) /\ hold /\ p.guard = b /\ p.show = <<>>
         \/ guard.mode = "buffering" /\ ~Recognises(t) /\ ~hold /\ IsMarker(solid)
              /\ p.guard = c /\ p.show = <<>>
         \/ guard.mode = "buffering" /\ ~Recognises(t) /\ ~hold /\ ~IsMarker(solid)
              /\ p.guard = d /\ p.show = pending
    BY <1>1, <1>5
  <1> HIDE DEF a, b, c, d, hold, p
  <1> QED
    BY <1>4, <1>6, <1>7, <1>8, <1>9, <1>10 DEF p, hold, solid, pending

\* push: whatever comes next, the guard stays right about the screen.
LEMMA PushStep ==
  ASSUME StreamInv, outcome = "streaming", NEW t \in Tokens
  PROVE  LET g == Push(t).guard
             w == Push(t).show
         IN  /\ g \in Guards /\ w \in Seq(Tokens)
             /\ (Solid(w) \/ Solid(g.pending)) => Solid(guard.pending) \/ t # "blank"
             /\ g.mode # "buffering" => g.pending = <<>>
             /\ Short(g.pending)
             /\ Screen(g.mode, shown \o w)
  <1> DEFINE pending == Append(guard.pending, t)
             solid == Stripped(pending)
  <1>1. /\ guard \in Guards /\ shown \in Seq(Tokens) /\ guard.pending \in Seq(Tokens)
        /\ Short(guard.pending)
        /\ guard.mode # "buffering" => guard.pending = <<>>
        /\ Screen(guard.mode, shown)
    BY DEF StreamInv, AgentOK, Held, Guards, Under
  <1>2. shown \o <<>> = shown
    BY <1>1, JoinedText, EmptyText
  <1>3. CASE guard.mode = "suppressing"
    <2>1. Push(t).guard = guard /\ Push(t).show = <<>>
      BY <1>1, <1>3, PushIs
    <2> QED
      BY <1>1, <1>2, <2>1, EmptyText
  <1>4. CASE guard.mode # "suppressing" /\ Recognises(t)
    <2>1. /\ Push(t).guard \in Guards /\ Push(t).guard.pending = <<>>
          /\ Push(t).guard.mode = "suppressing" /\ Push(t).show = <<>>
      BY <1>1, <1>4, PushIs
    <2>2. Screen(Push(t).guard.mode, shown \o Push(t).show)
      BY <1>1, <1>2, <2>1 DEF Screen
    <2> QED
      BY <2>1, <2>2, EmptyText
  <1>5. CASE guard.mode = "emitting" /\ ~Recognises(t)
    <2>1. /\ Push(t).guard \in Guards /\ Push(t).guard.pending = guard.pending
          /\ Push(t).guard.mode = "emitting" /\ Push(t).show = <<t>>
      BY <1>1, <1>5, PushIs
    <2>2. <<t>> \in Seq(Tokens) /\ (Solid(<<t>>) <=> t # "blank")
      BY <1>1, <1>5, AppendedText
    <2>3. Harmless(shown \o <<t>>)
      BY <1>1, <1>5, <2>2, HarmlessGrows DEF Screen
    <2>4. Screen(Push(t).guard.mode, shown \o Push(t).show)
      BY <1>5, <2>1, <2>3 DEF Screen
    <2> QED
      BY <1>1, <1>5, <2>1, <2>2, <2>4, EmptyText
  <1>6. CASE guard.mode = "buffering" /\ ~Recognises(t)
    <2>1. /\ pending \in Seq(Tokens)
          /\ Solid(pending) => Solid(guard.pending) \/ t # "blank"
      BY <1>1, <1>6, AppendedText
    <2>2. shown = <<>> /\ <<>> \o pending = pending
      BY <1>1, <1>6, <2>1, JoinedText, EmptyText DEF Screen
    <2>3. CASE CouldBeMarker(solid) \/ (IsMarker(solid) /\ ~LongEnough(solid))
      <3>1. Push(t).show = <<>>
        BY <1>1, <1>6, <2>3, PushIs
      <3>2. /\ Push(t).guard \in Guards /\ Push(t).guard.pending = pending
            /\ Push(t).guard.mode = "buffering"
        BY <1>1, <1>6, <2>3, PushIs
      <3>3. Short(pending)
        <4>1. CASE CouldBeMarker(solid)
          BY <4>1 DEF CouldBeMarker, Short
        <4>2. CASE IsMarker(solid) /\ ~LongEnough(solid)
          <5>1. Len(solid) \in Nat
            <6>1. CASE Solid(pending)
              <7>1. PICK f \in 1..Len(pending) : Begins(pending, f)
                BY <2>1, <6>1, SolidBegins
              <7>2. solid = SubSeq(pending, f, Len(pending))
                BY <2>1, <7>1, StrippedIs
              <7> QED
                BY <2>1, <7>1, <7>2
            <6>2. CASE ~Solid(pending)
              BY <6>2, BlankText
            <6> QED
              BY <6>1, <6>2
          <5> QED
            BY <4>2, <5>1 DEF LongEnough, Short
        <4> QED
          BY <2>3, <4>1, <4>2
      <3>4. Screen(Push(t).guard.mode, shown \o Push(t).show)
        BY <1>2, <2>2, <3>1, <3>2 DEF Screen
      <3> QED
        BY <2>1, <3>1, <3>2, <3>3, <3>4, EmptyText
    <2>4. CASE IsMarker(solid) /\ LongEnough(solid)
      <3>1. ~CouldBeMarker(solid)
        BY <2>4, NoLongBeginning
      <3>2. /\ Push(t).guard \in Guards /\ Push(t).guard.pending = <<>>
            /\ Push(t).guard.mode = "suppressing" /\ Push(t).show = <<>>
        BY <1>1, <1>6, <2>4, <3>1, PushIs
      <3>3. Screen(Push(t).guard.mode, shown \o Push(t).show)
        BY <1>2, <2>2, <3>2 DEF Screen
      <3> QED
        BY <3>2, <3>3, EmptyText
    <2>5. CASE ~CouldBeMarker(solid) /\ ~IsMarker(solid)
      <3>1. Push(t).show = pending
        BY <1>1, <1>6, <2>5, PushIs
      <3>2. /\ Push(t).guard \in Guards /\ Push(t).guard.pending = <<>>
            /\ Push(t).guard.mode = "emitting"
        BY <1>1, <1>6, <2>5, PushIs
      <3>3. Harmless(pending)
        BY <2>1, <2>5, LetGo
      <3>4. Screen(Push(t).guard.mode, shown \o Push(t).show)
        BY <2>2, <3>1, <3>2, <3>3 DEF Screen
      <3> QED
        BY <2>1, <3>1, <3>2, <3>4, EmptyText
    <2> QED
      BY <2>3, <2>4, <2>5
  <1> QED
    BY <1>1, <1>3, <1>4, <1>5, <1>6 DEF Guards

LEMMA TakeStep == StreamInv /\ Take => StreamInv'
  <1> SUFFICES ASSUME StreamInv, Take PROVE StreamInv'
    OBVIOUS
  <1>1. PICK E : queue \in Seq(E) /\ \A e \in E : e.kind = "text" => e.t \in Tokens
    BY DEF StreamInv, QueueOK
  <1>2. outcome = "streaming" /\ queue # <<>> /\ queue' = Tail(queue)
    BY DEF Take
  <1>3. Head(queue) \in E /\ Tail(queue) \in Seq(E)
    BY <1>1, <1>2
  <1>4. QueueOK'
    BY <1>1, <1>2, <1>3 DEF QueueOK
  <1>5. CASE cancelled
    <2>1. StopWith("cancelled")
      BY <1>5 DEF Take
    <2> QED
      BY <1>4, <2>1, Stopped DEF Over
  <1>6. CASE ~cancelled /\ Head(queue).kind # "text"
    <2>1. UNCHANGED <<content, guard, shown, outcome, reported>>
      BY <1>6 DEF Take
    <2>2. AgentOK' /\ Tracked' /\ Held'
      BY <2>1 DEF StreamInv, AgentOK, Tracked, Held
    <2>3. ~LooksLikeEcho(shown)' /\ ShownIsReported'
      BY <2>1 DEF StreamInv, ShownIsReported
    <2> QED
      BY <1>4, <2>2, <2>3 DEF StreamInv
  <1>7. CASE ~cancelled /\ Head(queue).kind = "text"
    <2> DEFINE t == Head(queue).t
               g == Push(t).guard
               w == Push(t).show
    <2>1. t \in Tokens
      BY <1>1, <1>3, <1>7
    <2>2. /\ content' = Append(content, t) /\ guard' = g /\ shown' = shown \o w
          /\ UNCHANGED <<outcome, reported>>
      BY <1>7 DEF Take
    <2>3. /\ g \in Guards /\ w \in Seq(Tokens)
          /\ (Solid(w) \/ Solid(g.pending)) => Solid(guard.pending) \/ t # "blank"
          /\ g.mode # "buffering" => g.pending = <<>>
          /\ Short(g.pending)
          /\ Screen(g.mode, shown \o w)
      <3> HIDE DEF t
      <3> QED
        BY <1>2, <2>1, PushStep
    <2> HIDE DEF g, w, t
    <2>4. /\ content \in Seq(Tokens) /\ shown \in Seq(Tokens)
          /\ Solid(shown) \/ Solid(guard.pending) => Solid(content)
      BY DEF StreamInv, AgentOK, Tracked
    <2>5. /\ shown \o w \in Seq(Tokens)
          /\ Solid(shown \o w) => Solid(shown) \/ Solid(w)
      BY <2>3, <2>4, JoinedText
    <2>6. /\ Append(content, t) \in Seq(Tokens)
          /\ Solid(content) \/ t # "blank" => Solid(Append(content, t))
      BY <2>1, <2>4, AppendedText
    <2>7. AgentOK'
      BY <1>2, <2>2, <2>3, <2>5, <2>6 DEF AgentOK, Under
    <2>8. Tracked'
      BY <2>2, <2>3, <2>4, <2>5, <2>6 DEF Tracked
    <2>10. Held'
      BY <2>2, <2>3 DEF Held
    <2>11. ~LooksLikeEcho(shown \o w)
      <3>1. shown \o w = <<>> \/ Harmless(shown \o w)
        BY <2>3 DEF Screen
      <3> QED
        BY <2>5, <3>1, EmptyText, HarmlessNoEcho
    <2>12. ShownIsReported'
      BY <1>2, <2>2 DEF ShownIsReported, Failures
    <2> QED
      BY <1>4, <2>2, <2>7, <2>8, <2>10, <2>11, <2>12 DEF StreamInv
  <1> QED
    BY <1>5, <1>6, <1>7

\* finish: what the guard held goes to the screen and is at most a marker.
LEMMA FinishStep ==
  ASSUME StreamInv, NEW offered \in BOOLEAN, Finish(offered)
  PROVE  StreamInv'
  <1> DEFINE screen == shown \o Flushed
  <1>1. /\ content \in Seq(Tokens) /\ shown \in Seq(Tokens) /\ guard \in Guards
        /\ guard.pending \in Seq(Tokens)
        /\ Short(guard.pending) /\ (guard.mode # "buffering" => guard.pending = <<>>)
        /\ (Solid(shown) \/ Solid(guard.pending) => Solid(content))
        /\ outcome = "streaming" /\ Screen(guard.mode, shown) /\ ~LooksLikeEcho(shown)
    BY DEF StreamInv, AgentOK, Tracked, Held, Guards, Under, Finish
  <1>2. Flushed = guard.pending
    BY <1>1 DEF Flushed
  <1>3. /\ guard' \in Guards /\ guard'.pending = <<>>
    BY <1>1, <1>2, EmptyText DEF Finish, Guards
  <1>4. /\ screen \in Seq(Tokens) /\ (Solid(screen) => Solid(content))
    BY <1>1, <1>2, JoinedText
  <1>5. ~LooksLikeEcho(screen)
    <2>1. CASE guard.mode = "buffering"
      <3>1. screen = guard.pending
        BY <1>1, <1>2, <2>1, JoinedText DEF Screen
      <3> QED
        BY <1>1, <3>1, ShortNoEcho
    <2>2. CASE guard.mode # "buffering"
      <3>1. screen = shown
        BY <1>1, <1>2, <2>2, JoinedText
      <3> QED
        BY <1>1, <3>1
    <2> QED
      BY <2>1, <2>2
  <1>6. QueueOK'
    BY DEF Finish, StreamInv, QueueOK
  <1> HIDE DEF screen
  <1>7. ASSUME NEW how \in Over, outcome' = how, shown' = screen, content' = content,
               how \in Failures /\ how # "empty" => (reported' = (content # <<>>)),
               how = "empty" => Trimmed(content) = <<>>
        PROVE  StreamInv'
    <2>1. AgentOK' /\ Tracked'
      BY <1>1, <1>3, <1>4, <1>7, EmptyText DEF AgentOK, Tracked
    <2>2. Held'
      BY <1>3, <1>7, EmptyText DEF Held, Over, Under, Failures
    <2>3. ~LooksLikeEcho(shown)'
      BY <1>5, <1>7
    <2>4. ShownIsReported'
      <3>1. SUFFICES ASSUME how \in Failures, Trimmed(screen) # <<>> PROVE reported'
        BY <1>7 DEF ShownIsReported
      <3>2. Solid(content)
        BY <1>4, <3>1, BlankText
      <3>3. content # <<>> /\ Trimmed(content) # <<>>
        BY <1>1, <3>2, EmptyText, TrimmedSolid
      <3> QED
        BY <1>7, <3>1, <3>3
    <2> QED
      BY <1>6, <2>1, <2>2, <2>3, <2>4 DEF StreamInv
  <1>8. CASE cancelled
    BY <1>7, <1>8 DEF Finish, EndAs, screen, Over, Failures
  <1>9. CASE ~cancelled /\ offered /\ Leaks /\ Head(Blocks(content)) = "dsml"
    <2>1. outcome' = "ok" /\ shown' = <<>> /\ content' = <<>>
      BY <1>9 DEF Finish, EndAs
    <2>2. AgentOK' /\ Tracked'
      BY <1>3, <2>1, EmptyText DEF AgentOK, Tracked, Over
    <2>3. Held'
      BY <1>3, <2>1, EmptyText DEF Held, Under
    <2>4. ~LooksLikeEcho(shown)' /\ ShownIsReported'
      BY <2>1, EmptyText DEF ShownIsReported, Failures
    <2> QED
      BY <1>6, <2>2, <2>3, <2>4 DEF StreamInv
  <1>10. CASE ~cancelled /\ ~(offered /\ Leaks /\ Head(Blocks(content)) = "dsml")
    <2>1. shown' = screen /\ content' = content
      BY <1>10 DEF Finish, screen
    <2>2. \/ EndAs("leaked", content # <<>>)
          \/ EndAs("echo", content # <<>>)
          \/ Trimmed(content) = <<>> /\ EndAs("empty", FALSE)
          \/ EndAs("ok", TRUE)
      BY <1>10 DEF Finish
    <2>3. CASE EndAs("leaked", content # <<>>)
      BY <1>7, <2>1, <2>3 DEF EndAs, Over, Failures
    <2>4. CASE EndAs("echo", content # <<>>)
      BY <1>7, <2>1, <2>4 DEF EndAs, Over, Failures
    <2>5. CASE Trimmed(content) = <<>> /\ EndAs("empty", FALSE)
      BY <1>7, <2>1, <2>5 DEF EndAs, Over, Failures
    <2>6. CASE EndAs("ok", TRUE)
      BY <1>7, <2>1, <2>6 DEF EndAs, Over, Failures
    <2> QED
      BY <2>2, <2>3, <2>4, <2>5, <2>6
  <1> QED
    BY <1>8, <1>9, <1>10

LEMMA OpenedStep == StreamInv /\ Opened => StreamInv'
  <1> SUFFICES ASSUME StreamInv, Opened PROVE StreamInv'
    OBVIOUS
  <1>1. /\ UNCHANGED <<content, guard, shown, reported, queue>>
        /\ outcome = "opening" /\ outcome' = "streaming"
    BY DEF Opened
  <1>2. AgentOK' /\ QueueOK' /\ Tracked'
    BY <1>1 DEF StreamInv, AgentOK, QueueOK, Tracked, Under
  <1>3. Held'
    BY <1>1 DEF StreamInv, Held, Under
  <1>4. ~LooksLikeEcho(shown)' /\ ShownIsReported'
    BY <1>1 DEF StreamInv, ShownIsReported, Failures
  <1> QED
    BY <1>2, <1>3, <1>4 DEF StreamInv

\* An attempt that ends without looking at the answer.
LEMMA StopSteps == StreamInv /\ (OpenFailed \/ StreamFails \/ Timeout \/ NoticeCancel) => StreamInv'
  <1> SUFFICES ASSUME StreamInv, OpenFailed \/ StreamFails \/ Timeout \/ NoticeCancel PROVE StreamInv'
    OBVIOUS
  <1>1. PICK how \in Over : StopWith(how)
    <2>1. {"failed", "disconnected", "timeout", "cancelled"} \subseteq Over
      BY DEF Over, Failures
    <2>2. StopWith("failed") \/ StopWith("disconnected") \/ StopWith("timeout") \/ StopWith("cancelled")
      BY DEF OpenFailed, StreamFails, Timeout, NoticeCancel
    <2> QED
      BY <2>1, <2>2
  <1>2. QueueOK'
    <2>1. queue' = queue
      BY DEF OpenFailed, StreamFails, Timeout, NoticeCancel
    <2> QED
      BY <2>1 DEF StreamInv, QueueOK
  <1> QED
    BY <1>1, <1>2, Stopped

LEMMA QuietSteps ==
  ASSUME StreamInv, UNCHANGED <<queue, agent>>
  PROVE  StreamInv'
  <1>1. QueueOK'
    BY DEF StreamInv, QueueOK
  <1> QED
    BY <1>1, AgentRests

\* A decoder step leaves the agent alone, and its events hold tokens only.
LEMMA DecodeEvents ==
  ASSUME StreamInv, UNCHANGED agent, NEW E, queue' \in Seq(E),
         \A e \in E : e.kind = "text" => e.t \in Tokens
  PROVE  StreamInv'
  <1>1. QueueOK'
    BY DEF QueueOK
  <1> QED
    BY <1>1, AgentRests

LEMMA DecodeNothing ==
  ASSUME StreamInv, UNCHANGED agent, queue' = <<>>
  PROVE  StreamInv'
  <1>1. queue' \in Seq(Tokens \cap {}) /\ \A e \in Tokens \cap {} : e.kind = "text" => e.t \in Tokens
    OBVIOUS
  <1> QED
    BY <1>1, DecodeEvents

LEMMA DecodeOne ==
  ASSUME StreamInv, UNCHANGED agent, NEW e, queue' = <<e>>, e.kind = "text" => e.t \in Tokens
  PROVE  StreamInv'
  <1> DEFINE E == {e}
  <1>1. queue' \in Seq(E) /\ \A x \in E : x.kind = "text" => x.t \in Tokens
    OBVIOUS
  <1> HIDE DEF E
  <1> QED
    BY <1>1, DecodeEvents

\* The calls the decoder hands on are a sequence, and hold no text.
LEMMA HandedCalls ==
  \E E : Handed \in Seq(E) /\ \A e \in E : e.kind = "text" => e.t \in Tokens
  <1> DEFINE named == {i \in Index : acc[i].seen /\ \A j \in 1..i : acc[j].seen => acc[j].head}
             n == Cardinality(named)
             E == {[kind |-> "call", call |-> Finished(Nth(named, k))] : k \in 1..n}
  <1>1. n \in Nat
    <2>1. IsFiniteSet(Index)
      BY FS_Interval, SizesAssumption DEF Index
    <2>2. IsFiniteSet(named)
      BY <2>1, FS_Subset
    <2> QED
      BY <2>2, FS_CardinalityType
  <1>2. FinishedCalls = [k \in 1..n |-> [kind |-> "call", call |-> Finished(Nth(named, k))]]
    BY DEF FinishedCalls
  <1>3. ASSUME NEW e \in E PROVE e.kind # "text"
    <2>1. PICK k \in 1..n : e = [kind |-> "call", call |-> Finished(Nth(named, k))]
      OBVIOUS
    <2>2. e.kind = "call"
      BY <2>1
    <2> QED
      BY <2>2
  <1>4. FinishedCalls \in Seq(E)
    <2> HIDE DEF n, named
    <2>1. [k \in 1..n |-> [kind |-> "call", call |-> Finished(Nth(named, k))]] \in [1..n -> E]
      OBVIOUS
    <2> HIDE DEF E
    <2> QED
      BY <1>1, <1>2, <2>1
  <1>5. <<>> \in Seq(E)
    OBVIOUS
  <1>6. Handed \in Seq(E)
    BY <1>4, <1>5 DEF Handed
  <1> HIDE DEF E
  <1> QED
    BY <1>3, <1>6

LEMMA DecodeSteps ==
  StreamInv /\ (DecodeText \/ DecodeAlive \/ DecodeCall \/ DecodeItem \/ DecodeCut \/ DecodeStop
      \/ DecodeEnd \/ DecodeBad)
    => StreamInv'
  <1> SUFFICES ASSUME StreamInv,
                      DecodeText \/ DecodeAlive \/ DecodeCall \/ DecodeItem \/ DecodeCut
                        \/ DecodeStop \/ DecodeEnd \/ DecodeBad
               PROVE  StreamInv'
    OBVIOUS
  <1>0. UNCHANGED agent
    BY DEF DecodeText, DecodeAlive, DecodeCall, DecodeItem, DecodeCut, DecodeStop,
       DecodeEnd, DecodeBad,
       Decode
  <1>1. CASE DecodeText
    <2>1. PICK t \in Tokens : queue' = <<>> \/ queue' = <<[kind |-> "text", t |-> t]>>
      BY <1>1 DEF DecodeText, Decode
    <2>2. [kind |-> "text", t |-> t].t \in Tokens
      BY <2>1
    <2> QED
      BY <1>0, <2>1, <2>2, DecodeNothing, DecodeOne
  <1>2. CASE DecodeAlive
    <2>1. queue' = <<>> \/ queue' = <<[kind |-> "alive"]>>
      BY <1>2 DEF DecodeAlive, Decode
    <2>2. [kind |-> "alive"].kind # "text"
      OBVIOUS
    <2> QED
      BY <1>0, <2>1, <2>2, DecodeNothing, DecodeOne
  <1>3. CASE DecodeCall \/ DecodeCut \/ DecodeStop \/ DecodeBad
    <2>1. queue' = <<>>
      BY <1>3 DEF DecodeCall, DecodeCut, DecodeStop, DecodeBad, Decode
    <2> QED
      BY <1>0, <2>1, DecodeNothing
  <1>4. CASE DecodeItem
    <2>1. PICK i \in Index : queue' = <<[kind |-> "call", call |-> Call(i, Frags, FALSE)]>>
      BY <1>4 DEF DecodeItem, Decode
    <2>2. [kind |-> "call", call |-> Call(i, Frags, FALSE)].kind # "text"
      OBVIOUS
    <2> QED
      BY <1>0, <2>1, <2>2, DecodeOne
  <1>5. CASE DecodeEnd
    <2>1. PICK E : Handed \in Seq(E) /\ \A e \in E : e.kind = "text" => e.t \in Tokens
      BY HandedCalls
    <2>2. queue' = Handed
      BY <1>5 DEF DecodeEnd, Decode
    <2> QED
      BY <1>0, <2>1, <2>2, DecodeEvents
  <1> QED
    BY <1>1, <1>2, <1>3, <1>4, <1>5

-----------------------------------------------------------------------------
LEMMA StreamInit == Init => StreamInv
  <1> SUFFICES ASSUME Init PROVE StreamInv
    OBVIOUS
  <1>1. /\ content = <<>> /\ shown = <<>> /\ queue = <<>> /\ outcome = "opening"
        /\ guard = [pending |-> <<>>, mode |-> "buffering", run |-> 0, matched |-> FALSE]
    BY DEF Init
  <1>2. guard \in Guards /\ guard.pending = <<>> /\ guard.mode = "buffering"
    BY <1>1, EmptyText DEF Guards
  <1>3. AgentOK /\ Tracked
    BY <1>1, <1>2, EmptyText DEF AgentOK, Tracked, Under
  <1>4. Held
    BY <1>1, <1>2, EmptyText DEF Held, Screen
  <1>5. QueueOK
    <2>1. queue \in Seq({}) /\ \A e \in {} : e.kind = "text" => e.t \in Tokens
      BY <1>1
    <2> QED
      BY <2>1 DEF QueueOK
  <1>6. ~LooksLikeEcho(shown) /\ ShownIsReported
    BY <1>1, EmptyText DEF ShownIsReported, Failures
  <1> QED
    BY <1>3, <1>4, <1>5, <1>6 DEF StreamInv

LEMMA StreamNext == StreamInv /\ [Next]_vars => StreamInv'
  <1> SUFFICES ASSUME StreamInv, [Next]_vars PROVE StreamInv'
    OBVIOUS
  <1>1. CASE UNCHANGED vars
    BY <1>1, QuietSteps DEF vars
  <1>2. CASE \E l \in Lines : Emit(l)
    BY <1>2, QuietSteps DEF Emit
  <1>3. CASE \E how \in {"whole", "half"} : Close(how)
    BY <1>3, QuietSteps DEF Close
  <1>4. CASE \E n \in 1..(2 * MaxAhead) : Chunk(n)
    BY <1>4, QuietSteps DEF Chunk
  <1>5. CASE DecodeText \/ DecodeAlive \/ DecodeCall \/ DecodeItem \/ DecodeCut \/ DecodeStop
      \/ DecodeEnd \/ DecodeBad
    BY <1>5, DecodeSteps
  <1>6. CASE Disconnect
    BY <1>6, QuietSteps DEF Disconnect
  <1>7. CASE Opened
    BY <1>7, OpenedStep
  <1>8. CASE OpenFailed \/ StreamFails \/ Timeout \/ NoticeCancel
    BY <1>8, StopSteps
  <1>9. CASE Take
    BY <1>9, TakeStep
  <1>10. CASE \E offered \in BOOLEAN : Finish(offered)
    BY <1>10, FinishStep
  <1>11. CASE Cancel
    BY <1>11, QuietSteps DEF Cancel
  <1>12. CASE Done
    BY <1>12, QuietSteps DEF Done, vars
  <1> QED
    BY <1>1, <1>2, <1>3, <1>4, <1>5, <1>6, <1>7, <1>8, <1>9, <1>10, <1>11, <1>12 DEF Next

LEMMA StreamInvariant == Spec => []StreamInv
  BY StreamInit, StreamNext, PTL DEF Spec

-----------------------------------------------------------------------------
(* Nothing is lost *)

\* s begins with a marker, however much white space is around it.
Marked(s) ==
    \E f \in 1..Len(s) : Begins(s, f) /\ f < Len(s) /\ s[f] = "pre" /\ s[f + 1] = "post"

\* In each mode of the guard, what became of the collected text.
Faithful ==
    outcome \in Under =>
        /\ guard.mode = "buffering" => shown = <<>> /\ guard.pending = content
        /\ guard.mode = "emitting" => shown = content
        /\ guard.mode = "suppressing" => guard.matched \/ Marked(content)

FaithInv == Faithful /\ NothingHidden

LEMMA MarkedGrows ==
  ASSUME NEW s \in Seq(Tokens), NEW t \in Tokens, Marked(s)
  PROVE  Marked(Append(s, t))
  <1>1. PICK f \in 1..Len(s) : Begins(s, f) /\ f < Len(s) /\ s[f] = "pre" /\ s[f + 1] = "post"
    BY DEF Marked
  <1>2. Len(Append(s, t)) = Len(s) + 1 /\ \A k \in 1..Len(s) : Append(s, t)[k] = s[k]
    OBVIOUS
  <1>3. Begins(Append(s, t), f)
    BY <1>1, <1>2 DEF Begins
  <1> QED
    BY <1>1, <1>2, <1>3 DEF Marked

\* What the guard suppresses without a fingerprint begins with a marker.
LEMMA StrippedMarker ==
  ASSUME NEW s \in Seq(Tokens), IsMarker(Stripped(s))
  PROVE  Marked(s)
  <1>1. Solid(s)
    BY BlankText DEF IsMarker
  <1>2. PICK f \in 1..Len(s) : Begins(s, f)
    BY <1>1, SolidBegins
  <1>3. Stripped(s) = SubSeq(s, f, Len(s))
    BY <1>2, StrippedIs
  <1>4. Len(Stripped(s)) = Len(s) - f + 1
    BY <1>2, <1>3
  <1>5. f < Len(s)
    BY <1>2, <1>4 DEF IsMarker
  <1>6. Stripped(s)[1] = s[f] /\ Stripped(s)[2] = s[f + 1]
    BY <1>2, <1>3, <1>5
  <1> QED
    BY <1>2, <1>5, <1>6 DEF Marked, IsMarker

\* White space at the end does not hide a marker from the last check.
LEMMA TrimmedMarker ==
  ASSUME NEW s \in Seq(Tokens), Marked(s)
  PROVE  IsMarker(Trimmed(s))
  <1>1. PICK f \in 1..Len(s) : Begins(s, f) /\ f < Len(s) /\ s[f] = "pre" /\ s[f + 1] = "post"
    BY DEF Marked
  <1>2. PICK l \in f..Len(s) :
            /\ Trimmed(s) = SubSeq(SubSeq(s, 1, l), f, l)
            /\ \A j \in 1..Len(s) : s[j] # "blank" => j <= l
    BY <1>1, TrimmedIs
  <1>3. f + 1 <= l
    BY <1>1, <1>2
  <1>4. Len(Trimmed(s)) = l - f + 1 /\ Trimmed(s)[1] = s[f] /\ Trimmed(s)[2] = s[f + 1]
    BY <1>1, <1>2, <1>3
  <1> QED
    BY <1>1, <1>3, <1>4 DEF IsMarker

\* push: the token is on the screen, held back, or part of an echo.
LEMMA FaithfulPush ==
  ASSUME StreamInv, Faithful, outcome = "streaming", NEW t \in Tokens
  PROVE  LET g == Push(t).guard
             w == Push(t).show
         IN  /\ g.mode = "buffering" => shown \o w = <<>> /\ g.pending = Append(content, t)
             /\ g.mode = "emitting" => shown \o w = Append(content, t)
             /\ g.mode = "suppressing" => g.matched \/ Marked(Append(content, t))
  <1> DEFINE pending == Append(guard.pending, t)
             solid == Stripped(pending)
  <1>1. /\ guard \in Guards /\ shown \in Seq(Tokens) /\ content \in Seq(Tokens)
        /\ guard.pending \in Seq(Tokens)
    BY DEF StreamInv, AgentOK, Guards
  <1>2. /\ guard.mode = "buffering" => shown = <<>> /\ guard.pending = content
        /\ guard.mode = "emitting" => shown = content
        /\ guard.mode = "suppressing" => guard.matched \/ Marked(content)
    BY DEF Faithful, Under
  <1>3. shown \o <<>> = shown /\ content \o <<t>> = Append(content, t)
    BY <1>1
  <1>4. CASE guard.mode = "suppressing"
    <2>1. Push(t).guard = guard
      BY <1>1, <1>4, PushIs
    <2> QED
      BY <1>1, <1>2, <1>4, <2>1, MarkedGrows
  <1>5. CASE guard.mode # "suppressing" /\ Recognises(t)
    BY <1>1, <1>5, PushIs
  <1>6. CASE guard.mode = "emitting" /\ ~Recognises(t)
    <2>1. Push(t).guard.mode = "emitting" /\ Push(t).show = <<t>>
      BY <1>1, <1>6, PushIs
    <2> QED
      BY <1>2, <1>3, <1>6, <2>1
  <1>7. CASE guard.mode = "buffering" /\ ~Recognises(t)
    <2>1. /\ pending = Append(content, t) /\ pending \in Seq(Tokens)
          /\ shown = <<>> /\ <<>> \o pending = pending
      BY <1>1, <1>2, <1>7
    <2>2. CASE CouldBeMarker(solid) \/ (IsMarker(solid) /\ ~LongEnough(solid))
      <3>1. Push(t).show = <<>>
        BY <1>1, <1>7, <2>2, PushIs
      <3>2. Push(t).guard.pending = pending /\ Push(t).guard.mode = "buffering"
        BY <1>1, <1>7, <2>2, PushIs
      <3> QED
        BY <1>3, <2>1, <3>1, <3>2
    <2>3. CASE IsMarker(solid) /\ LongEnough(solid)
      <3>1. ~CouldBeMarker(solid)
        BY <2>3, NoLongBeginning
      <3>2. Push(t).guard.mode = "suppressing"
        BY <1>1, <1>7, <2>3, <3>1, PushIs
      <3>3. Marked(pending)
        BY <2>1, <2>3, StrippedMarker
      <3> QED
        BY <2>1, <3>2, <3>3
    <2>4. CASE ~CouldBeMarker(solid) /\ ~IsMarker(solid)
      <3>1. Push(t).show = pending
        BY <1>1, <1>7, <2>4, PushIs
      <3>2. Push(t).guard.mode = "emitting"
        BY <1>1, <1>7, <2>4, PushIs
      <3> QED
        BY <2>1, <3>1, <3>2
    <2> QED
      BY <2>2, <2>3, <2>4
  <1> QED
    BY <1>1, <1>4, <1>5, <1>6, <1>7 DEF Guards

LEMMA FaithfulStopped ==
  ASSUME NEW how \in Over \ {"ok"}, outcome' = how
  PROVE  FaithInv'
  BY DEF FaithInv, Faithful, NothingHidden, Over, Failures, Under

LEMMA FaithfulTake == StreamInv /\ FaithInv /\ Take => FaithInv'
  <1> SUFFICES ASSUME StreamInv, FaithInv, Take PROVE FaithInv'
    OBVIOUS
  <1>1. PICK E : queue \in Seq(E) /\ \A e \in E : e.kind = "text" => e.t \in Tokens
    BY DEF StreamInv, QueueOK
  <1>2. outcome = "streaming" /\ queue # <<>>
    BY DEF Take
  <1>3. Head(queue) \in E
    BY <1>1, <1>2
  <1>4. CASE cancelled
    <2>1. outcome' = "cancelled"
      BY <1>4 DEF Take, StopWith, EndAs
    <2> QED
      BY <2>1, FaithfulStopped DEF Over
  <1>5. CASE ~cancelled /\ Head(queue).kind # "text"
    <2>1. UNCHANGED <<content, guard, shown, outcome>>
      BY <1>5 DEF Take
    <2> QED
      BY <1>2, <2>1 DEF FaithInv, Faithful, NothingHidden
  <1>6. CASE ~cancelled /\ Head(queue).kind = "text"
    <2> DEFINE t == Head(queue).t
    <2>1. t \in Tokens
      BY <1>1, <1>3, <1>6
    <2>2. /\ content' = Append(content, t) /\ guard' = Push(t).guard
          /\ shown' = shown \o Push(t).show /\ outcome' = "streaming"
      BY <1>2, <1>6 DEF Take
    <2> HIDE DEF t
    <2>3. Faithful'
      BY <1>2, <2>1, <2>2, FaithfulPush DEF FaithInv, Faithful
    <2> QED
      BY <2>2, <2>3 DEF FaithInv, NothingHidden
  <1> QED
    BY <1>4, <1>5, <1>6

LEMMA FaithfulFinish ==
  ASSUME StreamInv, FaithInv, NEW offered \in BOOLEAN, Finish(offered)
  PROVE  FaithInv'
  <1>1. /\ guard \in Guards /\ shown \in Seq(Tokens) /\ content \in Seq(Tokens)
        /\ guard.mode # "buffering" => guard.pending = <<>>
        /\ outcome = "streaming"
    BY DEF StreamInv, AgentOK, Held, Finish
  <1>2. /\ guard.mode = "buffering" => shown \o Flushed = content
        /\ guard.mode = "emitting" => shown \o Flushed = content
        /\ guard.mode = "suppressing" => guard.matched \/ Marked(content)
    BY <1>1 DEF FaithInv, Faithful, Under, Flushed
  <1>3. outcome' \in Over
    BY DEF Finish, EndAs, Over, Failures
  <1>4. SUFFICES ASSUME outcome' = "ok", calls' = <<>>
                 PROVE  shown' = content' \/ IsMarker(Trimmed(content'))
    BY <1>3 DEF FaithInv, Faithful, NothingHidden, Under, Over, Failures
  <1>5. ~cancelled
    BY <1>4 DEF Finish, EndAs
  <1>6. ~(offered /\ Leaks /\ Head(Blocks(content)) = "dsml")
    BY <1>4, <1>5 DEF Finish
  <1>7. shown' = shown \o Flushed /\ content' = content /\ calls' = calls
    BY <1>5, <1>6 DEF Finish
  <1>8. ~guard.matched
    BY <1>4, <1>5, <1>6, <1>7 DEF Finish, EndAs
  <1>9. CASE guard.mode = "suppressing"
    BY <1>1, <1>2, <1>7, <1>8, <1>9, TrimmedMarker
  <1> QED
    BY <1>1, <1>2, <1>7, <1>9 DEF Guards

LEMMA FaithfulRests ==
  ASSUME FaithInv, UNCHANGED agent
  PROVE  FaithInv'
  BY DEF FaithInv, Faithful, NothingHidden, agent

LEMMA FaithfulInit == Init => FaithInv
  BY DEF Init, FaithInv, Faithful, NothingHidden

LEMMA FaithfulNext == StreamInv /\ FaithInv /\ [Next]_vars => FaithInv'
  <1> SUFFICES ASSUME StreamInv, FaithInv, [Next]_vars PROVE FaithInv'
    OBVIOUS
  <1>1. CASE UNCHANGED vars
    BY <1>1, FaithfulRests DEF vars
  <1>2. CASE \/ \E l \in Lines : Emit(l)
             \/ \E how \in {"whole", "half"} : Close(how)
             \/ \E n \in 1..(2 * MaxAhead) : Chunk(n)
             \/ Disconnect \/ Cancel
    BY <1>2, FaithfulRests DEF Emit, Close, Chunk, Disconnect, Cancel
  <1>3. CASE DecodeText \/ DecodeAlive \/ DecodeCall \/ DecodeItem \/ DecodeCut \/ DecodeStop
      \/ DecodeEnd \/ DecodeBad
    <2>1. UNCHANGED agent
      BY <1>3 DEF DecodeText, DecodeAlive, DecodeCall, DecodeItem, DecodeCut, DecodeStop,
         DecodeEnd,
         DecodeBad,
                  Decode
    <2> QED
      BY <2>1, FaithfulRests
  <1>4. CASE Opened
    <2>1. outcome = "opening" /\ outcome' = "streaming" /\ UNCHANGED <<content, guard, shown>>
      BY <1>4 DEF Opened
    <2> QED
      BY <2>1 DEF FaithInv, Faithful, NothingHidden, Under
  <1>5. CASE OpenFailed \/ StreamFails \/ Timeout \/ NoticeCancel
    <2>1. outcome' \in {"failed", "disconnected", "timeout", "cancelled"}
      BY <1>5 DEF OpenFailed, StreamFails, Timeout, NoticeCancel, StopWith, EndAs
    <2> QED
      BY <2>1, FaithfulStopped DEF Over, Failures
  <1>6. CASE Take
    BY <1>6, FaithfulTake
  <1>7. CASE \E offered \in BOOLEAN : Finish(offered)
    BY <1>7, FaithfulFinish
  <1>8. CASE Done
    BY <1>8, FaithfulRests DEF Done, vars
  <1> QED
    BY <1>1, <1>2, <1>3, <1>4, <1>5, <1>6, <1>7, <1>8 DEF Next

-----------------------------------------------------------------------------
(* No copy of a card *)

\* The pieces of a card in the places a..b of s, and that nothing else is there.
Bits(s, a, b) == Cardinality({j \in a..b : s[j] = "bit"})
Row(s, a, b) == \A j \in a..b : s[j] \in {"bit", "blank"}

\* No row at the end of s has more than r pieces.
Counted(s, r) == \A a \in 1..Len(s) : Row(s, a, Len(s)) => Bits(s, a, Len(s)) <= r

\* While text passes the guard, it knows how much of a card came last.
CopyInv ==
    /\ outcome \in Under /\ guard.mode # "suppressing" =>
        ~Copied(content) /\ Counted(content, guard.run)
    /\ ~Copied(shown)
    /\ outcome = "ok" /\ calls = <<>> => ~Copied(content)

LEMMA BitsFinite ==
  ASSUME NEW s, NEW a \in Nat, NEW b \in Nat
  PROVE  /\ IsFiniteSet({j \in a..b : s[j] = "bit"}) /\ Bits(s, a, b) \in Nat
         /\ b < a => Bits(s, a, b) = 0
  <1> DEFINE B == {j \in a..b : s[j] = "bit"}
  <1>1. IsFiniteSet(a..b)
    BY FS_Interval
  <1>2. IsFiniteSet(B)
    BY <1>1, FS_Subset
  <1>3. Cardinality(B) \in Nat
    BY <1>2, FS_CardinalityType
  <1>4. ASSUME b < a PROVE Cardinality(B) = 0
    <2>1. B = {}
      BY <1>4
    <2> QED
      BY <2>1, FS_EmptySet
  <1> QED
    BY <1>2, <1>3, <1>4 DEF Bits

LEMMA CopiedIs ==
  ASSUME NEW s
  PROVE  Copied(s) <=> \/ \E k \in 1..Len(s) : s[k] = "echo"
                       \/ \E a, b \in 1..Len(s) : Row(s, a, b) /\ Bits(s, a, b) >= EchoLen
  BY Zenon DEF Copied, Row, Bits

LEMMA NoBits ==
  ASSUME NEW s \in Seq(Tokens), \A k \in 1..Len(s) : s[k] \notin {"bit", "echo"}
  PROVE  ~Copied(s)
  <1>1. ASSUME NEW a \in 1..Len(s), NEW b \in 1..Len(s) PROVE Bits(s, a, b) = 0
    <2>1. {j \in a..b : s[j] = "bit"} = {}
      OBVIOUS
    <2> QED
      BY <2>1, FS_EmptySet DEF Bits
  <1> QED
    BY <1>1, CopiedIs, SizesAssumption

LEMMA NoneCopied == ~Copied(<<>>) /\ Counted(<<>>, 0)
  <1>1. ~Copied(<<>>)
    <2>1. <<>> \in Seq(Tokens) /\ Len(<<>>) = 0
      BY EmptyText
    <2>2. \A k \in 1..Len(<<>>) : <<>>[k] \notin {"bit", "echo"}
      BY <2>1
    <2> QED
      BY <2>1, <2>2, NoBits, Zenon
  <1>2. Counted(<<>>, 0)
    BY DEF Counted
  <1> QED
    BY <1>1, <1>2

\* A token more changes only the rows at the end.
LEMMA BitsAppended ==
  ASSUME NEW s \in Seq(Tokens), NEW t \in Tokens, NEW a \in 1..(Len(s) + 1)
  PROVE  /\ \A b \in 1..Len(s) : /\ Row(Append(s, t), a, b) <=> Row(s, a, b)
                                 /\ Bits(Append(s, t), a, b) = Bits(s, a, b)
         /\ Row(Append(s, t), a, Len(s) + 1) <=> Row(s, a, Len(s)) /\ t \in {"bit", "blank"}
         /\ Bits(Append(s, t), a, Len(s) + 1)
              = IF t = "bit" THEN Bits(s, a, Len(s)) + 1 ELSE Bits(s, a, Len(s))
  <1> DEFINE q == Append(s, t)
             n == Len(s)
  <1>1. n \in Nat /\ Len(q) = n + 1 /\ q[n + 1] = t /\ \A k \in 1..n : q[k] = s[k]
    OBVIOUS
  <1> HIDE DEF q, n
  <1>2. a \in 1..(n + 1)
    BY DEF n
  <1>3. ASSUME NEW b \in 1..n PROVE (Row(q, a, b) <=> Row(s, a, b)) /\ Bits(q, a, b) = Bits(s, a, b)
    <2>1. \A j \in a..b : q[j] = s[j]
      BY <1>1, <1>2
    <2>2. {j \in a..b : q[j] = "bit"} = {j \in a..b : s[j] = "bit"}
      BY <2>1
    <2> QED
      BY <2>1, <2>2 DEF Row, Bits
  <1>4. /\ \A j : j \in a..(n + 1) <=> j \in a..n \/ j = n + 1
        /\ \A j \in a..n : q[j] = s[j]
        /\ n + 1 \notin a..n
    BY <1>1, <1>2
  <1>5. Row(q, a, n + 1) <=> Row(s, a, n) /\ t \in {"bit", "blank"}
    BY <1>1, <1>4 DEF Row
  <1> DEFINE B == {j \in a..n : s[j] = "bit"}
             C == {j \in a..(n + 1) : q[j] = "bit"}
  <1>6. IsFiniteSet(B) /\ Cardinality(B) = Bits(s, a, n)
    BY <1>1, <1>2, BitsFinite DEF Bits
  <1>7. CASE t = "bit"
    <2>1. C = B \cup {n + 1} /\ n + 1 \notin B
      BY <1>1, <1>4, <1>7
    <2>2. Cardinality(C) = Cardinality(B) + 1
      BY <1>6, <2>1, FS_AddElement
    <2>3. Bits(q, a, n + 1) = Bits(s, a, n) + 1
      BY <1>6, <2>2 DEF Bits
    <2> QED
      BY <1>3, <1>5, <1>7, <2>3 DEF q, n
  <1>8. CASE t # "bit"
    <2>1. C = B
      BY <1>1, <1>4, <1>8
    <2>2. Bits(q, a, n + 1) = Bits(s, a, n)
      BY <1>6, <2>1 DEF Bits
    <2> QED
      BY <1>3, <1>5, <1>8, <2>2 DEF q, n
  <1> QED
    BY <1>7, <1>8

\* observe: text that is not recognised holds no copy, and is counted.
LEMMA CopyAppended ==
  ASSUME NEW s \in Seq(Tokens), NEW t \in Tokens, guard \in Guards,
         ~Copied(s), Counted(s, guard.run), ~Recognises(t)
  PROVE  ~Copied(Append(s, t)) /\ Counted(Append(s, t), Run(t))
  <1> DEFINE q == Append(s, t)
             n == Len(s)
             r == guard.run
  <1>1. n \in Nat /\ Len(q) = n + 1 /\ q[n + 1] = t /\ \A k \in 1..n : q[k] = s[k]
    OBVIOUS
  <1>2. r \in Nat /\ t # "echo" /\ (t = "bit" => r + 1 < EchoLen) /\ EchoLen \in Nat /\ EchoLen >= 1
    BY SizesAssumption DEF Guards, Recognises, Run
  <1>3. Run(t) = IF t = "blank" THEN r ELSE IF t = "bit" THEN r + 1 ELSE 0
    BY DEF Run
  <1>4. \A a \in 1..(n + 1) :
           /\ \A b \in 1..n : (Row(q, a, b) <=> Row(s, a, b)) /\ Bits(q, a, b) = Bits(s, a, b)
           /\ Row(q, a, n + 1) <=> Row(s, a, n) /\ t \in {"bit", "blank"}
           /\ Bits(q, a, n + 1) = IF t = "bit" THEN Bits(s, a, n) + 1 ELSE Bits(s, a, n)
    BY BitsAppended
  <1>5. \A a, b \in 0..(n + 1) : Bits(s, a, b) \in Nat /\ (b < a => Bits(s, a, b) = 0)
    <2>1. \A a \in 0..(n + 1) : a \in Nat
      BY <1>1
    <2> QED
      BY <2>1, BitsFinite
  <1>6. \A a \in 1..n : Row(s, a, n) => Bits(s, a, n) <= r
    BY DEF Counted
  <1>7. /\ \A k \in 1..n : s[k] # "echo"
        /\ \A a, b \in 1..n : Row(s, a, b) => Bits(s, a, b) < EchoLen
    <2>1. \A a, b \in 1..n : a \in 0..(n + 1) /\ b \in 0..(n + 1)
      BY <1>1
    <2>2. /\ \A k \in 1..n : s[k] # "echo"
          /\ \A a, b \in 1..n : Row(s, a, b) => ~(Bits(s, a, b) >= EchoLen)
      BY CopiedIs
    <2> QED
      BY <1>2, <1>5, <2>1, <2>2
  <1> HIDE DEF q, n, r
  \* A row that ends at t.
  <1>8. ASSUME NEW a \in 1..(n + 1), Row(q, a, n + 1)
        PROVE  Bits(q, a, n + 1) <= Run(t) /\ Bits(q, a, n + 1) < EchoLen
    <2>1. a \in 1..n \/ a = n + 1
      BY <1>1
    <2>2. Row(s, a, n) /\ t \in {"bit", "blank"}
      BY <1>4, <1>8
    <2>3. a \in 0..(n + 1) /\ n \in 0..(n + 1)
      BY <1>1
    <2>4. Bits(s, a, n) \in Nat /\ (n < a => Bits(s, a, n) = 0)
      BY <1>5, <2>3
    <2>5. Bits(s, a, n) <= r /\ Bits(s, a, n) < EchoLen
      <3>1. CASE a \in 1..n
        <4>1. n \in 1..n
          BY <1>1, <3>1
        <4> QED
          BY <1>6, <1>7, <2>2, <3>1, <4>1
      <3>2. CASE a = n + 1
        BY <1>1, <1>2, <2>4, <3>2
      <3> QED
        BY <2>1, <3>1, <3>2
    <2>6. Bits(q, a, n + 1) = IF t = "bit" THEN Bits(s, a, n) + 1 ELSE Bits(s, a, n)
      BY <1>4
    <2> QED
      BY <1>2, <1>3, <2>2, <2>4, <2>5, <2>6
  <1>9. Counted(q, Run(t))
    BY <1>1, <1>8 DEF Counted
  <1>10. ASSUME NEW a \in 1..(n + 1), NEW b \in 1..(n + 1), Row(q, a, b)
         PROVE  ~(Bits(q, a, b) >= EchoLen)
    <2>1. a \in 0..(n + 1) /\ b \in 0..(n + 1) /\ (b \in 1..n \/ b = n + 1) /\ (a \in 1..n \/ a = n + 1)
      BY <1>1
    <2>2. CASE b = n + 1
      <3>1. Bits(q, a, b) < EchoLen
        BY <1>8, <1>10, <2>2
      <3>2. Bits(q, a, b) \in Nat
        <4>1. a \in Nat /\ b \in Nat
          BY <1>1
        <4> QED
          BY <4>1, BitsFinite
      <3> QED
        BY <1>2, <3>1, <3>2
    <2>3. CASE b \in 1..n
      <3>1. Bits(q, a, b) = Bits(s, a, b) /\ Row(s, a, b) /\ Bits(s, a, b) \in Nat
        BY <1>4, <1>5, <1>10, <2>1, <2>3
      <3>2. CASE a \in 1..n
        BY <1>2, <1>7, <2>3, <3>1, <3>2
      <3>3. CASE a = n + 1
        <4>1. Bits(s, a, b) = 0
          BY <1>1, <1>5, <2>1, <2>3, <3>3
        <4> QED
          BY <1>2, <3>1, <4>1
      <3> QED
        BY <2>1, <3>2, <3>3
    <2> QED
      BY <2>1, <2>2, <2>3
  <1>11. \A k \in 1..(n + 1) : q[k] # "echo"
    BY <1>1, <1>2, <1>7
  <1>12. ~Copied(q)
    BY <1>1, <1>10, <1>11, CopiedIs
  <1> QED
    BY <1>9, <1>12 DEF q

\* An answer that is only a marker is no copy.
LEMMA MarkerNotCopied ==
  ASSUME NEW s \in Seq(Tokens), Marked(s), ~LooksLikeEcho(s)
  PROVE  ~Copied(s)
  <1>1. PICK f \in 1..Len(s) : Begins(s, f) /\ f < Len(s) /\ s[f] = "pre" /\ s[f + 1] = "post"
    BY DEF Marked
  <1>2. PICK l \in f..Len(s) :
            /\ Trimmed(s) = SubSeq(SubSeq(s, 1, l), f, l)
            /\ \A j \in 1..Len(s) : s[j] # "blank" => j <= l
    BY <1>1, TrimmedIs
  <1>3. Len(Trimmed(s)) = l - f + 1
    BY <1>1, <1>2
  <1>4. l <= f + 1
    <2>1. IsMarker(Trimmed(s))
      BY TrimmedMarker
    <2>2. ~(l - f + 1 >= 3)
      BY <1>3, <2>1 DEF LooksLikeEcho, LongEnough
    <2> QED
      BY <1>1, <1>2, <2>2
  <1>5. ASSUME NEW k \in 1..Len(s), s[k] # "blank" PROVE s[k] \in {"pre", "post"}
    <2>1. f <= k /\ k <= f + 1
      BY <1>1, <1>2, <1>4, <1>5 DEF Begins
    <2> QED
      BY <1>1, <2>1
  <1>6. \A k \in 1..Len(s) : s[k] \notin {"bit", "echo"}
    BY <1>5
  <1> QED
    BY <1>6, NoBits

LEMMA CopyInit == Init => CopyInv
  <1> SUFFICES ASSUME Init PROVE CopyInv
    OBVIOUS
  <1>1. content = <<>> /\ shown = <<>> /\ outcome = "opening" /\ guard.run = 0
    BY DEF Init
  <1> QED
    BY <1>1, NoneCopied DEF CopyInv

LEMMA CopyRests ==
  ASSUME CopyInv, UNCHANGED agent
  PROVE  CopyInv'
  BY DEF CopyInv, agent

LEMMA CopyStopped ==
  ASSUME CopyInv, shown' = shown, outcome' \in Over \ {"ok"}
  PROVE  CopyInv'
  BY DEF CopyInv, Over, Failures, Under

LEMMA CopyTake ==
  ASSUME StreamInv, FaithInv, CopyInv, Take
  PROVE  CopyInv'
  <1>1. PICK E : queue \in Seq(E) /\ \A e \in E : e.kind = "text" => e.t \in Tokens
    BY DEF StreamInv, QueueOK
  <1>2. outcome = "streaming" /\ queue # <<>>
    BY DEF Take
  <1>3. Head(queue) \in E
    BY <1>1, <1>2
  <1>4. CASE cancelled
    <2>1. outcome' = "cancelled" /\ shown' = shown
      BY <1>4 DEF Take, StopWith, EndAs
    <2> QED
      BY <2>1, CopyStopped DEF Over
  <1>5. CASE ~cancelled /\ Head(queue).kind # "text"
    <2>1. UNCHANGED <<content, guard, shown, outcome>>
      BY <1>5 DEF Take
    <2> QED
      BY <1>2, <2>1 DEF CopyInv
  <1>6. CASE ~cancelled /\ Head(queue).kind = "text"
    <2> DEFINE t == Head(queue).t
               g == Push(t).guard
               w == Push(t).show
    <2>1. t \in Tokens
      BY <1>1, <1>3, <1>6
    <2>2. content' = Append(content, t) /\ guard' = g /\ shown' = shown \o w /\ outcome' = "streaming"
      BY <1>2, <1>6 DEF Take
    <2>3. /\ guard \in Guards /\ content \in Seq(Tokens) /\ shown \in Seq(Tokens)
          /\ guard.mode \in {"buffering", "emitting", "suppressing"}
      BY DEF StreamInv, AgentOK, Guards
    <2> HIDE DEF t
    <2>4. /\ g.mode # "suppressing" => guard.mode # "suppressing" /\ ~Recognises(t) /\ g.run = Run(t)
          /\ g.mode = "suppressing" => w = <<>>
          /\ g.mode \in {"buffering", "emitting", "suppressing"}
      <3>1. g \in Guards
        BY <2>1, <2>3, PushIs
      <3>2. guard.mode = "suppressing" => g.mode = "suppressing" /\ w = <<>>
        BY <2>1, <2>3, PushIs
      <3>3. guard.mode # "suppressing" => g.run = Run(t)
        BY <2>1, <2>3, PushIs
      <3>4. guard.mode # "suppressing" /\ Recognises(t) => g.mode = "suppressing" /\ w = <<>>
        BY <2>1, <2>3, PushIs
      <3>5. guard.mode = "emitting" /\ ~Recognises(t) => g.mode = "emitting"
        BY <2>1, <2>3, PushIs
      <3>6. guard.mode = "buffering" /\ ~Recognises(t) /\ g.mode = "suppressing" => w = <<>>
        BY <2>1, <2>3, PushIs
      <3>7. g.mode \in {"buffering", "emitting", "suppressing"}
        BY <3>1 DEF Guards
      <3> QED
        BY <2>3, <3>2, <3>3, <3>4, <3>5, <3>6, <3>7
    <2>5. /\ g.mode = "buffering" => shown \o w = <<>>
          /\ g.mode = "emitting" => shown \o w = Append(content, t)
      BY <1>2, <2>1, FaithfulPush DEF FaithInv
    <2> HIDE DEF g, w
    <2>6. ASSUME g.mode # "suppressing"
          PROVE  ~Copied(Append(content, t)) /\ Counted(Append(content, t), g.run)
      <3>1. ~Copied(content) /\ Counted(content, guard.run)
        BY <1>2, <2>4, <2>6 DEF CopyInv, Under
      <3> QED
        BY <2>1, <2>3, <2>4, <2>6, <3>1, CopyAppended
    <2>7. ~Copied(shown \o w)
      <3>1. CASE g.mode = "suppressing"
        <4>1. shown \o w = shown
          BY <2>3, <2>4, <3>1
        <4> QED
          BY <4>1 DEF CopyInv
      <3>2. CASE g.mode = "buffering"
        BY <2>5, <3>2, NoneCopied
      <3>3. CASE g.mode = "emitting"
        BY <2>5, <2>6, <3>3
      <3> QED
        BY <2>4, <3>1, <3>2, <3>3
    <2> QED
      BY <2>2, <2>6, <2>7 DEF CopyInv
  <1> QED
    BY <1>4, <1>5, <1>6

LEMMA CopyFinish ==
  ASSUME StreamInv, FaithInv, CopyInv, NEW offered \in BOOLEAN, Finish(offered)
  PROVE  CopyInv'
  <1>1. /\ guard \in Guards /\ shown \in Seq(Tokens) /\ content \in Seq(Tokens)
        /\ outcome = "streaming"
    BY DEF StreamInv, AgentOK, Finish
  <1>2. /\ guard.mode \in {"buffering", "emitting"} => shown \o Flushed = content
        /\ guard.mode = "suppressing" => shown \o Flushed = shown /\ (guard.matched \/ Marked(content))
        /\ guard.mode \in {"buffering", "emitting", "suppressing"}
    BY <1>1 DEF FaithInv, Faithful, Under, Flushed, Guards
  <1>3. guard.mode # "suppressing" => ~Copied(content)
    BY <1>1 DEF CopyInv, Under
  <1>4. ~Copied(shown \o Flushed)
    BY <1>2, <1>3 DEF CopyInv
  <1>5. ~Copied(shown')
    BY <1>4, NoneCopied DEF Finish
  <1>6. outcome' \in Over
    BY DEF Finish, EndAs, Over, Failures
  <1>7. ASSUME outcome' = "ok", calls' = <<>> PROVE ~Copied(content')
    <2>1. ~cancelled
      BY <1>7 DEF Finish, EndAs
    <2>2. ~(offered /\ Leaks /\ Head(Blocks(content)) = "dsml")
      BY <1>7, <2>1 DEF Finish
    <2>3. content' = content /\ calls' = calls
      BY <2>1, <2>2 DEF Finish
    <2>4. ~guard.matched /\ ~LooksLikeEcho(content)
      BY <1>7, <2>1, <2>2, <2>3 DEF Finish, EndAs
    <2> QED
      BY <1>1, <1>2, <1>3, <2>3, <2>4, MarkerNotCopied
  <1> QED
    BY <1>5, <1>6, <1>7 DEF CopyInv, Over, Under, Failures

LEMMA CopyNext == StreamInv /\ FaithInv /\ CopyInv /\ [Next]_vars => CopyInv'
  <1> SUFFICES ASSUME StreamInv, FaithInv, CopyInv, [Next]_vars PROVE CopyInv'
    OBVIOUS
  <1>1. CASE UNCHANGED vars
    BY <1>1, CopyRests DEF vars
  <1>2. CASE \/ \E l \in Lines : Emit(l)
             \/ \E how \in {"whole", "half"} : Close(how)
             \/ \E n \in 1..(2 * MaxAhead) : Chunk(n)
             \/ Disconnect \/ Cancel
    BY <1>2, CopyRests DEF Emit, Close, Chunk, Disconnect, Cancel
  <1>3. CASE DecodeText \/ DecodeAlive \/ DecodeCall \/ DecodeItem \/ DecodeCut \/ DecodeStop
             \/ DecodeEnd \/ DecodeBad
    <2>1. UNCHANGED agent
      BY <1>3 DEF DecodeText, DecodeAlive, DecodeCall, DecodeItem, DecodeCut, DecodeStop,
                  DecodeEnd, DecodeBad, Decode
    <2> QED
      BY <2>1, CopyRests
  <1>4. CASE Opened
    <2>1. outcome = "opening" /\ outcome' = "streaming" /\ UNCHANGED <<content, guard, shown>>
      BY <1>4 DEF Opened
    <2> QED
      BY <2>1 DEF CopyInv, Under
  <1>5. CASE OpenFailed \/ StreamFails \/ Timeout \/ NoticeCancel
    <2>1. outcome' \in {"failed", "disconnected", "timeout", "cancelled"} /\ shown' = shown
      BY <1>5 DEF OpenFailed, StreamFails, Timeout, NoticeCancel, StopWith, EndAs
    <2> QED
      BY <2>1, CopyStopped DEF Over, Failures
  <1>6. CASE Take
    BY <1>6, CopyTake
  <1>7. CASE \E offered \in BOOLEAN : Finish(offered)
    BY <1>7, CopyFinish
  <1>8. CASE Done
    BY <1>8, CopyRests DEF Done, vars
  <1> QED
    BY <1>1, <1>2, <1>3, <1>4, <1>5, <1>6, <1>7, <1>8 DEF Next

LEMMA FaithInvariant == Spec => []FaithInv
  BY StreamInvariant, FaithfulInit, FaithfulNext, PTL DEF Spec

LEMMA CopyInvariant == Spec => []CopyInv
  BY StreamInvariant, FaithInvariant, CopyInit, CopyNext, PTL DEF Spec

-----------------------------------------------------------------------------
(* The end of the answer *)

\* A line is decoded once it was received and received once it was sent; the
\* stream ends at the line that ends the answer, and only then can the attempt
\* succeed.
EndInv ==
    /\ sent \in Seq(Lines) /\ got \in Nat /\ read \in Nat
    /\ got <= 2 * Len(sent) /\ 2 * read <= got
    /\ ending = "ended" => \E k \in 1..read : sent[k].kind = "end"
    /\ outcome = "ok" => ending = "ended"

LEMMA EndInit == Init => EndInv
  BY DEF Init, EndInv

LEMMA EndRests ==
  ASSUME EndInv, UNCHANGED <<sent, got, read, ending>>, outcome' = "ok" => ending = "ended"
  PROVE  EndInv'
  BY DEF EndInv

LEMMA EndEmit ==
  ASSUME EndInv, NEW l \in Lines, Emit(l)
  PROVE  EndInv'
  <1>1. sent' = Append(sent, l) /\ UNCHANGED <<got, read, ending, outcome>>
    BY DEF Emit, decoder, agent
  <1>2. /\ sent' \in Seq(Lines) /\ Len(sent') = Len(sent) + 1
        /\ \A k \in 1..Len(sent) : sent'[k] = sent[k]
    BY <1>1 DEF EndInv
  <1>3. read <= Len(sent)
    BY DEF EndInv
  <1>4. ending' = "ended" => \E k \in 1..read' : sent'[k].kind = "end"
    BY <1>1, <1>2, <1>3 DEF EndInv
  <1> QED
    BY <1>1, <1>2, <1>4 DEF EndInv

LEMMA EndChunk ==
  ASSUME EndInv, NEW n \in 1..(2 * MaxAhead), Chunk(n)
  PROVE  EndInv'
  <1>1. /\ got + n <= Available /\ got' = got + n /\ n \in Nat
        /\ UNCHANGED <<sent, read, ending, outcome>>
    BY SizesAssumption DEF Chunk, agent
  <1>2. Available <= 2 * Len(sent) /\ Available \in Int
    BY DEF Available, EndInv
  <1> QED
    BY <1>1, <1>2 DEF EndInv

LEMMA EndDecode ==
  ASSUME EndInv, NEW l, NEW events, NEW output, NEW end, Decode(l, events, output, end),
         end = "ended" => l.kind = "end"
  PROVE  EndInv'
  <1>1. /\ outcome = "streaming" /\ got >= 2 * (read + 1) /\ l = sent[read + 1]
        /\ read' = read + 1 /\ ending' = end /\ UNCHANGED <<sent, got, outcome>>
    BY DEF Decode, Polling, LineReady, agent
  <1>2. end = "ended" => \E k \in 1..(read + 1) : sent[k].kind = "end"
    BY <1>1 DEF EndInv
  <1> QED
    BY <1>1, <1>2 DEF EndInv

LEMMA EndDecodes ==
  EndInv /\ (DecodeText \/ DecodeAlive \/ DecodeCall \/ DecodeItem \/ DecodeCut \/ DecodeStop
      \/ DecodeEnd \/ DecodeBad)
    => EndInv'
  <1> SUFFICES ASSUME EndInv,
                      DecodeText \/ DecodeAlive \/ DecodeCall \/ DecodeItem \/ DecodeCut
                        \/ DecodeStop \/ DecodeEnd \/ DecodeBad
               PROVE  EndInv'
    OBVIOUS
  <1>1. CASE DecodeText
    <2>1. PICK t \in Tokens : \/ Decode(Text(t), <<>>, FALSE, "open")
                              \/ Decode(Text(t), <<[kind |-> "text", t |-> t]>>, TRUE, "open")
      BY <1>1 DEF DecodeText
    <2>2. \E events, output : Decode(Text(t), events, output, "open")
      BY <2>1
    <2> QED
      BY <2>2, EndDecode
  <1>2. CASE DecodeAlive
    BY <1>2, EndDecode DEF DecodeAlive
  <1>3. CASE DecodeCall
    BY <1>3, EndDecode DEF DecodeCall
  <1>4. CASE DecodeItem
    <2>1. \E i, events, output : Decode(Line("item", i, "none"), events, output, "open")
      BY <1>4 DEF DecodeItem
    <2> QED
      BY <2>1, EndDecode
  <1>5. CASE DecodeCut
    <2>1. (IF api = "responses" THEN "broken" ELSE "open") # "ended"
      OBVIOUS
    <2> QED
      BY <1>5, <2>1, EndDecode DEF DecodeCut
  <1>6. CASE DecodeEnd
    <2>1. Line("end", 0, "none").kind = "end"
      BY DEF Line
    <2> QED
      BY <1>6, <2>1, EndDecode DEF DecodeEnd
  <1>7. CASE DecodeBad
    BY <1>7, EndDecode DEF DecodeBad
  <1>8. CASE DecodeStop
    BY <1>8, EndDecode DEF DecodeStop
  <1> QED
    BY <1>1, <1>2, <1>3, <1>4, <1>5, <1>6, <1>7, <1>8

LEMMA EndNext == EndInv /\ [Next]_vars => EndInv'
  <1> SUFFICES ASSUME EndInv, [Next]_vars PROVE EndInv'
    OBVIOUS
  <1>1. CASE UNCHANGED vars
    BY <1>1, EndRests DEF vars, decoder, agent, EndInv
  <1>2. CASE \E l \in Lines : Emit(l)
    BY <1>2, EndEmit
  <1>3. CASE \E n \in 1..(2 * MaxAhead) : Chunk(n)
    BY <1>3, EndChunk
  <1>4. CASE (\E how \in {"whole", "half"} : Close(how)) \/ Cancel
    BY <1>4, EndRests DEF Close, Cancel, decoder, agent, EndInv
  <1>5. CASE DecodeText \/ DecodeAlive \/ DecodeCall \/ DecodeItem \/ DecodeCut \/ DecodeStop
      \/ DecodeEnd \/ DecodeBad
    BY <1>5, EndDecodes
  <1>6. CASE Disconnect
    <2>1. outcome' = "streaming" /\ ending' = "broken" /\ UNCHANGED <<sent, got, read>>
      BY <1>6 DEF Disconnect, Polling, agent
    <2> QED
      BY <2>1 DEF EndInv
  <1>7. CASE Opened \/ OpenFailed \/ StreamFails \/ Timeout \/ NoticeCancel
    <2>1. outcome' # "ok" /\ UNCHANGED <<sent, got, read, ending>>
      BY <1>7 DEF Opened, OpenFailed, StreamFails, Timeout, NoticeCancel, StopWith, EndAs,
         decoder
    <2> QED
      BY <2>1, EndRests
  <1>8. CASE Take
    <2>1. outcome' # "ok" /\ UNCHANGED <<sent, got, read, ending>>
      BY <1>8 DEF Take, StopWith, EndAs, decoder
    <2> QED
      BY <2>1, EndRests
  <1>9. CASE \E offered \in BOOLEAN : Finish(offered)
    <2>1. ending = "ended" /\ UNCHANGED <<sent, got, read, ending>>
      BY <1>9 DEF Finish, decoder
    <2> QED
      BY <2>1, EndRests
  <1>10. CASE Done
    BY <1>10, EndRests DEF Done, vars, decoder, agent, EndInv
  <1> QED
    BY <1>1, <1>2, <1>3, <1>4, <1>5, <1>6, <1>7, <1>8, <1>9, <1>10 DEF Next

-----------------------------------------------------------------------------
(* The k-th number of a set *)

Before(S, k) == {j \in S : j < k}

LEMMA BeforeFinite ==
  ASSUME NEW n \in Nat, NEW S \in SUBSET (1..n), NEW k \in Nat
  PROVE  /\ IsFiniteSet(S) /\ Cardinality(S) \in Nat
         /\ IsFiniteSet(Before(S, k)) /\ Cardinality(Before(S, k)) \in Nat
  <1>1. IsFiniteSet(1..n)
    BY FS_Interval
  <1>2. IsFiniteSet(S)
    BY <1>1, FS_Subset
  <1>3. IsFiniteSet(Before(S, k))
    BY <1>2, FS_Subset DEF Before
  <1> QED
    BY <1>2, <1>3, FS_CardinalityType

\* The number of places before k grows by one with every place.
LEMMA BeforeNext ==
  ASSUME NEW n \in Nat, NEW S \in SUBSET (1..n), NEW k \in Nat
  PROVE  /\ k \in S => Cardinality(Before(S, k + 1)) = Cardinality(Before(S, k)) + 1
         /\ k \notin S => Before(S, k + 1) = Before(S, k)
  <1>1. IsFiniteSet(Before(S, k))
    BY BeforeFinite
  <1>2. \A j \in S : j < k + 1 <=> (j < k \/ j = k)
    OBVIOUS
  <1>3. ~(k < k)
    OBVIOUS
  <1>4. CASE k \in S
    <2>1. Before(S, k + 1) = Before(S, k) \cup {k} /\ k \notin Before(S, k)
      BY <1>2, <1>3, <1>4, Zenon DEF Before
    <2> QED
      BY <1>1, <1>4, <2>1, FS_AddElement
  <1>5. CASE k \notin S
    BY <1>2, <1>5, Zenon DEF Before
  <1> QED
    BY <1>4, <1>5

LEMMA Ranked ==
  ASSUME NEW n \in Nat, NEW S \in SUBSET (1..n), NEW count \in Nat, count < Cardinality(S)
  PROVE  \E i \in S : Cardinality(Before(S, i)) = count
  <1> DEFINE T == {k \in 1..(n + 1) : Cardinality(Before(S, k)) > count}
  <1>1. n + 1 \in T
    <2>1. \A j \in S : j < n + 1
      OBVIOUS
    <2>2. Before(S, n + 1) = S
      BY <2>1, Zenon DEF Before
    <2>3. n + 1 \in 1..(n + 1)
      OBVIOUS
    <2> QED
      BY <2>2, <2>3
  <1>2. PICK k \in T : \A j \in T : k <= j
    <2>1. T \in SUBSET Nat /\ T # {}
      BY <1>1
    <2> HIDE DEF T
    <2> QED
      BY <2>1, LeastIn
  <1>3. k # 1
    <2>1. \A j \in S : ~(j < 1)
      OBVIOUS
    <2>2. Before(S, 1) = {}
      BY <2>1, Zenon DEF Before
    <2>3. Cardinality(Before(S, 1)) = 0
      BY <2>2, FS_EmptySet
    <2> QED
      BY <2>3
  <1>4. k - 1 \in 1..n /\ k - 1 \in Nat /\ (k - 1) + 1 = k
    BY <1>2, <1>3
  <1>5. Cardinality(Before(S, k - 1)) \in Nat /\ Cardinality(Before(S, k - 1)) <= count
    <2>1. k - 1 \in 1..(n + 1) /\ k - 1 \notin T
      BY <1>2, <1>4
    <2>2. Cardinality(Before(S, k - 1)) \in Nat
      BY <1>4, BeforeFinite
    <2> QED
      BY <2>1, <2>2
  <1>6. Cardinality(Before(S, k)) > count
    BY <1>2
  <1>7. k - 1 \in S /\ Cardinality(Before(S, k)) = Cardinality(Before(S, k - 1)) + 1
    <2>1. /\ k - 1 \in S => Cardinality(Before(S, k)) = Cardinality(Before(S, k - 1)) + 1
          /\ k - 1 \notin S => Before(S, k) = Before(S, k - 1)
      BY <1>4, BeforeNext
    <2> QED
      BY <1>5, <1>6, <2>1
  <1> QED
    BY <1>5, <1>6, <1>7

\* Two places of a set have different numbers of places before them.
LEMMA RankedOnce ==
  ASSUME NEW n \in Nat, NEW S \in SUBSET (1..n), NEW i \in S, NEW k \in S, i < k
  PROVE  Cardinality(Before(S, i)) < Cardinality(Before(S, k))
  <1>1. i \in Nat /\ k \in Nat /\ i + 1 \in Nat
    OBVIOUS
  <1>2. \A j \in S : j < i + 1 => j < k
    BY <1>1
  <1>3. Before(S, i + 1) \subseteq Before(S, k)
    BY <1>2, Zenon DEF Before
  <1>4. /\ IsFiniteSet(Before(S, k)) /\ Cardinality(Before(S, k)) \in Nat
        /\ Cardinality(Before(S, i)) \in Nat /\ Cardinality(Before(S, i + 1)) \in Nat
    BY <1>1, BeforeFinite
  <1>5. Cardinality(Before(S, i + 1)) <= Cardinality(Before(S, k))
    BY <1>3, <1>4, FS_Subset
  <1>6. Cardinality(Before(S, i + 1)) = Cardinality(Before(S, i)) + 1
    BY <1>1, BeforeNext
  <1> QED
    BY <1>4, <1>5, <1>6

LEMMA NthIs ==
  ASSUME NEW n \in Nat, NEW S \in SUBSET (1..n), NEW k \in Nat, NEW i \in S,
         Cardinality(Before(S, i)) = k - 1
  PROVE  Nth(S, k) = i
  <1>1. ASSUME NEW x \in S, Cardinality(Before(S, x)) = k - 1 PROVE x = i
    <2>1. x < i \/ x = i \/ i < x
      OBVIOUS
    <2>2. Cardinality(Before(S, x)) \in Nat /\ Cardinality(Before(S, i)) \in Nat
      <3>1. x \in Nat /\ i \in Nat
        OBVIOUS
      <3> QED
        BY <3>1, BeforeFinite
    <2>3. x < i => Cardinality(Before(S, x)) < Cardinality(Before(S, i))
      BY RankedOnce
    <2>4. i < x => Cardinality(Before(S, i)) < Cardinality(Before(S, x))
      BY RankedOnce
    <2> QED
      BY <1>1, <2>1, <2>2, <2>3, <2>4
  <1>2. Nth(S, k) = CHOOSE x \in S : Cardinality(Before(S, x)) = k - 1
    BY Zenon DEF Nth, Before
  <1> QED
    BY <1>1, <1>2

LEMMA NthIn ==
  ASSUME NEW n \in Nat, NEW S \in SUBSET (1..n), NEW k \in 1..Cardinality(S)
  PROVE  Nth(S, k) \in S /\ Cardinality(Before(S, Nth(S, k))) = k - 1
  <1>1. Cardinality(S) \in Nat
    <2>1. 0 \in Nat
      OBVIOUS
    <2> QED
      BY <2>1, BeforeFinite
  <1>2. k \in Nat /\ k - 1 \in Nat /\ k - 1 < Cardinality(S)
    BY <1>1
  <1>3. PICK i \in S : Cardinality(Before(S, i)) = k - 1
    BY <1>2, Ranked
  <1> QED
    BY <1>2, <1>3, NthIs

\* A place behind all others comes last and moves none of them.
LEMMA NthNew ==
  ASSUME NEW n \in Nat, NEW S \in SUBSET (1..n)
  PROVE  LET T == S \cup {n + 1}
         IN  /\ Cardinality(S) \in Nat /\ Cardinality(T) = Cardinality(S) + 1
             /\ \A k \in 1..Cardinality(S) : Nth(T, k) = Nth(S, k) /\ Nth(S, k) \in 1..n
             /\ Nth(T, Cardinality(S) + 1) = n + 1
  <1> DEFINE T == S \cup {n + 1}
  <1>0. 0 \in Nat /\ n + 1 \in Nat /\ n + 1 \notin S /\ T \in SUBSET (1..(n + 1)) /\ n + 1 \in T
    OBVIOUS
  <1>1. IsFiniteSet(S) /\ Cardinality(S) \in Nat
    BY <1>0, BeforeFinite
  <1>2. Cardinality(T) = Cardinality(S) + 1
    BY <1>0, <1>1, FS_AddElement
  <1>3. ASSUME NEW k \in 1..Cardinality(S) PROVE Nth(T, k) = Nth(S, k) /\ Nth(S, k) \in 1..n
    <2>1. Nth(S, k) \in S /\ Cardinality(Before(S, Nth(S, k))) = k - 1
      BY NthIn
    <2>2. Nth(S, k) \in 1..n
      BY <2>1
    <2> DEFINE x == Nth(S, k)
    <2> HIDE DEF x
    <2>6. x \in 1..n
      BY <2>2 DEF x
    <2>7. ~(n + 1 < x) /\ k \in Nat
      BY <1>1, <2>6
    <2>3. Before(T, Nth(S, k)) = Before(S, Nth(S, k))
      BY <2>7, Zenon DEF Before, x
    <2>4. Nth(S, k) \in T /\ Cardinality(Before(T, Nth(S, k))) = k - 1
      BY <2>1, <2>3
    <2> HIDE DEF T
    <2>5. Nth(T, k) = Nth(S, k)
      BY <1>0, <2>4, <2>7, NthIs
    <2> QED
      BY <2>2, <2>5
  <1>4. Nth(T, Cardinality(S) + 1) = n + 1
    <2>1. \A j \in S : j < n + 1
      OBVIOUS
    <2>2. ~(n + 1 < n + 1)
      OBVIOUS
    <2>3. Before(T, n + 1) = S
      BY <2>1, <2>2, Zenon DEF Before
    <2>4. Cardinality(Before(T, n + 1)) = (Cardinality(S) + 1) - 1 /\ Cardinality(S) + 1 \in Nat
      BY <1>1, <2>3
    <2> HIDE DEF T
    <2> QED
      BY <1>0, <2>4, NthIs
  <1> QED
    BY <1>1, <1>2, <1>3, <1>4

-----------------------------------------------------------------------------
(* What a sequence of lines says *)

TextAt(a, l) == l.kind = "text" /\ (a = "chat" => l.t # "blank")
TextsOf(a, p) == {k \in 1..Len(p) : TextAt(a, p[k])}
SaidBy(a, p) == [n \in 1..Cardinality(TextsOf(a, p)) |-> p[Nth(TextsOf(a, p), n)].t]

ItemsOf(p) == {k \in 1..Len(p) : p[k].kind = "item"}
ItemCalls(p) == [n \in 1..Cardinality(ItemsOf(p)) |-> Call(p[Nth(ItemsOf(p), n)].i, Frags, FALSE)]

LinesOf(p, l) == {k \in 1..Len(p) : p[k] = l}
Of(p, kind, i) == LinesOf(p, Line(kind, i, "none"))

NamedBy(p) == {i \in Index : Of(p, "head", i) # {}}
\* The last reason the lines give is the limit on the length.
CutBy(p) == \E k \in 1..Len(p) : p[k].kind = "cut" /\ \A j \in (k + 1)..Len(p) : p[j].kind # "stop"

ToldBy(p, i) ==
    Call(i, IF Of(p, "garbled", i) # {} THEN Garbled ELSE Cardinality(Of(p, "arg", i)),
         IF Of(p, "garbled", i) # {} THEN CutBy(p)
         ELSE 0 < Cardinality(Of(p, "arg", i)) /\ Cardinality(Of(p, "arg", i)) < Frags)
CallsBy(p) == [n \in 1..Cardinality(NamedBy(p)) |-> ToldBy(p, Nth(NamedBy(p), n))]

\* A sequence that agrees with f and is one longer.
LEMMA OneMore ==
  ASSUME NEW V, NEW c \in Nat, NEW f \in [1..c -> V], NEW g \in [1..(c + 1) -> V],
         \A k \in 1..c : g[k] = f[k]
  PROVE  g = Append(f, g[c + 1])
  <1>1. f \in Seq(V) /\ Len(f) = c
    OBVIOUS
  <1>2. g \in Seq(V) /\ Len(g) = c + 1 /\ g[c + 1] \in V
    OBVIOUS
  <1>3. /\ Append(f, g[c + 1]) \in Seq(V) /\ Len(Append(f, g[c + 1])) = c + 1
        /\ \A k \in 1..c : Append(f, g[c + 1])[k] = f[k]
        /\ Append(f, g[c + 1])[c + 1] = g[c + 1]
    BY <1>1, <1>2
  <1>4. \A k \in 1..(c + 1) : Append(f, g[c + 1])[k] = g[k]
    BY <1>3
  <1> QED
    BY <1>2, <1>3, <1>4

\* What the values v say at the places S, in their order.
Picked(v, S) == [k \in 1..Cardinality(S) |-> v[Nth(S, k)]]

\* w has the n values of v and one more.
Longer(V, n, S, v, w) ==
    /\ n \in Nat /\ S \in SUBSET (1..n)
    /\ v \in [1..n -> V] /\ w \in [1..(n + 1) -> V] /\ \A x \in 1..n : w[x] = v[x]

\* The last place adds its value at the end.
Grown(n, S, v, w) ==
    /\ Picked(w, S) = Picked(v, S)
    /\ Picked(w, S \cup {n + 1}) = Append(Picked(v, S), w[n + 1])

LEMMA PickedGrows ==
  ASSUME NEW V, NEW n, NEW S, NEW v, NEW w, Longer(V, n, S, v, w)
  PROVE  Grown(n, S, v, w)
  <1> DEFINE T == S \cup {n + 1}
             c == Cardinality(S)
             f == Picked(v, S)
             g == Picked(w, T)
  <1>0. /\ n \in Nat /\ S \in SUBSET (1..n)
        /\ v \in [1..n -> V] /\ w \in [1..(n + 1) -> V] /\ \A x \in 1..n : w[x] = v[x]
    BY DEF Longer
  <1>1. /\ c \in Nat /\ Cardinality(T) = c + 1
        /\ \A k \in 1..c : Nth(T, k) = Nth(S, k) /\ Nth(S, k) \in 1..n
        /\ Nth(T, c + 1) = n + 1
    BY <1>0, NthNew
  <1> HIDE DEF T, c
  <1>2. f = [k \in 1..c |-> v[Nth(S, k)]] /\ g = [k \in 1..(c + 1) |-> w[Nth(T, k)]]
    BY <1>0, <1>1 DEF Picked, c
  <1>3. /\ \A x \in 1..n : x \in 1..(n + 1) /\ v[x] \in V
        /\ n + 1 \in 1..(n + 1) /\ c + 1 \in 1..(c + 1)
        /\ \A k \in 1..(c + 1) : k \in 1..c \/ k = c + 1
        /\ \A k \in 1..c : k \in 1..(c + 1)
    BY <1>0, <1>1
  <1>4. \A k \in 1..(c + 1) : Nth(T, k) \in 1..(n + 1)
    BY <1>0, <1>1, <1>3
  <1>5. f \in [1..c -> V] /\ g \in [1..(c + 1) -> V]
    BY <1>0, <1>1, <1>2, <1>3, <1>4
  <1>6. (\A k \in 1..c : g[k] = f[k]) /\ g[c + 1] = w[n + 1]
    BY <1>0, <1>1, <1>2, <1>3
  <1>7. Picked(w, S) = f
    BY <1>0, <1>1, <1>2 DEF Picked, c
  <1> HIDE DEF f, g
  <1>8. g = Append(f, w[n + 1])
    BY <1>0, <1>1, <1>5, <1>6, OneMore
  <1> QED
    BY <1>7, <1>8 DEF f, g, T, Grown

LEMMA AppendedLine ==
  ASSUME NEW p \in Seq(Lines), NEW l \in Lines
  PROVE  /\ Append(p, l) \in Seq(Lines) /\ Len(p) \in Nat /\ Len(Append(p, l)) = Len(p) + 1
         /\ \A k \in 1..Len(p) : Append(p, l)[k] = p[k]
         /\ Append(p, l)[Len(p) + 1] = l
         /\ \A k : k \in 1..(Len(p) + 1) <=> k \in 1..Len(p) \/ k = Len(p) + 1
  OBVIOUS

LEMMA TextsAppended ==
  ASSUME NEW p \in Seq(Lines), NEW l \in Lines, NEW a
  PROVE  TextsOf(a, Append(p, l))
           = IF TextAt(a, l) THEN TextsOf(a, p) \cup {Len(p) + 1} ELSE TextsOf(a, p)
  BY AppendedLine DEF TextsOf

LEMMA ItemsAppended ==
  ASSUME NEW p \in Seq(Lines), NEW l \in Lines
  PROVE  ItemsOf(Append(p, l))
           = IF l.kind = "item" THEN ItemsOf(p) \cup {Len(p) + 1} ELSE ItemsOf(p)
  BY AppendedLine DEF ItemsOf

\* A line adds its text at the end.
LEMMA SaidAppended ==
  ASSUME NEW p \in Seq(Lines), NEW l \in Lines, NEW a
  PROVE  /\ TextAt(a, l) => SaidBy(a, Append(p, l)) = Append(SaidBy(a, p), l.t)
         /\ ~TextAt(a, l) => SaidBy(a, Append(p, l)) = SaidBy(a, p)
  <1> DEFINE q == Append(p, l)
             n == Len(p)
             S == TextsOf(a, p)
             V == {q[k].t : k \in 1..(n + 1)}
             v == [k \in 1..n |-> p[k].t]
             w == [k \in 1..(n + 1) |-> q[k].t]
  <1>1. /\ n \in Nat /\ S \in SUBSET (1..n) /\ (\A k \in 1..n : q[k] = p[k]) /\ q[n + 1] = l
    BY AppendedLine DEF TextsOf
  <1>2. v \in [1..n -> V] /\ w \in [1..(n + 1) -> V] /\ (\A k \in 1..n : w[k] = v[k]) /\ w[n + 1] = l.t
    <2>1. \A k \in 1..(n + 1) : q[k].t \in V
      OBVIOUS
    <2>2. n + 1 \in 1..(n + 1) /\ \A k \in 1..n : k \in 1..(n + 1)
      BY <1>1
    <2> HIDE DEF V, q
    <2> QED
      BY <1>1, <2>1, <2>2
  <1>3. TextsOf(a, q) = IF TextAt(a, l) THEN S \cup {n + 1} ELSE S
    BY TextsAppended
  <1>4. SaidBy(a, p) = Picked(v, S)
    <2>1. \A k \in 1..Cardinality(S) : Nth(S, k) \in 1..n
      BY <1>1, NthIn
    <2> QED
      BY <2>1 DEF SaidBy, Picked
  <1>5. SaidBy(a, q) = Picked(w, TextsOf(a, q))
    <2>1. q \in Seq(Lines) /\ Len(q) = n + 1
      BY AppendedLine
    <2>2. TextsOf(a, q) \in SUBSET (1..(n + 1)) /\ n + 1 \in Nat
      BY <1>1, <2>1 DEF TextsOf
    <2>3. \A k \in 1..Cardinality(TextsOf(a, q)) : Nth(TextsOf(a, q), k) \in 1..(n + 1)
      BY <2>2, NthIn
    <2> QED
      BY <2>3 DEF SaidBy, Picked
  <1> HIDE DEF S, V, v, w, q, n
  <1>6. Picked(w, S) = Picked(v, S) /\ Picked(w, S \cup {n + 1}) = Append(Picked(v, S), w[n + 1])
    <2>1. Longer(V, n, S, v, w)
      BY <1>1, <1>2 DEF Longer
    <2>2. Grown(n, S, v, w)
      BY <2>1, PickedGrows
    <2> QED
      BY <2>2 DEF Grown
  <1>7. CASE TextAt(a, l)
    <2>1. SaidBy(a, q) = Picked(w, S \cup {n + 1})
      BY <1>3, <1>5, <1>7
    <2>2. SaidBy(a, q) = Append(SaidBy(a, p), l.t)
      BY <1>2, <1>4, <1>6, <2>1
    <2> QED
      BY <1>7, <2>2 DEF q
  <1>8. CASE ~(TextAt(a, l))
    <2>1. SaidBy(a, q) = Picked(w, S)
      BY <1>3, <1>5, <1>8
    <2>2. SaidBy(a, q) = SaidBy(a, p)
      BY <1>4, <1>6, <2>1
    <2> QED
      BY <1>8, <2>2 DEF q
  <1> QED
    BY <1>7, <1>8

\* A line adds its finished call at the end.
LEMMA ItemCallsAppended ==
  ASSUME NEW p \in Seq(Lines), NEW l \in Lines
  PROVE  /\ l.kind = "item" => ItemCalls(Append(p, l)) = Append(ItemCalls(p), Call(l.i, Frags, FALSE))
         /\ l.kind # "item" => ItemCalls(Append(p, l)) = ItemCalls(p)
  <1> DEFINE q == Append(p, l)
             n == Len(p)
             S == ItemsOf(p)
             V == {Call(q[k].i, Frags, FALSE) : k \in 1..(n + 1)}
             v == [k \in 1..n |-> Call(p[k].i, Frags, FALSE)]
             w == [k \in 1..(n + 1) |-> Call(q[k].i, Frags, FALSE)]
  <1>1. /\ n \in Nat /\ S \in SUBSET (1..n) /\ (\A k \in 1..n : q[k] = p[k]) /\ q[n + 1] = l
    BY AppendedLine DEF ItemsOf
  <1>2. v \in [1..n -> V] /\ w \in [1..(n + 1) -> V] /\ (\A k \in 1..n : w[k] = v[k]) /\ w[n + 1] = Call(l.i, Frags, FALSE)
    <2>1. \A k \in 1..(n + 1) : Call(q[k].i, Frags, FALSE) \in V
      OBVIOUS
    <2>2. n + 1 \in 1..(n + 1) /\ \A k \in 1..n : k \in 1..(n + 1)
      BY <1>1
    <2> HIDE DEF V, q
    <2> QED
      BY <1>1, <2>1, <2>2
  <1>3. ItemsOf(q) = IF l.kind = "item" THEN S \cup {n + 1} ELSE S
    BY ItemsAppended
  <1>4. ItemCalls(p) = Picked(v, S)
    <2>1. \A k \in 1..Cardinality(S) : Nth(S, k) \in 1..n
      BY <1>1, NthIn
    <2> QED
      BY <2>1 DEF ItemCalls, Picked
  <1>5. ItemCalls(q) = Picked(w, ItemsOf(q))
    <2>1. q \in Seq(Lines) /\ Len(q) = n + 1
      BY AppendedLine
    <2>2. ItemsOf(q) \in SUBSET (1..(n + 1)) /\ n + 1 \in Nat
      BY <1>1, <2>1 DEF ItemsOf
    <2>3. \A k \in 1..Cardinality(ItemsOf(q)) : Nth(ItemsOf(q), k) \in 1..(n + 1)
      BY <2>2, NthIn
    <2> QED
      BY <2>3 DEF ItemCalls, Picked
  <1> HIDE DEF S, V, v, w, q, n
  <1>6. Picked(w, S) = Picked(v, S) /\ Picked(w, S \cup {n + 1}) = Append(Picked(v, S), w[n + 1])
    <2>1. Longer(V, n, S, v, w)
      BY <1>1, <1>2 DEF Longer
    <2>2. Grown(n, S, v, w)
      BY <2>1, PickedGrows
    <2> QED
      BY <2>2 DEF Grown
  <1>7. CASE l.kind = "item"
    <2>1. ItemCalls(q) = Picked(w, S \cup {n + 1})
      BY <1>3, <1>5, <1>7
    <2>2. ItemCalls(q) = Append(ItemCalls(p), Call(l.i, Frags, FALSE))
      BY <1>2, <1>4, <1>6, <2>1
    <2> QED
      BY <1>7, <2>2 DEF q
  <1>8. CASE ~(l.kind = "item")
    <2>1. ItemCalls(q) = Picked(w, S)
      BY <1>3, <1>5, <1>8
    <2>2. ItemCalls(q) = ItemCalls(p)
      BY <1>4, <1>6, <2>1
    <2> QED
      BY <1>8, <2>2 DEF q
  <1> QED
    BY <1>7, <1>8


-----------------------------------------------------------------------------
(* What the accumulators hold *)

AccRec == [seen : BOOLEAN, head : BOOLEAN, args : Nat, garbled : BOOLEAN]

\* The accumulator a holds what the lines p say of the call i.
Recorded(a, p, i) ==
    /\ a.head <=> Of(p, "head", i) # {}
    /\ a.garbled <=> Of(p, "garbled", i) # {}
    /\ a.args = Cardinality(Of(p, "arg", i))
    /\ a.seen <=> a.head \/ a.garbled \/ a.args # 0

LEMMA LinesAppended ==
  ASSUME NEW p \in Seq(Lines), NEW l \in Lines, NEW x
  PROVE  /\ l # x => LinesOf(Append(p, l), x) = LinesOf(p, x)
         /\ l = x => /\ LinesOf(Append(p, l), x) # {}
                     /\ Cardinality(LinesOf(Append(p, l), x)) = Cardinality(LinesOf(p, x)) + 1
         /\ Cardinality(LinesOf(p, x)) \in Nat
         /\ LinesOf(p, x) # {} <=> Cardinality(LinesOf(p, x)) # 0
  <1>1. Len(p) \in Nat /\ LinesOf(p, x) \in SUBSET (1..Len(p))
    BY DEF LinesOf
  <1>2. IsFiniteSet(LinesOf(p, x)) /\ Cardinality(LinesOf(p, x)) \in Nat
    BY <1>1, BeforeFinite
  <1>3. Cardinality(LinesOf(p, x)) = 0 <=> LinesOf(p, x) = {}
    BY <1>2, FS_EmptySet
  <1>4. ASSUME l # x PROVE LinesOf(Append(p, l), x) = LinesOf(p, x)
    BY <1>4, AppendedLine DEF LinesOf
  <1>5. ASSUME l = x PROVE LinesOf(Append(p, l), x) = LinesOf(p, x) \cup {Len(p) + 1}
    BY <1>5, AppendedLine DEF LinesOf
  <1>6. Len(p) + 1 \notin LinesOf(p, x)
    BY <1>1
  <1>7. Cardinality(LinesOf(p, x) \cup {Len(p) + 1}) = Cardinality(LinesOf(p, x)) + 1
    BY <1>2, <1>6, FS_AddElement
  <1> QED
    BY <1>2, <1>3, <1>4, <1>5, <1>7

LEMMA OfAppended ==
  ASSUME NEW p \in Seq(Lines), NEW l \in Lines, NEW kind, NEW i
  PROVE  /\ (l.kind # kind \/ l.i # i) => Of(Append(p, l), kind, i) = Of(p, kind, i)
         /\ l = Line(kind, i, "none") =>
              /\ Of(Append(p, l), kind, i) # {}
              /\ Cardinality(Of(Append(p, l), kind, i)) = Cardinality(Of(p, kind, i)) + 1
         /\ Cardinality(Of(p, kind, i)) \in Nat
         /\ Of(p, kind, i) # {} <=> Cardinality(Of(p, kind, i)) # 0
  <1>1. Line(kind, i, "none").kind = kind /\ Line(kind, i, "none").i = i
    BY DEF Line
  <1>2. (l.kind # kind \/ l.i # i) => l # Line(kind, i, "none")
    BY <1>1
  <1> QED
    BY <1>2, LinesAppended DEF Of

LEMMA CutAppended ==
  ASSUME NEW p \in Seq(Lines), NEW l \in Lines
  PROVE  /\ l.kind = "cut" => CutBy(Append(p, l))
         /\ l.kind = "stop" => ~CutBy(Append(p, l))
         /\ l.kind \notin {"cut", "stop"} => (CutBy(Append(p, l)) <=> CutBy(p))
  <1> DEFINE q == Append(p, l)
             n == Len(p)
  <1>1. n \in Nat /\ Len(q) = n + 1 /\ q[n + 1] = l /\ \A k \in 1..n : q[k] = p[k]
    BY AppendedLine
  <1> HIDE DEF q, n
  <1>2. ASSUME l.kind = "cut" PROVE CutBy(q)
    <2>1. n + 1 \in 1..(n + 1) /\ \A j : j \notin (n + 1 + 1)..(n + 1)
      BY <1>1
    <2> QED
      BY <1>1, <1>2, <2>1 DEF CutBy
  <1>3. ASSUME l.kind = "stop", CutBy(q) PROVE FALSE
    <2>1. PICK k \in 1..(n + 1) : q[k].kind = "cut" /\ \A j \in (k + 1)..(n + 1) : q[j].kind # "stop"
      BY <1>1, <1>3 DEF CutBy
    <2>2. k # n + 1
      BY <1>1, <1>3, <2>1
    <2>3. n + 1 \in (k + 1)..(n + 1)
      BY <1>1, <2>1, <2>2
    <2> QED
      BY <1>1, <1>3, <2>1, <2>3
  <1>4. ASSUME l.kind \notin {"cut", "stop"}, CutBy(q) PROVE CutBy(p)
    <2>1. PICK k \in 1..(n + 1) : q[k].kind = "cut" /\ \A j \in (k + 1)..(n + 1) : q[j].kind # "stop"
      BY <1>1, <1>4 DEF CutBy
    <2>2. k # n + 1
      BY <1>1, <1>4, <2>1
    <2>3. k \in 1..n /\ \A j \in (k + 1)..n : j \in (k + 1)..(n + 1) /\ j \in 1..n
      BY <1>1, <2>1, <2>2
    <2>4. p[k].kind = "cut" /\ \A j \in (k + 1)..n : p[j].kind # "stop"
      BY <1>1, <2>1, <2>3
    <2> QED
      BY <2>3, <2>4 DEF CutBy, n
  <1>5. ASSUME l.kind \notin {"cut", "stop"}, CutBy(p) PROVE CutBy(q)
    <2>1. PICK k \in 1..n : p[k].kind = "cut" /\ \A j \in (k + 1)..n : p[j].kind # "stop"
      BY <1>5 DEF CutBy, n
    <2>2. k \in 1..(n + 1) /\ \A j \in (k + 1)..(n + 1) : j = n + 1 \/ (j \in (k + 1)..n /\ j \in 1..n)
      BY <1>1, <2>1
    <2>3. q[k].kind = "cut" /\ \A j \in (k + 1)..(n + 1) : q[j].kind # "stop"
      BY <1>1, <1>5, <2>1, <2>2
    <2> QED
      BY <1>1, <2>2, <2>3 DEF CutBy
  <1> QED
    BY <1>2, <1>3, <1>4, <1>5 DEF q

LEMMA RecordedRests ==
  ASSUME NEW p \in Seq(Lines), NEW l \in Lines, NEW i, NEW a, Recorded(a, p, i),
         l.kind \notin {"head", "arg", "garbled"} \/ l.i # i
  PROVE  Recorded(a, Append(p, l), i)
  <1>1. /\ Of(Append(p, l), "head", i) = Of(p, "head", i)
        /\ Of(Append(p, l), "garbled", i) = Of(p, "garbled", i)
        /\ Of(Append(p, l), "arg", i) = Of(p, "arg", i)
    BY OfAppended
  <1> QED
    BY <1>1 DEF Recorded

LEMMA RecordedMerged ==
  ASSUME NEW p \in Seq(Lines), NEW i \in Index, NEW kind \in {"head", "arg", "garbled"},
         Line(kind, i, "none") \in Lines, NEW a \in AccRec, Recorded(a, p, i)
  PROVE  /\ Merged(a, kind) \in AccRec
         /\ Recorded(Merged(a, kind), Append(p, Line(kind, i, "none")), i)
  <1> DEFINE l == Line(kind, i, "none")
             q == Append(p, l)
  <1>1. l.kind = kind /\ l.i = i
    BY DEF Line
  <1>2. l \in Lines
    OBVIOUS
  <1> HIDE DEF l
  <1>3. ASSUME NEW k \in {"head", "arg", "garbled"}
        PROVE  /\ kind # k => Of(q, k, i) = Of(p, k, i)
               /\ kind = k => Of(q, k, i) # {} /\ Cardinality(Of(q, k, i)) = Cardinality(Of(p, k, i)) + 1
               /\ Cardinality(Of(p, k, i)) \in Nat
    <2>1. kind = k => l = Line(k, i, "none")
      BY DEF l
    <2> QED
      BY <1>1, <1>2, <2>1, OfAppended
  <1> HIDE DEF q
  <1>4. CASE kind = "head"
    <2>1. Merged(a, kind) = [a EXCEPT !.seen = TRUE, !.head = TRUE]
      BY <1>4 DEF Merged
    <2>2. /\ Merged(a, kind) \in AccRec /\ Merged(a, kind).head = TRUE /\ Merged(a, kind).seen = TRUE
          /\ Merged(a, kind).args = a.args /\ Merged(a, kind).garbled = a.garbled
      BY <2>1 DEF AccRec
    <2>3. /\ Of(q, "head", i) # {} /\ Of(q, "arg", i) = Of(p, "arg", i)
          /\ Of(q, "garbled", i) = Of(p, "garbled", i)
      BY <1>3, <1>4
    <2> QED
      BY <2>2, <2>3 DEF Recorded, q, l
  <1>5. CASE kind = "arg"
    <2>1. Merged(a, kind) = [a EXCEPT !.seen = TRUE, !.args = @ + 1]
      BY <1>5 DEF Merged
    <2>2. /\ Merged(a, kind) \in AccRec /\ Merged(a, kind).head = a.head /\ Merged(a, kind).seen = TRUE
          /\ Merged(a, kind).args = a.args + 1 /\ Merged(a, kind).garbled = a.garbled
          /\ a.args \in Nat
      <3>1. /\ a = [seen |-> a.seen, head |-> a.head, args |-> a.args, garbled |-> a.garbled]
            /\ a.args \in Nat /\ a.head \in BOOLEAN /\ a.garbled \in BOOLEAN
        BY DEF AccRec
      <3>2. Merged(a, kind)
              = [seen |-> TRUE, head |-> a.head, args |-> a.args + 1, garbled |-> a.garbled]
        BY <2>1, <3>1
      <3>3. a.args + 1 \in Nat
        BY <3>1
      <3> QED
        BY <3>1, <3>2, <3>3 DEF AccRec
    <2>3. /\ Of(q, "head", i) = Of(p, "head", i) /\ Of(q, "garbled", i) = Of(p, "garbled", i)
          /\ Cardinality(Of(q, "arg", i)) = Cardinality(Of(p, "arg", i)) + 1
      BY <1>3, <1>5
    <2> QED
      BY <2>2, <2>3 DEF Recorded, q, l
  <1>6. CASE kind = "garbled"
    <2>1. Merged(a, kind) = [a EXCEPT !.seen = TRUE, !.garbled = TRUE]
      BY <1>6 DEF Merged
    <2>2. /\ Merged(a, kind) \in AccRec /\ Merged(a, kind).head = a.head /\ Merged(a, kind).seen = TRUE
          /\ Merged(a, kind).args = a.args /\ Merged(a, kind).garbled = TRUE
      BY <2>1 DEF AccRec
    <2>3. /\ Of(q, "head", i) = Of(p, "head", i) /\ Of(q, "garbled", i) # {}
          /\ Of(q, "arg", i) = Of(p, "arg", i)
      BY <1>3, <1>6
    <2> QED
      BY <2>2, <2>3 DEF Recorded, q, l
  <1> QED
    BY <1>4, <1>5, <1>6

CallRec == [i : Nat, args : Nat, truncated : BOOLEAN]

LEMMA Remarked ==
  ASSUME NEW i, NEW b, NEW f
  PROVE  Call(i, 0, f) = [Call(i, 0, b) EXCEPT !.truncated = f] /\ Call(i, 0, b).args = 0
  BY DEF Call

LEMMA Unmarked ==
  ASSUME NEW i, NEW b
  PROVE  Call(i, 0, FALSE) = [Call(i, 0, b) EXCEPT !.truncated = FALSE] /\ Call(i, 0, b).args = 0
  <1>1. \A x, f : Call(i, 0, f) = [Call(i, 0, x) EXCEPT !.truncated = f] /\ Call(i, 0, x).args = 0
    BY Remarked
  <1> QED
    BY <1>1

LEMMA CallType ==
  ASSUME NEW i \in Nat, NEW x \in Nat, NEW b \in BOOLEAN
  PROVE  Call(i, x, b) \in CallRec
  BY DEF Call, CallRec

LEMMA ToldType ==
  ASSUME NEW p \in Seq(Lines), NEW i \in Nat
  PROVE  ToldBy(p, i) \in CallRec
  <1>1. Cardinality(Of(p, "arg", i)) \in Nat
    <2>1. Len(p) \in Nat /\ Of(p, "arg", i) \in SUBSET (1..Len(p))
      BY DEF Of, LinesOf
    <2> QED
      BY <2>1, BeforeFinite
  <1>2. Garbled \in Nat
    BY SizesAssumption DEF Garbled
  <1> DEFINE x == IF Of(p, "garbled", i) # {} THEN Garbled ELSE Cardinality(Of(p, "arg", i))
             b == IF Of(p, "garbled", i) # {} THEN CutBy(p)
                  ELSE 0 < Cardinality(Of(p, "arg", i)) /\ Cardinality(Of(p, "arg", i)) < Frags
  <1>3. x \in Nat
    BY <1>1, <1>2
  <1>6. CutBy(p) \in BOOLEAN
    BY DEF CutBy
  <1>4. b \in BOOLEAN
    BY <1>6, Zenon
  <1>5. ToldBy(p, i) = Call(i, x, b)
    BY Zenon DEF ToldBy
  <1> HIDE DEF x, b
  <1> QED
    BY <1>3, <1>4, <1>5, CallType

LEMMA NamedNth ==
  ASSUME NEW p \in Seq(Lines)
  PROVE  /\ Cardinality(NamedBy(p)) \in Nat
         /\ \A n \in 1..Cardinality(NamedBy(p)) : Nth(NamedBy(p), n) \in Index
  <1>1. MaxIndex \in Nat /\ NamedBy(p) \in SUBSET (1..MaxIndex)
    BY SizesAssumption DEF NamedBy, Index
  <1>2. Cardinality(NamedBy(p)) \in Nat
    BY <1>1, BeforeFinite
  <1> QED
    BY <1>1, <1>2, NthIn DEF Index

LEMMA CallsType ==
  ASSUME NEW p \in Seq(Lines)
  PROVE  CallsBy(p) \in Seq(CallRec) /\ Len(CallsBy(p)) = Cardinality(NamedBy(p))
  <1>1. /\ Cardinality(NamedBy(p)) \in Nat
        /\ \A n \in 1..Cardinality(NamedBy(p)) : ToldBy(p, Nth(NamedBy(p), n)) \in CallRec
    <2>1. \A i \in Index : i \in Nat
      BY SizesAssumption DEF Index
    <2> QED
      BY <2>1, NamedNth, ToldType
  <1>2. CallsBy(p) \in [1..Cardinality(NamedBy(p)) -> CallRec]
    BY <1>1 DEF CallsBy
  <1> QED
    BY <1>1, <1>2

\* The end of an answer adds nothing to its calls.
LEMMA CallsAppended ==
  ASSUME NEW p \in Seq(Lines), NEW l \in Lines, l.kind = "end"
  PROVE  CallsBy(Append(p, l)) = CallsBy(p)
  <1>1. \A k \in {"head", "arg", "garbled"} : \A i : Of(Append(p, l), k, i) = Of(p, k, i)
    BY OfAppended
  <1>4. CutBy(Append(p, l)) = CutBy(p)
    <2>1. CutBy(Append(p, l)) <=> CutBy(p)
      BY CutAppended
    <2> QED
      BY <2>1 DEF CutBy
  <1>2. NamedBy(Append(p, l)) = NamedBy(p)
    BY <1>1 DEF NamedBy
  <1>3. \A i : ToldBy(Append(p, l), i) = ToldBy(p, i)
    BY <1>1, <1>4 DEF ToldBy
  <1> QED
    BY <1>2, <1>3 DEF CallsBy

\* ToolCallAccumulator::finish tells what the lines said.
LEMMA FinishedTold ==
  ASSUME NEW p \in Seq(Lines), NEW i \in Index, acc[i] \in AccRec, Recorded(acc[i], p, i),
         cut \in BOOLEAN, cut <=> CutBy(p)
  PROVE  Finished(i) = ToldBy(p, i)
  <1>1. acc[i].args \in Nat /\ acc[i].garbled \in BOOLEAN
    BY DEF AccRec
  <1>2. acc[i].args \in 1..(Frags - 1) <=> 0 < acc[i].args /\ acc[i].args < Frags
    BY <1>1, SizesAssumption
  <1>3. (acc[i].garbled <=> Of(p, "garbled", i) # {}) /\ acc[i].args = Cardinality(Of(p, "arg", i))
    BY DEF Recorded
  <1>4. CASE acc[i].garbled
    <2>1. Finished(i) = Call(i, Garbled, cut)
      BY <1>1, <1>4 DEF Finished
    <2>2. ToldBy(p, i) = Call(i, Garbled, CutBy(p))
      BY <1>3, <1>4 DEF ToldBy
    <2>3. cut = CutBy(p)
      BY DEF CutBy
    <2> QED
      BY <2>1, <2>2, <2>3
  <1>5. CASE ~acc[i].garbled
    <2>1. Finished(i) = Call(i, acc[i].args, acc[i].args \in 1..(Frags - 1))
      <3> DEFINE b == acc[i].args \in 1..(Frags - 1)
                 t == \/ acc[i].garbled /\ cut
                      \/ ~acc[i].garbled /\ b
                 x == IF acc[i].garbled THEN Garbled ELSE acc[i].args
      <3>1. Finished(i) = Call(i, x, t)
        BY Zenon DEF Finished
      <3>5. t \in BOOLEAN /\ b \in BOOLEAN
        OBVIOUS
      <3>6. t <=> b
        BY <1>5
      <3>3. x = acc[i].args
        BY <1>5
      <3> HIDE DEF b, t, x
      <3>2. t = b
        BY <3>5, <3>6
      <3>4. Finished(i) = Call(i, acc[i].args, b)
        BY <3>1, <3>2, <3>3
      <3> QED
        BY <3>4 DEF b
    <2>2. ToldBy(p, i) = Call(i, acc[i].args, 0 < acc[i].args /\ acc[i].args < Frags)
      BY <1>3, <1>5 DEF ToldBy
    <2>3. (acc[i].args \in 1..(Frags - 1)) = (0 < acc[i].args /\ acc[i].args < Frags)
      BY <1>2
    <2> QED
      BY <2>1, <2>2, <2>3
  <1> QED
    BY <1>1, <1>4, <1>5

LEMMA FinishedAre ==
  ASSUME NEW p \in Seq(Lines), AllNamed, cut \in BOOLEAN, cut <=> CutBy(p),
         \A i \in Index : acc[i] \in AccRec /\ Recorded(acc[i], p, i)
  PROVE  FinishedCalls = [n \in 1..Len(CallsBy(p)) |-> [kind |-> "call", call |-> CallsBy(p)[n]]]
  <1> DEFINE named == {i \in Index : acc[i].seen /\ \A j \in 1..i : acc[j].seen => acc[j].head}
  <1>1. named = NamedBy(p)
    <2>1. \A i \in Index : \A j \in 1..i : j \in Index
      BY SizesAssumption DEF Index
    <2>2. \A i \in Index : acc[i].seen /\ (\A j \in 1..i : acc[j].seen => acc[j].head) <=> acc[i].head
      BY <2>1 DEF AllNamed, Recorded, AccRec
    <2>3. \A i \in Index : acc[i].head <=> Of(p, "head", i) # {}
      BY DEF Recorded
    <2> QED
      BY <2>2, <2>3 DEF NamedBy
  <1>2. FinishedCalls
          = [n \in 1..Cardinality(NamedBy(p)) |->
               [kind |-> "call", call |-> Finished(Nth(NamedBy(p), n))]]
    BY <1>1 DEF FinishedCalls
  <1>3. \A n \in 1..Cardinality(NamedBy(p)) : Finished(Nth(NamedBy(p), n)) = CallsBy(p)[n]
    <2>1. \A i \in Index : Finished(i) = ToldBy(p, i)
      BY FinishedTold
    <2> QED
      BY <2>1, NamedNth DEF CallsBy
  <1>4. Len(CallsBy(p)) = Cardinality(NamedBy(p))
    BY CallsType
  <1> QED
    BY <1>2, <1>3, <1>4

-----------------------------------------------------------------------------
(* The answer is whole *)

Decoded == SubSeq(sent, 1, read)

Event == [kind : {"text"}, t : Tokens] \cup [kind : {"alive"}] \cup [kind : {"call"}, call : CallRec]

\* The events of one line: one, or the calls at the end of the answer.
Shaped(q) ==
    /\ q \in Seq(Event)
    /\ q # <<>> => IF q[1].kind = "call" THEN \A n \in 1..Len(q) : q[n].kind = "call"
                   ELSE Len(q) = 1

TextIn(q) == IF q # <<>> /\ q[1].kind = "text" THEN <<q[1].t>> ELSE <<>>
CallsIn(q) == IF q # <<>> /\ q[1].kind = "call" THEN [n \in 1..Len(q) |-> q[n].call] ELSE <<>>

\* The calls the decoder has to hand on for the lines it has read.
Wanted ==
    IF api = "responses" THEN ItemCalls(Decoded)
    ELSE IF ending = "ended" THEN CallsBy(Decoded) ELSE <<>>

LinesFit ==
    \A k \in 1..Len(sent) :
        /\ sent[k].kind = "item" => api = "responses"
        /\ sent[k].kind \in {"head", "arg", "garbled"} => api # "responses"

\* Until the end the accumulators hold what the lines said.
DecoderInv ==
    /\ EndInv /\ LinesFit /\ cut \in BOOLEAN /\ acc \in [Index -> AccRec]
    /\ ending = "open" =>
        /\ \A k \in 1..read : sent[k].kind # "end"
        /\ \A i \in Index : Recorded(acc[i], Decoded, i)
        /\ api # "responses" => (cut <=> CutBy(Decoded))
    /\ ending = "ended" =>
        read > 0 /\ sent[read].kind = "end" /\ \A k \in 1..(read - 1) : sent[k].kind # "end"

\* What the agent has and what is on its way to it is what the lines said.
FlowInv ==
    /\ Shaped(queue) /\ content \in Seq(Tokens) /\ calls \in Seq(CallRec)
    /\ outcome \in Under /\ ending # "broken" =>
        /\ content \o TextIn(queue) = SaidBy(api, Decoded)
        /\ calls \o CallsIn(queue) = Wanted
    /\ WholeAnswer

LEMMA DecodedIs ==
  ASSUME EndInv
  PROVE  /\ Decoded \in Seq(Lines) /\ Len(Decoded) = read /\ read \in Nat /\ read <= Len(sent)
         /\ \A k \in 1..read : Decoded[k] = sent[k] /\ k \in 1..Len(sent)
  <1>1. sent \in Seq(Lines) /\ read \in Nat /\ read <= Len(sent) /\ Len(sent) \in Nat
    BY DEF EndInv
  <1> QED
    BY <1>1 DEF Decoded

LEMMA DecodedGrows ==
  ASSUME EndInv, NEW l, NEW events, NEW output, NEW end, Decode(l, events, output, end)
  PROVE  /\ Decoded' = Append(Decoded, l) /\ l \in Lines /\ read + 1 \in 1..Len(sent)
         /\ l = sent[read + 1]
  <1>1. /\ got >= 2 * (read + 1) /\ l = sent[read + 1] /\ read' = read + 1 /\ sent' = sent
    BY DEF Decode, LineReady
  <1>2. sent \in Seq(Lines) /\ read \in Nat /\ Len(sent) \in Nat /\ read + 1 <= Len(sent)
    BY <1>1 DEF EndInv
  <1>3. SubSeq(sent, 1, read + 1) = Append(SubSeq(sent, 1, read), sent[read + 1])
    <2> DEFINE f == SubSeq(sent, 1, read)
               g == SubSeq(sent, 1, read + 1)
    <2>3. f \in Seq(Lines) /\ Len(f) = read /\ g \in Seq(Lines) /\ Len(g) = read + 1
      BY <1>2
    <2>4. /\ \A k \in 1..read : f[k] = sent[k]
          /\ \A k \in 1..(read + 1) : g[k] = sent[k]
      BY <1>2
    <2> HIDE DEF f, g
    <2>5. f \in [1..read -> Lines] /\ g \in [1..(read + 1) -> Lines]
      BY <1>2, <2>3
    <2>1. /\ f \in [1..read -> Lines] /\ g \in [1..(read + 1) -> Lines]
          /\ (\A k \in 1..read : g[k] = f[k]) /\ g[read + 1] = sent[read + 1]
      BY <1>2, <2>4, <2>5
    <2> HIDE DEF f, g
    <2>2. g = Append(f, sent[read + 1])
      BY <1>2, <2>1, OneMore
    <2> QED
      BY <2>2 DEF f, g
  <1> QED
    BY <1>1, <1>2, <1>3 DEF Decoded

-----------------------------------------------------------------------------
(* The decoder *)

LEMMA DecoderInit == Init => DecoderInv
  <1> SUFFICES ASSUME Init PROVE DecoderInv
    OBVIOUS
  <1>1. EndInv
    BY EndInit
  <1>2. sent = <<>> /\ read = 0 /\ ending = "open" /\ cut = FALSE /\ acc = [i \in Index |-> NoCall]
    BY DEF Init
  <1>3. NoCall \in AccRec /\ NoCall.head = FALSE /\ NoCall.garbled = FALSE /\ NoCall.args = 0
        /\ NoCall.seen = FALSE
    BY DEF NoCall, AccRec
  <1>4. \A kind, i : Of(Decoded, kind, i) = {}
    <2>1. Len(Decoded) = 0
      BY <1>1, <1>2, DecodedIs
    <2> QED
      BY <2>1 DEF Of, LinesOf
  <1>5. \A i \in Index : Recorded(acc[i], Decoded, i)
    <2>1. Cardinality({}) = 0
      BY FS_EmptySet
    <2> QED
      BY <1>2, <1>3, <1>4, <2>1 DEF Recorded
  <1>6. LinesFit
    BY <1>2 DEF LinesFit
  <1>7. acc \in [Index -> AccRec]
    BY <1>2, <1>3
  <1>8. \A k \in 1..read : sent[k].kind # "end"
    BY <1>2
  <1>9. cut \in BOOLEAN /\ (cut <=> CutBy(Decoded))
    <2>1. Len(Decoded) = 0
      BY <1>1, <1>2, DecodedIs
    <2>2. \A k : k \notin 1..Len(Decoded)
      BY <2>1
    <2> QED
      BY <1>2, <2>2 DEF CutBy
  <1> QED
    BY <1>1, <1>2, <1>5, <1>6, <1>7, <1>8, <1>9 DEF DecoderInv

LEMMA DecoderOpen ==
  ASSUME DecoderInv, NEW l, NEW events, NEW output, Decode(l, events, output, "open"),
         l.kind # "end", EndInv', acc' \in [Index -> AccRec], cut' \in BOOLEAN,
         \A i \in Index : Recorded(acc'[i], Append(Decoded, l), i),
         api # "responses" => (cut' <=> CutBy(Append(Decoded, l)))
  PROVE  DecoderInv'
  <1>1. /\ ending = "open" /\ ending' = "open" /\ read' = read + 1 /\ sent' = sent /\ api' = api
    BY DEF Decode, Polling
  <1>2. Decoded' = Append(Decoded, l) /\ l = sent[read + 1] /\ read \in Nat
    BY DecodedGrows DEF DecoderInv, EndInv
  <1>3. \A k \in 1..read' : sent'[k].kind # "end"
    BY <1>1, <1>2 DEF DecoderInv
  <1>4. LinesFit'
    BY <1>1 DEF DecoderInv, LinesFit
  <1> QED
    BY <1>1, <1>2, <1>3, <1>4 DEF DecoderInv

LEMMA DecoderClosed ==
  ASSUME DecoderInv, NEW l, NEW events, NEW output, NEW end, Decode(l, events, output, end),
         end # "open", end = "ended" => l.kind = "end", EndInv',
         acc' \in [Index -> AccRec], cut' \in BOOLEAN
  PROVE  DecoderInv'
  <1>1. /\ ending = "open" /\ ending' = end /\ read' = read + 1 /\ sent' = sent /\ api' = api
    BY DEF Decode, Polling
  <1>2. l = sent[read + 1] /\ read \in Nat
    BY DecodedGrows DEF DecoderInv, EndInv
  <1>3. \A k \in 1..(read' - 1) : sent'[k].kind # "end"
    BY <1>1, <1>2 DEF DecoderInv
  <1>4. LinesFit'
    BY <1>1 DEF DecoderInv, LinesFit
  <1> QED
    BY <1>1, <1>2, <1>3, <1>4 DEF DecoderInv

\* A line that is no part of a call leaves the accumulators right.
LEMMA DecoderPlain ==
  ASSUME DecoderInv, NEW l, NEW events, NEW output, Decode(l, events, output, "open"),
         l.kind \notin {"end", "head", "arg", "garbled", "cut", "stop"}, EndInv', UNCHANGED <<acc, cut>>
  PROVE  DecoderInv'
  <1>1. EndInv /\ ending = "open" /\ l \in Lines /\ Decoded \in Seq(Lines)
    BY DecodedGrows, DecodedIs DEF DecoderInv, Decode, Polling
  <1>2. \A i \in Index : Recorded(acc[i], Append(Decoded, l), i)
    BY <1>1, RecordedRests DEF DecoderInv
  <1>3. CutBy(Append(Decoded, l)) <=> CutBy(Decoded)
    BY <1>1, CutAppended
  <1>4. /\ acc' \in [Index -> AccRec] /\ cut' \in BOOLEAN
        /\ \A i \in Index : Recorded(acc'[i], Append(Decoded, l), i)
        /\ api # "responses" => (cut' <=> CutBy(Append(Decoded, l)))
    BY <1>1, <1>2, <1>3 DEF DecoderInv
  <1> QED
    BY <1>4, DecoderOpen

LEMMA DecoderDecodes ==
  ASSUME DecoderInv, EndInv',
         DecodeText \/ DecodeAlive \/ DecodeCall \/ DecodeItem \/ DecodeCut \/ DecodeStop
      \/ DecodeEnd \/ DecodeBad
  PROVE  DecoderInv'
  <1>0. /\ EndInv /\ acc \in [Index -> AccRec] /\ cut \in BOOLEAN /\ Decoded \in Seq(Lines)
    BY DecodedIs DEF DecoderInv
  <1>1. CASE DecodeText \/ DecodeAlive \/ DecodeItem
    <2>1. PICK l, events, output :
             /\ Decode(l, events, output, "open") /\ l.kind \in {"text", "alive", "noise", "item"}
      <3>1. \A t, i : Text(t).kind = "text" /\ Line("alive", 0, t).kind = "alive"
                      /\ Line("noise", 0, t).kind = "noise" /\ Line("item", i, t).kind = "item"
        BY DEF Text, Line
      <3>2. CASE DecodeText
        <4>1. PICK t \in Tokens : IF api = "chat" /\ t = "blank"
                                 THEN Decode(Text(t), <<>>, FALSE, "open")
                                 ELSE Decode(Text(t), <<[kind |-> "text", t |-> t]>>, TRUE, "open")
          BY <3>2 DEF DecodeText
        <4> QED
          BY <3>1, <4>1, Zenon
      <3>3. CASE DecodeAlive
        BY <3>1, <3>3, Zenon DEF DecodeAlive
      <3>4. CASE DecodeItem
        BY <3>1, <3>4, Zenon DEF DecodeItem
      <3> QED
        BY <1>1, <3>2, <3>3, <3>4
    <2>2. UNCHANGED <<acc, cut>>
      BY <1>1 DEF DecodeText, DecodeAlive, DecodeItem
    <2> QED
      BY <2>1, <2>2, DecoderPlain
  <1>2. CASE DecodeCall
    <2>1. PICK i \in Index, kind \in {"head", "arg", "garbled"} :
            /\ Decode(Line(kind, i, "none"), <<>>, FALSE, "open")
            /\ acc' = [acc EXCEPT ![i] = Merged(@, kind)]
      BY <1>2 DEF DecodeCall
    <2> DEFINE l == Line(kind, i, "none")
    <2>2. l.kind = kind /\ l.i = i /\ cut' = cut /\ ending = "open"
      BY <1>2, <2>1 DEF DecodeCall, Line, Decode, Polling
    <2>3. l \in Lines
      BY <1>0, <2>1, DecodedGrows
    <2>4. Merged(acc[i], kind) \in AccRec /\ Recorded(Merged(acc[i], kind), Append(Decoded, l), i)
      BY <1>0, <2>2, <2>3, RecordedMerged DEF DecoderInv
    <2>5. \A j \in Index \ {i} : Recorded(acc[j], Append(Decoded, l), j)
      <3> HIDE DEF l
      <3> QED
        BY <1>0, <2>2, <2>3, RecordedRests DEF DecoderInv
    <2>6. CutBy(Append(Decoded, l)) <=> CutBy(Decoded)
      <3> HIDE DEF l
      <3> QED
        BY <1>0, <2>1, <2>2, <2>3, CutAppended
    <2>7. Decode(l, <<>>, FALSE, "open")
      BY <2>1
    <2> HIDE DEF l
    <2>8. acc' \in [Index -> AccRec] /\ \A j \in Index : Recorded(acc'[j], Append(Decoded, l), j)
      BY <1>0, <2>1, <2>4, <2>5
    <2>9. l.kind # "end" /\ cut' \in BOOLEAN
          /\ (api # "responses" => (cut' <=> CutBy(Append(Decoded, l))))
      BY <1>0, <2>2, <2>6 DEF DecoderInv
    <2> QED
      BY <2>7, <2>8, <2>9, DecoderOpen
  <1>3. CASE DecodeCut
    <2> DEFINE l == Line("cut", 0, "none")
    <2>1. /\ Decode(l, <<>>, FALSE, IF api = "responses" THEN "broken" ELSE "open")
          /\ cut' = (api # "responses") /\ acc' = acc /\ ending = "open"
      BY <1>3 DEF DecodeCut, Decode, Polling
    <2>2. l.kind = "cut" /\ l = Line("cut", 0, "none")
      BY DEF Line
    <2> HIDE DEF l
    <2>3. l \in Lines
      BY <1>0, <2>1, DecodedGrows
    <2>4. CASE api = "responses"
      <3>1. Decode(l, <<>>, FALSE, "broken")
        BY <2>1, <2>4
      <3> QED
        BY <1>0, <2>1, <2>2, <3>1, DecoderClosed
    <2>5. CASE api # "responses"
      <3>1. Decode(l, <<>>, FALSE, "open")
        BY <2>1, <2>5
      <3>2. \A i \in Index : Recorded(acc[i], Append(Decoded, l), i)
        BY <1>0, <2>1, <2>2, <2>3, RecordedRests DEF DecoderInv
      <3>3. CutBy(Append(Decoded, l))
        BY <1>0, <2>2, <2>3, CutAppended
      <3>4. /\ acc' \in [Index -> AccRec] /\ cut' \in BOOLEAN /\ l.kind # "end"
            /\ \A i \in Index : Recorded(acc'[i], Append(Decoded, l), i)
            /\ api # "responses" => (cut' <=> CutBy(Append(Decoded, l)))
        BY <1>0, <2>1, <2>2, <2>5, <3>2, <3>3
      <3> QED
        BY <3>1, <3>4, DecoderOpen
    <2> QED
      BY <2>4, <2>5
  <1>4. CASE DecodeEnd
    <2>1. PICK events, output, end :
             Decode(Line("end", 0, "none"), events, output, end) /\ end \in {"ended", "broken"}
      BY <1>4 DEF DecodeEnd
    <2>2. Line("end", 0, "none").kind = "end" /\ NoCall \in AccRec
      BY DEF Line, NoCall, AccRec
    <2>3. acc' \in [Index -> AccRec] /\ cut' \in BOOLEAN
      BY <1>0, <1>4, <2>2 DEF DecodeEnd
    <2> QED
      BY <2>1, <2>2, <2>3, DecoderClosed
  <1>5. CASE DecodeBad
    <2>1. Decode(Line("bad", 0, "none"), <<>>, FALSE, "broken") /\ UNCHANGED <<acc, cut>>
      BY <1>5 DEF DecodeBad
    <2> QED
      BY <1>0, <2>1, DecoderClosed
  <1>6. CASE DecodeStop
    <2> DEFINE l == Line("stop", 0, "none")
    <2>1. Decode(l, <<>>, FALSE, "open") /\ cut' = FALSE /\ acc' = acc /\ ending = "open"
      BY <1>6 DEF DecodeStop, Decode, Polling
    <2>2. l.kind = "stop"
      BY DEF Line
    <2> HIDE DEF l
    <2>3. l \in Lines
      BY <1>0, <2>1, DecodedGrows
    <2>4. \A i \in Index : Recorded(acc[i], Append(Decoded, l), i)
      BY <1>0, <2>1, <2>2, <2>3, RecordedRests DEF DecoderInv
    <2>5. ~CutBy(Append(Decoded, l))
      BY <1>0, <2>2, <2>3, CutAppended
    <2>6. /\ acc' \in [Index -> AccRec] /\ cut' \in BOOLEAN /\ l.kind # "end"
          /\ \A i \in Index : Recorded(acc'[i], Append(Decoded, l), i)
          /\ api # "responses" => (cut' <=> CutBy(Append(Decoded, l)))
      BY <1>0, <2>1, <2>2, <2>4, <2>5
    <2> QED
      BY <2>1, <2>6, DecoderOpen
  <1> QED
    BY <1>1, <1>2, <1>3, <1>4, <1>5, <1>6

LEMMA DecoderEmit ==
  ASSUME DecoderInv, EndInv', NEW l \in Lines, Emit(l)
  PROVE  DecoderInv' /\ Decoded' = Decoded
  <1>1. /\ sent' = Append(sent, l) /\ UNCHANGED <<read, ending, acc, cut, api>>
        /\ (l.kind = "item" => api = "responses")
        /\ (l.kind \in {"head", "arg", "garbled"} => api # "responses")
    BY DEF Emit, decoder, Sendable
  <1>2. sent \in Seq(Lines) /\ read \in Nat /\ read <= Len(sent) /\ Len(sent) \in Nat
    BY DEF DecoderInv, EndInv
  <1>3. /\ Len(sent') = Len(sent) + 1 /\ (\A k \in 1..Len(sent) : sent'[k] = sent[k])
        /\ sent'[Len(sent) + 1] = l
    BY <1>1, <1>2
  <1>4. Decoded' = Decoded
    BY <1>1, <1>2, <1>3 DEF Decoded
  <1>5. LinesFit'
    BY <1>1, <1>2, <1>3 DEF DecoderInv, LinesFit
  <1>6. \A k \in 1..read : sent'[k] = sent[k]
    BY <1>2, <1>3
  <1>7. ending = "ended" => read' > 0 /\ sent'[read'].kind = "end"
                            /\ \A k \in 1..(read' - 1) : sent'[k].kind # "end"
    BY <1>1, <1>2, <1>6 DEF DecoderInv
  <1> QED
    BY <1>1, <1>4, <1>5, <1>6, <1>7 DEF DecoderInv

LEMMA DecoderRests ==
  ASSUME DecoderInv, EndInv', UNCHANGED <<sent, read, acc, cut, api>>,
         ending' = ending \/ ending' = "broken"
  PROVE  DecoderInv'
  BY DEF DecoderInv, LinesFit, Decoded

LEMMA DecoderNext == DecoderInv /\ EndInv' /\ [Next]_vars => DecoderInv'
  <1> SUFFICES ASSUME DecoderInv, EndInv', [Next]_vars PROVE DecoderInv'
    OBVIOUS
  <1>1. CASE \E l \in Lines : Emit(l)
    BY <1>1, DecoderEmit
  <1>2. CASE DecodeText \/ DecodeAlive \/ DecodeCall \/ DecodeItem \/ DecodeCut \/ DecodeStop
      \/ DecodeEnd \/ DecodeBad
    BY <1>2, DecoderDecodes
  <1>3. CASE \/ UNCHANGED vars \/ (\E how \in {"whole", "half"} : Close(how)) \/ Cancel
             \/ (\E n \in 1..(2 * MaxAhead) : Chunk(n)) \/ Disconnect \/ Opened \/ OpenFailed
             \/ Take \/ StreamFails \/ Timeout \/ NoticeCancel \/ Done
             \/ \E offered \in BOOLEAN : Finish(offered)
    <2>1. UNCHANGED <<sent, read, acc, cut, api>> /\ (ending' = ending \/ ending' = "broken")
      BY <1>3 DEF vars, decoder, Close, Cancel, Chunk, Disconnect, Opened, OpenFailed, Take,
                  StreamFails, Timeout, NoticeCancel, Finish, Done
    <2> QED
      BY <2>1, DecoderRests
  <1> QED
    BY <1>1, <1>2, <1>3 DEF Next

-----------------------------------------------------------------------------
(* From the decoder to the agent *)

LEMMA ValuesAre ==
  ASSUME NEW V, NEW c \in Nat, NEW f \in [1..c -> V]
  PROVE  f \in Seq(V) /\ Len(f) = c
  OBVIOUS

LEMMA NoneLeft ==
  ASSUME NEW S, NEW s \in Seq(S), Len(s) = 0
  PROVE  s = <<>>
  OBVIOUS

LEMMA EventIs ==
  ASSUME NEW e \in Event
  PROVE  /\ e.kind \in {"text", "alive", "call"}
         /\ e.kind = "text" => e.t \in Tokens
         /\ e.kind = "call" => e.call \in CallRec
  BY DEF Event

LEMMA EmptyShape ==
  Shaped(<<>>) /\ TextIn(<<>>) = <<>> /\ CallsIn(<<>>) = <<>>
  BY DEF Shaped, TextIn, CallsIn

LEMMA OneShaped ==
  ASSUME NEW e \in Event
  PROVE  /\ Shaped(<<e>>)
         /\ e.kind = "text" => TextIn(<<e>>) = <<e.t>> /\ CallsIn(<<e>>) = <<>>
         /\ e.kind = "alive" => TextIn(<<e>>) = <<>> /\ CallsIn(<<e>>) = <<>>
         /\ e.kind = "call" => TextIn(<<e>>) = <<>> /\ CallsIn(<<e>>) = <<e.call>>
  <1>1. <<e>> \in Seq(Event) /\ <<e>> # <<>> /\ Len(<<e>>) = 1 /\ <<e>>[1] = e
    OBVIOUS
  <1>2. Shaped(<<e>>)
    BY <1>1 DEF Shaped
  <1>3. /\ e.kind = "text" => TextIn(<<e>>) = <<e.t>> /\ CallsIn(<<e>>) = <<>>
        /\ e.kind = "alive" => TextIn(<<e>>) = <<>> /\ CallsIn(<<e>>) = <<>>
        /\ e.kind = "call" => TextIn(<<e>>) = <<>>
    BY <1>1 DEF TextIn, CallsIn
  <1>4. ASSUME e.kind = "call" PROVE CallsIn(<<e>>) = <<e.call>>
    <2> DEFINE c == CallsIn(<<e>>)
    <2>1. c = [n \in 1..1 |-> <<e>>[n].call]
      BY <1>1, <1>4 DEF CallsIn
    <2>2. e.call \in CallRec
      BY <1>4, EventIs
    <2>3. c \in [1..1 -> CallRec] /\ c[1] = e.call
      BY <1>1, <2>1, <2>2
    <2> HIDE DEF c
    <2>4. c \in Seq(CallRec) /\ Len(c) = 1
      BY <2>3, ValuesAre
    <2>5. c = <<c[1]>>
      BY <2>4, OneToken
    <2> QED
      BY <2>3, <2>5 DEF c
  <1> QED
    BY <1>2, <1>3, <1>4

\* Taking an event leaves the others as they were.
LEMMA ShapedTail ==
  ASSUME NEW q, Shaped(q), q # <<>>
  PROVE  /\ Shaped(Tail(q)) /\ Head(q) \in Event /\ Head(q) = q[1]
         /\ q[1].kind # "call" => /\ Tail(q) = <<>> /\ CallsIn(q) = <<>>
                                  /\ TextIn(q) = IF q[1].kind = "text" THEN <<q[1].t>> ELSE <<>>
         /\ q[1].kind = "call" => /\ TextIn(q) = <<>> /\ TextIn(Tail(q)) = <<>>
                                  /\ CallsIn(Tail(q)) \in Seq(CallRec)
                                  /\ CallsIn(q) = <<q[1].call>> \o CallsIn(Tail(q))
  <1>1. /\ q \in Seq(Event) /\ Len(q) \in Nat /\ Len(q) >= 1 /\ Head(q) = q[1] /\ q[1] \in Event
        /\ Tail(q) \in Seq(Event) /\ Len(Tail(q)) = Len(q) - 1
        /\ \A n \in 1..(Len(q) - 1) : Tail(q)[n] = q[n + 1]
    BY DEF Shaped
  <1>2. CASE q[1].kind # "call"
    <2>1. Len(q) = 1
      BY <1>2 DEF Shaped
    <2>3. Tail(q) \in Seq(Event) /\ Len(Tail(q)) = 0
      BY <1>1, <2>1
    <2>2. Tail(q) = <<>>
      BY <2>3, NoneLeft, Zenon
    <2> QED
      BY <1>1, <1>2, <2>2, EmptyShape DEF TextIn, CallsIn
  <1>3. CASE q[1].kind = "call"
    <2> DEFINE r == Tail(q)
    <2>1. \A n \in 1..Len(q) : q[n].kind = "call"
      BY <1>3 DEF Shaped
    <2>2. r \in Seq(Event) /\ Len(r) = Len(q) - 1 /\ \A n \in 1..Len(r) : r[n] = q[n + 1]
      BY <1>1
    <2>3. \A n \in 1..Len(q) : q[n] \in Event /\ q[n].call \in CallRec
      BY <1>1, <2>1, EventIs
    <2> HIDE DEF r
    <2>4. \A n \in 1..Len(r) : r[n].kind = "call" /\ n + 1 \in 1..Len(q) /\ r[n].call = q[n + 1].call
      BY <1>1, <2>1, <2>2
    <2>5. r # <<>> => Len(r) >= 1 /\ r[1].kind = "call"
      BY <2>2, <2>4
    <2>6. Shaped(r)
      BY <2>2, <2>4, <2>5 DEF Shaped
    <2>7. TextIn(q) = <<>> /\ TextIn(r) = <<>>
      BY <1>3, <2>5 DEF TextIn
    <2> DEFINE c == CallsIn(q)
               d == CallsIn(r)
    <2>8. c = [n \in 1..Len(q) |-> q[n].call]
      BY <1>3 DEF CallsIn
    <2>9. d = [n \in 1..Len(r) |-> r[n].call]
      <3>1. CASE r = <<>>
        <4>1. d = <<>> /\ Len(r) = 0
          BY <3>1 DEF CallsIn
        <4> QED
          BY <4>1
      <3>2. CASE r # <<>>
        BY <2>5, <3>2 DEF CallsIn
      <3> QED
        BY <3>1, <3>2
    <2> HIDE DEF c, d
    <2>10. c \in [1..Len(q) -> CallRec]
      BY <2>3, <2>8
    <2>11. d \in [1..Len(r) -> CallRec] /\ \A n \in 1..Len(r) : d[n] = c[n + 1]
      BY <2>3, <2>4, <2>8, <2>9
    <2>15. Len(q) \in Nat /\ Len(r) \in Nat
      BY <1>1, <2>2
    <2>12. c \in Seq(CallRec) /\ Len(c) = Len(q) /\ d \in Seq(CallRec) /\ Len(d) = Len(r)
      BY <2>10, <2>11, <2>15, ValuesAre, Zenon
    <2>13. c[1] = q[1].call /\ c[1] \in CallRec
      BY <1>1, <2>8, <2>10
    <2>14. c = <<c[1]>> \o d
      <3> DEFINE s == <<c[1]>> \o d
      <3>1. s \in Seq(CallRec) /\ Len(s) = 1 + Len(d) /\ s[1] = c[1]
        BY <2>12, <2>13
      <3>2. \A n \in 2..(1 + Len(d)) : s[n] = d[n - 1]
        BY <2>12, <2>13
      <3> HIDE DEF s
      <3>3. \A n \in 1..Len(c) : s[n] = c[n]
        BY <1>1, <2>2, <2>11, <2>12, <3>1, <3>2
      <3>4. Len(s) = Len(c)
        BY <1>1, <2>2, <2>12, <3>1
      <3>5. s = c
        BY <2>12, <3>1, <3>3, <3>4
      <3> QED
        BY <3>5 DEF s
    <2> QED
      BY <1>1, <1>3, <2>6, <2>7, <2>12, <2>13, <2>14 DEF c, d, r
  <1> QED
    BY <1>1, <1>2, <1>3

LEMMA FinishedType ==
  ASSUME acc \in [Index -> AccRec], cut \in BOOLEAN, NEW i \in Index
  PROVE  Finished(i) \in CallRec
  <1> DEFINE x == IF acc[i].garbled THEN Garbled ELSE acc[i].args
             b == \/ acc[i].garbled /\ cut
                  \/ ~acc[i].garbled /\ acc[i].args \in 1..(Frags - 1)
  <1>1. x \in Nat /\ i \in Nat
    BY SizesAssumption DEF AccRec, Garbled, Index
  <1>2. b \in BOOLEAN
    OBVIOUS
  <1>3. Finished(i) = Call(i, x, b)
    BY Zenon DEF Finished
  <1> HIDE DEF x, b
  <1> QED
    BY <1>1, <1>2, <1>3, CallType

LEMMA HandedShape ==
  ASSUME acc \in [Index -> AccRec], cut \in BOOLEAN
  PROVE  Shaped(Handed) /\ TextIn(Handed) = <<>>
  <1> DEFINE named == {i \in Index : acc[i].seen /\ \A j \in 1..i : acc[j].seen => acc[j].head}
             m == Cardinality(named)
             F(k) == [kind |-> "call", call |-> Finished(Nth(named, k))]
  <1>1. MaxIndex \in Nat /\ named \in SUBSET (1..MaxIndex)
    BY SizesAssumption DEF Index
  <1>2. FinishedCalls = [k \in 1..m |-> F(k)]
    BY DEF FinishedCalls
  <1> HIDE DEF named
  <1>3. m \in Nat /\ \A k \in 1..m : Nth(named, k) \in Index
    BY <1>1, BeforeFinite, NthIn DEF Index
  <1> HIDE DEF m
  <1>4. \A k \in 1..m : F(k) \in Event /\ F(k).kind = "call"
    BY <1>3, FinishedType DEF Event
  <1> HIDE DEF F
  <1>5. FinishedCalls \in [1..m -> Event] /\ \A k \in 1..m : FinishedCalls[k].kind = "call"
    BY <1>2, <1>4
  <1>6. FinishedCalls \in Seq(Event) /\ Len(FinishedCalls) = m
    BY <1>3, <1>5
  <1>7. FinishedCalls # <<>> => m >= 1 /\ FinishedCalls[1].kind = "call"
    BY <1>3, <1>5, <1>6
  <1>8. Shaped(FinishedCalls) /\ TextIn(FinishedCalls) = <<>>
    BY <1>5, <1>6, <1>7 DEF Shaped, TextIn
  <1> QED
    BY <1>8, EmptyShape DEF Handed

LEMMA Joined ==
  ASSUME NEW V, NEW s \in Seq(V), NEW x \in V
  PROVE  s \o <<>> = s /\ <<>> \o s = s /\ Append(s, x) = s \o <<x>>
  OBVIOUS

LEMMA JoinedThrice ==
  ASSUME NEW V, NEW r \in Seq(V), NEW s \in Seq(V), NEW t \in Seq(V)
  PROVE  (r \o s) \o t = r \o (s \o t)
  OBVIOUS

\* Before a line is decoded, the agent has all there is.
LEMMA FlowPolling ==
  ASSUME FlowInv, Polling
  PROVE  /\ content \in Seq(Tokens) /\ calls \in Seq(CallRec) /\ outcome = "streaming" /\ ending = "open"
         /\ content = SaidBy(api, Decoded) /\ calls = Wanted
  <1>1. /\ outcome = "streaming" /\ ending = "open" /\ queue = <<>>
        /\ content \in Seq(Tokens) /\ calls \in Seq(CallRec)
    BY DEF Polling, FlowInv
  <1>2. content \o TextIn(queue) = SaidBy(api, Decoded) /\ calls \o CallsIn(queue) = Wanted
    BY <1>1 DEF FlowInv, Under
  <1>3. content \o <<>> = content /\ calls \o <<>> = calls
    BY <1>1
  <1> QED
    BY <1>1, <1>2, <1>3, EmptyShape

LEMMA FlowDecode ==
  ASSUME DecoderInv, FlowInv, NEW l, NEW events, NEW output, NEW end,
         Decode(l, events, output, end), Shaped(events),
         end # "broken" =>
            /\ TextIn(events) = IF TextAt(api, l) THEN <<l.t>> ELSE <<>>
            /\ TextAt(api, l) => l.t \in Tokens
            /\ Wanted' = calls \o CallsIn(events)
  PROVE  FlowInv'
  <1>1. /\ Polling /\ queue' = events /\ ending' = end
        /\ UNCHANGED <<api, content, calls, outcome>>
    BY DEF Decode, agent
  <1>2. /\ content \in Seq(Tokens) /\ calls \in Seq(CallRec) /\ outcome = "streaming"
        /\ content = SaidBy(api, Decoded)
    BY <1>1, FlowPolling
  <1>3. Decoded' = Append(Decoded, l) /\ l \in Lines /\ Decoded \in Seq(Lines)
    BY DecodedGrows, DecodedIs DEF DecoderInv
  <1>4. ASSUME end # "broken"
        PROVE  content \o TextIn(events) = SaidBy(api, Append(Decoded, l))
    <2>1. CASE TextAt(api, l)
      <3>1. SaidBy(api, Append(Decoded, l)) = Append(content, l.t)
        BY <1>2, <1>3, <2>1, SaidAppended
      <3>2. TextIn(events) = <<l.t>> /\ l.t \in Tokens
        BY <1>4, <2>1
      <3>3. Append(content, l.t) = content \o <<l.t>>
        BY <1>2, <3>2, Joined
      <3> QED
        BY <3>1, <3>2, <3>3
    <2>2. CASE ~TextAt(api, l)
      <3>1. SaidBy(api, Append(Decoded, l)) = content
        BY <1>2, <1>3, <2>2, SaidAppended
      <3>2. TextIn(events) = <<>>
        BY <1>4, <2>2
      <3>3. content \o <<>> = content
        BY <1>2
      <3> QED
        BY <3>1, <3>2, <3>3
    <2> QED
      BY <2>1, <2>2
  <1>5. end # "broken" => /\ content' \o TextIn(queue') = SaidBy(api', Decoded')
                          /\ calls' \o CallsIn(queue') = Wanted'
    BY <1>1, <1>3, <1>4
  <1>6. WholeAnswer'
    BY <1>1, <1>2 DEF WholeAnswer
  <1>7. Shaped(queue') /\ content' \in Seq(Tokens) /\ calls' \in Seq(CallRec)
    BY <1>1, <1>2
  <1> QED
    BY <1>1, <1>5, <1>6, <1>7 DEF FlowInv

\* A line that finishes no call.
LEMMA WantedRests ==
  ASSUME DecoderInv, FlowInv, NEW l, NEW events, NEW output, Decode(l, events, output, "open"),
         l.kind # "item"
  PROVE  Wanted' = calls /\ calls \o <<>> = calls
  <1>1. Polling /\ ending' = "open" /\ api' = api
    BY DEF Decode
  <1>2. calls \in Seq(CallRec) /\ calls = Wanted /\ ending = "open"
    BY <1>1, FlowPolling
  <1>3. Decoded' = Append(Decoded, l) /\ l \in Lines /\ Decoded \in Seq(Lines)
    BY DecodedGrows, DecodedIs DEF DecoderInv
  <1>4. ItemCalls(Append(Decoded, l)) = ItemCalls(Decoded)
    BY <1>3, ItemCallsAppended
  <1>5. Wanted' = Wanted
    BY <1>1, <1>2, <1>3, <1>4 DEF Wanted
  <1>6. calls \o <<>> = calls
    BY <1>2
  <1> QED
    BY <1>2, <1>5, <1>6

LEMMA FlowText ==
  ASSUME DecoderInv, FlowInv, DecodeText
  PROVE  FlowInv'
  <1>1. PICK t \in Tokens : IF api = "chat" /\ t = "blank"
                            THEN Decode(Text(t), <<>>, FALSE, "open")
                            ELSE Decode(Text(t), <<[kind |-> "text", t |-> t]>>, TRUE, "open")
    BY DEF DecodeText
  <1> DEFINE l == Text(t)
             e == [kind |-> "text", t |-> t]
  <1>2. l.kind = "text" /\ l.t = t /\ l.kind # "item"
    BY DEF Text, Line
  <1>3. e \in Event /\ e.kind = "text" /\ e.t = t
    BY DEF Event
  <1>4. TextAt(api, l) <=> ~(api = "chat" /\ t = "blank")
    BY <1>2 DEF TextAt
  <1>5. CASE api = "chat" /\ t = "blank"
    <2>1. Decode(l, <<>>, FALSE, "open")
      BY <1>1, <1>5
    <2> HIDE DEF l
    <2>2. Wanted' = calls \o CallsIn(<<>>)
      BY <1>2, <2>1, WantedRests, EmptyShape
    <2>3. ~TextAt(api, l) /\ TextIn(<<>>) = <<>> /\ Shaped(<<>>)
      BY <1>4, <1>5, EmptyShape
    <2> QED
      BY <2>1, <2>2, <2>3, FlowDecode
  <1>6. CASE ~(api = "chat" /\ t = "blank")
    <2>1. Decode(l, <<e>>, TRUE, "open")
      BY <1>1, <1>6
    <2> HIDE DEF l, e
    <2>2. Shaped(<<e>>) /\ TextIn(<<e>>) = <<t>> /\ CallsIn(<<e>>) = <<>>
      BY <1>3, OneShaped
    <2>3. Wanted' = calls \o CallsIn(<<e>>)
      BY <1>2, <2>1, <2>2, WantedRests
    <2>4. TextAt(api, l) /\ l.t = t /\ t \in Tokens
      BY <1>2, <1>4, <1>6
    <2> QED
      BY <2>1, <2>2, <2>3, <2>4, FlowDecode
  <1> QED
    BY <1>5, <1>6

\* A line without text and without a finished call that is handed on as q.
LEMMA FlowSilent ==
  ASSUME DecoderInv, FlowInv, NEW l, NEW q, NEW output, NEW end, Decode(l, q, output, end),
         end \in {"open", "broken"}, l.kind \notin {"text", "item"},
         Shaped(q), TextIn(q) = <<>>, CallsIn(q) = <<>>
  PROVE  FlowInv'
  <1>1. ~TextAt(api, l)
    BY DEF TextAt
  <1>2. CASE end = "open"
    <2>1. Wanted' = calls \o CallsIn(q)
      BY <1>2, WantedRests
    <2> QED
      BY <1>1, <2>1, FlowDecode
  <1>3. CASE end = "broken"
    BY <1>3, FlowDecode
  <1> QED
    BY <1>2, <1>3

LEMMA FlowQuiet ==
  ASSUME DecoderInv, FlowInv, DecodeAlive \/ DecodeCall \/ DecodeCut \/ DecodeStop \/ DecodeBad
  PROVE  FlowInv'
  <1>1. \A kind, i : Line(kind, i, "none").kind = kind
    BY DEF Line
  <1>2. CASE Decode(Line("alive", 0, "none"), <<[kind |-> "alive"]>>, FALSE, "open")
    <2> DEFINE e == [kind |-> "alive"]
    <2>1. e \in Event /\ e.kind = "alive"
      BY DEF Event
    <2>2. Decode(Line("alive", 0, "none"), <<e>>, FALSE, "open")
      BY <1>2
    <2> HIDE DEF e
    <2>3. Shaped(<<e>>) /\ TextIn(<<e>>) = <<>> /\ CallsIn(<<e>>) = <<>>
      BY <2>1, OneShaped
    <2>4. Line("alive", 0, "none").kind \notin {"text", "item"}
      BY <1>1
    <2> DEFINE l == Line("alive", 0, "none")
    <2> HIDE DEF l
    <2>5. l.kind \notin {"text", "item"} /\ Decode(l, <<e>>, FALSE, "open")
      BY <2>2, <2>4 DEF l
    <2> QED
      BY <2>3, <2>5, FlowSilent
  <1>3. CASE \E l, output, end : /\ Decode(l, <<>>, output, end) /\ end \in {"open", "broken"}
                                 /\ l.kind \notin {"text", "item"}
    BY <1>3, EmptyShape, FlowSilent
  <1>4. ASSUME DecodeAlive
        PROVE  \/ Decode(Line("alive", 0, "none"), <<[kind |-> "alive"]>>, FALSE, "open")
               \/ Decode(Line("noise", 0, "none"), <<>>, FALSE, "open")
    BY <1>4 DEF DecodeAlive
  <1>5. ASSUME DecodeCall
        PROVE  \E i, kind : /\ Decode(Line(kind, i, "none"), <<>>, FALSE, "open")
                            /\ kind \in {"head", "arg", "garbled"}
    BY <1>5 DEF DecodeCall
  <1>6. ASSUME DecodeCut
        PROVE  \E end \in {"open", "broken"} : Decode(Line("cut", 0, "none"), <<>>, FALSE, end)
    BY <1>6 DEF DecodeCut
  <1>7. ASSUME DecodeBad
        PROVE  Decode(Line("bad", 0, "none"), <<>>, FALSE, "broken")
    BY <1>7 DEF DecodeBad
  <1>8. CASE DecodeAlive
    <2>1. Line("noise", 0, "none").kind = "noise"
      BY <1>1
    <2> QED
      BY <1>2, <1>3, <1>4, <1>8, <2>1
  <1>9. CASE DecodeCall
    <2>1. PICK i, kind : Decode(Line(kind, i, "none"), <<>>, FALSE, "open")
                         /\ kind \in {"head", "arg", "garbled"}
      BY <1>5, <1>9
    <2>2. Line(kind, i, "none").kind \notin {"text", "item"}
      BY <1>1, <2>1
    <2> QED
      BY <1>3, <2>1, <2>2
  <1>10. CASE DecodeCut
    <2>1. Line("cut", 0, "none").kind = "cut"
      BY <1>1
    <2> QED
      BY <1>3, <1>6, <1>10, <2>1
  <1>11. CASE DecodeBad
    <2>1. Line("bad", 0, "none").kind = "bad"
      BY <1>1
    <2> QED
      BY <1>3, <1>7, <1>11, <2>1
  <1>12. CASE DecodeStop
    <2>1. Line("stop", 0, "none").kind = "stop"
      BY <1>1
    <2>2. Decode(Line("stop", 0, "none"), <<>>, FALSE, "open")
      BY <1>12 DEF DecodeStop
    <2> QED
      BY <1>3, <2>1, <2>2
  <1> QED
    BY <1>8, <1>9, <1>10, <1>11, <1>12

LEMMA FlowItem ==
  ASSUME DecoderInv, FlowInv, DecodeItem
  PROVE  FlowInv'
  <1>1. PICK i \in Index :
           Decode(Line("item", i, "none"), <<[kind |-> "call", call |-> Call(i, Frags, FALSE)]>>, TRUE, "open")
    BY DEF DecodeItem
  <1> DEFINE l == Line("item", i, "none")
             x == Call(i, Frags, FALSE)
             e == [kind |-> "call", call |-> x]
  <1>2. l.kind = "item" /\ l.i = i
    BY DEF Line
  <1>3. x \in CallRec
    <2>1. i \in Nat /\ Frags \in Nat /\ FALSE \in BOOLEAN
      BY SizesAssumption DEF Index
    <2> QED
      BY <2>1, CallType
  <1>4. Decode(l, <<e>>, TRUE, "open")
    BY <1>1
  <1>10. x = Call(l.i, Frags, FALSE)
    BY <1>2
  <1> HIDE DEF l, x
  <1>5. e \in Event /\ e.kind = "call" /\ e.call = x
    BY <1>3 DEF Event
  <1> HIDE DEF e
  <1>6. Shaped(<<e>>) /\ TextIn(<<e>>) = <<>> /\ CallsIn(<<e>>) = <<x>>
    BY <1>5, OneShaped
  <1>7. Decoded' = Append(Decoded, l) /\ l \in Lines /\ Decoded \in Seq(Lines)
        /\ l = sent[read + 1] /\ read + 1 \in 1..Len(sent)
    BY <1>4, DecodedGrows, DecodedIs DEF DecoderInv
  <1>8. api = "responses" /\ api' = api
    BY <1>2, <1>4, <1>7 DEF DecoderInv, LinesFit, Decode
  <1>9. calls \in Seq(CallRec) /\ calls = ItemCalls(Decoded)
    BY <1>4, <1>8, FlowPolling DEF Decode, Wanted
  <1>11. Wanted' = Append(calls, x)
    <2>1. ItemCalls(Append(Decoded, l)) = Append(ItemCalls(Decoded), x)
      BY <1>2, <1>7, <1>10, ItemCallsAppended
    <2>2. Wanted' = ItemCalls(Decoded')
      BY <1>8 DEF Wanted
    <2> QED
      BY <1>7, <1>9, <2>1, <2>2
  <1>12. Wanted' = calls \o CallsIn(<<e>>)
    <2>1. Append(calls, x) = calls \o <<x>>
      BY <1>3, <1>9, Joined
    <2> QED
      BY <1>6, <1>11, <2>1
  <1>13. ~TextAt(api, l)
    BY <1>2 DEF TextAt
  <1> QED
    BY <1>4, <1>6, <1>12, <1>13, FlowDecode

\* Calls made into events and back.
LEMMA CallsBack ==
  ASSUME NEW s \in Seq(CallRec), NEW q, q = [n \in 1..Len(s) |-> [kind |-> "call", call |-> s[n]]]
  PROVE  CallsIn(q) = s
  <1> DEFINE F(n) == [kind |-> "call", call |-> s[n]]
  <1>1. Len(s) \in Nat /\ \A n \in 1..Len(s) : F(n) \in Event /\ F(n).kind = "call" /\ F(n).call = s[n]
    BY DEF Event
  <1>2. q = [n \in 1..Len(s) |-> F(n)]
    OBVIOUS
  <1> HIDE DEF F
  <1>3. q \in [1..Len(s) -> Event] /\ \A n \in 1..Len(s) : q[n].kind = "call" /\ q[n].call = s[n]
    BY <1>1, <1>2
  <1>4. q \in Seq(Event) /\ Len(q) = Len(s)
    BY <1>1, <1>3, ValuesAre
  <1>5. CASE Len(s) = 0
    <2>1. q = <<>> /\ s = <<>>
      BY <1>4, <1>5, NoneLeft
    <2> QED
      BY <2>1, EmptyShape
  <1>6. CASE Len(s) # 0
    <2>1. q # <<>> /\ q[1].kind = "call"
      BY <1>1, <1>3, <1>4, <1>6
    <2>2. CallsIn(q) = [n \in 1..Len(s) |-> q[n].call]
      BY <1>4, <2>1 DEF CallsIn
    <2>3. CallsIn(q) = [n \in 1..Len(s) |-> s[n]]
      BY <1>3, <2>2
    <2> QED
      BY <2>3
  <1> QED
    BY <1>5, <1>6

\* Responses fills no accumulator.
LEMMA NothingFinished ==
  ASSUME EndInv, LinesFit, api = "responses", \A i \in Index : Recorded(acc[i], Decoded, i)
  PROVE  FinishedCalls = <<>>
  <1>1. \A k \in 1..read : Decoded[k] = sent[k] /\ k \in 1..Len(sent)
    BY DecodedIs
  <1>2. Len(Decoded) = read
    BY DecodedIs
  <1>3. ASSUME NEW kind \in {"head", "arg", "garbled"}, NEW i PROVE Of(Decoded, kind, i) = {}
    <2>1. Line(kind, i, "none").kind = kind
      BY DEF Line
    <2> QED
      BY <1>1, <1>2, <2>1 DEF Of, LinesOf, LinesFit
  <1>4. Cardinality({}) = 0
    BY FS_EmptySet
  <1>5. \A i \in Index : ~acc[i].seen
    BY <1>3, <1>4 DEF Recorded
  <1> DEFINE named == {i \in Index : acc[i].seen /\ \A j \in 1..i : acc[j].seen => acc[j].head}
             F(k) == [kind |-> "call", call |-> Finished(Nth(named, k))]
             m == Cardinality(named)
  <1>6. FinishedCalls = [k \in 1..m |-> F(k)]
    BY DEF FinishedCalls
  <1>7. named = {}
    BY <1>5
  <1>8. m = 0
    BY <1>4, <1>7
  <1> HIDE DEF F, m, named
  <1>9. FinishedCalls = [k \in 1..0 |-> F(k)]
    BY <1>6, <1>8
  <1>10. FinishedCalls \in [1..0 -> {}]
    BY <1>9
  <1>11. FinishedCalls \in Seq({}) /\ Len(FinishedCalls) = 0
    <2>1. 0 \in Nat
      OBVIOUS
    <2> QED
      BY <1>10, <2>1, ValuesAre
  <1> QED
    BY <1>11, NoneLeft

\* The end of the answer hands on the calls of Chat Completions and Anthropic.
LEMMA FlowEnd ==
  ASSUME DecoderInv, FlowInv, DecodeEnd
  PROVE  FlowInv'
  <1> DEFINE l == Line("end", 0, "none")
             named == AllNamed /\ (emitted \/ Handed # <<>>)
             end == IF named THEN "ended" ELSE "broken"
             output == Handed # <<>>
  <1>1. Decode(l, Handed, output, end)
    BY DEF DecodeEnd
  <1>2. l.kind = "end" /\ l.kind # "item"
    BY DEF Line
  <1>3. ~TextAt(api, l)
    BY <1>2 DEF TextAt
  <1> HIDE DEF l, output
  <1>4. /\ acc \in [Index -> AccRec] /\ cut \in BOOLEAN
    BY DEF DecoderInv
  <1>5. Shaped(Handed) /\ TextIn(Handed) = <<>>
    BY <1>4, HandedShape
  <1>6. Decoded' = Append(Decoded, l) /\ l \in Lines /\ Decoded \in Seq(Lines)
    BY <1>1, DecodedGrows, DecodedIs DEF DecoderInv
  <1>7. Polling /\ api' = api /\ ending' = end
    BY <1>1 DEF Decode
  <1>8. calls \in Seq(CallRec) /\ calls = Wanted /\ ending = "open"
    BY <1>7, FlowPolling
  <1>9. \A i \in Index : acc[i] \in AccRec /\ Recorded(acc[i], Decoded, i)
    BY <1>4, <1>8 DEF DecoderInv
  <1>10. ASSUME end # "broken" PROVE Wanted' = calls \o CallsIn(Handed)
    <2>1. AllNamed /\ end = "ended"
      BY <1>10
    <2>2. Handed = FinishedCalls
      BY <2>1 DEF Handed
    <2> HIDE DEF end
    <2>3. CASE api = "responses"
      <3>1. Wanted' = calls
        <4>1. ItemCalls(Append(Decoded, l)) = ItemCalls(Decoded)
          BY <1>2, <1>6, ItemCallsAppended
        <4>2. Wanted' = ItemCalls(Decoded') /\ Wanted = ItemCalls(Decoded)
          BY <1>7, <2>3 DEF Wanted
        <4> QED
          BY <1>6, <1>8, <4>1, <4>2
      <3>2. Handed = <<>>
        BY <1>9, <2>2, <2>3, NothingFinished DEF DecoderInv
      <3>3. calls \o <<>> = calls
        BY <1>8
      <3> QED
        BY <3>1, <3>2, <3>3, EmptyShape
    <2>4. CASE api # "responses"
      <3>1. cut <=> CutBy(Decoded)
        BY <1>8, <2>4 DEF DecoderInv
      <3>2. Handed = [n \in 1..Len(CallsBy(Decoded)) |-> [kind |-> "call", call |-> CallsBy(Decoded)[n]]]
        BY <1>4, <1>6, <1>9, <2>1, <2>2, <3>1, FinishedAre
      <3>3. CallsBy(Decoded) \in Seq(CallRec)
        BY <1>6, CallsType
      <3>4. CallsIn(Handed) = CallsBy(Decoded)
        BY <3>2, <3>3, CallsBack
      <3>5. Wanted' = CallsBy(Decoded) /\ calls = <<>>
        <4>1. CallsBy(Append(Decoded, l)) = CallsBy(Decoded)
          BY <1>2, <1>6, CallsAppended
        <4>2. Wanted' = CallsBy(Decoded') /\ Wanted = <<>>
          BY <1>7, <1>8, <2>1, <2>4 DEF Wanted
        <4> QED
          BY <1>6, <1>8, <4>1, <4>2
      <3>6. <<>> \o CallsBy(Decoded) = CallsBy(Decoded)
        BY <3>3
      <3> QED
        BY <3>4, <3>5, <3>6
    <2> QED
      BY <2>3, <2>4
  <1> HIDE DEF end
  <1> QED
    BY <1>1, <1>3, <1>5, <1>10, FlowDecode

\* Once it is over, an attempt that did not succeed promises nothing.
LEMMA FlowStops ==
  ASSUME FlowInv, Shaped(queue'), UNCHANGED <<content, calls>>, outcome' \in Over \ {"ok"}
  PROVE  FlowInv'
  <1>1. outcome' \notin Under /\ outcome' # "ok"
    BY DEF Over, Failures, Under
  <1>2. WholeAnswer'
    BY <1>1 DEF WholeAnswer
  <1>3. content' \in Seq(Tokens) /\ calls' \in Seq(CallRec)
    BY DEF FlowInv
  <1> QED
    BY <1>1, <1>2, <1>3 DEF FlowInv

LEMMA FlowTake ==
  ASSUME FlowInv, Take
  PROVE  FlowInv'
  <1> DEFINE e == Head(queue)
  <1>1. Shaped(queue) /\ queue # <<>> /\ queue' = Tail(queue) /\ outcome = "streaming"
        /\ content \in Seq(Tokens) /\ calls \in Seq(CallRec)
        /\ UNCHANGED <<api, sent, read, ending>>
    BY DEF FlowInv, Take, decoder
  <1>2. /\ Shaped(queue') /\ e \in Event /\ e = queue[1]
        /\ e.kind # "call" => /\ queue' = <<>> /\ CallsIn(queue) = <<>>
                              /\ TextIn(queue) = IF e.kind = "text" THEN <<e.t>> ELSE <<>>
        /\ e.kind = "call" => /\ TextIn(queue) = <<>> /\ TextIn(queue') = <<>>
                              /\ CallsIn(queue') \in Seq(CallRec)
                              /\ CallsIn(queue) = <<e.call>> \o CallsIn(queue')
    BY <1>1, ShapedTail
  <1>3. CASE cancelled
    <2>1. UNCHANGED <<content, calls>> /\ outcome' = "cancelled"
      BY <1>3 DEF Take, StopWith, EndAs
    <2>2. outcome' \in Over \ {"ok"}
      BY <2>1 DEF Over
    <2> QED
      BY <1>2, <2>1, <2>2, FlowStops
  <1>4. CASE ~cancelled
    <2>1. /\ content' = IF e.kind = "text" THEN Append(content, e.t) ELSE content
          /\ calls' = IF e.kind = "call" THEN Append(calls, e.call) ELSE calls
          /\ outcome' = outcome
      BY <1>4 DEF Take
    <2>2. /\ e.kind \in {"text", "alive", "call"} /\ (e.kind = "text" => e.t \in Tokens)
          /\ (e.kind = "call" => e.call \in CallRec)
      BY <1>2, EventIs
    <2> HIDE DEF e
    <2>3. content' \in Seq(Tokens) /\ calls' \in Seq(CallRec)
      BY <1>1, <2>1, <2>2
    <2>4. content' \o TextIn(queue') = content \o TextIn(queue)
      <3>1. content \o <<>> = content /\ content' \o <<>> = content'
        BY <1>1, <2>3, Joined
      <3>2. CASE e.kind = "text"
        <4>1. Append(content, e.t) = content \o <<e.t>>
          BY <1>1, <2>2, <3>2, Joined
        <4> QED
          BY <1>2, <2>1, <3>1, <3>2, <4>1, EmptyShape
      <3>3. CASE e.kind # "text"
        <4>1. content' = content /\ TextIn(queue) = <<>> /\ TextIn(queue') = <<>>
          BY <1>2, <2>1, <2>2, <3>3, EmptyShape
        <4> QED
          BY <4>1
      <3> QED
        BY <3>2, <3>3
    <2>5. calls' \o CallsIn(queue') = calls \o CallsIn(queue)
      <3>1. CASE e.kind = "call"
        <4> DEFINE s == CallsIn(queue')
                   x == e.call
        <4>1. s \in Seq(CallRec) /\ x \in CallRec /\ <<x>> \in Seq(CallRec)
          BY <1>2, <2>2, <3>1
        <4>2. calls' = Append(calls, x) /\ CallsIn(queue) = <<x>> \o s
          BY <1>2, <2>1, <3>1
        <4> HIDE DEF s, x
        <4>3. Append(calls, x) = calls \o <<x>>
          BY <1>1, <4>1, Joined
        <4>4. (calls \o <<x>>) \o s = calls \o (<<x>> \o s)
          BY <1>1, <4>1, JoinedThrice
        <4>5. calls' \o s = calls \o CallsIn(queue)
          BY <4>2, <4>3, <4>4
        <4> QED
          BY <4>5 DEF s
      <3>2. CASE e.kind # "call"
        <4>1. calls' = calls /\ CallsIn(queue) = <<>> /\ CallsIn(queue') = <<>>
          BY <1>2, <2>1, <3>2, EmptyShape
        <4> QED
          BY <4>1
      <3> QED
        BY <3>1, <3>2
    <2>6. Decoded' = Decoded
      BY <1>1 DEF Decoded
    <2>7. Wanted' = Wanted
      BY <1>1, <2>6 DEF Wanted
    <2>8. ending # "broken" => /\ content \o TextIn(queue) = SaidBy(api, Decoded)
                               /\ calls \o CallsIn(queue) = Wanted
      BY <1>1 DEF FlowInv, Under
    <2>9. WholeAnswer'
      BY <1>1, <2>1 DEF WholeAnswer
    <2>10. ending' # "broken" => /\ content' \o TextIn(queue') = SaidBy(api', Decoded')
                                 /\ calls' \o CallsIn(queue') = Wanted'
      BY <1>1, <2>4, <2>5, <2>6, <2>7, <2>8
    <2> QED
      BY <1>2, <2>3, <2>9, <2>10 DEF FlowInv
  <1> QED
    BY <1>3, <1>4

-----------------------------------------------------------------------------
(* The end *)

\* The calls are those the endpoint asked for, but for the mark of a call cut before its
\* arguments began.
Answers(c) ==
    /\ Len(c) = Len(Requested)
    /\ \A n \in 1..Len(c) :
          \/ c[n] = Requested[n]
          \/ c[n] = [Requested[n] EXCEPT !.truncated = FALSE] /\ Requested[n].args = 0

\* At the end of the answer all its lines have been decoded.
LEMMA EndIs ==
  ASSUME DecoderInv, ending = "ended"
  PROVE  Kept = SaidBy(api, Decoded) /\ Answers(Wanted) /\ \E V : Requested \in Seq(V)
  <1>1. /\ Len(Decoded) = read /\ read \in Nat /\ read <= Len(sent) /\ Len(sent) \in Nat
        /\ \A k \in 1..read : Decoded[k] = sent[k] /\ k \in 1..Len(sent)
        /\ Decoded \in Seq(Lines)
    BY DecodedIs DEF DecoderInv, EndInv
  <1>2. read > 0 /\ sent[read].kind = "end" /\ \A k \in 1..(read - 1) : sent[k].kind # "end"
    BY DEF DecoderInv
  <1>3. EndAt = read
    <2> DEFINE P(k) == sent[k].kind = "end" /\ \A j \in 1..(k - 1) : sent[j].kind # "end"
    <2>1. read \in 1..Len(sent) /\ P(read)
      BY <1>1, <1>2
    <2>2. \A k \in 1..Len(sent) : P(k) => k = read
      <3> SUFFICES ASSUME NEW k \in 1..Len(sent), P(k) PROVE k = read
        OBVIOUS
      <3>1. k < read => k \in 1..(read - 1)
        BY <1>1
      <3>2. read < k => read \in 1..(k - 1)
        BY <1>1, <1>2
      <3>3. k < read \/ k = read \/ read < k
        BY <1>1
      <3> QED
        BY <1>2, <3>1, <3>2, <3>3
    <2>3. EndAt = CHOOSE k \in 1..Len(sent) : P(k)
      BY DEF EndAt
    <2> HIDE DEF P
    <2> QED
      BY <2>1, <2>2, <2>3
  <1>4. \A k : k \in 1..read <=> k \in 1..(read - 1) \/ k = read
    BY <1>1, <1>2
  <1>5. Kept = SaidBy(api, Decoded)
    <2> DEFINE S == TextsOf(api, Decoded)
               tokens == IF api = "chat" THEN Tokens \ {"blank"} ELSE Tokens
               T == {k \in 1..(EndAt - 1) : sent[k].kind = "text" /\ sent[k].t \in tokens}
    <2>6. ASSUME NEW k \in 1..read, sent[k].kind = "text" PROVE sent[k].t \in Tokens
      <3>1. sent[k] \in Lines
        BY <1>1 DEF DecoderInv, EndInv
      <3> QED
        BY <2>6, <3>1 DEF Lines, Text, Line
    <2>1. S = T
      <3>1. S = {k \in 1..read : sent[k].kind = "text" /\ (api = "chat" => sent[k].t # "blank")}
        BY <1>1 DEF TextsOf, TextAt
      <3>2. \A k \in 1..read : sent[k].kind = "text" =>
                ((api = "chat" => sent[k].t # "blank") <=> sent[k].t \in tokens)
        BY <2>6
      <3>3. \A k : k \in 1..read /\ sent[k].kind = "text" <=> k \in 1..(EndAt - 1) /\ sent[k].kind = "text"
        BY <1>2, <1>3, <1>4
      <3> HIDE DEF S, tokens
      <3> QED
        BY <1>3, <1>4, <3>1, <3>2, <3>3
    <2>2. S \in SUBSET (1..read)
      BY <1>1 DEF TextsOf
    <2>3. Kept = [n \in 1..Cardinality(S) |-> sent[Nth(S, n)].t]
      <3>1. Kept = Spoken(tokens)
        BY DEF Kept, Said, Unspaced
      <3>2. Spoken(tokens) = [n \in 1..Cardinality(T) |-> sent[Nth(T, n)].t]
        BY DEF Spoken
      <3> HIDE DEF S, T, tokens
      <3> QED
        BY <2>1, <3>1, <3>2
    <2>4. SaidBy(api, Decoded) = [n \in 1..Cardinality(S) |-> Decoded[Nth(S, n)].t]
      BY DEF SaidBy
    <2> HIDE DEF S
    <2>5. \A n \in 1..Cardinality(S) : Nth(S, n) \in 1..read
      BY <1>1, <2>2, NthIn
    <2> QED
      BY <1>1, <2>3, <2>4, <2>5
  <1>6. CASE api = "responses"
    <2> DEFINE S == ItemsOf(Decoded)
    <2>1. S = {k \in 1..(EndAt - 1) : sent[k].kind = "item"}
      BY <1>1, <1>2, <1>3, <1>4 DEF ItemsOf
    <2>2. S \in SUBSET (1..read)
      BY <1>1 DEF ItemsOf
    <2>3. Requested = [n \in 1..Cardinality(S) |-> Call(sent[Nth(S, n)].i, Frags, FALSE)]
      BY <1>6, <2>1 DEF Requested
    <2>4. Wanted = [n \in 1..Cardinality(S) |-> Call(Decoded[Nth(S, n)].i, Frags, FALSE)]
      BY <1>6 DEF Wanted, ItemCalls
    <2> HIDE DEF S
    <2>5. \A n \in 1..Cardinality(S) : Nth(S, n) \in 1..read
      BY <1>1, <2>2, NthIn
    <2>6. Requested = Wanted
      BY <1>1, <2>3, <2>4, <2>5
    <2>7. Cardinality(S) \in Nat
      BY <1>1, <2>2, BeforeFinite
    <2> DEFINE c == Cardinality(S)
               F(n) == Call(sent[Nth(S, n)].i, Frags, FALSE)
               V == {F(n) : n \in 1..c}
    <2>8. Requested \in Seq(V)
      <3>1. Requested = [n \in 1..c |-> F(n)] /\ c \in Nat
        BY <2>3, <2>7
      <3> HIDE DEF c, F
      <3>2. Requested \in [1..c -> V]
        BY <3>1
      <3> HIDE DEF V
      <3> QED
        BY <3>1, <3>2, ValuesAre
    <2> QED
      BY <1>5, <2>6, <2>8 DEF Answers
  <1>7. CASE api # "responses"
    <2>1. ASSUME NEW kind \in {"head", "arg", "garbled"}, NEW i
          PROVE  Places(Line(kind, i, "none")) = Of(Decoded, kind, i)
      <3>1. Line(kind, i, "none").kind # "end"
        BY DEF Line
      <3> QED
        BY <1>1, <1>2, <1>3, <1>4, <3>1 DEF Places, Of, LinesOf
    <2> DEFINE Args(i) == Cardinality(Places(Line("arg", i, "none")))
               Spoilt(i) == Has(Line("garbled", i, "none"))
               Told(i) == Call(i, IF Spoilt(i) THEN Garbled ELSE Args(i),
                               IF Spoilt(i) \/ Args(i) = 0 THEN CutShort ELSE Args(i) < Frags)
               S == {i \in Index : Has(Line("head", i, "none"))}
               c == Cardinality(S)
    <2>2. Requested = [n \in 1..c |-> Told(Nth(S, n))]
      BY <1>7 DEF Requested
    <2>3. S = NamedBy(Decoded)
      BY <2>1 DEF NamedBy, Has
    <2>4. CutShort = CutBy(Decoded)
      <3>1. CutShort <=> CutBy(Decoded)
        <4>1. ASSUME NEW k \in 1..(read - 1) PROVE /\ k \in 1..read /\ sent[k] = Decoded[k]
                       /\ (\A j \in (k + 1)..(read - 1) : sent[j].kind # "stop")
                            <=> (\A j \in (k + 1)..read : Decoded[j].kind # "stop")
          <5>1. k \in 1..read
            BY <1>1
          <5>2. \A j : j \in (k + 1)..read <=> j \in (k + 1)..(read - 1) \/ j = read
            BY <1>1
          <5>3. \A j \in (k + 1)..read : j \in 1..read /\ Decoded[j] = sent[j]
            BY <1>1
          <5> QED
            BY <1>1, <1>2, <5>1, <5>2, <5>3
        <4>2. Decoded[read].kind # "cut"
          BY <1>1, <1>2
        <4> QED
          BY <1>1, <1>2, <1>3, <1>4, <4>1, <4>2 DEF CutShort, CutBy
      <3> QED
        BY <3>1 DEF CutShort, CutBy
    <2>5. ASSUME NEW i \in Index
          PROVE  \/ ToldBy(Decoded, i) = Told(i)
                 \/ ToldBy(Decoded, i) = [Told(i) EXCEPT !.truncated = FALSE] /\ Told(i).args = 0
      <3>1. Args(i) = Cardinality(Of(Decoded, "arg", i)) /\ (Spoilt(i) <=> Of(Decoded, "garbled", i) # {})
        BY <2>1 DEF Has
      <3>2. Args(i) \in Nat
        <4>1. Of(Decoded, "arg", i) \in SUBSET (1..read)
          BY <1>1 DEF Of, LinesOf
        <4> QED
          BY <1>1, <3>1, <4>1, BeforeFinite
      <3>3. CASE Spoilt(i)
        <4>1. ToldBy(Decoded, i) = Call(i, Garbled, CutBy(Decoded))
          BY <3>1, <3>3 DEF ToldBy
        <4>2. Told(i) = Call(i, Garbled, CutShort)
          BY <3>3
        <4> QED
          BY <2>4, <4>1, <4>2
      <3>4. CASE ~Spoilt(i) /\ Args(i) # 0
        <4>1. ToldBy(Decoded, i) = Call(i, Args(i), 0 < Args(i) /\ Args(i) < Frags)
          BY <3>1, <3>4 DEF ToldBy
        <4>2. Told(i) = Call(i, Args(i), Args(i) < Frags)
          BY <3>4
        <4>3. (0 < Args(i) /\ Args(i) < Frags) = (Args(i) < Frags)
          BY <3>2, <3>4
        <4> QED
          BY <4>1, <4>2, <4>3
      <3>5. CASE ~Spoilt(i) /\ Args(i) = 0
        <4>1. ToldBy(Decoded, i) = Call(i, 0, 0 < Args(i) /\ Args(i) < Frags)
          BY <3>1, <3>5 DEF ToldBy
        <4>2. Told(i) = Call(i, 0, CutShort)
          BY <3>5
        <4>3. (0 < Args(i) /\ Args(i) < Frags) = FALSE
          BY <3>5
        <4>4. ToldBy(Decoded, i) = Call(i, 0, FALSE)
          BY <4>1, <4>3
        <4> HIDE DEF Told
        <4>5. /\ Call(i, 0, FALSE) = [Call(i, 0, CutShort) EXCEPT !.truncated = FALSE]
              /\ Call(i, 0, CutShort).args = 0
          BY Unmarked
        <4> QED
          BY <4>2, <4>4, <4>5
      <3> QED
        BY <3>3, <3>4, <3>5
    <2> HIDE DEF S, Told
    <2>6. Wanted = CallsBy(Decoded) /\ Wanted \in Seq(CallRec) /\ Len(Wanted) = c /\ c \in Nat
      BY <1>1, <1>7, <2>3, CallsType, NamedNth DEF Wanted
    <2>7. Requested \in Seq({Told(Nth(S, n)) : n \in 1..c}) /\ Len(Requested) = c
      BY <2>2, <2>6
    <2>8. ASSUME NEW n \in 1..c
          PROVE  \/ Wanted[n] = Requested[n]
                 \/ Wanted[n] = [Requested[n] EXCEPT !.truncated = FALSE] /\ Requested[n].args = 0
      <3>1. Nth(S, n) \in Index
        BY <1>1, <2>3, NamedNth
      <3>2. Wanted[n] = ToldBy(Decoded, Nth(S, n)) /\ Requested[n] = Told(Nth(S, n))
        BY <2>2, <2>3, <2>6 DEF CallsBy
      <3> QED
        BY <2>5, <3>1, <3>2
    <2>9. Answers(Wanted)
      BY <2>6, <2>7, <2>8 DEF Answers
    <2> QED
      BY <1>5, <2>7, <2>9
  <1> QED
    BY <1>6, <1>7

LEMMA FlowFinish ==
  ASSUME DecoderInv, FlowInv, NEW offered \in BOOLEAN, Finish(offered)
  PROVE  FlowInv'
  <1>1. /\ outcome = "streaming" /\ queue = <<>> /\ ending = "ended" /\ queue' = queue
        /\ UNCHANGED <<api, sent, read, ending>>
    BY DEF Finish, decoder
  <1>2. content \in Seq(Tokens) /\ calls \in Seq(CallRec) /\ Shaped(queue')
    BY <1>1 DEF FlowInv
  <1>3. content = Kept /\ Answers(calls) /\ \E V : Requested \in Seq(V)
    <2>1. content \o TextIn(queue) = SaidBy(api, Decoded) /\ calls \o CallsIn(queue) = Wanted
      BY <1>1 DEF FlowInv, Under
    <2>2. content \o <<>> = content /\ calls \o <<>> = calls
      BY <1>2
    <2> QED
      BY <1>1, <2>1, <2>2, EmptyShape, EndIs
  <1>4. Kept' = Kept /\ Requested' = Requested
    <2>1. EndAt' = EndAt
      BY <1>1 DEF EndAt
    <2>2. Kept' = Kept
      BY <1>1, <2>1 DEF Kept, Said, Unspaced, Spoken
    <2>3. \A l : Places(l)' = Places(l)
      BY <1>1, <2>1 DEF Places
    <2>4. Requested' = Requested
      BY <1>1, <2>1, <2>3 DEF Requested, Has, CutShort
    <2> QED
      BY <2>2, <2>4
  <1>5. \E k \in 1..read' : sent'[k].kind = "end"
    BY <1>1 DEF DecoderInv, EndInv
  <1>6. CASE UNCHANGED <<content, calls>>
    <2>1. outcome' \in Over
      BY DEF Finish, EndAs, Over, Failures
    <2>2. WholeAnswer'
      BY <1>3, <1>4, <1>5, <1>6 DEF WholeAnswer, Answers
    <2>3. outcome' \notin Under
      BY <2>1 DEF Over, Failures, Under
    <2> QED
      BY <1>2, <1>6, <2>2, <2>3 DEF FlowInv
  <1>7. CASE Leaks /\ Head(Blocks(content)) = "dsml" /\ EndAs("ok", TRUE) /\ content' = <<>>
             /\ calls' = <<Recovered>>
    <2>5. Requested = <<>>
      BY <1>3, <1>7 DEF Leaks, Answers
    <2>1. Requested' = <<>> /\ Blocks(Kept') # <<>> /\ Head(Blocks(Kept')) = "dsml"
      BY <1>3, <1>4, <1>7, <2>5 DEF Leaks
    <2>2. WholeAnswer'
      BY <1>5, <1>7, <2>1 DEF WholeAnswer
    <2>3. Recovered \in CallRec
      BY CallType DEF Recovered
    <2>4. content' \in Seq(Tokens) /\ calls' \in Seq(CallRec) /\ outcome' \notin Under
      BY <1>7, <2>3 DEF EndAs, Under
    <2> QED
      BY <1>2, <2>2, <2>4 DEF FlowInv
  <1> QED
    BY <1>6, <1>7 DEF Finish

LEMMA FlowInit == Init => FlowInv
  <1> SUFFICES ASSUME Init PROVE FlowInv
    OBVIOUS
  <1>1. /\ queue = <<>> /\ content = <<>> /\ calls = <<>> /\ outcome = "opening" /\ ending = "open"
        /\ sent = <<>> /\ read = 0
    BY DEF Init
  <1>2. Len(Decoded) = 0
    BY EndInit, DecodedIs, <1>1
  <1>3. TextsOf(api, Decoded) = {} /\ ItemsOf(Decoded) = {}
    BY <1>2 DEF TextsOf, ItemsOf
  <1>4. Cardinality({}) = 0
    BY FS_EmptySet
  <1>5. SaidBy(api, Decoded) = <<>>
    BY <1>3, <1>4 DEF SaidBy
  <1>6. ItemCalls(Decoded) = <<>>
    <2> DEFINE F(n) == Call(Decoded[Nth(ItemsOf(Decoded), n)].i, Frags, FALSE)
    <2>1. ItemCalls(Decoded) = [n \in 1..0 |-> F(n)]
      BY <1>3, <1>4 DEF ItemCalls
    <2> HIDE DEF F
    <2>2. ItemCalls(Decoded) \in [1..0 -> {}] /\ 0 \in Nat
      BY <2>1
    <2>3. ItemCalls(Decoded) \in Seq({}) /\ Len(ItemCalls(Decoded)) = 0
      BY <2>2, ValuesAre
    <2> QED
      BY <2>3, NoneLeft
  <1>7. Wanted = <<>>
    BY <1>1, <1>6 DEF Wanted
  <1>8. <<>> \o <<>> = <<>>
    OBVIOUS
  <1>9. WholeAnswer
    BY <1>1 DEF WholeAnswer
  <1> QED
    BY <1>1, <1>5, <1>7, <1>8, <1>9, EmptyShape DEF FlowInv

\* What leaves the decoded lines and the agent alone.
LEMMA FlowRests ==
  ASSUME FlowInv, Decoded' = Decoded, UNCHANGED <<api, queue, content, calls>>,
         ending' = ending \/ ending' = "broken",
         outcome' # "ok", outcome' \in Under => outcome \in Under
  PROVE  FlowInv'
  <1>1. WholeAnswer'
    BY DEF WholeAnswer
  <1>2. ending' = ending => Wanted' = Wanted
    BY DEF Wanted
  <1>3. Shaped(queue') /\ content' \in Seq(Tokens) /\ calls' \in Seq(CallRec)
    BY DEF FlowInv
  <1>4. outcome' \in Under /\ ending' # "broken" =>
          /\ content' \o TextIn(queue') = SaidBy(api', Decoded')
          /\ calls' \o CallsIn(queue') = Wanted'
    BY <1>2 DEF FlowInv
  <1> QED
    BY <1>1, <1>3, <1>4 DEF FlowInv

LEMMA FlowStutters ==
  ASSUME FlowInv, UNCHANGED vars
  PROVE  FlowInv'
  <1>1. UNCHANGED <<api, sent, read, ending, queue, content, calls, outcome>>
    BY DEF vars, decoder, agent
  <1>2. Decoded' = Decoded
    BY <1>1 DEF Decoded
  <1>3. Wanted' = Wanted
    BY <1>1, <1>2 DEF Wanted
  <1>4. EndAt' = EndAt
    BY <1>1 DEF EndAt
  <1>5. Kept' = Kept
    BY <1>1, <1>4 DEF Kept, Said, Unspaced, Spoken
  <1>6. \A l : Places(l)' = Places(l)
    BY <1>1, <1>4 DEF Places
  <1>7. Requested' = Requested
    BY <1>1, <1>4, <1>6 DEF Requested, Has, CutShort
  <1>8. WholeAnswer'
    BY <1>1, <1>5, <1>7 DEF FlowInv, WholeAnswer
  <1> QED
    BY <1>1, <1>2, <1>3, <1>8 DEF FlowInv

LEMMA FlowNext == DecoderInv /\ EndInv' /\ FlowInv /\ [Next]_vars => FlowInv'
  <1> SUFFICES ASSUME DecoderInv, EndInv', FlowInv, [Next]_vars PROVE FlowInv'
    OBVIOUS
  <1>1. CASE UNCHANGED vars \/ Done
    BY <1>1, FlowStutters DEF Done
  <1>2. CASE \E l \in Lines : Emit(l)
    <2>1. Decoded' = Decoded
      BY <1>2, DecoderEmit
    <2>2. UNCHANGED <<api, queue, content, calls, ending, outcome>> /\ outcome = "streaming"
      BY <1>2 DEF Emit, decoder, agent
    <2> QED
      BY <2>1, <2>2, FlowRests
  <1>3. CASE \/ (\E how \in {"whole", "half"} : Close(how)) \/ Cancel
             \/ (\E n \in 1..(2 * MaxAhead) : Chunk(n)) \/ Disconnect \/ Opened
    <2>1. UNCHANGED <<api, queue, content, calls, sent, read>>
      BY <1>3 DEF Close, Cancel, Chunk, Disconnect, Opened, decoder, agent
    <2>2. (ending' = ending \/ ending' = "broken") /\ outcome' # "ok" /\ outcome \notin Over
      BY <1>3 DEF Close, Cancel, Chunk, Disconnect, Opened, Polling, decoder, agent, Over,
         Failures
    <2>3. outcome' \in Under => outcome \in Under
      BY <1>3 DEF Close, Cancel, Chunk, Disconnect, Opened, Polling, decoder, agent, Under
    <2>4. Decoded' = Decoded
      BY <2>1 DEF Decoded
    <2> QED
      BY <2>1, <2>2, <2>3, <2>4, FlowRests
  <1>4. CASE OpenFailed \/ StreamFails \/ Timeout \/ NoticeCancel
    <2>1. /\ UNCHANGED <<queue, content, calls>>
          /\ outcome' \in {"failed", "disconnected", "timeout", "cancelled"}
      BY <1>4 DEF OpenFailed, StreamFails, Timeout, NoticeCancel, StopWith, EndAs
    <2>2. outcome' \in Over \ {"ok"} /\ Shaped(queue')
      BY <2>1 DEF Over, Failures, FlowInv
    <2> QED
      BY <2>1, <2>2, FlowStops
  <1>5. CASE DecodeText
    BY <1>5, FlowText
  <1>6. CASE DecodeAlive \/ DecodeCall \/ DecodeCut \/ DecodeStop \/ DecodeBad
    BY <1>6, FlowQuiet
  <1>7. CASE DecodeItem
    BY <1>7, FlowItem
  <1>8. CASE DecodeEnd
    BY <1>8, FlowEnd
  <1>9. CASE Take
    BY <1>9, FlowTake
  <1>10. CASE \E offered \in BOOLEAN : Finish(offered)
    BY <1>10, FlowFinish
  <1> QED
    BY <1>1, <1>2, <1>3, <1>4, <1>5, <1>6, <1>7, <1>8, <1>9, <1>10 DEF Next

-----------------------------------------------------------------------------
\* HistoricalToolEchoStreamGuard: for every answer, however it is cut into deltas
\* and wherever the pieces of a card lie between other text, the screen never has a
\* card's marker with text behind it at its beginning, nor EchoLen pieces in a row,
\* and no answer without calls that holds them is accepted.
THEOREM EchoIsNeverShown == Spec => []EchoNeverShown
  <1>1. StreamInv /\ CopyInv => EchoNeverShown
    BY DEF StreamInv, CopyInv, EchoNeverShown
  <1> QED
    BY StreamInvariant, CopyInvariant, <1>1, PTL

\* stream_provider_attempt: whatever ends an attempt, the failure says that text
\* was shown when some was.
THEOREM ShownIsAlwaysReported == Spec => []ShownIsReported
  <1>1. StreamInv => ShownIsReported
    BY DEF StreamInv
  <1> QED
    BY StreamInvariant, <1>1, PTL

\* HistoricalToolEchoStreamGuard with stream_provider_attempt: for every answer,
\* however it is cut into deltas and wherever the guard begins and stops holding
\* text back, a successful attempt without calls has shown exactly the text it
\* stores, a bare marker apart.
THEOREM NothingIsHidden == Spec => []NothingHidden
  <1>1. FaithInv => NothingHidden
    BY DEF FaithInv
  <1> QED
    BY FaithInvariant, <1>1, PTL

\* stream_chat_completions, stream_responses and stream_anthropic_messages with
\* ToolCallAccumulator::finish: however the bytes were cut and wherever the
\* connection broke, an attempt succeeds only at the end of the answer, with its
\* text, without the white space Chat Completions loses, and its calls, all those
\* it did not finish marked but for one cut before its arguments began; or with
\* the calls of the block its text leaked.
THEOREM AnswersAreWhole == Spec => []WholeAnswer
  <1>1. Spec => []EndInv
    BY EndInit, EndNext, PTL DEF Spec
  <1>2. Spec => []DecoderInv
    BY <1>1, DecoderInit, DecoderNext, PTL DEF Spec
  <1>3. Spec => []FlowInv
    BY <1>1, <1>2, FlowInit, FlowNext, PTL DEF Spec
  <1>4. FlowInv => WholeAnswer
    BY DEF FlowInv
  <1> QED
    BY <1>3, <1>4, PTL

=============================================================================
