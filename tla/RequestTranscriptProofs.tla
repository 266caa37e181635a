------------------------ MODULE RequestTranscriptProofs ------------------------
(***************************************************************************)
(* Theorems about RequestTranscript, for every history, budget and limit:  *)
(* what the request shows of the history, that its tool messages match,    *)
(* and that summaries advance and retries get shorter.                     *)
(***************************************************************************)
EXTENDS RequestTranscript, FiniteSetTheorems, SequenceTheorems, WellFoundedInduction, TLAPS

-----------------------------------------------------------------------------
(* Least and greatest elements, and the counting of blocks *)

LEMMA LeastIn ==
  ASSUME NEW T \in SUBSET Nat, T # {}
  PROVE  \E k \in T : \A j \in T : k <= j
  <1> DEFINE Below == {ss \in Nat \X Nat : ss[1] < ss[2]}
  <1>1. IsWellFoundedOn(Below, Nat)
    BY NatLessThanWellFounded DEF OpToRel
  <1>2. PICK x \in T : \A y \in T : <<y, x>> \notin Below
    BY <1>1, WFMin
  <1>3. ASSUME NEW y \in T, y < x PROVE FALSE
    <2>1. <<y, x>> \in Nat \X Nat /\ <<y, x>>[1] < <<y, x>>[2]
      BY <1>3
    <2> QED
      BY <1>2, <2>1
  <1> QED
    BY <1>2, <1>3

LEMMA MinIn ==
  ASSUME NEW T \in SUBSET Nat, T # {}
  PROVE  Min(T) \in T /\ \A j \in T : Min(T) <= j
  BY LeastIn DEF Min

LEMMA MaxIn ==
  ASSUME NEW n \in Nat, NEW T \in SUBSET (0..n), T # {}
  PROVE  Max(T) \in T /\ \A j \in T : j <= Max(T)
  <1> DEFINE D == {d \in Nat : n - d \in T}
  <1>1. PICK k \in T : TRUE
    OBVIOUS
  <1>2. n - k \in D
    BY <1>1
  <1> HIDE DEF D
  <1>3. PICK d \in D : \A e \in D : d <= e
    BY <1>2, LeastIn DEF D
  <1>4. ASSUME NEW j \in T PROVE j <= n - d
    <2>1. n - j \in D
      BY DEF D
    <2> QED
      BY <1>3, <2>1 DEF D
  <1>5. n - d \in T
    BY <1>3 DEF D
  <1>6. \E x \in T : \A y \in T : x >= y
    BY <1>4, <1>5
  <1> QED
    BY <1>6 DEF Max

\* Among a finite set of places there is one with any smaller number of places
\* before it.
Before(S, k) == {j \in S : j < k}

LEMMA Ranked ==
  ASSUME NEW n \in Nat, NEW S \in SUBSET (1..n), NEW count \in Nat, count < Cardinality(S)
  PROVE  \E i \in S : Cardinality(Before(S, i)) = count
  <1> DEFINE T == {k \in 1..(n + 1) : Cardinality(Before(S, k)) > count}
  <1>1. ASSUME NEW k \in 1..(n + 1) PROVE IsFiniteSet(Before(S, k)) /\ Cardinality(Before(S, k)) \in Nat
    <2>1. IsFiniteSet(1..n)
      BY FS_Interval
    <2>2. IsFiniteSet(Before(S, k))
      BY <2>1, FS_Subset DEF Before
    <2> QED
      BY <2>2, FS_CardinalityType
  <1>2. n + 1 \in T
    <2>1. \A j \in S : j < n + 1
      OBVIOUS
    <2>2. Before(S, n + 1) = S
      BY <2>1, Zenon DEF Before
    <2>3. n + 1 \in 1..(n + 1)
      OBVIOUS
    <2> QED
      BY <2>2, <2>3
  <1>3. PICK k \in T : \A j \in T : k <= j
    <2>1. T \in SUBSET Nat /\ T # {}
      BY <1>2
    <2> HIDE DEF T
    <2> QED
      BY <2>1, LeastIn
  <1>4. k # 1
    <2>0. \A j \in S : ~(j < 1)
      OBVIOUS
    <2>1. Before(S, 1) = {}
      BY <2>0, Zenon DEF Before
    <2>2. Cardinality(Before(S, 1)) = 0
      BY <2>1, FS_EmptySet
    <2> QED
      BY <2>2
  <1>5. k - 1 \in 1..n /\ Cardinality(Before(S, k - 1)) <= count
    <2>1. k - 1 \in 1..(n + 1) /\ k - 1 \notin T
      BY <1>3, <1>4
    <2> QED
      BY <1>1, <1>4, <2>1
  <1>6. CASE k - 1 \in S
    <2>a. \A j \in S : j < k <=> (j < k - 1 \/ j = k - 1)
      BY <1>3
    <2>b. ~(k - 1 < k - 1)
      BY <1>3
    <2>1. Before(S, k) = Before(S, k - 1) \cup {k - 1} /\ k - 1 \notin Before(S, k - 1)
      BY <1>6, <2>a, <2>b, Zenon DEF Before
    <2>2. Cardinality(Before(S, k)) = Cardinality(Before(S, k - 1)) + 1
      <3>1. IsFiniteSet(Before(S, k - 1))
        BY <1>1, <1>5
      <3> QED
        BY <2>1, <3>1, FS_AddElement
    <2>3. Cardinality(Before(S, k - 1)) = count
      BY <1>1, <1>3, <1>5, <2>2
    <2> QED
      BY <1>6, <2>3
  <1>7. CASE k - 1 \notin S
    <2>a. \A j \in S : j < k <=> j < k - 1
      BY <1>3, <1>7
    <2>1. Before(S, k) = Before(S, k - 1)
      BY <2>a, Zenon DEF Before
    <2> QED
      BY <1>1, <1>3, <1>5, <2>1
  <1> QED
    BY <1>6, <1>7

-----------------------------------------------------------------------------
(* Shortening a request: what is left is what follows a block start *)

Suffix(b, f) == SubSeq(b, f, Len(b))

Cuts(b) == BlockStarts(b) \cup {Len(b) + 1}

LEMMA SuffixShape ==
  ASSUME NEW b \in Seq(ChatMessage), NEW f \in Cuts(b)
  PROVE  /\ f \in 1..(Len(b) + 1)
         /\ Suffix(b, f) \in Seq(ChatMessage)
         /\ Len(Suffix(b, f)) = Len(b) - f + 1
         /\ \A i \in 1..(Len(b) - f + 1) : Suffix(b, f)[i] = b[i + f - 1]
  <1>1. f \in 1..(Len(b) + 1)
    BY DEF Cuts, BlockStarts
  <1> QED
    BY <1>1 DEF Suffix

LEMMA FirstCut ==
  ASSUME NEW b \in Seq(ChatMessage)
  PROVE  1 \in Cuts(b) /\ Suffix(b, 1) = b
  <1>1. CASE b = <<>>
    BY <1>1 DEF Cuts, Suffix
  <1>2. CASE b # <<>>
    <2>1. 1 \in DOMAIN b /\ ~InBlock(b, 1)
      BY <1>2 DEF InBlock
    <2> QED
      BY <2>1 DEF Cuts, BlockStarts, Suffix
  <1> QED
    BY <1>1, <1>2

LEMMA StartsFinite ==
  ASSUME NEW b \in Seq(ChatMessage)
  PROVE  /\ BlockStarts(b) \in SUBSET (1..Len(b))
         /\ Cardinality(BlockStarts(b)) \in Nat
  <1>1. BlockStarts(b) \in SUBSET (1..Len(b))
    BY DEF BlockStarts
  <1>2. IsFiniteSet(1..Len(b))
    BY FS_Interval
  <1> QED
    BY <1>1, <1>2, FS_Subset, FS_CardinalityType

\* trim_oldest_message_blocks cuts at a block start, and cuts something unless it
\* is told to drop nothing.
LEMMA TrimIsSuffix ==
  ASSUME NEW b \in Seq(ChatMessage), NEW count \in Nat
  PROVE  \E f \in Cuts(b) : /\ TrimBlocks(b, count) = Suffix(b, f)
                            /\ count > 0 /\ b # <<>> => f > 1
  <1> DEFINE starts == BlockStarts(b)
             Rank(i) == Cardinality(Before(starts, i))
  <1>1. starts \in SUBSET (1..Len(b)) /\ Cardinality(starts) \in Nat
    BY StartsFinite
  <1>2. CASE count >= Cardinality(starts)
    <2>1. TrimBlocks(b, count) = <<>>
      BY <1>2 DEF TrimBlocks
    <2>2. Suffix(b, Len(b) + 1) = <<>>
      BY DEF Suffix
    <2>3. b # <<>> => Len(b) + 1 > 1
      OBVIOUS
    <2> QED
      BY <2>1, <2>2, <2>3 DEF Cuts
  <1>3. CASE ~(count >= Cardinality(starts))
    <2> DEFINE first == CHOOSE i \in starts : Rank(i) = count
    <2>1. \E i \in starts : Rank(i) = count
      <3>1. count < Cardinality(starts)
        BY <1>1, <1>3
      <3>2. Len(b) \in Nat
        OBVIOUS
      <3> HIDE DEF starts
      <3> QED
        BY <1>1, <3>1, <3>2, Ranked
    <2>2. first \in starts /\ Rank(first) = count
      BY <2>1
    <2>3. TrimBlocks(b, count) = Suffix(b, first)
      BY <1>3 DEF TrimBlocks, Suffix, Before
    <2> HIDE DEF first
    <2>4. ASSUME count > 0 PROVE first > 1
      <3>1. SUFFICES ASSUME first = 1 PROVE FALSE
        BY <1>1, <2>2
      <3>2. \A j \in starts : ~(j < 1)
        BY <1>1
      <3>3. Before(starts, 1) = {}
        BY <3>2, Zenon DEF Before
      <3>4. Rank(1) = 0
        BY <3>3, FS_EmptySet
      <3> QED
        BY <2>2, <2>4, <3>1, <3>4
    <2>5. first \in Cuts(b)
      BY <2>2 DEF Cuts
    <2> QED
      BY <2>3, <2>4, <2>5
  <1> QED
    BY <1>2, <1>3

LEMMA PreparedIsSuffix ==
  ASSUME NEW b \in Seq(ChatMessage)
  PROVE  \E f \in Cuts(b) : Prepared(b) = Suffix(b, f) /\ (~turn.lossy => f = 1)
  <1>1. CASE ~turn.lossy
    BY <1>1, FirstCut DEF Prepared
  <1>2. CASE turn.lossy
    <2> DEFINE blocks == Cardinality(BlockStarts(b))
               N == {n \in 0..blocks : n = blocks \/ Tokens(TrimBlocks(b, n)) <= Budget}
    <2>1. blocks \in Nat
      BY StartsFinite
    <2>2. N \in SUBSET Nat /\ blocks \in N
      BY <2>1
    <2>3. Prepared(b) = TrimBlocks(b, Min(N))
      BY <1>2 DEF Prepared
    <2>4. Min(N) \in Nat
      <3> HIDE DEF N
      <3> QED
        BY <2>2, MinIn
    <2> HIDE DEF N
    <2> QED
      BY <1>2, <2>3, <2>4, TrimIsSuffix
  <1> QED
    BY <1>1, <1>2

LEMMA RepairedShape ==
  ASSUME NEW b \in Seq(ChatMessage)
  PROVE  /\ Repaired(b) \in Seq(ChatMessage)
         /\ Len(Repaired(b)) = Len(b)
         /\ \A i \in 1..Len(b) : Repaired(b)[i].src = b[i].src
         /\ \A i \in 1..Len(b) : b[i].role # "tool" \/ Answers(b, i) => Repaired(b)[i] = b[i]
         /\ \A i \in 1..Len(b) : b[i].role = "tool" /\ ~Answers(b, i)
                                   => Repaired(b)[i].role = "user" /\ Repaired(b)[i].ids = {}
  <1> DEFINE e(i) == IF b[i].role = "tool" /\ ~Answers(b, i)
                       THEN [b[i] EXCEPT !.role = "user", !.ids = {}] ELSE b[i]
  <1>1. DOMAIN b = 1..Len(b) /\ Len(b) \in Nat
    OBVIOUS
  <1>2. ASSUME NEW i \in 1..Len(b)
        PROVE  /\ e(i) \in ChatMessage /\ e(i).src = b[i].src
               /\ b[i].role = "tool" /\ ~Answers(b, i) => e(i).role = "user" /\ e(i).ids = {}
    <2>1. b[i] \in ChatMessage
      OBVIOUS
    <2> QED
      BY <2>1 DEF ChatMessage
  <1>3. Repaired(b) = [i \in 1..Len(b) |-> e(i)]
    BY <1>1 DEF Repaired
  <1>4. Repaired(b) \in [1..Len(b) -> ChatMessage]
    BY <1>2, <1>3
  <1>5. Repaired(b) \in Seq(ChatMessage) /\ Len(Repaired(b)) = Len(b)
    BY <1>1, <1>4, SeqDef
  <1>6. \A i \in 1..Len(b) : Repaired(b)[i] = e(i)
    BY <1>3
  <1>7. \A i \in 1..Len(b) : b[i].role # "tool" \/ Answers(b, i) => Repaired(b)[i] = b[i]
    BY <1>6
  <1> HIDE DEF e
  <1> QED
    BY <1>2, <1>5, <1>6, <1>7

-----------------------------------------------------------------------------
(* Building a request from the history *)

LEMMA TargetBound ==
  ASSUME turn.base \in Nat, NEW fixed
  PROVE  /\ TargetCount(fixed) \in Nat
         /\ TargetCount(fixed) <= turn.base
         /\ TargetCount(fixed) > 0 => TargetCount(fixed) + KeepRecent <= turn.base
  <1> DEFINE n == turn.base
             available == AtLeast(Budget - fixed, 0)
             Fitting == {k \in 0..n : \A j \in (KeepRecent + 1)..k : Spent(n - j + 1, n) <= available}
  <1>1. KeepRecent \in Nat
    BY SizesAssumption
  <1>2. 0 \in Fitting
    BY <1>1
  <1>3. Fitting \in SUBSET (0..n)
    OBVIOUS
  <1>4. TargetCount(fixed) = AtMost(n - Max(Fitting), AtLeast(n - KeepRecent, 0))
    BY DEF TargetCount
  <1> HIDE DEF Fitting
  <1>5. Max(Fitting) \in 0..n
    BY <1>2, <1>3, MaxIn
  <1> QED
    BY <1>1, <1>4, <1>5 DEF AtMost, AtLeast

LEMMA StoredShape ==
  ASSUME NEW row \in StoredMessage
  PROVE  row.role \in {"user", "assistant", "tool"} /\ row.cost \in Nat \ {0}
  <1>1. Costs \subseteq Nat \ {0}
    BY SizesAssumption
  <1>2. row.role \in {"user", "assistant", "tool"} /\ row.cost \in Costs \cup {1}
    BY Zenon DEF StoredMessage
  <1>3. Costs \cup {1} \subseteq Nat \ {0}
    BY <1>1
  <1> QED
    BY <1>2, <1>3, Zenon

LEMMA CardShape ==
  ASSUME stored \in Seq(StoredMessage), NEW i \in 1..Len(stored)
  PROVE  /\ Card(i) \in ChatMessage
         /\ Card(i).src = i /\ Card(i).role \in {"user", "assistant"} /\ Card(i).ids = {}
  <1>1. stored[i] \in StoredMessage
    OBVIOUS
  <1>2. /\ stored[i].role \in {"user", "assistant", "tool"}
        /\ stored[i].cost \in Nat \ {0} /\ Previewed(stored[i].cost) \in Nat \ {0}
    <2>1. Preview \in Nat \ {0}
      BY SizesAssumption
    <2> QED
      BY <1>1, <2>1, StoredShape DEF Previewed, AtMost
  <1>3. CASE stored[i].role = "tool"
    BY <1>2, <1>3 DEF Card, ChatMessage
  <1>4. CASE stored[i].role # "tool"
    BY <1>2, <1>4 DEF Card, ChatMessage
  <1> QED
    BY <1>3, <1>4

LEMMA CardsShape ==
  ASSUME stored \in Seq(StoredMessage), NEW skip \in Nat, NEW last \in 0..Len(stored)
  PROVE  /\ Cards(skip, last) \in Seq(ChatMessage)
         /\ Len(Cards(skip, last)) = AtLeast(last - skip, 0)
         /\ \A k \in 1..Len(Cards(skip, last)) :
               skip + k \in 1..last /\ Cards(skip, last)[k] = Card(skip + k)
  <1> DEFINE n == AtLeast(last - skip, 0)
  <1>1. n \in Nat /\ \A k \in 1..n : skip + k \in 1..last /\ skip + k \in 1..Len(stored)
    BY DEF AtLeast
  <1>2. Cards(skip, last) \in [1..n -> ChatMessage]
    <2>1. \A k \in 1..n : Card(skip + k) \in ChatMessage
      BY <1>1, CardShape
    <2> QED
      BY <2>1 DEF Cards
  <1>3. Cards(skip, last) \in Seq(ChatMessage) /\ Len(Cards(skip, last)) = n
    <2> HIDE DEF n
    <2> QED
      BY <1>1, <1>2, SeqDef
  <1> QED
    BY <1>1, <1>3 DEF Cards

LEMMA CallsType ==
  ASSUME NEW ids \in SUBSET (1..MaxCalls)
  PROVE  CallsMessage(ids) \in ChatMessage
  BY DEF CallsMessage, ChatMessage

LEMMA ResultType ==
  ASSUME NEW call \in 1..MaxCalls, NEW src \in Nat, NEW cost \in Nat \ {0}
  PROVE  Result(call, src, cost) \in ChatMessage
  <1>1. AtMost(cost, MaxResult) \in Nat \ {0}
    BY SizesAssumption DEF AtMost
  <1> QED
    BY <1>1 DEF Result, ChatMessage

\* The note of a resolved call stays beside its result only when it is not known
\* to be the same output.
Doubled == ~turn.known /\ stored[turn.base].cost > Preview

LEMMA AssembledShape ==
  ASSUME TypeOK, turn.base = Len(stored), turn.base > 0, NEW skip \in Nat
  PROVE  \/ turn.resolved = 0 /\ Assembled(skip) = Cards(skip, turn.base)
         \/ /\ turn.resolved \in 1..MaxCalls
            /\ \E last \in {turn.base - 1, turn.base} :
                 /\ Assembled(skip) =
                      Append(Append(Cards(skip, last), CallsMessage({turn.resolved})),
                             Result(turn.resolved, turn.base, stored[turn.base].cost))
                 /\ last = turn.base => Doubled
  <1>1. turn.resolved \in 0..MaxCalls /\ MaxCalls \in Nat /\ turn.base \in Nat
        /\ turn.known \in BOOLEAN
    BY SizesAssumption DEF TypeOK, Turn
  <1>2. stored[turn.base].cost \in Nat \ {0}
    <2>1. stored[turn.base] \in StoredMessage
      BY DEF TypeOK
    <2> QED
      BY <2>1, StoredShape
  <1>3. CASE turn.resolved = 0
    BY <1>3 DEF Assembled
  <1>4. CASE turn.resolved # 0
    <2> DEFINE replaced == turn.known \/ stored[turn.base].cost <= Preview
               last == IF replaced THEN turn.base - 1 ELSE turn.base
               c == CallsMessage({turn.resolved})
               r == Result(turn.resolved, turn.base, stored[turn.base].cost)
    <2>1. Assembled(skip) = Cards(skip, last) \o <<c, r>>
      BY <1>4 DEF Assembled
    <2>2. turn.resolved \in 1..MaxCalls
      BY <1>1, <1>4
    <2>3. c \in ChatMessage /\ r \in ChatMessage
      BY <1>1, <1>2, <2>2, CallsType, ResultType
    <2>4. last \in 0..Len(stored) /\ last \in {turn.base - 1, turn.base}
      BY <1>1
    <2>5. last = turn.base => Doubled
      <3>1. Preview \in Nat
        BY SizesAssumption
      <3>2. last = turn.base => ~replaced
        BY <1>1
      <3> QED
        BY <1>1, <1>2, <3>1, <3>2 DEF Doubled
    <2> HIDE DEF last, c, r
    <2>6. Cards(skip, last) \in Seq(ChatMessage)
      BY <2>4, CardsShape DEF TypeOK
    <2>7. Cards(skip, last) \o <<c, r>> = Append(Append(Cards(skip, last), c), r)
      BY <2>3, <2>6
    <2> QED
      BY <2>1, <2>2, <2>4, <2>5, <2>7 DEF c, r
  <1> QED
    BY <1>3, <1>4

-----------------------------------------------------------------------------
(* Types, and what is known of a turn at each of its labels *)

Phase ==
    /\ pc \in {"idle", "paused", "budget"} => body = <<>> /\ head = NoHead /\ turn.rounds = 0
    /\ pc = "budget" => turn.base = Len(stored) /\ turn.base > 0
    /\ pc \in {"sent", "tools"} => turn.rounds > 0
    /\ pc = "tools" => turn.next \in 1..turn.total

TypeInv == TypeOK /\ Phase

LEMMA Sizes ==
    /\ KeepRecent \in Nat /\ MinKept \in Nat /\ MinKept > 0 /\ Preview \in Nat
    /\ MaxRounds \in Nat /\ MaxRounds > 0 /\ MaxCalls \in Nat /\ MaxRetries \in Nat
  <1>1. KeepRecent \in Nat \ {0} /\ MinKept \in Nat \ {0} /\ MaxRounds \in Nat \ {0}
    BY SizesAssumption
  <1>2. MaxCalls \in Nat /\ Preview \in Nat /\ MaxRetries \in Nat
    BY SizesAssumption
  <1> QED
    BY <1>1, <1>2

LEMMA CostsAreNat == \A cost \in Costs \cup {1} : cost \in Nat \ {0}
  <1>1. Costs \subseteq Nat \ {0}
    BY SizesAssumption
  <1> QED
    BY <1>1

LEMMA NewTurnType == NewTurn \in Turn /\ NoHead \in HeadNote
  <1>1. 0 \in 0..MaxCalls
    BY Sizes
  <1> QED
    BY <1>1 DEF NewTurn, Turn, NoHead, HeadNote

LEMMA RecordShape ==
  ASSUME stored \in Seq(StoredMessage), NEW role \in {"user", "assistant", "tool"},
         NEW cost \in Costs \cup {1}, Record(role, cost)
  PROVE  /\ stored' \in Seq(StoredMessage)
         /\ Len(stored') = Len(stored) + 1 /\ Len(stored) \in Nat
         /\ \A i \in 1..Len(stored) : stored'[i] = stored[i]
         /\ stored'[Len(stored) + 1].role = role
  <1> DEFINE new == [role |-> role, cost |-> cost]
  <1>1. new \in StoredMessage /\ new.role = role
    BY DEF StoredMessage
  <1>2. stored' = Append(stored, new)
    BY DEF Record
  <1> HIDE DEF new
  <1> QED
    BY <1>1, <1>2

LEMMA EndType ==
  ASSUME End, stored' \in Seq(StoredMessage), compacted' \in 0..Len(stored'),
         unread' \subseteq 1..compacted', window' \in 0..Len(stored')
  PROVE  TypeInv'
  <1>1. turn' \in Turn /\ head' \in HeadNote
    BY NewTurnType DEF End
  <1>2. /\ turn'.base = 0 /\ turn'.rounds = 0 /\ turn'.retry = 0 /\ turn'.total = 0
        /\ pc' = "idle" /\ body' = <<>> /\ head' = NoHead
    BY DEF End, NewTurn
  <1>3. TypeOK'
    BY <1>1, <1>2, Sizes DEF TypeOK, Labels
  <1> QED
    BY <1>2, <1>3 DEF TypeInv, Phase

LEMMA BeginType ==
  ASSUME TypeInv, pc = "budget", NEW h \in HeadNote, NEW skip \in Nat, Begin(h, skip),
         compacted' \in 0..Len(stored), unread' \subseteq 1..compacted'
  PROVE  TypeInv'
  <1>1. turn.base = Len(stored) /\ turn.base > 0 /\ TypeOK
    BY DEF TypeInv, Phase
  <1>2. stored \in Seq(StoredMessage) /\ Len(stored) \in Nat
    BY DEF TypeInv, TypeOK
  <1>3. Assembled(skip) \in Seq(ChatMessage)
    <2>1. CASE Assembled(skip) = Cards(skip, turn.base)
      BY <1>1, <1>2, <2>1, CardsShape
    <2>2. ASSUME turn.resolved \in 1..MaxCalls, NEW last \in {turn.base - 1, turn.base},
                 Assembled(skip) =
                   Append(Append(Cards(skip, last), CallsMessage({turn.resolved})),
                          Result(turn.resolved, turn.base, stored[turn.base].cost))
          PROVE  Assembled(skip) \in Seq(ChatMessage)
      <3>1. Cards(skip, last) \in Seq(ChatMessage)
        <4>1. last \in 0..Len(stored)
          BY <1>1, <1>2
        <4> QED
          BY <1>2, <4>1, CardsShape
      <3>2. stored[turn.base].cost \in Nat \ {0}
        <4>1. stored[turn.base] \in StoredMessage
          BY <1>1, <1>2
        <4> QED
          BY <4>1, StoredShape
      <3>3. CallsMessage({turn.resolved}) \in ChatMessage
        BY <2>2, CallsType
      <3>4. Result(turn.resolved, turn.base, stored[turn.base].cost) \in ChatMessage
        BY <1>1, <1>2, <2>2, <3>2, ResultType
      <3> QED
        BY <2>2, <3>1, <3>3, <3>4
    <2> QED
      BY <1>1, <2>1, <2>2, AssembledShape
  <1>4. /\ body' = Assembled(skip) /\ head' = h /\ pc' = "round"
        /\ stored' = stored /\ window' = window /\ turn' = turn
    BY DEF Begin
  <1>5. TypeOK'
    BY <1>1, <1>3, <1>4 DEF TypeOK, Labels
  <1> QED
    BY <1>4, <1>5 DEF TypeInv, Phase

LEMMA BudgetSkips ==
  ASSUME TypeInv, pc = "budget"
  PROVE  /\ Covered = compacted /\ Covered \in 0..turn.base /\ turn.base = Len(stored)
         /\ HardTarget \in 0..turn.base /\ window \in 0..turn.base
         /\ CompactionTarget \in 0..turn.base
         /\ CompactionTarget > Covered => CompactionTarget + KeepRecent <= turn.base
  <1>1. turn.base = Len(stored) /\ turn.base \in Nat /\ compacted \in 0..Len(stored)
        /\ window \in 0..Len(stored)
    BY DEF TypeInv, TypeOK, Phase
  <1>2. Covered = compacted
    BY <1>1 DEF Covered
  <1>3. HardTarget \in 0..turn.base
    BY <1>1, TargetBound DEF HardTarget
  <1>4. TargetCount(Fixed + Reserve) \in 0..turn.base
    BY <1>1, TargetBound
  <1>5. CompactionTarget = Covered \/ CompactionTarget = TargetCount(Fixed + Reserve)
    BY DEF CompactionTarget
  <1>6. CompactionTarget > Covered => CompactionTarget + KeepRecent <= turn.base
    BY <1>1, <1>2, <1>4, <1>5, TargetBound
  <1> QED
    BY <1>1, <1>2, <1>3, <1>4, <1>5, <1>6

\* A new summary counts for the messages it leaves unread, but reads the last one.
LEMMA UnreadShape ==
  ASSUME TypeInv, pc = "budget", CompactionTarget > Covered,
         unread' = unread \cup Omits(CompactionTarget)
  PROVE  /\ unread' \subseteq 1..CompactionTarget
         /\ \A j \in unread' : j < CompactionTarget
  <1>1. /\ Covered = compacted /\ Covered \in Nat /\ CompactionTarget \in Nat
        /\ turn.base \in Nat /\ unread \subseteq 1..compacted
    BY BudgetSkips DEF TypeInv, TypeOK, Turn
  <1>2. Omits(CompactionTarget) \subseteq (Covered + 1)..(CompactionTarget - 1)
    BY DEF Omits
  <1>3. \A j \in unread : j \in 1..CompactionTarget /\ j < CompactionTarget
    BY <1>1
  <1>4. \A j \in Omits(CompactionTarget) : j \in 1..CompactionTarget /\ j < CompactionTarget
    BY <1>1, <1>2
  <1> QED
    BY <1>3, <1>4

LEMMA TypeInit == Init => TypeInv
  <1> SUFFICES ASSUME Init PROVE TypeInv
    OBVIOUS
  <1>1. turn \in Turn /\ head \in HeadNote
    BY NewTurnType DEF Init
  <1>2. /\ turn.base = 0 /\ turn.rounds = 0 /\ turn.retry = 0 /\ turn.total = 0
    BY DEF Init, NewTurn
  <1>3. /\ stored \in Seq(StoredMessage) /\ Len(stored) = 0 /\ body \in Seq(ChatMessage)
        /\ compacted = 0 /\ unread = {} /\ window = 0 /\ pc = "idle" /\ body = <<>> /\ head = NoHead
    BY DEF Init
  <1>4. TypeOK
    BY <1>1, <1>2, <1>3, Sizes DEF TypeOK, Labels
  <1> QED
    BY <1>2, <1>3, <1>4 DEF TypeInv, Phase

\* The ways a turn begins: its request is still empty.
LEMMA BudgetType ==
  ASSUME TypeInv, pc \in {"idle", "paused"}, NEW cost \in Costs, NEW role \in {"user", "tool"},
         Record(role, cost), turn' \in Turn, turn'.base = Len(stored) + 1, turn'.rounds = 0,
         turn'.retry <= MaxRetries, turn'.total <= MaxCalls, pc' = "budget",
         UNCHANGED <<compacted, unread, window, head, body>>
  PROVE  TypeInv'
  <1>1. stored' \in Seq(StoredMessage) /\ Len(stored') = Len(stored) + 1 /\ Len(stored) \in Nat
    BY RecordShape DEF TypeInv, TypeOK
  <1>2. TypeOK'
    BY <1>1, Sizes DEF TypeInv, TypeOK, Labels
  <1> QED
    BY <1>1, <1>2 DEF TypeInv, Phase

\* A call of the batch has been dealt with: the next one, or the next round.
LEMMA NextCallType ==
  ASSUME TypeInv, pc = "tools", NextCall, NEW cost \in Costs \cup {1}, Record("tool", cost),
         body' \in Seq(ChatMessage), head' = head, compacted' = compacted, unread' = unread,
         window' \in 0..Len(stored)
  PROVE  TypeInv'
  <1>1. stored' \in Seq(StoredMessage) /\ Len(stored') = Len(stored) + 1 /\ Len(stored) \in Nat
    BY RecordShape DEF TypeInv, TypeOK
  <1>2. turn \in Turn /\ turn.next \in 1..turn.total /\ turn.rounds > 0
    BY DEF TypeInv, TypeOK, Phase
  <1>3. /\ turn' \in Turn
        /\ turn'.base = turn.base /\ turn'.rounds = turn.rounds /\ turn'.retry = turn.retry
        /\ turn'.total = turn.total /\ turn'.next = turn.next + 1
    BY <1>2 DEF NextCall, Turn
  <1>4. turn.total \in Nat
    BY <1>2 DEF Turn
  <1>5. pc' = (IF turn.next = turn.total THEN "round" ELSE "tools")
    BY DEF NextCall
  <1>6. TypeOK'
    <2>1. pc' \in Labels
      BY <1>5 DEF Labels
    <2>2. /\ compacted' \in 0..Len(stored') /\ window' \in 0..Len(stored') /\ head' \in HeadNote
          /\ unread' \subseteq 1..compacted'
          /\ turn'.base <= Len(stored') /\ turn'.rounds <= MaxRounds
          /\ turn'.retry <= MaxRetries /\ turn'.total <= MaxCalls
      <3>1. turn.base \in Nat
        BY <1>2 DEF Turn
      <3> QED
        BY <1>1, <1>3, <3>1 DEF TypeInv, TypeOK
    <2> QED
      BY <1>1, <1>3, <2>1, <2>2 DEF TypeOK
  <1>7. Phase'
    <2>1. CASE turn.next = turn.total
      BY <1>5, <2>1 DEF Phase
    <2>2. CASE turn.next # turn.total
      BY <1>2, <1>3, <1>4, <1>5, <2>2 DEF Phase
    <2> QED
      BY <2>1, <2>2
  <1> QED
    BY <1>6, <1>7 DEF TypeInv

LEMMA SuffixType ==
  ASSUME NEW b \in Seq(ChatMessage), NEW count \in Nat
  PROVE  /\ TrimBlocks(b, count) \in Seq(ChatMessage)
         /\ Repaired(Prepared(b)) \in Seq(ChatMessage)
  <1>1. TrimBlocks(b, count) \in Seq(ChatMessage)
    BY TrimIsSuffix, SuffixShape
  <1>2. Prepared(b) \in Seq(ChatMessage)
    BY PreparedIsSuffix, SuffixShape
  <1> QED
    BY <1>1, <1>2, RepairedShape

LEMMA DropIsPositive ==
  ASSUME NEW n \in Nat, n > MinKept
  PROVE  OverflowDrop(n) \in Nat /\ OverflowDrop(n) > 0
  BY Sizes DEF OverflowDrop, AtLeast

\* new_context rebuilds the request from the user message on.
LEMMA LastUserIn ==
  ASSUME stored \in Seq(StoredMessage), NEW u \in DOMAIN stored, stored[u].role = "user"
  PROVE  /\ LastUser \in 1..Len(stored) /\ stored[LastUser].role = "user"
         /\ \A i \in DOMAIN stored : stored[i].role = "user" => i <= LastUser
  <1> DEFINE U == {i \in DOMAIN stored : stored[i].role = "user"}
  <1>1. U \in SUBSET (0..Len(stored)) /\ Len(stored) \in Nat /\ U # {}
    OBVIOUS
  <1>2. Max(U) \in U /\ \A i \in U : i <= Max(U)
    <2> HIDE DEF U
    <2> QED
      BY <1>1, MaxIn
  <1>3. LastUser = Max(U)
    BY DEF LastUser
  <1> QED
    BY <1>2, <1>3

Users == {i \in DOMAIN stored : stored[i].role = "user"}

\* Rows are only ever appended, and a user row only by a new chat.
LEMMA StoredGrows ==
  ASSUME TypeOK, Next
  PROVE  /\ stored' \in Seq(StoredMessage) /\ Len(stored') >= Len(stored)
         /\ \A i \in DOMAIN stored : i \in DOMAIN stored' /\ stored'[i] = stored[i]
         /\ \/ Users' = Users
            \/ pc' = "budget" /\ Users' = Users \cup {Len(stored) + 1}
  <1>0. stored \in Seq(StoredMessage)
    BY DEF TypeOK
  <1>1. CASE UNCHANGED stored
    BY <1>0, <1>1 DEF Users
  <1>2. ASSUME NEW role \in {"assistant", "tool"}, NEW cost \in Costs \cup {1}, Record(role, cost)
        PROVE  /\ stored' \in Seq(StoredMessage) /\ Len(stored') >= Len(stored)
               /\ \A i \in DOMAIN stored : i \in DOMAIN stored' /\ stored'[i] = stored[i]
               /\ Users' = Users
    <2>1. /\ stored' \in Seq(StoredMessage) /\ Len(stored') = Len(stored) + 1
          /\ \A i \in 1..Len(stored) : stored'[i] = stored[i]
          /\ stored'[Len(stored) + 1].role # "user"
      BY <1>0, <1>2, RecordShape
    <2>2. \A i \in DOMAIN stored : i \in DOMAIN stored' /\ stored'[i] = stored[i]
      BY <1>0, <2>1
    <2>3. \A i : i \in Users' <=> i \in Users
      BY <1>0, <2>1 DEF Users
    <2>4. Users' = Users
      BY <2>3, Zenon
    <2> QED
      BY <1>0, <2>1, <2>2, <2>4
  <1>3. ASSUME NEW cost \in Costs, Record("user", cost), pc' = "budget"
        PROVE  /\ stored' \in Seq(StoredMessage) /\ Len(stored') >= Len(stored)
               /\ \A i \in DOMAIN stored : i \in DOMAIN stored' /\ stored'[i] = stored[i]
               /\ pc' = "budget" /\ Users' = Users \cup {Len(stored) + 1}
    <2>1. /\ stored' \in Seq(StoredMessage) /\ Len(stored') = Len(stored) + 1
          /\ \A i \in 1..Len(stored) : stored'[i] = stored[i]
          /\ stored'[Len(stored) + 1].role = "user"
      BY <1>0, <1>3, RecordShape
    <2>2. \A i \in DOMAIN stored : i \in DOMAIN stored' /\ stored'[i] = stored[i]
      BY <1>0, <2>1
    <2>3. \A i : i \in Users' <=> i \in Users \/ i = Len(stored) + 1
      BY <1>0, <2>1 DEF Users
    <2>4. Users' = Users \cup {Len(stored) + 1}
      BY <2>3, Zenon
    <2> QED
      BY <1>0, <1>3, <2>1, <2>2, <2>4
  <1>4. CASE \E lossy \in BOOLEAN, cost \in Costs : Chat(lossy, cost)
    BY <1>3, <1>4 DEF Chat
  <1>5. CASE \/ KeepWindow \/ KeepSummary \/ Summarize \/ Truncate \/ Send \/ TooManyRounds
             \/ OverflowRetry \/ NextCandidate \/ (\E n \in 1..MaxCalls : Calls(n)) \/ Ask \/ Stop
    BY <1>1, <1>5 DEF KeepWindow, KeepSummary, Summarize, Truncate, Send, TooManyRounds,
       OverflowRetry, NextCandidate, Calls, Ask, Stop, Begin, store
  <1>6. CASE Answer \/ StopPreserving \/ NewContext
    BY <1>2, <1>6 DEF Answer, StopPreserving, NewContext
  <1>7. CASE \E cost \in Costs : ToolResult(cost)
    BY <1>2, <1>7 DEF ToolResult
  <1>8. CASE \E lossy \in BOOLEAN, known \in BOOLEAN, cost \in Costs : Resolve(lossy, known, cost)
    BY <1>2, <1>8 DEF Resolve
  <1> QED
    BY <1>4, <1>5, <1>6, <1>7, <1>8 DEF Next

\* A turn has a message to answer.
HasUser == pc # "idle" => Users # {}

\* The position of the newest user message, in a turn.
LEMMA CurrentUser ==
  ASSUME stored \in Seq(StoredMessage), Users # {}
  PROVE  /\ LastUser \in 1..Len(stored) /\ LastUser \in Users
         /\ \A i \in Users : i <= LastUser
  BY LastUserIn DEF Users

LEMMA TypeNext ==
  ASSUME TypeInv, HasUser, [Next]_vars
  PROVE  TypeInv'
  <1>0. /\ stored \in Seq(StoredMessage) /\ Len(stored) \in Nat /\ turn \in Turn
        /\ compacted \in 0..Len(stored) /\ window \in 0..Len(stored) /\ body \in Seq(ChatMessage)
        /\ unread \subseteq 1..compacted
        /\ turn.base \in Nat /\ turn.base <= Len(stored) /\ turn.rounds \in Nat
        /\ turn.retry \in Nat /\ turn.total \in Nat /\ turn.total <= MaxCalls
        /\ turn.resolved \in 0..MaxCalls
    BY DEF TypeInv, TypeOK, Turn
  <1>1. CASE \E lossy \in BOOLEAN, cost \in Costs : Chat(lossy, cost)
    <2>1. PICK lossy \in BOOLEAN, cost \in Costs : Chat(lossy, cost)
      BY <1>1
    <2>2. turn' = [NewTurn EXCEPT !.lossy = lossy, !.base = Len(stored) + 1]
      BY <2>1 DEF Chat
    <2>3. /\ turn' \in Turn /\ turn'.base = Len(stored) + 1 /\ turn'.rounds = 0
          /\ turn'.retry = 0 /\ turn'.total = 0
      <3>1. turn' \in Turn
        <4>0. NewTurn \in Turn /\ Len(stored) \in Nat
          BY <1>0, NewTurnType
        <4> DEFINE t1 == [NewTurn EXCEPT !.lossy = lossy]
                   t2 == [t1 EXCEPT !.base = Len(stored) + 1]
        <4>1. turn' = t2
          BY <2>2
        <4> HIDE DEF t1, t2
        <4>2. t1 \in Turn
          BY <4>0 DEF Turn, t1
        <4>3. t2 \in Turn
          BY <4>0, <4>2 DEF Turn, t2
        <4> QED
          BY <4>1, <4>3
      <3>2. /\ turn'.base = Len(stored) + 1 /\ turn'.rounds = 0
            /\ turn'.retry = 0 /\ turn'.total = 0
        BY <1>0, <2>2, NewTurnType DEF NewTurn, Turn
      <3> QED
        BY <3>1, <3>2
    <2> QED
      BY <2>1, <2>3, BudgetType, Sizes DEF Chat
  <1>2. CASE KeepWindow
    <2>1. pc = "budget" /\ Begin(NoHead, AtMost(window, turn.base)) /\ compacted' = compacted
          /\ unread' = unread
      BY <1>2 DEF KeepWindow
    <2>2. AtMost(window, turn.base) \in Nat
      BY <1>0 DEF AtMost
    <2> QED
      BY <1>0, <2>1, <2>2, NewTurnType, BeginType
  <1>3. CASE KeepSummary \/ Summarize \/ Truncate
    <2>1. /\ Covered \in Nat /\ HardTarget \in Nat /\ CompactionTarget \in 0..Len(stored)
          /\ pc = "budget"
      BY <1>0, <1>3, BudgetSkips DEF KeepSummary, Summarize, Truncate
    <2>2. CASE KeepSummary
      <3>1. [covered |-> Covered, dropped |-> 0] \in HeadNote
        BY <2>1 DEF HeadNote
      <3> QED
        BY <1>0, <2>1, <2>2, <3>1, BeginType DEF KeepSummary
    <2>3. CASE Summarize
      <3>1. [covered |-> CompactionTarget, dropped |-> 0] \in HeadNote
        BY <2>1 DEF HeadNote
      <3>2. unread' \subseteq 1..compacted'
        BY <1>0, <2>1, <2>3, UnreadShape DEF Summarize
      <3> QED
        BY <1>0, <2>1, <2>3, <3>1, <3>2, BeginType DEF Summarize
    <2>4. CASE Truncate
      <3> DEFINE skip == AtLeast(HardTarget, Covered)
      <3>1. skip \in Nat /\ skip - Covered \in Nat
        BY <2>1 DEF AtLeast
      <3>2. [covered |-> Covered, dropped |-> skip - Covered] \in HeadNote
        BY <2>1, <3>1 DEF HeadNote
      <3>3. Begin([covered |-> Covered, dropped |-> skip - Covered], skip) /\ compacted' = compacted
            /\ unread' = unread
        BY <2>4 DEF Truncate
      <3> HIDE DEF skip
      <3> QED
        BY <1>0, <2>1, <3>1, <3>2, <3>3, BeginType
    <2> QED
      BY <1>3, <2>2, <2>3, <2>4
  <1>4. CASE Send
    <2>1. /\ stored' = stored /\ compacted' = compacted /\ unread' = unread /\ window' = window /\ head' = head
          /\ pc' = "sent" /\ body' = Repaired(Prepared(body)) /\ turn.rounds < MaxRounds
          /\ turn' = [turn EXCEPT !.rounds = @ + 1, !.retry = 0]
      BY <1>4 DEF Send, store
    <2>2. /\ turn' \in Turn /\ turn'.base = turn.base /\ turn'.rounds = turn.rounds + 1
          /\ turn'.retry = 0 /\ turn'.total = turn.total
      <3>1. turn' \in Turn
        <4>0. turn \in Turn /\ Len(stored) \in Nat
          BY <1>0, NewTurnType
        <4> DEFINE t1 == [turn EXCEPT !.rounds = turn.rounds + 1]
                   t2 == [t1 EXCEPT !.retry = 0]
        <4>1. turn' = t2
          BY <2>1
        <4> HIDE DEF t1, t2
        <4>2. t1 \in Turn
          BY <4>0 DEF Turn, t1
        <4>3. t2 \in Turn
          BY <4>0, <4>2 DEF Turn, t2
        <4> QED
          BY <4>1, <4>3
      <3>2. /\ turn'.base = turn.base /\ turn'.rounds = turn.rounds + 1
            /\ turn'.retry = 0 /\ turn'.total = turn.total
        BY <1>0, <2>1 DEF Turn
      <3> QED
        BY <3>1, <3>2
    <2>3. body' \in Seq(ChatMessage)
      BY <1>0, <2>1, SuffixType
    <2>4. TypeOK'
      BY <1>0, <2>1, <2>2, <2>3, Sizes DEF TypeInv, TypeOK, Labels
    <2> QED
      BY <1>0, <2>1, <2>2, <2>4 DEF TypeInv, Phase
  <1>5. CASE TooManyRounds \/ Stop
    BY <1>0, <1>5, EndType DEF TooManyRounds, Stop, store
  <1>6. CASE Answer \/ StopPreserving
    <2>1. End /\ Record("assistant", 1) /\ compacted' = compacted /\ unread' = unread /\ window' = window
      BY <1>6 DEF Answer, StopPreserving
    <2>2. stored' \in Seq(StoredMessage) /\ Len(stored') = Len(stored) + 1
      BY <1>0, <2>1, RecordShape
    <2> QED
      BY <1>0, <2>1, <2>2, EndType
  <1>7. CASE OverflowRetry \/ NextCandidate
    <2>1. /\ stored' = stored /\ compacted' = compacted /\ unread' = unread /\ window' = window /\ head' = head
          /\ pc' = "sent" /\ pc = "sent"
      BY <1>7 DEF OverflowRetry, NextCandidate, store
    <2>2. /\ turn' \in Turn /\ turn'.base = turn.base /\ turn'.rounds = turn.rounds
          /\ turn'.retry <= MaxRetries /\ turn'.total = turn.total
      <3>1. CASE OverflowRetry
        <4>1. turn' = [turn EXCEPT !.retry = @ + 1] /\ turn.retry < MaxRetries
          BY <3>1 DEF OverflowRetry
        <4>2. turn' \in Turn
          BY <1>0, <4>1 DEF Turn
        <4>3. /\ turn'.base = turn.base /\ turn'.rounds = turn.rounds /\ turn'.total = turn.total
              /\ turn'.retry <= MaxRetries
          BY <1>0, <4>1, Sizes DEF Turn
        <4> QED
          BY <4>2, <4>3
      <3>2. CASE NextCandidate
        <4>1. turn' = [turn EXCEPT !.retry = 0]
          BY <3>2 DEF NextCandidate
        <4>2. turn' \in Turn
          BY <1>0, <4>1 DEF Turn
        <4>3. /\ turn'.base = turn.base /\ turn'.rounds = turn.rounds /\ turn'.total = turn.total
              /\ turn'.retry <= MaxRetries
          BY <1>0, <4>1, Sizes DEF Turn
        <4> QED
          BY <4>2, <4>3
      <3> QED
        BY <1>7, <3>1, <3>2
    <2>3. body' \in Seq(ChatMessage)
      <3>1. CASE OverflowRetry
        <4>1. OverflowDrop(Len(body)) \in Nat
          BY <1>0, <3>1, DropIsPositive DEF OverflowRetry
        <4> QED
          BY <1>0, <3>1, <4>1, SuffixType DEF OverflowRetry
      <3>2. CASE NextCandidate
        BY <1>0, <3>2 DEF NextCandidate
      <3> QED
        BY <1>7, <3>1, <3>2
    <2>4. TypeOK'
      BY <1>0, <2>1, <2>2, <2>3 DEF TypeInv, TypeOK
    <2> QED
      BY <1>0, <2>1, <2>2, <2>4 DEF TypeInv, Phase
  <1>8. CASE \E n \in 1..MaxCalls : Calls(n)
    <2>1. PICK n \in 1..MaxCalls : Calls(n)
      BY <1>8
    <2>2. /\ stored' = stored /\ compacted' = compacted /\ unread' = unread /\ window' = window /\ head' = head
          /\ pc' = "tools" /\ pc = "sent" /\ body' = Append(body, CallsMessage(1..n))
          /\ turn' = [turn EXCEPT !.next = 1, !.total = n]
      BY <2>1 DEF Calls, store
    <2>3. body' \in Seq(ChatMessage)
      <3>1. CallsMessage(1..n) \in ChatMessage
        BY Sizes, CallsType
      <3> QED
        BY <1>0, <2>2, <3>1
    <2>4. /\ turn' \in Turn /\ turn'.base = turn.base /\ turn'.rounds = turn.rounds
          /\ turn'.retry = turn.retry /\ turn'.total = n /\ turn'.next = 1
      <3>1. turn' \in Turn
        <4>0. turn \in Turn /\ Len(stored) \in Nat
          BY <1>0, NewTurnType
        <4> DEFINE t1 == [turn EXCEPT !.next = 1]
                   t2 == [t1 EXCEPT !.total = n]
        <4>1. turn' = t2
          BY <2>2
        <4> HIDE DEF t1, t2
        <4>2. t1 \in Turn
          BY <4>0 DEF Turn, t1
        <4>3. t2 \in Turn
          BY <4>0, <4>2 DEF Turn, t2
        <4> QED
          BY <4>1, <4>3
      <3>2. /\ turn'.base = turn.base /\ turn'.rounds = turn.rounds
            /\ turn'.retry = turn.retry /\ turn'.total = n /\ turn'.next = 1
        BY <1>0, <2>2, Sizes DEF Turn
      <3> QED
        BY <3>1, <3>2
    <2>5. TypeOK'
      BY <1>0, <2>2, <2>3, <2>4, Sizes DEF TypeInv, TypeOK, Labels
    <2> QED
      BY <1>0, <2>2, <2>4, <2>5 DEF TypeInv, Phase
  <1>9. CASE \E cost \in Costs : ToolResult(cost)
    <2>1. PICK cost \in Costs : ToolResult(cost)
      BY <1>9
    <2>2. turn.next \in 1..MaxCalls
      BY <1>0, <2>1, Sizes DEF ToolResult, TypeInv, Phase
    <2>3. Result(turn.next, Len(stored) + 1, cost) \in ChatMessage
      BY <1>0, <2>2, ResultType, CostsAreNat
    <2>4. body' \in Seq(ChatMessage)
      BY <1>0, <2>1, <2>3 DEF ToolResult
    <2> QED
      BY <1>0, <2>1, <2>4, NextCallType DEF ToolResult
  <1>10. CASE NewContext
    <2>1. turn.next \in 1..MaxCalls
      BY <1>0, <1>10, Sizes DEF NewContext, TypeInv, Phase
    <2>2. Result(turn.next, Len(stored) + 1, 1) \in ChatMessage
      BY <1>0, <2>1, ResultType
    <2>3. LastUser \in 1..Len(stored)
      BY <1>0, <1>10, CurrentUser DEF NewContext, HasUser
    <2>4. Rebuilt(LastUser - 1) \in Seq(ChatMessage)
      <3>1. LastUser - 1 \in Nat /\ turn.base \in 0..Len(stored)
        BY <1>0, <2>3
      <3> QED
        BY <1>0, <3>1, CardsShape DEF Rebuilt
    <2>5. body' \in Seq(ChatMessage)
      BY <1>10, <2>2, <2>4 DEF NewContext
    <2>6. window' \in 0..Len(stored)
      BY <1>0, <1>10, <2>3 DEF NewContext
    <2> QED
      BY <1>10, <2>5, <2>6, NextCallType DEF NewContext
  <1>11. CASE Ask
    <2>1. turn.next \in 0..MaxCalls
      BY <1>0, <1>11, Sizes DEF Ask, TypeInv, Phase
    <2>2. /\ stored' = stored /\ compacted' = compacted /\ unread' = unread /\ window' = window /\ head' = NoHead
          /\ pc' = "paused" /\ body' = <<>> /\ turn' = [NewTurn EXCEPT !.resolved = turn.next]
      BY <1>11 DEF Ask, store
    <2>3. /\ turn' \in Turn /\ turn'.base = 0 /\ turn'.rounds = 0 /\ turn'.retry = 0
          /\ turn'.total = 0
      BY <2>1, <2>2, NewTurnType DEF NewTurn, Turn
    <2>4. TypeOK'
      BY <1>0, <2>2, <2>3, Sizes, NewTurnType DEF TypeOK, Labels
    <2> QED
      BY <2>2, <2>3, <2>4 DEF TypeInv, Phase
  <1>12. CASE \E lossy \in BOOLEAN, known \in BOOLEAN, cost \in Costs : Resolve(lossy, known, cost)
    <2>1. PICK lossy \in BOOLEAN, known \in BOOLEAN, cost \in Costs : Resolve(lossy, known, cost)
      BY <1>12
    <2>2. turn' = [turn EXCEPT !.lossy = lossy, !.base = Len(stored) + 1, !.known = known]
      BY <2>1 DEF Resolve
    <2>3. /\ turn' \in Turn /\ turn'.base = Len(stored) + 1 /\ turn'.rounds = turn.rounds
          /\ turn'.retry = turn.retry /\ turn'.total = turn.total
      <3>1. turn' \in Turn
        <4>0. turn \in Turn /\ Len(stored) \in Nat
          BY <1>0, NewTurnType
        <4> DEFINE t1 == [turn EXCEPT !.lossy = lossy]
                   t2 == [t1 EXCEPT !.base = Len(stored) + 1]
                   t3 == [t2 EXCEPT !.known = known]
        <4>1. turn' = t3
          BY <2>2
        <4> HIDE DEF t1, t2, t3
        <4>2. t1 \in Turn
          BY <4>0 DEF Turn, t1
        <4>3. t2 \in Turn
          BY <4>0, <4>2 DEF Turn, t2
        <4>4. t3 \in Turn
          BY <4>0, <4>3 DEF Turn, t3
        <4> QED
          BY <4>1, <4>4
      <3>2. /\ turn'.base = Len(stored) + 1 /\ turn'.rounds = turn.rounds
            /\ turn'.retry = turn.retry /\ turn'.total = turn.total
        BY <1>0, <2>2 DEF Turn
      <3> QED
        BY <3>1, <3>2
    <2>4. turn.rounds = 0 /\ turn.retry <= MaxRetries
      BY <2>1 DEF Resolve, TypeInv, TypeOK, Phase
    <2> QED
      BY <1>0, <2>1, <2>3, <2>4, BudgetType DEF Resolve
  <1>13. CASE UNCHANGED vars
    BY <1>13 DEF vars, TypeInv, TypeOK, Phase
  <1> QED
    BY <1>1, <1>2, <1>3, <1>4, <1>5, <1>6, <1>7, <1>8, <1>9, <1>10, <1>11, <1>12, <1>13 DEF
       Next

LEMMA HasUserNext ==
  ASSUME TypeInv, HasUser, [Next]_vars
  PROVE  HasUser'
  <1>1. CASE UNCHANGED vars
    BY <1>1 DEF vars, HasUser, Users
  <1>2. CASE Next
    <2>1. \/ Users' = Users
          \/ pc' = "budget" /\ Users' = Users \cup {Len(stored) + 1}
      BY <1>2, StoredGrows DEF TypeInv
    <2>2. ASSUME pc' # "idle", pc = "idle" PROVE \E lossy \in BOOLEAN, cost \in Costs : Chat(lossy, cost)
      BY <1>2, <2>2 DEF Next, KeepWindow, KeepSummary, Summarize, Truncate, Send,
         TooManyRounds,
         OverflowRetry, NextCandidate, Answer, Calls, ToolResult, NewContext, Ask, Resolve, Stop,
         StopPreserving
    <2>3. ASSUME NEW lossy \in BOOLEAN, NEW cost \in Costs, Chat(lossy, cost) PROVE Users' # {}
      <3>1. /\ stored' \in Seq(StoredMessage) /\ Len(stored') = Len(stored) + 1
            /\ Len(stored) \in Nat /\ stored'[Len(stored) + 1].role = "user"
        BY <2>3, RecordShape DEF Chat, TypeInv, TypeOK
      <3>2. Len(stored) + 1 \in DOMAIN stored'
        BY <3>1
      <3> QED
        BY <3>1, <3>2 DEF Users
    <2> QED
      BY <2>1, <2>2, <2>3 DEF HasUser
  <1> QED
    BY <1>1, <1>2

LEMMA Typed == Spec => [](TypeInv /\ HasUser)
  <1>1. Init => TypeInv /\ HasUser
    BY TypeInit DEF Init, HasUser
  <1>2. TypeInv /\ HasUser /\ [Next]_vars => TypeInv' /\ HasUser'
    BY TypeNext, HasUserNext
  <1> QED
    BY <1>1, <1>2, PTL DEF Spec

\* The types and bounds of the state, in every turn of every session.
THEOREM TypeCorrect == Spec => []TypeOK
  <1>1. TypeInv => TypeOK
    BY DEF TypeInv
  <1> QED
    BY <1>1, Typed, PTL

\* maybe_compact_history replaces a summary only by one that covers more of the
\* history, and never summarises one of the KeepRecent newest messages.
THEOREM SummariesAdvance == Spec => SummaryAdvances
  <1>1. ASSUME TypeInv, [Next]_vars, compacted' # compacted
        PROVE  compacted' > compacted /\ compacted' + KeepRecent <= Len(stored)
    <2>1. Summarize
      BY <1>1 DEF Next, vars, Chat, KeepWindow, KeepSummary, Truncate, Send, TooManyRounds,
         OverflowRetry, NextCandidate, Answer, Calls, ToolResult, NewContext, Ask, Resolve, Stop,
         StopPreserving, store
    <2>2. pc = "budget" /\ CompactionTarget > Covered /\ compacted' = CompactionTarget
      BY <2>1 DEF Summarize
    <2> QED
      BY <1>1, <2>2, BudgetSkips
  <1>2. TypeInv /\ [Next]_vars
          => [compacted' # compacted
                => compacted' > compacted /\ compacted' + KeepRecent <= Len(stored)]_vars
    BY <1>1
  <1> QED
    BY <1>2, Typed, PTL DEF Spec, SummaryAdvances

-----------------------------------------------------------------------------
(* The steps of a turn *)

Running == {"round", "sent", "tools"}

Begins == KeepWindow \/ KeepSummary \/ Summarize \/ Truncate

Goes ==
    \/ Send \/ OverflowRetry \/ NextCandidate
    \/ \E n \in 1..MaxCalls : Calls(n)
    \/ \E cost \in Costs : ToolResult(cost)
    \/ NewContext

LEMMA Kinds ==
  ASSUME Next, pc' \in Running
  PROVE  Begins \/ Goes
  BY DEF Next, Begins, Goes, Running, Chat, TooManyRounds, Answer, Ask, Resolve, Stop,
     StopPreserving, End

\* What a request leaves out when a turn begins.
LEMMA BeginShape ==
  ASSUME TypeInv, Begins
  PROVE  /\ pc = "budget" /\ pc' = "round"
         /\ stored' = stored /\ window' = window /\ turn' = turn
         /\ turn.base = Len(stored) /\ turn.base > 0
         /\ \E skip \in 0..turn.base :
              /\ body' = Assembled(skip)
              /\ turn.lossy => skip <= head'.covered + head'.dropped
              /\ ~turn.lossy => skip <= window
  <1>1. pc = "budget"
    BY DEF Begins, KeepWindow, KeepSummary, Summarize, Truncate
  <1>2. turn.base = Len(stored) /\ turn.base > 0 /\ window \in Nat
    BY <1>1 DEF TypeInv, TypeOK, Phase
  <1>3. /\ Covered \in 0..turn.base /\ HardTarget \in 0..turn.base
        /\ CompactionTarget \in 0..turn.base /\ turn.base \in Nat
    BY <1>1, <1>2, BudgetSkips DEF TypeInv, TypeOK
  <1>4. ASSUME NEW h, NEW skip, Begin(h, skip)
        PROVE  /\ pc' = "round" /\ stored' = stored /\ window' = window /\ turn' = turn
               /\ head' = h /\ body' = Assembled(skip)
    BY <1>4 DEF Begin
  <1>5. CASE KeepWindow
    <2>1. AtMost(window, turn.base) \in 0..turn.base /\ AtMost(window, turn.base) <= window
      BY <1>2, <1>3 DEF AtMost
    <2>2. ~turn.lossy /\ Begin(NoHead, AtMost(window, turn.base))
      BY <1>5 DEF KeepWindow
    <2> QED
      BY <1>1, <1>2, <1>4, <2>1, <2>2
  <1>6. ASSUME NEW covered \in Nat, NEW dropped \in Nat, turn.lossy,
               NEW skip \in 0..turn.base, skip <= covered + dropped,
               Begin([covered |-> covered, dropped |-> dropped], skip)
        PROVE  /\ pc' = "round" /\ stored' = stored /\ window' = window /\ turn' = turn
               /\ \E s \in 0..turn.base :
                    /\ body' = Assembled(s)
                    /\ turn.lossy => s <= head'.covered + head'.dropped
                    /\ ~turn.lossy => s <= window
    BY <1>4, <1>6
  <1>7. CASE KeepSummary
    <2>1. turn.lossy /\ Begin([covered |-> Covered, dropped |-> 0], Covered)
      BY <1>7 DEF KeepSummary
    <2> QED
      BY <1>1, <1>2, <1>3, <1>6, <2>1
  <1>8. CASE Summarize
    <2>1. turn.lossy /\ Begin([covered |-> CompactionTarget, dropped |-> 0], CompactionTarget)
      BY <1>8 DEF Summarize
    <2> QED
      BY <1>1, <1>2, <1>3, <1>6, <2>1
  <1>9. CASE Truncate
    <2> DEFINE skip == AtLeast(HardTarget, Covered)
    <2>1. skip \in 0..turn.base /\ skip - Covered \in Nat /\ skip <= Covered + (skip - Covered)
      BY <1>3 DEF AtLeast
    <2>2. turn.lossy /\ Begin([covered |-> Covered, dropped |-> skip - Covered], skip)
      BY <1>9 DEF Truncate
    <2> HIDE DEF skip
    <2> QED
      BY <1>1, <1>2, <1>3, <1>6, <2>1, <2>2
  <1> QED
    BY <1>5, <1>7, <1>8, <1>9 DEF Begins

LEMMA GoesFrame ==
  ASSUME TypeInv, Goes
  PROVE  /\ pc \in Running /\ pc' \in Running
         /\ turn'.base = turn.base /\ turn'.known = turn.known /\ turn'.lossy = turn.lossy
         /\ turn'.rounds > 0
         /\ pc # "round" => turn'.rounds = turn.rounds
  <1>1. turn \in Turn /\ turn.rounds \in Nat
    BY DEF TypeInv, TypeOK, Turn
  <1>2. pc \in {"sent", "tools"} => turn.rounds > 0
    BY DEF TypeInv, Phase
  <1>3. CASE Send
    BY <1>1, <1>3 DEF Send, Running, Turn
  <1>4. CASE OverflowRetry
    BY <1>1, <1>2, <1>4 DEF OverflowRetry, Running, Turn
  <1>5. CASE NextCandidate
    BY <1>1, <1>2, <1>5 DEF NextCandidate, Running, Turn
  <1>6. CASE \E n \in 1..MaxCalls : Calls(n)
    <2>1. PICK n \in 1..MaxCalls : Calls(n)
      BY <1>6
    <2> QED
      BY <1>1, <1>2, <2>1 DEF Calls, Running, Turn
  <1>7. CASE (\E cost \in Costs : ToolResult(cost)) \/ NewContext
    <2>1. pc = "tools" /\ NextCall
      BY <1>7 DEF ToolResult, NewContext
    <2> QED
      BY <1>1, <1>2, <2>1 DEF NextCall, Running, Turn
  <1> QED
    BY <1>3, <1>4, <1>5, <1>6, <1>7 DEF Goes

-----------------------------------------------------------------------------
(* What a request shows of the history *)

Shows(b, i) == \E k \in DOMAIN b : b[k].src = i

LEMMA CardsShow ==
  ASSUME stored \in Seq(StoredMessage), NEW skip \in Nat, NEW last \in 0..Len(stored),
         NEW i \in (skip + 1)..last
  PROVE  Shows(Cards(skip, last), i)
  <1>1. i - skip \in 1..Len(Cards(skip, last)) /\ skip + (i - skip) = i
    BY CardsShape DEF AtLeast
  <1>2. i - skip \in DOMAIN Cards(skip, last) /\ Cards(skip, last)[i - skip] = Card(i)
    <2>1. /\ Cards(skip, last) \in Seq(ChatMessage)
          /\ Cards(skip, last)[i - skip] = Card(skip + (i - skip))
      BY <1>1, CardsShape
    <2> QED
      BY <1>1, <2>1
  <1>3. Card(i).src = i
    BY CardShape
  <1> QED
    BY <1>2, <1>3 DEF Shows

LEMMA AppendShows ==
  ASSUME NEW b \in Seq(ChatMessage), NEW m \in ChatMessage, NEW i
  PROVE  Shows(b, i) \/ m.src = i => Shows(Append(b, m), i)
  <1>1. CASE Shows(b, i)
    <2>1. PICK k \in DOMAIN b : b[k].src = i
      BY <1>1 DEF Shows
    <2>2. k \in DOMAIN Append(b, m) /\ Append(b, m)[k] = b[k]
      OBVIOUS
    <2> QED
      BY <2>1, <2>2 DEF Shows
  <1>2. CASE m.src = i
    <2>1. Len(b) + 1 \in DOMAIN Append(b, m) /\ Append(b, m)[Len(b) + 1] = m
      OBVIOUS
    <2> QED
      BY <1>2, <2>1 DEF Shows
  <1> QED
    BY <1>1, <1>2

LEMMA BatchResult ==
  ASSUME TypeInv, pc = "tools", NEW cost \in Costs \cup {1}
  PROVE  /\ turn.next \in 1..MaxCalls
         /\ Result(turn.next, Len(stored) + 1, cost) \in ChatMessage
  <1>1. turn.next \in 1..turn.total /\ turn.total <= MaxCalls /\ turn.total \in Nat
        /\ Len(stored) \in Nat
    BY DEF TypeInv, TypeOK, Phase, Turn
  <1>2. turn.next \in 1..MaxCalls
    BY <1>1, Sizes
  <1> QED
    BY <1>1, <1>2, ResultType, CostsAreNat

\* The pieces of the request that a resolved call starts with.
LEMMA ResolvedPieces ==
  ASSUME TypeInv, turn.base = Len(stored), turn.base > 0, turn.resolved \in 1..MaxCalls,
         NEW skip \in Nat, NEW last \in {turn.base - 1, turn.base}
  PROVE  /\ last \in 0..Len(stored)
         /\ Cards(skip, last) \in Seq(ChatMessage)
         /\ CallsMessage({turn.resolved}) \in ChatMessage
         /\ Result(turn.resolved, turn.base, stored[turn.base].cost) \in ChatMessage
         /\ Result(turn.resolved, turn.base, stored[turn.base].cost).src = turn.base
  <1>1. /\ turn.base = Len(stored) /\ turn.base > 0 /\ stored \in Seq(StoredMessage)
        /\ turn.base \in Nat
    BY DEF TypeInv, TypeOK, Phase
  <1>2. last \in 0..Len(stored)
    BY <1>1
  <1>3. stored[turn.base] \in StoredMessage
    BY <1>1
  <1>4. stored[turn.base].cost \in Nat \ {0}
    BY <1>3, StoredShape
  <1>5. CallsMessage({turn.resolved}) \in ChatMessage
    BY CallsType
  <1>6. Result(turn.resolved, turn.base, stored[turn.base].cost) \in ChatMessage
    BY <1>1, <1>4, ResultType
  <1> QED
    BY <1>1, <1>2, <1>5, <1>6, CardsShape DEF Result

LEMMA AssembledShows ==
  ASSUME TypeInv, turn.base = Len(stored), turn.base > 0, NEW skip \in Nat,
         NEW i \in (skip + 1)..turn.base
  PROVE  Shows(Assembled(skip), i)
  <1>1. /\ TypeOK /\ turn.base = Len(stored) /\ turn.base > 0 /\ stored \in Seq(StoredMessage)
        /\ turn.base \in Nat
    BY DEF TypeInv, TypeOK, Phase
  <1>2. CASE Assembled(skip) = Cards(skip, turn.base)
    BY <1>1, <1>2, CardsShow
  <1>3. ASSUME turn.resolved \in 1..MaxCalls, NEW last \in {turn.base - 1, turn.base},
               Assembled(skip) =
                 Append(Append(Cards(skip, last), CallsMessage({turn.resolved})),
                        Result(turn.resolved, turn.base, stored[turn.base].cost))
        PROVE  Shows(Assembled(skip), i)
    <2> DEFINE c == Cards(skip, last)
               m == CallsMessage({turn.resolved})
               r == Result(turn.resolved, turn.base, stored[turn.base].cost)
    <2>1. /\ last \in 0..Len(stored) /\ c \in Seq(ChatMessage) /\ m \in ChatMessage
          /\ r \in ChatMessage /\ r.src = turn.base
      BY <1>1, <1>3, ResolvedPieces
    <2>2. i \in (skip + 1)..last => Shows(c, i)
      BY <1>1, <2>1, CardsShow
    <2>3. i \in (skip + 1)..last \/ r.src = i
      BY <1>1, <2>1
    <2> HIDE DEF c, m, r
    <2>4. Append(c, m) \in Seq(ChatMessage)
      BY <2>1
    <2>5. Shows(Append(Append(c, m), r), i)
      BY <2>1, <2>2, <2>3, <2>4, AppendShows
    <2> QED
      BY <1>3, <2>5 DEF c, m, r
  <1> QED
    BY <1>1, <1>2, <1>3, AssembledShape

LEMMA RepairedShows ==
  ASSUME NEW b \in Seq(ChatMessage), NEW i, Shows(b, i)
  PROVE  Shows(Repaired(b), i)
  <1>1. PICK k \in DOMAIN b : b[k].src = i
    BY DEF Shows
  <1>2. k \in 1..Len(b)
    OBVIOUS
  <1>3. k \in DOMAIN Repaired(b) /\ Repaired(b)[k].src = i
    BY <1>1, <1>2, RepairedShape
  <1> QED
    BY <1>3 DEF Shows

-----------------------------------------------------------------------------
(* The message a lossless request answers *)

\* A context window starts before a user message, and no user message comes after
\* the history that a turn has read.
Placed ==
    /\ window > 0 => \E i \in Users : window < i
    /\ pc \in Running => \A i \in Users : i <= turn.base

CurrentInv == Placed /\ (pc \in Running /\ ~turn.lossy => Shown(LastUser))

LEMMA WindowBefore ==
  ASSUME TypeInv, Placed, Users # {}
  PROVE  window < LastUser
  <1>1. LastUser \in 1..Len(stored) /\ \A i \in Users : i <= LastUser
    BY CurrentUser DEF TypeInv, TypeOK
  <1>2. window \in Nat /\ Users \subseteq Nat
    BY DEF TypeInv, TypeOK, Users
  <1> QED
    BY <1>1, <1>2 DEF Placed

LEMMA PlacedNext ==
  ASSUME TypeInv, HasUser, Placed, [Next]_vars
  PROVE  Placed'
  <1>1. CASE UNCHANGED vars
    BY <1>1 DEF vars, Placed, Users
  <1>2. CASE Next
    <2>1. \/ Users' = Users
          \/ pc' = "budget" /\ Users' = Users \cup {Len(stored) + 1}
      BY <1>2, StoredGrows DEF TypeInv
    <2>2. CASE NewContext
      <3>1. LastUser \in 1..Len(stored) /\ LastUser \in Users
        BY <2>2, CurrentUser DEF NewContext, HasUser, TypeInv, TypeOK
      <3>2. window' = LastUser - 1
        BY <2>2 DEF NewContext
      <3>3. \E i \in Users' : window' < i
        BY <2>1, <3>1, <3>2
      <3>4. Goes
        BY <2>2 DEF Goes
      <3>5. pc \in Running /\ turn'.base = turn.base /\ pc' # "budget"
        BY <3>4, GoesFrame DEF Running
      <3> QED
        BY <2>1, <3>3, <3>5 DEF Placed
    <2>3. CASE ~NewContext
      <3>1. window' = window
        BY <1>2, <2>3 DEF Next, Chat, KeepWindow, KeepSummary, Summarize, Truncate, Begin,
           Send,
           TooManyRounds, OverflowRetry, NextCandidate, Answer, Calls, ToolResult, Ask, Resolve,
           Stop, StopPreserving, store
      <3>2. window' > 0 => \E i \in Users' : window' < i
        BY <2>1, <3>1 DEF Placed
      <3>3. CASE Begins
        <4>1. turn' = turn /\ turn.base = Len(stored) /\ pc' = "round"
          BY <3>3, BeginShape
        <4>2. \A i \in Users : i <= Len(stored)
          BY DEF Users, TypeInv, TypeOK
        <4> QED
          BY <2>1, <3>2, <4>1, <4>2 DEF Placed
      <3>4. CASE Goes
        <4>1. pc \in Running /\ turn'.base = turn.base /\ pc' # "budget"
          BY <3>4, GoesFrame DEF Running
        <4> QED
          BY <2>1, <3>2, <4>1 DEF Placed
      <3>5. CASE pc' \notin Running
        BY <3>2, <3>5 DEF Placed
      <3> QED
        BY <1>2, <3>3, <3>4, <3>5, Kinds
    <2> QED
      BY <2>2, <2>3
  <1> QED
    BY <1>1, <1>2

LEMMA CurrentNext ==
  ASSUME TypeInv, HasUser, CurrentInv, [Next]_vars
  PROVE  CurrentInv'
  <1>1. Placed'
    BY PlacedNext DEF CurrentInv
  <1>2. CASE UNCHANGED vars
    BY <1>1, <1>2 DEF vars, CurrentInv, Shown, LastUser
  <1>3. CASE Next /\ pc' \notin Running
    BY <1>1, <1>3 DEF CurrentInv
  <1>4. CASE Next /\ pc' \in Running
    <2>0. Users' = Users /\ Users # {} /\ stored \in Seq(StoredMessage) /\ body \in Seq(ChatMessage)
      BY <1>4, StoredGrows, Kinds, BeginShape, GoesFrame DEF HasUser, Running, TypeInv,
         TypeOK
    <2>1. LastUser' = LastUser
      BY <2>0 DEF LastUser, Users
    <2>2. LastUser \in 1..Len(stored) /\ LastUser \in Users /\ turn.base \in Nat
      BY <2>0, CurrentUser DEF TypeInv, TypeOK, Turn
    <2>3. SUFFICES ASSUME ~turn'.lossy PROVE Shows(body', LastUser)
      BY <1>1, <2>1 DEF CurrentInv, Shown, Shows
    <2>4. CASE Begins
      <3>1. PICK skip \in 0..turn.base : body' = Assembled(skip) /\ (~turn.lossy => skip <= window)
        BY <2>4, BeginShape
      <3>2. pc = "budget" /\ turn' = turn /\ turn.base = Len(stored)
        BY <2>4, BeginShape
      <3>3. window < LastUser /\ window \in Nat
        BY <2>0, WindowBefore DEF CurrentInv, TypeInv, TypeOK
      <3>4. skip \in Nat /\ LastUser \in (skip + 1)..turn.base
        BY <2>2, <2>3, <3>1, <3>2, <3>3
      <3> QED
        BY <3>1, <3>2, <3>4, AssembledShows
    <2>5. CASE Goes
      <3>1. pc \in Running /\ turn'.base = turn.base /\ ~turn.lossy
        BY <2>3, <2>5, GoesFrame
      <3>2. Shows(body, LastUser) /\ LastUser <= turn.base
        BY <2>2, <3>1 DEF CurrentInv, Placed, Shown, Shows
      <3>3. CASE Send
        <4>1. Prepared(body) = body
          BY <3>1 DEF Prepared
        <4> QED
          BY <2>0, <3>2, <3>3, <4>1, RepairedShows DEF Send
      <3>4. CASE OverflowRetry \/ NextCandidate
        BY <3>1, <3>2, <3>4 DEF OverflowRetry, NextCandidate
      <3>5. CASE \E n \in 1..MaxCalls : Calls(n)
        <4>1. PICK n \in 1..MaxCalls : Calls(n)
          BY <3>5
        <4>2. CallsMessage(1..n) \in ChatMessage
          BY Sizes, CallsType
        <4> QED
          BY <2>0, <3>2, <4>1, <4>2, AppendShows DEF Calls
      <3>6. CASE \E cost \in Costs : ToolResult(cost)
        <4>1. PICK cost \in Costs : ToolResult(cost)
          BY <3>6
        <4>2. Result(turn.next, Len(stored) + 1, cost) \in ChatMessage
          BY <4>1, BatchResult DEF ToolResult
        <4> QED
          BY <2>0, <3>2, <4>1, <4>2, AppendShows DEF ToolResult
      <3>7. CASE NewContext
        <4>1. Result(turn.next, Len(stored) + 1, 1) \in ChatMessage
          BY <3>7, BatchResult DEF NewContext
        <4>2. turn.base \in 0..Len(stored) /\ LastUser - 1 \in Nat
              /\ LastUser \in ((LastUser - 1) + 1)..turn.base
          BY <2>2, <3>2 DEF TypeInv, TypeOK
        <4>3. /\ Rebuilt(LastUser - 1) \in Seq(ChatMessage)
              /\ Shows(Rebuilt(LastUser - 1), LastUser)
          BY <2>0, <4>2, CardsShape, CardsShow DEF Rebuilt
        <4> QED
          BY <3>7, <4>1, <4>3, AppendShows DEF NewContext
      <3> QED
        BY <2>5, <3>3, <3>4, <3>5, <3>6, <3>7 DEF Goes
    <2> QED
      BY <1>4, <2>4, <2>5, Kinds
  <1> QED
    BY <1>2, <1>3, <1>4

\* In a lossless turn the request always carries the user message it is to answer:
\* also behind the context windows the model opens, and after tools and approvals.
THEOREM CurrentMessageKept == Spec => []CurrentMessageSent
  <1>1. Init => CurrentInv
    BY DEF Init, CurrentInv, Placed, Running
  <1>2. TypeInv /\ HasUser /\ CurrentInv /\ [Next]_vars => CurrentInv'
    BY CurrentNext
  <1>3. CurrentInv => CurrentMessageSent
    BY DEF CurrentInv, CurrentMessageSent, Running
  <1> QED
    BY <1>1, <1>2, <1>3, Typed, PTL DEF Spec

-----------------------------------------------------------------------------
(* A message is shown once *)

\* A request shows rows up to n ...
Within(b, n) == \A i \in DOMAIN b : b[i].src <= n

\* ... in their order, and only the rows of D more than once.
OnceIn(b, D) ==
    \A i, k \in DOMAIN b :
        i < k /\ b[i].src > 0 /\ b[k].src > 0
          => b[i].src < b[k].src \/ (b[i].src = b[k].src /\ b[i].src \in D)

\* The one row that may stand in a request as a note and as a result.
Twice == {s \in {turn.base} : Doubled}

SourceInv == Within(body, Len(stored)) /\ OnceIn(body, Twice)

LEMMA MessageFields ==
  ASSUME NEW m \in ChatMessage
  PROVE  /\ m.role \in {"user", "assistant", "calls", "tool"}
         /\ m.src \in Nat /\ m.ids \in SUBSET (1..MaxCalls)
  BY Zenon DEF ChatMessage

LEMMA SourceType ==
  ASSUME NEW b \in Seq(ChatMessage), NEW i \in DOMAIN b
  PROVE  b[i].src \in Nat
  <1>1. b[i] \in ChatMessage
    OBVIOUS
  <1> QED
    BY <1>1, MessageFields

LEMMA OnceCards ==
  ASSUME stored \in Seq(StoredMessage), NEW skip \in Nat, NEW last \in 0..Len(stored), NEW D
  PROVE  OnceIn(Cards(skip, last), D) /\ Within(Cards(skip, last), last)
  <1> DEFINE c == Cards(skip, last)
  <1>1. c \in Seq(ChatMessage)
    BY CardsShape
  <1>2. ASSUME NEW k \in DOMAIN c PROVE c[k].src = skip + k /\ skip + k <= last /\ k \in Nat
    <2>1. k \in 1..Len(c)
      BY <1>1
    <2>2. skip + k \in 1..last /\ c[k] = Card(skip + k)
      BY <2>1, CardsShape
    <2>3. Card(skip + k).src = skip + k
      BY <2>2, CardShape
    <2> QED
      BY <2>1, <2>2, <2>3
  <1> HIDE DEF c
  <1>3. OnceIn(c, D)
    BY <1>2 DEF OnceIn
  <1>4. Within(c, last)
    BY <1>2 DEF Within
  <1> QED
    BY <1>3, <1>4 DEF c

LEMMA OnceAppend ==
  ASSUME NEW b \in Seq(ChatMessage), NEW m \in ChatMessage, NEW D, OnceIn(b, D),
         m.src = 0 \/ Within(b, m.src - 1) \/ (m.src \in D /\ Within(b, m.src))
  PROVE  OnceIn(Append(b, m), D)
  <1>1. m.src \in Nat /\ \A i \in DOMAIN b : b[i].src \in Nat
    BY MessageFields, SourceType
  <1>2. SUFFICES ASSUME NEW i \in DOMAIN Append(b, m), NEW k \in DOMAIN Append(b, m), i < k,
                        Append(b, m)[i].src > 0, Append(b, m)[k].src > 0
                 PROVE  \/ Append(b, m)[i].src < Append(b, m)[k].src
                        \/ /\ Append(b, m)[i].src = Append(b, m)[k].src
                           /\ Append(b, m)[i].src \in D
    BY DEF OnceIn
  <1>3. i \in DOMAIN b /\ Append(b, m)[i] = b[i] /\ i \in 1..Len(b)
    BY <1>2
  <1>4. CASE k \in DOMAIN b
    <2>1. Append(b, m)[k] = b[k]
      BY <1>4
    <2> QED
      BY <1>2, <1>3, <1>4, <2>1 DEF OnceIn
  <1>5. CASE k \notin DOMAIN b
    <2>1. Append(b, m)[k] = m
      BY <1>5
    <2>2. m.src # 0
      BY <1>2, <2>1
    <2>3. CASE Within(b, m.src - 1)
      BY <1>1, <1>3, <2>1, <2>3 DEF Within
    <2>4. CASE m.src \in D /\ Within(b, m.src)
      <3>1. b[i].src <= m.src
        BY <1>3, <2>4 DEF Within
      <3> QED
        BY <1>1, <1>3, <2>1, <2>4, <3>1
    <2> QED
      BY <2>2, <2>3, <2>4
  <1> QED
    BY <1>4, <1>5

LEMMA WithinAppend ==
  ASSUME NEW b \in Seq(ChatMessage), NEW m \in ChatMessage, NEW n \in Nat, NEW top \in Nat,
         Within(b, n), n <= top, m.src <= top
  PROVE  Within(Append(b, m), top)
  <1>1. SUFFICES ASSUME NEW i \in DOMAIN Append(b, m) PROVE Append(b, m)[i].src <= top
    BY DEF Within
  <1>2. CASE i \in DOMAIN b
    <2>1. Append(b, m)[i] = b[i] /\ b[i] \in ChatMessage
      BY <1>2
    <2>2. b[i].src \in Nat /\ b[i].src <= n
      BY <1>2, <2>1 DEF Within, ChatMessage
    <2> QED
      BY <2>1, <2>2
  <1>3. CASE i \notin DOMAIN b
    BY <1>3
  <1> QED
    BY <1>2, <1>3

\* Leaving out the oldest messages and repairing others keeps the order.
LEMMA OnceKept ==
  ASSUME NEW b \in Seq(ChatMessage), NEW c \in Seq(ChatMessage), NEW d \in Nat, NEW D, NEW n,
         Len(c) + d <= Len(b), \A i \in 1..Len(c) : c[i].src = b[i + d].src,
         OnceIn(b, D), Within(b, n)
  PROVE  OnceIn(c, D) /\ Within(c, n)
  <1>1. \A i \in DOMAIN c : i \in Nat /\ i + d \in DOMAIN b /\ c[i].src = b[i + d].src
    OBVIOUS
  <1>2. Within(c, n)
    BY <1>1 DEF Within
  <1>3. SUFFICES ASSUME NEW i \in DOMAIN c, NEW k \in DOMAIN c, i < k, c[i].src > 0, c[k].src > 0
                 PROVE  c[i].src < c[k].src \/ (c[i].src = c[k].src /\ c[i].src \in D)
    BY <1>2 DEF OnceIn
  <1>4. i + d < k + d
    BY <1>1, <1>3
  <1> QED
    BY <1>1, <1>3, <1>4 DEF OnceIn

LEMMA OnceSuffix ==
  ASSUME NEW b \in Seq(ChatMessage), NEW f \in Cuts(b), NEW D, NEW n, OnceIn(b, D), Within(b, n)
  PROVE  OnceIn(Suffix(b, f), D) /\ Within(Suffix(b, f), n)
  <1>1. /\ f \in 1..(Len(b) + 1) /\ Suffix(b, f) \in Seq(ChatMessage)
        /\ Len(Suffix(b, f)) = Len(b) - f + 1
        /\ \A i \in 1..(Len(b) - f + 1) : Suffix(b, f)[i] = b[i + f - 1]
    BY SuffixShape
  <1> DEFINE c == Suffix(b, f)
  <1>2. f - 1 \in Nat /\ Len(c) + (f - 1) <= Len(b) /\ Len(c) = Len(b) - f + 1
    BY <1>1
  <1>3. \A i \in 1..Len(c) : c[i].src = b[i + (f - 1)].src
    BY <1>1
  <1> HIDE DEF c
  <1> QED
    BY <1>1, <1>2, <1>3, OnceKept DEF c

LEMMA OnceRepaired ==
  ASSUME NEW b \in Seq(ChatMessage), NEW D, NEW n, OnceIn(b, D), Within(b, n)
  PROVE  OnceIn(Repaired(b), D) /\ Within(Repaired(b), n)
  <1>1. /\ Repaired(b) \in Seq(ChatMessage) /\ Len(Repaired(b)) = Len(b)
        /\ \A i \in 1..Len(b) : Repaired(b)[i].src = b[i].src
    BY RepairedShape
  <1>2. \A i \in 1..Len(Repaired(b)) : Repaired(b)[i].src = b[i + 0].src
    BY <1>1
  <1>3. Len(Repaired(b)) + 0 <= Len(b)
    BY <1>1
  <1> QED
    BY <1>1, <1>2, <1>3, OnceKept

LEMMA OnceAssembled ==
  ASSUME TypeInv, pc = "budget", NEW skip \in Nat
  PROVE  OnceIn(Assembled(skip), Twice) /\ Within(Assembled(skip), Len(stored))
  <1>1. /\ TypeOK /\ turn.base = Len(stored) /\ turn.base > 0 /\ stored \in Seq(StoredMessage)
        /\ turn.base \in Nat
    BY DEF TypeInv, TypeOK, Phase
  <1>2. CASE Assembled(skip) = Cards(skip, turn.base)
    BY <1>1, <1>2, OnceCards
  <1>3. ASSUME turn.resolved \in 1..MaxCalls, NEW last \in {turn.base - 1, turn.base},
               last = turn.base => Doubled,
               Assembled(skip) =
                 Append(Append(Cards(skip, last), CallsMessage({turn.resolved})),
                        Result(turn.resolved, turn.base, stored[turn.base].cost))
        PROVE  OnceIn(Assembled(skip), Twice) /\ Within(Assembled(skip), Len(stored))
    <2> DEFINE c == Cards(skip, last)
               m == CallsMessage({turn.resolved})
               r == Result(turn.resolved, turn.base, stored[turn.base].cost)
    <2>1. /\ last \in 0..Len(stored) /\ c \in Seq(ChatMessage) /\ m \in ChatMessage
          /\ r \in ChatMessage /\ r.src = turn.base
      BY <1>1, <1>3, ResolvedPieces
    <2>2. OnceIn(c, Twice) /\ Within(c, last)
      BY <1>1, <2>1, OnceCards
    <2>3. m.src = 0
      BY DEF CallsMessage
    <2>4. last = r.src - 1 \/ (last = r.src /\ r.src \in Twice)
      BY <1>1, <1>3, <2>1 DEF Twice
    <2> HIDE DEF c, m, r
    <2>5. /\ Append(c, m) \in Seq(ChatMessage) /\ OnceIn(Append(c, m), Twice)
          /\ Within(Append(c, m), last)
      BY <1>1, <2>1, <2>2, <2>3, OnceAppend, WithinAppend
    <2>6. OnceIn(Append(Append(c, m), r), Twice)
      BY <2>1, <2>4, <2>5, OnceAppend
    <2>7. Within(Append(Append(c, m), r), Len(stored))
      <3>1. last \in Nat /\ last <= Len(stored) /\ r.src <= Len(stored) /\ Len(stored) \in Nat
        BY <1>1, <2>1
      <3> QED
        BY <2>1, <2>5, <3>1, WithinAppend
    <2> QED
      BY <1>3, <2>6, <2>7 DEF c, m, r
  <1> QED
    BY <1>1, <1>2, <1>3, AssembledShape

LEMMA OnceResult ==
  ASSUME TypeInv, NEW b \in Seq(ChatMessage), NEW cost, NEW call, NEW D,
         Result(call, Len(stored) + 1, cost) \in ChatMessage,
         OnceIn(b, D), Within(b, Len(stored))
  PROVE  /\ OnceIn(Append(b, Result(call, Len(stored) + 1, cost)), D)
         /\ Within(Append(b, Result(call, Len(stored) + 1, cost)), Len(stored) + 1)
  <1> DEFINE m == Result(call, Len(stored) + 1, cost)
  <1>1. m.src = Len(stored) + 1 /\ Len(stored) \in Nat /\ (Len(stored) + 1) - 1 = Len(stored)
    BY DEF Result, TypeInv, TypeOK
  <1> HIDE DEF m
  <1>2. m \in ChatMessage
    BY DEF m
  <1>3. OnceIn(Append(b, m), D)
    BY <1>1, <1>2, OnceAppend
  <1>4. Within(Append(b, m), Len(stored) + 1)
    BY <1>1, <1>2, WithinAppend
  <1> QED
    BY <1>3, <1>4 DEF m

LEMMA SourceNext ==
  ASSUME TypeInv, HasUser, Placed, SourceInv, [Next]_vars
  PROVE  SourceInv'
  <1>1. CASE UNCHANGED vars
    BY <1>1 DEF vars, SourceInv, Within, OnceIn, Twice, Doubled
  <1>2. CASE Next /\ pc' \notin Running
    <2>1. body' = <<>>
      BY <1>2, TypeNext DEF TypeInv, TypeOK, Phase, Labels, Running
    <2> QED
      BY <2>1 DEF SourceInv, Within, OnceIn
  <1>3. CASE Begins
    <2>1. PICK skip \in 0..turn.base : body' = Assembled(skip)
      BY <1>3, BeginShape
    <2>2. pc = "budget" /\ stored' = stored /\ turn' = turn /\ turn.base \in Nat
      BY <1>3, BeginShape DEF TypeInv, TypeOK, Turn
    <2>3. Twice' = Twice
      BY <2>2 DEF Twice, Doubled
    <2> QED
      BY <2>1, <2>2, <2>3, OnceAssembled DEF SourceInv
  <1>4. CASE Goes /\ Next
    <2>0. /\ stored \in Seq(StoredMessage) /\ body \in Seq(ChatMessage) /\ Len(stored) \in Nat
          /\ turn.base \in Nat /\ turn.base <= Len(stored)
      BY DEF TypeInv, TypeOK, Turn
    <2>1. Twice' = Twice
      <3>1. /\ pc \in Running /\ turn'.base = turn.base /\ turn'.known = turn.known
        BY <1>4, GoesFrame
      <3>2. turn.base \in DOMAIN stored
        <4>1. LastUser \in 1..Len(stored) /\ LastUser \in Users
          BY <2>0, <3>1, CurrentUser DEF HasUser, Running
        <4> QED
          BY <2>0, <3>1, <4>1 DEF Placed
      <3>3. stored'[turn.base] = stored[turn.base]
        BY <1>4, <3>2, StoredGrows DEF TypeInv
      <3> QED
        BY <3>1, <3>3 DEF Twice, Doubled
    <2>2. OnceIn(body, Twice) /\ Within(body, Len(stored))
      BY DEF SourceInv
    <2>3. CASE Send
      <3>1. PICK f \in Cuts(body) : Prepared(body) = Suffix(body, f)
        BY <2>0, PreparedIsSuffix
      <3>2. /\ Prepared(body) \in Seq(ChatMessage) /\ OnceIn(Prepared(body), Twice)
            /\ Within(Prepared(body), Len(stored))
        BY <2>0, <2>2, <3>1, OnceSuffix, SuffixShape
      <3>3. OnceIn(Repaired(Prepared(body)), Twice) /\ Within(Repaired(Prepared(body)), Len(stored))
        BY <3>2, OnceRepaired
      <3> QED
        BY <2>1, <2>3, <3>3 DEF Send, store, SourceInv
    <2>4. CASE OverflowRetry
      <3>1. OverflowDrop(Len(body)) \in Nat
        BY <2>0, <2>4, DropIsPositive DEF OverflowRetry
      <3>2. PICK f \in Cuts(body) : TrimBlocks(body, OverflowDrop(Len(body))) = Suffix(body, f)
        BY <2>0, <3>1, TrimIsSuffix
      <3>3. stored' = stored /\ body' = Suffix(body, f)
        BY <2>4, <3>2 DEF OverflowRetry, store
      <3> QED
        BY <2>0, <2>1, <2>2, <3>3, OnceSuffix DEF SourceInv
    <2>5. CASE NextCandidate
      BY <2>1, <2>2, <2>5 DEF NextCandidate, store, SourceInv
    <2>6. CASE \E n \in 1..MaxCalls : Calls(n)
      <3>1. PICK n \in 1..MaxCalls : Calls(n)
        BY <2>6
      <3> DEFINE m == CallsMessage(1..n)
      <3>2. m \in ChatMessage /\ m.src = 0
        BY Sizes, CallsType DEF CallsMessage
      <3>3. body' = Append(body, m) /\ stored' = stored
        BY <3>1 DEF Calls, store
      <3> HIDE DEF m
      <3>4. OnceIn(Append(body, m), Twice) /\ Within(Append(body, m), Len(stored))
        BY <2>0, <2>2, <3>2, OnceAppend, WithinAppend
      <3> QED
        BY <2>1, <3>3, <3>4 DEF SourceInv
    <2>7. CASE \E cost \in Costs : ToolResult(cost)
      <3>1. PICK cost \in Costs : ToolResult(cost)
        BY <2>7
      <3>2. Result(turn.next, Len(stored) + 1, cost) \in ChatMessage
        BY <3>1, BatchResult DEF ToolResult
      <3>3. Len(stored') = Len(stored) + 1
        BY <2>0, <3>1, RecordShape DEF ToolResult
      <3>4. body' = Append(body, Result(turn.next, Len(stored) + 1, cost))
        BY <3>1 DEF ToolResult
      <3> QED
        BY <2>0, <2>1, <2>2, <3>2, <3>3, <3>4, OnceResult DEF SourceInv
    <2>8. CASE NewContext
      <3>1. Result(turn.next, Len(stored) + 1, 1) \in ChatMessage
        BY <2>8, BatchResult DEF NewContext
      <3>2. Len(stored') = Len(stored) + 1
        BY <2>0, <2>8, RecordShape DEF NewContext
      <3>3. LastUser \in 1..Len(stored)
        BY <2>0, <2>8, CurrentUser DEF HasUser, NewContext
      <3>4. LastUser - 1 \in Nat /\ turn.base \in 0..Len(stored)
        BY <2>0, <3>3
      <3>5. /\ Rebuilt(LastUser - 1) \in Seq(ChatMessage) /\ OnceIn(Rebuilt(LastUser - 1), Twice)
            /\ Within(Rebuilt(LastUser - 1), turn.base)
        BY <2>0, <3>4, CardsShape, OnceCards DEF Rebuilt
      <3>6. Within(Rebuilt(LastUser - 1), Len(stored))
        <4>1. \A i \in DOMAIN Rebuilt(LastUser - 1) : Rebuilt(LastUser - 1)[i].src \in Nat
          BY <3>5, SourceType
        <4> QED
          BY <2>0, <3>5, <4>1 DEF Within
      <3>7. body' = Append(Rebuilt(LastUser - 1), Result(turn.next, Len(stored) + 1, 1))
        BY <2>8 DEF NewContext
      <3> QED
        BY <2>1, <3>1, <3>2, <3>5, <3>6, <3>7, OnceResult DEF SourceInv
    <2> QED
      BY <1>4, <2>3, <2>4, <2>5, <2>6, <2>7, <2>8 DEF Goes
  <1> QED
    BY <1>1, <1>2, <1>3, <1>4, Kinds

\* No stored message is in a request twice, whatever windows, trimming and repair do
\* to it; the exception is the failed output of an approved call that is longer than
\* its note.
THEOREM MessagesShownOnce == Spec => []ShownOnce
  <1>1. Init => Placed /\ SourceInv
    BY DEF Init, Placed, Running, SourceInv, Within, OnceIn
  <1>2. TypeInv /\ HasUser /\ Placed /\ SourceInv /\ [Next]_vars => Placed' /\ SourceInv'
    BY PlacedNext, SourceNext
  <1>3. TypeInv /\ SourceInv => ShownOnce
    <2> SUFFICES ASSUME TypeInv, SourceInv, NEW i \in DOMAIN body, NEW k \in DOMAIN body,
                        i < k, body[i].src = body[k].src, body[i].src > 0
                 PROVE  body[i].src = turn.base /\ ~turn.known /\ stored[turn.base].cost > Preview
      BY DEF ShownOnce
    <2>1. body[i].src \in Nat
      BY SourceType DEF TypeInv, TypeOK
    <2>2. body[i].src \in Twice
      BY <2>1 DEF SourceInv, OnceIn
    <2> QED
      BY <2>2 DEF Twice, Doubled
  <1> QED
    BY <1>1, <1>2, <1>3, Typed, PTL DEF Spec

-----------------------------------------------------------------------------
(* Calls and their results *)

\* i is in the block of the calls at j.
In(b, j, i) == b[j].role = "calls" /\ \A k \in (j + 1)..i : b[k].role = "tool"

\* The results in a block answer different calls of it.
Neat(b) ==
    \A i \in DOMAIN b : \A j \in 1..(i - 1) :
        In(b, j, i) => /\ b[i].ids \subseteq b[j].ids
                       /\ \A k \in (j + 1)..(i - 1) : b[k].ids # b[i].ids

Answered(b, j) ==
    \A id \in b[j].ids : \E i \in (j + 1)..Len(b) : b[i].ids = {id} /\ In(b, j, i)

\* Every call has its result.
Full(b) == \A j \in DOMAIN b : b[j].role = "calls" => Answered(b, j)

\* Every result has its call.
Blocked(b) == \A i \in DOMAIN b : b[i].role = "tool" => InBlock(b, i)

\* No block goes on at the end of the request.
Closed(b) ==
    \A j \in DOMAIN b : b[j].role = "calls" => \E k \in (j + 1)..Len(b) : b[k].role # "tool"

\* The request ends with the calls of a batch and the results of the first of them.
Open(b, next, total) ==
    \E j \in DOMAIN b :
        /\ Len(b) = j + next - 1
        /\ b[j].role = "calls" /\ b[j].ids = 1..total
        /\ \A m \in 1..(next - 1) : b[j + m].role = "tool" /\ b[j + m].ids = {m}
        /\ \A i \in 1..(j - 1) : b[i].role = "calls" => Answered(b, i)

\* A batch is open until its last result, unless new_context has dropped its calls.
BlockInv ==
    /\ Neat(body)
    /\ pc \in {"round", "sent"} => Full(body)
    /\ pc = "sent" => Blocked(body)
    /\ pc = "tools" => Open(body, turn.next, turn.total) \/ (Full(body) /\ Closed(body))

LEMMA InSuffix ==
  ASSUME NEW b \in Seq(ChatMessage), NEW f \in Cuts(b), NEW d \in Nat, f = d + 1,
         NEW i \in DOMAIN Suffix(b, f), NEW j \in 1..i
  PROVE  /\ i + d \in DOMAIN b /\ j + d \in DOMAIN b
         /\ Suffix(b, f)[i] = b[i + d] /\ Suffix(b, f)[j] = b[j + d]
         /\ In(Suffix(b, f), j, i) <=> In(b, j + d, i + d)
  <1> DEFINE c == Suffix(b, f)
  <1>1. /\ d \in 0..Len(b) /\ c \in Seq(ChatMessage) /\ Len(c) = Len(b) - d
        /\ \A k \in 1..(Len(b) - d) : c[k] = b[k + d]
    <2>1. /\ f \in 1..(Len(b) + 1) /\ c \in Seq(ChatMessage) /\ Len(c) = Len(b) - f + 1
          /\ \A k \in 1..(Len(b) - f + 1) : c[k] = b[k + f - 1]
      BY SuffixShape
    <2>2. Len(b) \in Nat /\ Len(b) - f + 1 = Len(b) - d
      BY <2>1
    <2> HIDE DEF c
    <2>3. ASSUME NEW k \in 1..(Len(b) - d) PROVE c[k] = b[k + d]
      <3>1. k \in 1..(Len(b) - f + 1) /\ k + (f - 1) = k + d
        BY <2>1, <2>2
      <3> QED
        BY <2>1, <3>1
    <2>4. d \in 0..Len(b)
      BY <2>1, <2>2
    <2>5. Len(c) = Len(b) - d
      BY <2>1, <2>2
    <2> QED
      BY <2>1, <2>3, <2>4, <2>5
  <1> HIDE DEF c
  <1>2. i \in 1..(Len(b) - d) /\ Len(b) \in Nat
    BY <1>1 DEF c
  <1>3. /\ i + d \in DOMAIN b /\ j + d \in DOMAIN b
        /\ c[i] = b[i + d] /\ c[j] = b[j + d]
    <2>1. j \in 1..(Len(b) - d)
      BY <1>1, <1>2
    <2>2. i + d \in 1..Len(b) /\ j + d \in 1..Len(b)
      BY <1>1, <1>2, <2>1
    <2> QED
      BY <1>1, <1>2, <2>1, <2>2
  <1>4. ASSUME In(c, j, i), NEW k \in ((j + d) + 1)..(i + d) PROVE b[k].role = "tool"
    <2>1. k - d \in (j + 1)..i /\ k - d \in 1..(Len(b) - d) /\ (k - d) + d = k
      BY <1>1, <1>2
    <2> QED
      BY <1>1, <1>4, <2>1 DEF In
  <1>5. ASSUME In(b, j + d, i + d), NEW k \in (j + 1)..i PROVE c[k].role = "tool"
    <2>1. k + d \in ((j + d) + 1)..(i + d) /\ k \in 1..(Len(b) - d)
      BY <1>1, <1>2
    <2> QED
      BY <1>1, <1>5, <2>1 DEF In
  <1>6. In(c, j, i) <=> In(b, j + d, i + d)
    BY <1>3, <1>4, <1>5 DEF In
  <1> QED
    BY <1>3, <1>6 DEF c

LEMMA NeatSuffix ==
  ASSUME NEW b \in Seq(ChatMessage), NEW f \in Cuts(b), NEW d \in Nat, f = d + 1, Neat(b)
  PROVE  Neat(Suffix(b, f))
  <1> DEFINE c == Suffix(b, f)
  <1>1. SUFFICES ASSUME NEW i \in DOMAIN c, NEW j \in 1..(i - 1), In(c, j, i)
                 PROVE  /\ c[i].ids \subseteq c[j].ids
                        /\ \A k \in (j + 1)..(i - 1) : c[k].ids # c[i].ids
    BY DEF Neat
  <1>2. f \in 1..(Len(b) + 1) /\ d \in 0..Len(b) /\ c \in Seq(ChatMessage)
    BY SuffixShape
  <1>3. i \in Nat /\ j \in 1..i
    BY <1>2
  <1>4. /\ i + d \in DOMAIN b /\ c[i] = b[i + d] /\ c[j] = b[j + d]
        /\ In(b, j + d, i + d)
    BY <1>1, <1>3, InSuffix
  <1>5. j + d \in 1..((i + d) - 1)
    BY <1>1, <1>2, <1>3
  <1>6. /\ c[i].ids \subseteq c[j].ids
        /\ \A k \in ((j + d) + 1)..((i + d) - 1) : b[k].ids # c[i].ids
    <2> DEFINE p == i + d
               q == j + d
    <2>1. /\ p \in DOMAIN b /\ q \in 1..(p - 1) /\ In(b, q, p)
          /\ c[i] = b[p] /\ c[j] = b[q]
      BY <1>4, <1>5
    <2> HIDE DEF p, q, c
    <2>2. b[p].ids \subseteq b[q].ids /\ \A k \in (q + 1)..(p - 1) : b[k].ids # b[p].ids
      BY <2>1 DEF Neat
    <2>3. c[i].ids \subseteq c[j].ids /\ \A k \in (q + 1)..(p - 1) : b[k].ids # c[i].ids
      BY <2>1, <2>2
    <2> QED
      BY <2>3 DEF p, q
  <1>7. ASSUME NEW k \in (j + 1)..(i - 1) PROVE c[k].ids # c[i].ids
    <2>1. k + d \in ((j + d) + 1)..((i + d) - 1) /\ k \in 1..i
      BY <1>2, <1>3
    <2>2. c[k] = b[k + d]
      BY <2>1, InSuffix
    <2> QED
      BY <1>6, <2>1, <2>2
  <1> QED
    BY <1>6, <1>7

LEMMA FullSuffix ==
  ASSUME NEW b \in Seq(ChatMessage), NEW f \in Cuts(b), NEW d \in Nat, f = d + 1, Full(b)
  PROVE  Full(Suffix(b, f))
  <1> DEFINE c == Suffix(b, f)
  <1>1. SUFFICES ASSUME NEW j \in DOMAIN c, c[j].role = "calls", NEW id \in c[j].ids
                 PROVE  \E i \in (j + 1)..Len(c) : c[i].ids = {id} /\ In(c, j, i)
    BY DEF Full, Answered
  <1>2. /\ f \in 1..(Len(b) + 1) /\ d \in 0..Len(b) /\ c \in Seq(ChatMessage)
        /\ Len(c) = Len(b) - d /\ Len(b) \in Nat
    BY SuffixShape
  <1>3. j \in 1..Len(c) /\ j \in 1..j
    BY <1>2
  <1>4. j + d \in DOMAIN b /\ c[j] = b[j + d]
    BY <1>3, InSuffix
  <1>5. PICK h \in ((j + d) + 1)..Len(b) : b[h].ids = {id} /\ In(b, j + d, h)
    BY <1>1, <1>4 DEF Full, Answered
  <1>6. h - d \in (j + 1)..Len(c) /\ j \in 1..(h - d) /\ (h - d) + d = h
    BY <1>2, <1>3
  <1>7. h - d \in DOMAIN c
    BY <1>2, <1>3, <1>6
  <1>8. /\ c[h - d] = b[(h - d) + d]
        /\ In(c, j, h - d) <=> In(b, j + d, (h - d) + d)
    BY <1>6, <1>7, InSuffix
  <1> QED
    BY <1>5, <1>6, <1>8

LEMMA BlockedSuffix ==
  ASSUME NEW b \in Seq(ChatMessage), NEW f \in Cuts(b), NEW d \in Nat, f = d + 1, Blocked(b)
  PROVE  Blocked(Suffix(b, f))
  <1> DEFINE c == Suffix(b, f)
  <1>1. SUFFICES ASSUME NEW i \in DOMAIN c, c[i].role = "tool" PROVE InBlock(c, i)
    BY DEF Blocked
  <1>2. /\ f \in 1..(Len(b) + 1) /\ d \in 0..Len(b) /\ c \in Seq(ChatMessage)
        /\ Len(c) = Len(b) - d /\ Len(b) \in Nat
    BY SuffixShape
  <1>3. i \in 1..Len(c) /\ i \in 1..i
    BY <1>2
  <1>4. i + d \in DOMAIN b /\ c[i] = b[i + d]
    BY <1>3, InSuffix
  <1>5. PICK h \in 1..((i + d) - 1) : In(b, h, i + d)
    <2>1. InBlock(b, i + d)
      BY <1>1, <1>4 DEF Blocked
    <2> QED
      BY <2>1 DEF InBlock, In
  <1>6. h >= f
    <2>1. SUFFICES ASSUME h < f PROVE FALSE
      BY <1>2, <1>5
    <2>2. h \in 1..(f - 1) /\ \A k \in (h + 1)..f : k \in (h + 1)..(i + d)
      BY <1>2, <1>3, <1>5, <2>1
    <2>3. InBlock(b, f)
      BY <1>5, <2>2 DEF InBlock, In
    <2>4. f \in DOMAIN b
      BY <1>2, <1>3, <1>4
    <2> QED
      BY <1>2, <2>3, <2>4 DEF Cuts, BlockStarts
  <1>7. h - d \in 1..(i - 1) /\ h - d \in 1..i /\ (h - d) + d = h
    BY <1>2, <1>3, <1>5, <1>6
  <1>8. In(c, h - d, i) <=> In(b, (h - d) + d, i + d)
    BY <1>7, InSuffix
  <1>9. In(c, h - d, i)
    BY <1>5, <1>7, <1>8
  <1> QED
    BY <1>7, <1>9 DEF InBlock, In

\* Under Neat, a result is answered by the block it is in.
LEMMA RepairedIn ==
  ASSUME NEW b \in Seq(ChatMessage), Neat(b), NEW i \in 1..Len(b)
  PROVE  /\ b[i].role = "tool" /\ InBlock(b, i) => Repaired(b)[i] = b[i]
         /\ b[i].role # "tool" => Repaired(b)[i] = b[i]
         /\ b[i].role = "tool" /\ ~InBlock(b, i) => Repaired(b)[i].role = "user"
  <1> DEFINE c == Repaired(b)
  <1>1. /\ b[i].role # "tool" \/ Answers(b, i) => c[i] = b[i]
        /\ b[i].role = "tool" /\ ~Answers(b, i) => c[i].role = "user"
    BY RepairedShape
  <1> HIDE DEF c
  <1>2. ASSUME InBlock(b, i) PROVE Answers(b, i)
    <2>1. PICK j \in 1..(i - 1) : In(b, j, i)
      BY <1>2 DEF InBlock, In
    <2>2. i \in DOMAIN b
      OBVIOUS
    <2>3. /\ b[i].ids \subseteq b[j].ids
          /\ \A k \in (j + 1)..(i - 1) : b[k].ids # b[i].ids
      BY <2>1, <2>2 DEF Neat
    <2>4. b[j].role = "calls" /\ \A k \in (j + 1)..(i - 1) : b[k].role = "tool"
      BY <2>1 DEF In
    <2> QED
      BY <2>3, <2>4 DEF Answers
  <1>3. ASSUME Answers(b, i), b[i].role = "tool" PROVE InBlock(b, i)
    <2>1. PICK j \in 1..(i - 1) :
            b[j].role = "calls" /\ \A k \in (j + 1)..(i - 1) : b[k].role = "tool"
      BY <1>3 DEF Answers
    <2>2. \A k \in (j + 1)..i : k \in (j + 1)..(i - 1) \/ k = i
      OBVIOUS
    <2> QED
      BY <1>3, <2>1, <2>2 DEF InBlock
  <1> QED
    BY <1>1, <1>2, <1>3 DEF c

\* Repair keeps blocks as they are.
LEMMA InRepaired ==
  ASSUME NEW b \in Seq(ChatMessage), Neat(b), NEW i \in 1..Len(b), NEW j \in 1..i
  PROVE  /\ In(Repaired(b), j, i) <=> In(b, j, i)
         /\ In(b, j, i) => \A k \in j..i : Repaired(b)[k] = b[k]
  <1> DEFINE c == Repaired(b)
  <1>1. ASSUME NEW k \in 1..Len(b)
        PROVE  c[k] = b[k] \/ (b[k].role = "tool" /\ c[k].role = "user")
    BY RepairedIn
  <1>2. ASSUME In(b, j, i), NEW k \in j..i PROVE c[k] = b[k]
    <2>1. k \in 1..Len(b)
      OBVIOUS
    <2>2. CASE k = j
      <3>1. b[k].role = "calls"
        BY <1>2, <2>2 DEF In
      <3> QED
        BY <2>1, <3>1, RepairedIn
    <2>3. CASE k # j
      <3>1. j \in 1..(k - 1) /\ k \in (j + 1)..i /\ \A h \in (j + 1)..k : h \in (j + 1)..i
        BY <2>3
      <3>2. InBlock(b, k) /\ b[k].role = "tool"
        BY <1>2, <3>1 DEF In, InBlock
      <3> QED
        BY <2>1, <3>2, RepairedIn
    <2> QED
      BY <2>2, <2>3
  <1> HIDE DEF c
  <1>3. ASSUME In(b, j, i) PROVE In(c, j, i)
    <2>1. j \in j..i /\ \A k \in (j + 1)..i : k \in j..i
      OBVIOUS
    <2> QED
      BY <1>2, <1>3, <2>1 DEF In
  <1>4. ASSUME In(c, j, i) PROVE In(b, j, i)
    <2>1. j \in 1..Len(b) /\ \A k \in (j + 1)..i : k \in 1..Len(b)
      OBVIOUS
    <2>2. b[j].role = "calls"
      BY <1>1, <1>4, <2>1 DEF In
    <2>3. ASSUME NEW k \in (j + 1)..i PROVE b[k].role = "tool"
      BY <1>1, <1>4, <2>1 DEF In
    <2> QED
      BY <2>2, <2>3 DEF In
  <1> QED
    BY <1>2, <1>3, <1>4 DEF c

LEMMA RepairedBlocks ==
  ASSUME NEW b \in Seq(ChatMessage), Neat(b), Full(b)
  PROVE  Neat(Repaired(b)) /\ Full(Repaired(b)) /\ Blocked(Repaired(b))
  <1> DEFINE c == Repaired(b)
  <1>1. c \in Seq(ChatMessage) /\ Len(c) = Len(b) /\ DOMAIN c = 1..Len(b) /\ Len(b) \in Nat
    BY RepairedShape
  <1>2. \A i \in 1..Len(b) : \A j \in 1..i :
          /\ In(c, j, i) <=> In(b, j, i)
          /\ In(b, j, i) => \A k \in j..i : c[k] = b[k]
    BY InRepaired
  <1>3. \A i \in 1..Len(b) :
          /\ b[i].role # "tool" => c[i] = b[i]
          /\ b[i].role = "tool" /\ ~InBlock(b, i) => c[i].role = "user"
          /\ b[i].role = "tool" /\ InBlock(b, i) => c[i] = b[i]
    BY RepairedIn
  <1> HIDE DEF c
  <1>4. Neat(c)
    <2>1. SUFFICES ASSUME NEW i \in DOMAIN c, NEW j \in 1..(i - 1), In(c, j, i)
                   PROVE  /\ c[i].ids \subseteq c[j].ids
                          /\ \A k \in (j + 1)..(i - 1) : c[k].ids # c[i].ids
      BY DEF Neat
    <2>2. i \in 1..Len(b) /\ i \in DOMAIN b /\ j \in 1..i /\ i \in j..i /\ j \in j..i
      BY <1>1
    <2>3. In(b, j, i) /\ c[i] = b[i] /\ c[j] = b[j]
      BY <1>2, <2>1, <2>2
    <2>4. \A k \in (j + 1)..(i - 1) : c[k] = b[k]
      <3>1. \A k \in (j + 1)..(i - 1) : k \in j..i
        BY <2>2
      <3> QED
        BY <1>2, <2>2, <2>3, <3>1
    <2>5. b[i].ids \subseteq b[j].ids /\ \A k \in (j + 1)..(i - 1) : b[k].ids # b[i].ids
      BY <2>1, <2>2, <2>3 DEF Neat
    <2> QED
      BY <2>3, <2>4, <2>5
  <1>5. Full(c)
    <2>1. SUFFICES ASSUME NEW j \in DOMAIN c, c[j].role = "calls", NEW id \in c[j].ids
                   PROVE  \E i \in (j + 1)..Len(c) : c[i].ids = {id} /\ In(c, j, i)
      BY DEF Full, Answered
    <2>2. j \in 1..Len(b) /\ j \in DOMAIN b
      BY <1>1
    <2>3. c[j] = b[j]
      BY <1>3, <2>1, <2>2
    <2>4. PICK i \in (j + 1)..Len(b) : b[i].ids = {id} /\ In(b, j, i)
      BY <2>1, <2>2, <2>3 DEF Full, Answered
    <2>5. i \in 1..Len(b) /\ j \in 1..i /\ i \in j..i
      BY <2>2
    <2>6. In(c, j, i) /\ c[i] = b[i]
      BY <1>2, <2>4, <2>5
    <2> QED
      BY <1>1, <2>4, <2>6
  <1>6. Blocked(c)
    <2>1. SUFFICES ASSUME NEW i \in DOMAIN c, c[i].role = "tool" PROVE InBlock(c, i)
      BY DEF Blocked
    <2>2. i \in 1..Len(b)
      BY <1>1
    <2>3. InBlock(b, i)
      BY <1>3, <2>1, <2>2
    <2>4. PICK j \in 1..(i - 1) : In(b, j, i)
      BY <2>3 DEF InBlock, In
    <2>5. j \in 1..i
      BY <2>2
    <2>6. In(c, j, i)
      BY <1>2, <2>2, <2>4, <2>5
    <2> QED
      BY <2>6 DEF InBlock, In
  <1> QED
    BY <1>4, <1>5, <1>6 DEF c

-----------------------------------------------------------------------------
(* A message is appended *)

LEMMA InAppend ==
  ASSUME NEW b \in Seq(ChatMessage), NEW m \in ChatMessage, NEW i \in 1..Len(b), NEW j \in 1..i
  PROVE  In(Append(b, m), j, i) <=> In(b, j, i)
  <1> DEFINE c == Append(b, m)
  <1>1. c[j] = b[j] /\ \A k \in (j + 1)..i : c[k] = b[k]
    OBVIOUS
  <1> HIDE DEF c
  <1>2. In(c, j, i) <=> In(b, j, i)
    BY <1>1 DEF In
  <1> QED
    BY <1>2 DEF c

LEMMA AnsweredAppend ==
  ASSUME NEW b \in Seq(ChatMessage), NEW m \in ChatMessage, NEW j \in 1..Len(b), Answered(b, j)
  PROVE  Answered(Append(b, m), j)
  <1> DEFINE c == Append(b, m)
  <1>1. Len(c) = Len(b) + 1 /\ Len(b) \in Nat /\ \A k \in 1..Len(b) : c[k] = b[k]
    OBVIOUS
  <1>2. \A i \in 1..Len(b) : \A h \in 1..i : In(c, h, i) <=> In(b, h, i)
    BY InAppend
  <1> HIDE DEF c
  <1>3. ASSUME NEW id \in c[j].ids
        PROVE  \E i \in (j + 1)..Len(c) : c[i].ids = {id} /\ In(c, j, i)
    <2>1. PICK i \in (j + 1)..Len(b) : b[i].ids = {id} /\ In(b, j, i)
      BY <1>1 DEF Answered
    <2>2. i \in 1..Len(b) /\ j \in 1..i /\ i \in (j + 1)..Len(c)
      BY <1>1
    <2> QED
      BY <1>1, <1>2, <2>1, <2>2
  <1> QED
    BY <1>3 DEF Answered, c

LEMMA NeatAppend ==
  ASSUME NEW b \in Seq(ChatMessage), NEW m \in ChatMessage, Neat(b),
         \A j \in 1..Len(b) :
            In(Append(b, m), j, Len(b) + 1)
              => m.ids \subseteq b[j].ids /\ \A k \in (j + 1)..Len(b) : b[k].ids # m.ids
  PROVE  Neat(Append(b, m))
  <1> DEFINE c == Append(b, m)
  <1>1. /\ Len(c) = Len(b) + 1 /\ Len(b) \in Nat /\ DOMAIN c = 1..(Len(b) + 1)
        /\ DOMAIN b = 1..Len(b)
        /\ \A k \in 1..Len(b) : c[k] = b[k]
        /\ c[Len(b) + 1] = m
    OBVIOUS
  <1>2. \A i \in 1..Len(b) : \A h \in 1..i : In(c, h, i) <=> In(b, h, i)
    BY InAppend
  <1>3. \A j \in 1..Len(b) :
          In(c, j, Len(b) + 1)
            => m.ids \subseteq b[j].ids /\ \A k \in (j + 1)..Len(b) : b[k].ids # m.ids
    OBVIOUS
  <1> HIDE DEF c
  <1>4. SUFFICES ASSUME NEW i \in DOMAIN c, NEW j \in 1..(i - 1), In(c, j, i)
                 PROVE  /\ c[i].ids \subseteq c[j].ids
                        /\ \A k \in (j + 1)..(i - 1) : c[k].ids # c[i].ids
    BY DEF Neat, c
  <1>5. CASE i \in 1..Len(b)
    <2>1. j \in 1..i /\ j \in 1..Len(b) /\ \A k \in (j + 1)..(i - 1) : k \in 1..Len(b)
      BY <1>1, <1>5
    <2>2. In(b, j, i)
      BY <1>2, <1>4, <1>5, <2>1
    <2>3. b[i].ids \subseteq b[j].ids /\ \A k \in (j + 1)..(i - 1) : b[k].ids # b[i].ids
      BY <1>1, <1>5, <2>2 DEF Neat
    <2> QED
      BY <1>1, <1>5, <2>1, <2>3
  <1>6. CASE i = Len(b) + 1
    <2>1. i - 1 = Len(b) /\ j \in 1..Len(b) /\ \A k \in (j + 1)..Len(b) : k \in 1..Len(b)
      BY <1>1, <1>6
    <2>2. m.ids \subseteq b[j].ids /\ \A k \in (j + 1)..Len(b) : b[k].ids # m.ids
      BY <1>3, <1>4, <1>6, <2>1
    <2> QED
      BY <1>1, <1>6, <2>1, <2>2
  <1> QED
    BY <1>1, <1>4, <1>5, <1>6

\* The calls of an answer open a batch.
LEMMA CallsAppend ==
  ASSUME NEW b \in Seq(ChatMessage), NEW m \in ChatMessage, m.role = "calls", Neat(b)
  PROVE  /\ Neat(Append(b, m))
         /\ \A n \in Nat : Full(b) /\ m.ids = 1..n => Open(Append(b, m), 1, n)
  <1> DEFINE c == Append(b, m)
             top == Len(b) + 1
  <1>1. /\ Len(c) = top /\ Len(b) \in Nat /\ top \in DOMAIN c /\ c[top] = m /\ top \in Nat
        /\ \A k \in 1..Len(b) : c[k] = b[k]
    OBVIOUS
  <1>2. ASSUME NEW j \in 1..Len(b), In(c, j, top) PROVE FALSE
    <2>1. top \in (j + 1)..top
      BY <1>1
    <2> HIDE DEF c, top
    <2> QED
      BY <1>1, <1>2, <2>1 DEF In
  <1>3. Neat(c)
    BY <1>2, NeatAppend
  <1>4. ASSUME NEW n \in Nat, Full(b), m.ids = 1..n PROVE Open(c, 1, n)
    <2>1. ASSUME NEW i \in 1..(top - 1), c[i].role = "calls" PROVE Answered(c, i)
      <3>1. i \in 1..Len(b) /\ i \in DOMAIN b
        BY <1>1
      <3>2. Answered(b, i)
        BY <1>1, <1>4, <2>1, <3>1 DEF Full
      <3> QED
        BY <3>1, <3>2, AnsweredAppend
    <2> HIDE DEF c, top
    <2>2. Len(c) = top + 1 - 1 /\ 1..(1 - 1) = {}
      BY <1>1
    <2> QED
      BY <1>1, <1>4, <2>1, <2>2 DEF Open
  <1> QED
    BY <1>3, <1>4

\* A result of the open batch.
LEMMA OpenAppend ==
  ASSUME NEW b \in Seq(ChatMessage), NEW m \in ChatMessage, NEW total \in Nat,
         NEW next \in 1..total, m.role = "tool", m.ids = {next}, Neat(b), Open(b, next, total)
  PROVE  Neat(Append(b, m)) /\ Open(Append(b, m), next + 1, total)
  <1> DEFINE c == Append(b, m)
             top == Len(b) + 1
  <1>1. /\ Len(c) = top /\ Len(b) \in Nat /\ top \in Nat /\ c[top] = m /\ DOMAIN c = 1..top
        /\ DOMAIN b = 1..Len(b) /\ \A k \in 1..Len(b) : c[k] = b[k]
    OBVIOUS
  <1>2. PICK j \in DOMAIN b :
          /\ Len(b) = j + next - 1
          /\ b[j].role = "calls" /\ b[j].ids = 1..total
          /\ \A h \in 1..(next - 1) : b[j + h].role = "tool" /\ b[j + h].ids = {h}
          /\ \A i \in 1..(j - 1) : b[i].role = "calls" => Answered(b, i)
    BY DEF Open
  <1>3. j \in 1..Len(b) /\ j \in Nat /\ top = j + next /\ j \in 1..top
    BY <1>1, <1>2
  <1>4. ASSUME NEW k \in (j + 1)..Len(b)
        PROVE  b[k].role = "tool" /\ b[k].ids = {k - j} /\ k - j # next
    <2>1. k - j \in 1..(next - 1) /\ j + (k - j) = k
      BY <1>2, <1>3
    <2>2. b[j + (k - j)].role = "tool" /\ b[j + (k - j)].ids = {k - j}
      BY <1>2, <2>1
    <2> QED
      BY <2>1, <2>2
  <1>5. ASSUME NEW h \in 1..Len(b), In(c, h, top)
        PROVE  m.ids \subseteq b[h].ids /\ \A k \in (h + 1)..Len(b) : b[k].ids # m.ids
    <2>1. c[h].role = "calls" /\ \A k \in (h + 1)..top : c[k].role = "tool"
      BY <1>5 DEF In
    <2> HIDE DEF c
    <2>2. ~(h < j)
      <3>1. h < j => j \in (h + 1)..top
        BY <1>3
      <3> QED
        BY <1>1, <1>2, <1>3, <2>1, <3>1
    <2>3. ~(h > j)
      <3>1. h > j => h \in (j + 1)..Len(b)
        BY <1>3
      <3> QED
        BY <1>1, <1>4, <2>1, <3>1
    <2>4. h = j
      BY <1>3, <2>2, <2>3
    <2>5. m.ids \subseteq b[j].ids
      BY <1>2
    <2>6. \A k \in (j + 1)..Len(b) : b[k].ids # m.ids
      BY <1>4
    <2> QED
      BY <2>4, <2>5, <2>6
  <1>6. Neat(c)
    BY <1>5, NeatAppend
  <1>7. ASSUME NEW i \in 1..(j - 1), c[i].role = "calls" PROVE Answered(c, i)
    <2>1. i \in 1..Len(b) /\ b[i].role = "calls"
      BY <1>1, <1>3, <1>7
    <2>2. Answered(b, i)
      BY <1>2, <2>1
    <2> QED
      BY <2>1, <2>2, AnsweredAppend
  <1> HIDE DEF c
  <1>8. ASSUME NEW h \in 1..((next + 1) - 1) PROVE c[j + h].role = "tool" /\ c[j + h].ids = {h}
    <2>1. CASE h = next
      <3>1. j + h = top
        BY <1>3, <2>1
      <3> QED
        BY <1>1, <2>1, <3>1
    <2>2. CASE h # next
      <3>1. h \in 1..(next - 1) /\ j + h \in 1..Len(b)
        BY <1>2, <1>3, <2>2
      <3> QED
        BY <1>1, <1>2, <3>1
    <2> QED
      BY <2>1, <2>2
  <1>9. Len(c) = j + (next + 1) - 1
    BY <1>1, <1>3
  <1>10. j \in DOMAIN c /\ c[j].role = "calls" /\ c[j].ids = 1..total
    BY <1>1, <1>2, <1>3
  <1>11. Open(c, next + 1, total)
    BY <1>7, <1>8, <1>9, <1>10 DEF Open
  <1> QED
    BY <1>6, <1>11 DEF c

\* With its last result a batch is complete.
LEMMA OpenIsFull ==
  ASSUME NEW b \in Seq(ChatMessage), NEW total \in Nat, Open(b, total + 1, total)
  PROVE  Full(b)
  <1>1. PICK j \in DOMAIN b :
          /\ Len(b) = j + (total + 1) - 1
          /\ b[j].role = "calls" /\ b[j].ids = 1..total
          /\ \A h \in 1..((total + 1) - 1) : b[j + h].role = "tool" /\ b[j + h].ids = {h}
          /\ \A i \in 1..(j - 1) : b[i].role = "calls" => Answered(b, i)
    BY DEF Open
  <1>2. j \in Nat /\ Len(b) = j + total /\ DOMAIN b = 1..Len(b) /\ Len(b) \in Nat
    BY <1>1
  <1>3. \A k \in (j + 1)..Len(b) : b[k].role = "tool"
    <2>1. ASSUME NEW k \in (j + 1)..Len(b) PROVE b[k].role = "tool"
      <3>1. k - j \in 1..((total + 1) - 1) /\ j + (k - j) = k
        BY <1>2
      <3>2. b[j + (k - j)].role = "tool"
        BY <1>1, <3>1
      <3> QED
        BY <3>1, <3>2
    <2> QED
      BY <2>1
  <1>4. SUFFICES ASSUME NEW i \in DOMAIN b, b[i].role = "calls" PROVE Answered(b, i)
    BY DEF Full
  <1>5. CASE i < j
    <2>1. i \in 1..(j - 1)
      BY <1>2, <1>5
    <2> QED
      BY <1>1, <1>4, <2>1
  <1>6. CASE i > j
    <2>1. i \in (j + 1)..Len(b)
      BY <1>2, <1>6
    <2> QED
      BY <1>3, <1>4, <2>1
  <1>7. CASE i = j
    <2>1. SUFFICES ASSUME NEW id \in b[j].ids
                   PROVE  \E h \in (j + 1)..Len(b) : b[h].ids = {id} /\ In(b, j, h)
      BY <1>7 DEF Answered
    <2>2. id \in 1..((total + 1) - 1) /\ j + id \in (j + 1)..Len(b)
      BY <1>1, <1>2
    <2>3. b[j + id].ids = {id}
      BY <1>1, <2>2
    <2>4. \A k \in (j + 1)..(j + id) : k \in (j + 1)..Len(b)
      BY <1>2, <2>2
    <2>5. In(b, j, j + id)
      BY <1>1, <1>3, <2>4 DEF In
    <2> QED
      BY <2>2, <2>3, <2>5
  <1> QED
    BY <1>2, <1>5, <1>6, <1>7

\* A result whose calls new_context has dropped.
LEMMA ClosedAppend ==
  ASSUME NEW b \in Seq(ChatMessage), NEW m \in ChatMessage, m.role = "tool",
         Neat(b), Full(b), Closed(b)
  PROVE  Neat(Append(b, m)) /\ Full(Append(b, m)) /\ Closed(Append(b, m))
  <1> DEFINE c == Append(b, m)
             top == Len(b) + 1
  <1>1. /\ Len(c) = top /\ Len(b) \in Nat /\ top \in Nat /\ c[top] = m /\ DOMAIN c = 1..top
        /\ DOMAIN b = 1..Len(b) /\ \A k \in 1..Len(b) : c[k] = b[k]
    OBVIOUS
  <1>2. ASSUME NEW j \in DOMAIN c, c[j].role = "calls"
        PROVE  /\ j \in 1..Len(b) /\ b[j].role = "calls"
               /\ \E k \in (j + 1)..Len(b) : k \in (j + 1)..top /\ c[k].role # "tool"
    <2> HIDE DEF c
    <2>1. j \in 1..Len(b) /\ b[j].role = "calls"
      BY <1>1, <1>2
    <2>2. PICK k \in (j + 1)..Len(b) : b[k].role # "tool"
      BY <1>1, <2>1 DEF Closed
    <2>3. k \in (j + 1)..top /\ k \in 1..Len(b)
      BY <1>1, <2>1
    <2> QED
      BY <1>1, <2>1, <2>2, <2>3
  <1>3. ASSUME NEW j \in 1..Len(b), In(c, j, top) PROVE FALSE
    <2>1. j \in DOMAIN c
      BY <1>1
    <2> HIDE DEF c
    <2> QED
      BY <1>2, <1>3, <2>1 DEF In
  <1>4. Neat(c)
    BY <1>3, NeatAppend
  <1>5. ASSUME NEW j \in DOMAIN c, c[j].role = "calls" PROVE Answered(c, j)
    <2>1. j \in 1..Len(b) /\ Answered(b, j)
      BY <1>1, <1>2, <1>5 DEF Full
    <2> QED
      BY <2>1, AnsweredAppend
  <1> HIDE DEF c
  <1>6. Full(c) /\ Closed(c)
    BY <1>1, <1>2, <1>5 DEF Full, Closed
  <1> QED
    BY <1>4, <1>6 DEF c

\* Notes hold no calls.
LEMMA CardsBlocks ==
  ASSUME stored \in Seq(StoredMessage), NEW skip \in Nat, NEW last \in 0..Len(stored)
  PROVE  /\ Cards(skip, last) \in Seq(ChatMessage)
         /\ \A i \in DOMAIN Cards(skip, last) :
              Cards(skip, last)[i].role \in {"user", "assistant"}
         /\ Neat(Cards(skip, last)) /\ Full(Cards(skip, last)) /\ Closed(Cards(skip, last))
  <1> DEFINE c == Cards(skip, last)
  <1>1. c \in Seq(ChatMessage)
    BY CardsShape
  <1>2. ASSUME NEW i \in DOMAIN c PROVE c[i].role \in {"user", "assistant"}
    <2>1. i \in 1..Len(c)
      BY <1>1
    <2>2. skip + i \in 1..last /\ c[i] = Card(skip + i)
      BY <2>1, CardsShape
    <2>3. skip + i \in 1..Len(stored)
      BY <2>2
    <2> QED
      BY <2>2, <2>3, CardShape
  <1> HIDE DEF c
  <1>3. Full(c) /\ Closed(c)
    BY <1>2 DEF Full, Closed
  <1>4. ASSUME NEW i \in DOMAIN c, NEW j \in 1..(i - 1), In(c, j, i) PROVE FALSE
    <2>1. i \in (j + 1)..i
      BY <1>1
    <2> QED
      BY <1>2, <1>4, <2>1 DEF In
  <1>5. Neat(c)
    BY <1>4 DEF Neat
  <1> QED
    BY <1>1, <1>2, <1>3, <1>5 DEF c

\* A resolved call and its result close a request.
LEMMA PairAppend ==
  ASSUME NEW b \in Seq(ChatMessage), \A i \in DOMAIN b : b[i].role \in {"user", "assistant"},
         Neat(b), NEW m \in ChatMessage, NEW r \in ChatMessage, NEW id,
         m.role = "calls", m.ids = {id}, r.role = "tool", r.ids = {id}
  PROVE  Neat(Append(Append(b, m), r)) /\ Full(Append(Append(b, m), r))
  <1> DEFINE a == Append(b, m)
             c == Append(a, r)
             n == Len(b)
  <1>1. /\ n \in Nat /\ a \in Seq(ChatMessage) /\ Len(a) = n + 1 /\ a[n + 1] = m
        /\ DOMAIN b = 1..n /\ \A k \in 1..n : a[k] = b[k]
    OBVIOUS
  <1>2. Neat(a)
    BY CallsAppend
  <1> HIDE DEF a, n
  <1>3. /\ c \in Seq(ChatMessage) /\ Len(c) = n + 2 /\ c[n + 2] = r /\ DOMAIN c = 1..(n + 2)
        /\ \A k \in 1..(n + 1) : c[k] = a[k]
    BY <1>1
  <1> HIDE DEF c
  <1>4. c[n + 1] = m /\ \A k \in 1..n : c[k].role \in {"user", "assistant"}
    BY <1>1, <1>3
  <1>5. ASSUME NEW j \in 1..(n + 1), In(c, j, n + 2)
        PROVE  r.ids \subseteq a[j].ids /\ \A k \in (j + 1)..(n + 1) : a[k].ids # r.ids
    <2>1. j = n + 1
      BY <1>1, <1>4, <1>5 DEF In
    <2> QED
      BY <1>1, <2>1
  <1>6. Neat(c)
    <2>1. \A j \in 1..Len(a) :
            In(c, j, Len(a) + 1)
              => r.ids \subseteq a[j].ids /\ \A k \in (j + 1)..Len(a) : a[k].ids # r.ids
      <3>1. Len(a) = n + 1 /\ Len(a) + 1 = n + 2
        BY <1>1
      <3> QED
        BY <1>5, <3>1
    <2> QED
      BY <1>1, <1>2, <2>1, NeatAppend DEF c
  <1>7. Full(c)
    <2>1. SUFFICES ASSUME NEW j \in DOMAIN c, c[j].role = "calls", NEW x \in c[j].ids
                   PROVE  \E i \in (j + 1)..Len(c) : c[i].ids = {x} /\ In(c, j, i)
      BY DEF Full, Answered
    <2>2. j = n + 1
      BY <1>1, <1>3, <1>4, <2>1
    <2>3. x = id /\ n + 2 \in (j + 1)..Len(c) /\ \A k \in (j + 1)..(n + 2) : k = n + 2
      BY <1>1, <1>3, <1>4, <2>2
    <2>4. In(c, j, n + 2)
      BY <1>3, <2>1, <2>3 DEF In
    <2> QED
      BY <1>3, <2>3, <2>4
  <1> QED
    BY <1>6, <1>7 DEF c, a

LEMMA AssembledBlocks ==
  ASSUME TypeInv, pc = "budget", NEW skip \in Nat
  PROVE  Neat(Assembled(skip)) /\ Full(Assembled(skip))
  <1>1. /\ TypeOK /\ turn.base = Len(stored) /\ turn.base > 0 /\ stored \in Seq(StoredMessage)
        /\ turn.base \in Nat /\ turn.base \in 0..Len(stored)
    BY DEF TypeInv, TypeOK, Phase
  <1>2. CASE Assembled(skip) = Cards(skip, turn.base)
    BY <1>1, <1>2, CardsBlocks
  <1>3. ASSUME turn.resolved \in 1..MaxCalls, NEW last \in {turn.base - 1, turn.base},
               Assembled(skip) =
                 Append(Append(Cards(skip, last), CallsMessage({turn.resolved})),
                        Result(turn.resolved, turn.base, stored[turn.base].cost))
        PROVE  Neat(Assembled(skip)) /\ Full(Assembled(skip))
    <2> DEFINE b == Cards(skip, last)
               m == CallsMessage({turn.resolved})
               r == Result(turn.resolved, turn.base, stored[turn.base].cost)
    <2>1. last \in 0..Len(stored) /\ m \in ChatMessage /\ r \in ChatMessage
      BY <1>1, <1>3, ResolvedPieces
    <2>2. /\ b \in Seq(ChatMessage) /\ Neat(b)
          /\ \A i \in DOMAIN b : b[i].role \in {"user", "assistant"}
      BY <1>1, <2>1, CardsBlocks
    <2>3. m.role = "calls" /\ m.ids = {turn.resolved}
      BY DEF CallsMessage
    <2>4. r.role = "tool" /\ r.ids = {turn.resolved}
      BY DEF Result
    <2> HIDE DEF b, m, r
    <2>5. Neat(Append(Append(b, m), r)) /\ Full(Append(Append(b, m), r))
      BY <2>1, <2>2, <2>3, <2>4, PairAppend
    <2> QED
      BY <1>3, <2>5 DEF b, m, r
  <1> QED
    BY <1>1, <1>2, <1>3, AssembledShape

-----------------------------------------------------------------------------
(* The requests of a turn *)

LEMMA CutOffset ==
  ASSUME NEW b \in Seq(ChatMessage), NEW f \in Cuts(b)
  PROVE  f - 1 \in Nat /\ f = (f - 1) + 1
  <1>1. f \in 1..(Len(b) + 1)
    BY SuffixShape
  <1> QED
    BY <1>1

LEMMA SentBlocks ==
  ASSUME NEW b \in Seq(ChatMessage), Neat(b), Full(b)
  PROVE  LET c == Repaired(Prepared(b)) IN Neat(c) /\ Full(c) /\ Blocked(c)
  <1>1. PICK f \in Cuts(b) : Prepared(b) = Suffix(b, f)
    BY PreparedIsSuffix
  <1>2. Prepared(b) \in Seq(ChatMessage) /\ Neat(Prepared(b)) /\ Full(Prepared(b))
    BY <1>1, CutOffset, SuffixShape, NeatSuffix, FullSuffix
  <1> QED
    BY <1>2, RepairedBlocks

LEMMA TrimmedBlocks ==
  ASSUME NEW b \in Seq(ChatMessage), NEW count \in Nat, Neat(b), Full(b), Blocked(b)
  PROVE  LET c == TrimBlocks(b, count) IN Neat(c) /\ Full(c) /\ Blocked(c)
  <1>1. PICK f \in Cuts(b) : TrimBlocks(b, count) = Suffix(b, f)
    BY TrimIsSuffix
  <1> QED
    BY <1>1, CutOffset, NeatSuffix, FullSuffix, BlockedSuffix

LEMMA BlockNext ==
  ASSUME TypeInv, HasUser, BlockInv, [Next]_vars
  PROVE  BlockInv'
  <1>1. CASE UNCHANGED vars
    <2>1. body' = body /\ pc' = pc /\ turn' = turn
      BY <1>1 DEF vars
    <2> QED
      BY <2>1 DEF BlockInv
  <1>2. CASE Next /\ pc' \notin Running
    <2>1. body' = <<>>
      BY <1>2, TypeNext DEF TypeInv, TypeOK, Phase, Labels, Running
    <2> QED
      BY <1>2, <2>1 DEF BlockInv, Running, Neat
  <1>3. CASE Begins
    <2>1. PICK skip \in 0..turn.base : body' = Assembled(skip)
      BY <1>3, BeginShape
    <2>2. pc = "budget" /\ pc' = "round" /\ turn.base \in Nat
      BY <1>3, BeginShape DEF TypeInv, TypeOK, Turn
    <2>3. skip \in Nat
      BY <2>2
    <2> QED
      BY <2>1, <2>2, <2>3, AssembledBlocks DEF BlockInv
  <1>4. CASE Goes /\ Next
    <2>0. /\ stored \in Seq(StoredMessage) /\ body \in Seq(ChatMessage) /\ Len(stored) \in Nat
          /\ turn.base \in Nat /\ turn.base <= Len(stored)
      BY DEF TypeInv, TypeOK, Turn
    <2>1. CASE Send
      <3>1. pc = "round" /\ pc' = "sent" /\ body' = Repaired(Prepared(body))
        BY <2>1 DEF Send
      <3>2. Neat(body) /\ Full(body)
        BY <3>1 DEF BlockInv
      <3>3. Neat(body') /\ Full(body') /\ Blocked(body')
        BY <2>0, <3>1, <3>2, SentBlocks
      <3> QED
        BY <3>1, <3>3 DEF BlockInv
    <2>2. CASE OverflowRetry
      <3>1. OverflowDrop(Len(body)) \in Nat
        BY <2>0, <2>2, DropIsPositive DEF OverflowRetry
      <3>2. pc = "sent" /\ pc' = "sent" /\ body' = TrimBlocks(body, OverflowDrop(Len(body)))
        BY <2>2 DEF OverflowRetry
      <3>3. Neat(body) /\ Full(body) /\ Blocked(body)
        BY <3>2 DEF BlockInv
      <3>4. Neat(body') /\ Full(body') /\ Blocked(body')
        BY <2>0, <3>1, <3>2, <3>3, TrimmedBlocks
      <3> QED
        BY <3>2, <3>4 DEF BlockInv
    <2>3. CASE NextCandidate
      BY <2>3 DEF NextCandidate, BlockInv
    <2>4. CASE \E n \in 1..MaxCalls : Calls(n)
      <3>1. PICK n \in 1..MaxCalls : Calls(n)
        BY <2>4
      <3> DEFINE m == CallsMessage(1..n)
      <3>2. m \in ChatMessage
        BY Sizes, CallsType
      <3>3. m.role = "calls" /\ m.ids = 1..n
        BY DEF CallsMessage
      <3>4. pc = "sent" /\ pc' = "tools" /\ body' = Append(body, m)
        BY <3>1 DEF Calls
      <3>5. turn'.next = 1 /\ turn'.total = n
        BY <3>1 DEF Calls, TypeInv, TypeOK, Turn
      <3>6. n \in Nat /\ Neat(body) /\ Full(body)
        BY <3>4 DEF BlockInv
      <3> HIDE DEF m
      <3>7. Neat(body') /\ Open(body', 1, n)
        BY <2>0, <3>2, <3>3, <3>4, <3>6, CallsAppend
      <3> QED
        BY <3>4, <3>5, <3>7 DEF BlockInv
    <2>5. ASSUME NextCall, pc = "tools",
                 Neat(body') /\ (Open(body', turn.next + 1, turn.total) \/ (Full(body') /\ Closed(body')))
          PROVE  BlockInv'
      <3>1. /\ turn'.next = turn.next + 1 /\ turn'.total = turn.total
            /\ turn.total \in Nat /\ pc' = IF turn.next = turn.total THEN "round" ELSE "tools"
        BY <2>5 DEF NextCall, TypeInv, TypeOK, Turn
      <3>2. CASE pc' = "tools"
        BY <2>5, <3>1, <3>2 DEF BlockInv
      <3>3. CASE pc' = "round" /\ turn.next = turn.total
        <4>1. body' \in Seq(ChatMessage)
          BY <1>4, TypeNext DEF TypeInv, TypeOK
        <4>2. Open(body', turn.total + 1, turn.total) => Full(body')
          BY <3>1, <4>1, OpenIsFull
        <4> QED
          BY <2>5, <3>3, <4>2 DEF BlockInv
      <3> QED
        BY <3>1, <3>2, <3>3
    <2>6. CASE \E cost \in Costs : ToolResult(cost)
      <3>1. PICK cost \in Costs : ToolResult(cost)
        BY <2>6
      <3> DEFINE m == Result(turn.next, Len(stored) + 1, cost)
      <3>2. m \in ChatMessage
        BY <3>1, BatchResult DEF ToolResult
      <3>3. m.role = "tool" /\ m.ids = {turn.next}
        BY DEF Result
      <3>4. pc = "tools" /\ NextCall /\ body' = Append(body, m)
        BY <3>1 DEF ToolResult
      <3> HIDE DEF m
      <3>5. turn.total \in Nat /\ turn.next \in 1..turn.total
        BY <3>4 DEF TypeInv, TypeOK, Turn, Phase
      <3>6. Neat(body) /\ (Open(body, turn.next, turn.total) \/ (Full(body) /\ Closed(body)))
        BY <3>4 DEF BlockInv
      <3>7. CASE Open(body, turn.next, turn.total)
        BY <2>0, <2>5, <3>2, <3>3, <3>4, <3>5, <3>6, <3>7, OpenAppend
      <3>8. CASE Full(body) /\ Closed(body)
        BY <2>0, <2>5, <3>2, <3>3, <3>4, <3>6, <3>8, ClosedAppend
      <3> QED
        BY <3>6, <3>7, <3>8
    <2>7. CASE NewContext
      <3> DEFINE m == Result(turn.next, Len(stored) + 1, 1)
                 b == Rebuilt(LastUser - 1)
      <3>1. m \in ChatMessage
        BY <2>7, BatchResult DEF NewContext
      <3>2. m.role = "tool"
        BY DEF Result
      <3>3. pc = "tools" /\ NextCall /\ body' = Append(b, m)
        BY <2>7 DEF NewContext
      <3>4. LastUser \in 1..Len(stored)
        BY <2>0, <2>7, CurrentUser DEF HasUser, NewContext
      <3>5. LastUser - 1 \in Nat /\ turn.base \in 0..Len(stored)
        BY <2>0, <3>4
      <3>6. b \in Seq(ChatMessage) /\ Neat(b) /\ Full(b) /\ Closed(b)
        BY <2>0, <3>5, CardsBlocks DEF Rebuilt
      <3> HIDE DEF m, b
      <3> QED
        BY <2>5, <3>1, <3>2, <3>3, <3>6, ClosedAppend
    <2> QED
      BY <1>4, <2>1, <2>2, <2>3, <2>4, <2>6, <2>7 DEF Goes
  <1> QED
    BY <1>1, <1>2, <1>3, <1>4, Kinds

\* In every request that is sent, a tool result follows the call it answers and every
\* call has its result: repair_tool_transcript, the trimming by blocks, new_context in
\* the middle of a batch, approvals and overflow retries together keep that, for any
\* number of calls, rounds and retries.
THEOREM RequestsAreWellFormed == Spec => []RequestsWellFormed
  <1>1. Init => BlockInv
    BY DEF Init, BlockInv, Neat
  <1>2. TypeInv /\ HasUser /\ BlockInv /\ [Next]_vars => BlockInv'
    BY BlockNext
  <1>3. TypeInv /\ BlockInv => RequestsWellFormed
    <2> SUFFICES ASSUME TypeInv, BlockInv, pc = "sent"
                 PROVE  /\ \A i \in DOMAIN body : body[i].role = "tool" => Answers(body, i)
                        /\ \A j \in DOMAIN body : \A id \in body[j].ids :
                             body[j].role = "calls" =>
                               \E i \in (j + 1)..Len(body) :
                                   body[i].ids = {id} /\ \A k \in (j + 1)..i : body[k].role = "tool"
      BY DEF RequestsWellFormed
    <2>1. Neat(body) /\ Full(body) /\ Blocked(body) /\ body \in Seq(ChatMessage)
      BY DEF BlockInv, TypeInv, TypeOK
    <2>2. ASSUME NEW i \in DOMAIN body, body[i].role = "tool" PROVE Answers(body, i)
      <3>1. PICK j \in 1..(i - 1) : In(body, j, i)
        BY <2>1, <2>2 DEF Blocked, InBlock, In
      <3>2. /\ body[i].ids \subseteq body[j].ids
            /\ \A k \in (j + 1)..(i - 1) : body[k].ids # body[i].ids
        BY <2>1, <3>1 DEF Neat
      <3>3. \A k \in (j + 1)..(i - 1) : k \in (j + 1)..i
        BY <2>1
      <3> QED
        BY <3>1, <3>2, <3>3 DEF Answers, In
    <2>3. ASSUME NEW j \in DOMAIN body, NEW id \in body[j].ids, body[j].role = "calls"
          PROVE  \E i \in (j + 1)..Len(body) :
                     body[i].ids = {id} /\ \A k \in (j + 1)..i : body[k].role = "tool"
      BY <2>1, <2>3 DEF Full, Answered, In
    <2> QED
      BY <2>2, <2>3
  <1> QED
    BY <1>1, <1>2, <1>3, Typed, PTL DEF Spec

-----------------------------------------------------------------------------
(* Tokens of a request: its sum, counted as units *)

Sum(b, S) == MapThenSumSet(LAMBDA i : b[i].cost, S)

Any(s) == CHOOSE x \in s : TRUE

\* g computes the sums over the subsets of S.
Sums(b, S, g) ==
    g = [s \in SUBSET S |-> IF s = {} THEN 0 ELSE b[Any(s)].cost + g[s \ {Any(s)}]]

LEMMA SumIs ==
  ASSUME NEW b, NEW S
  PROVE  Sum(b, S) = (CHOOSE g : Sums(b, S, g))[S]
  BY Zenon DEF Sum, MapThenSumSet, MapThenFoldSet, Sums, Any

\* The units of the messages at the places s.
Pile(b, i) == {i} \X (1..b[i].cost)
Units(b, s) == UNION {Pile(b, i) : i \in s}

LEMMA PileIs ==
  ASSUME NEW b, NEW i, b[i].cost \in Nat
  PROVE  IsFiniteSet(Pile(b, i)) /\ Cardinality(Pile(b, i)) = b[i].cost
  <1> DEFINE c == b[i].cost
  <1>1. IsFiniteSet(1..c) /\ Cardinality(1..c) = c
    <2>1. c \in Nat /\ c \in Int /\ 1 \in Int
      OBVIOUS
    <2> HIDE DEF c
    <2>2. IsFiniteSet(1..c) /\ Cardinality(1..c) = IF 1 > c THEN 0 ELSE c - 1 + 1
      BY <2>1, FS_Interval
    <2> QED
      BY <2>1, <2>2
  <1>2. IsFiniteSet({i}) /\ Cardinality({i}) = 1
    BY FS_Singleton
  <1>3. IsFiniteSet(Pile(b, i)) /\ Cardinality(Pile(b, i)) = Cardinality({i}) * Cardinality(1..c)
    BY <1>1, <1>2, FS_Product DEF Pile
  <1> QED
    BY <1>1, <1>2, <1>3

LEMMA UnitsFinite ==
  ASSUME NEW b, NEW s, IsFiniteSet(s), \A i \in s : b[i].cost \in Nat
  PROVE  IsFiniteSet(Units(b, s)) /\ Cardinality(Units(b, s)) \in Nat
  <1> DEFINE T == {Pile(b, i) : i \in s}
             f == [i \in s |-> Pile(b, i)]
  <1>1. f \in Surjection(s, T)
    BY DEF Surjection
  <1>2. IsFiniteSet(T)
    BY <1>1, FS_Surjection
  <1>3. \A p \in T : IsFiniteSet(p)
    BY PileIs
  <1>4. IsFiniteSet(UNION T)
    <2> HIDE DEF T
    <2> QED
      BY <1>2, <1>3, FS_UNION
  <1>5. IsFiniteSet(Units(b, s))
    BY <1>4 DEF Units
  <1> QED
    BY <1>5, FS_CardinalityType

\* One place more adds the tokens of its message.
LEMMA UnitsAdd ==
  ASSUME NEW b, NEW s, IsFiniteSet(s), \A i \in s : b[i].cost \in Nat, NEW x \in s
  PROVE  Cardinality(Units(b, s)) = b[x].cost + Cardinality(Units(b, s \ {x}))
  <1> DEFINE r == s \ {x}
             U == Units(b, r)
             P == Pile(b, x)
  <1>1. IsFiniteSet(r) /\ \A i \in r : b[i].cost \in Nat
    BY FS_RemoveElement
  <1>2. IsFiniteSet(U) /\ Cardinality(U) \in Nat
    <2> HIDE DEF r
    <2> QED
      BY <1>1, UnitsFinite
  <1>3. IsFiniteSet(P) /\ Cardinality(P) = b[x].cost
    BY PileIs
  <1>4. Units(b, s) = U \cup P
    BY DEF Units
  <1>5. U \cap P = {}
    <2>1. \A i \in r : \A u \in Pile(b, i) : u[1] = i
      BY DEF Pile
    <2>2. \A u \in P : u[1] = x
      BY DEF Pile
    <2>3. \A u \in U : u[1] \in r
      BY <2>1 DEF Units
    <2>4. x \notin r
      OBVIOUS
    <2> HIDE DEF r, P, U
    <2> QED
      BY <2>2, <2>3, <2>4
  <1>6. Cardinality(U \cap P) = 0
    BY <1>5, FS_EmptySet
  <1> HIDE DEF U, P
  <1>7. Cardinality(U \cup P) = Cardinality(U) + Cardinality(P) - Cardinality(U \cap P)
    BY <1>2, <1>3, FS_Union
  <1>8. Cardinality(Units(b, s)) = b[x].cost + Cardinality(U)
    BY <1>2, <1>3, <1>4, <1>6, <1>7
  <1> QED
    BY <1>8 DEF U

LEMMA SumIsUnits ==
  ASSUME NEW b, NEW S, IsFiniteSet(S), \A i \in S : b[i].cost \in Nat
  PROVE  Sum(b, S) = Cardinality(Units(b, S))
  <1> DEFINE w == [s \in SUBSET S |-> Cardinality(Units(b, s))]
             g == CHOOSE h : Sums(b, S, h)
  <1>1. ASSUME NEW s \in SUBSET S
        PROVE  IsFiniteSet(s) /\ (\A i \in s : b[i].cost \in Nat) /\ Cardinality(s) \in Nat
    BY FS_Subset, FS_CardinalityType
  <1>2. \A s \in SUBSET S : s # {} => Any(s) \in s
    BY DEF Any
  <1>3. Cardinality(Units(b, {})) = 0
    BY FS_EmptySet DEF Units
  <1>4. ASSUME NEW s \in SUBSET S, s # {}
        PROVE  Cardinality(Units(b, s)) = b[Any(s)].cost + Cardinality(Units(b, s \ {Any(s)}))
    BY <1>1, <1>2, <1>4, UnitsAdd
  <1>5. Sums(b, S, w)
    <2>1. \A s \in SUBSET S : s \ {Any(s)} \in SUBSET S
      OBVIOUS
    <2>2. \A s \in SUBSET S :
             w[s] = IF s = {} THEN 0 ELSE b[Any(s)].cost + w[s \ {Any(s)}]
      BY <1>3, <1>4, <2>1
    <2> QED
      BY <2>2 DEF Sums
  <1>6. Sums(b, S, g)
    BY <1>5
  <1> HIDE DEF g, w
  <1>7. \A s \in SUBSET S : g[s] = IF s = {} THEN 0 ELSE b[Any(s)].cost + g[s \ {Any(s)}]
    BY <1>6 DEF Sums
  <1> DEFINE Wrong == {n \in Nat : \E s \in SUBSET S : Cardinality(s) = n /\ g[s] # Cardinality(Units(b, s))}
  <1>8. Wrong = {}
    <2> SUFFICES ASSUME Wrong # {} PROVE FALSE
      OBVIOUS
    <2>1. PICK n \in Wrong : \A m \in Wrong : n <= m
      <3>1. Wrong \in SUBSET Nat
        OBVIOUS
      <3> HIDE DEF Wrong
      <3> QED
        BY <3>1, LeastIn
    <2>2. PICK s \in SUBSET S : Cardinality(s) = n /\ g[s] # Cardinality(Units(b, s))
      BY <2>1
    <2>3. s # {}
      BY <1>3, <1>7, <2>2
    <2> DEFINE r == s \ {Any(s)}
    <2>4. r \in SUBSET S /\ Cardinality(r) = n - 1 /\ n - 1 \in Nat
      <3>1. IsFiniteSet(s) /\ Any(s) \in s /\ Cardinality(s) \in Nat
        BY <1>1, <1>2, <2>3
      <3>2. Cardinality(r) = Cardinality(s) - 1
        BY <3>1, FS_RemoveElement
      <3>3. Cardinality(s) # 0
        BY <2>3, <3>1, FS_EmptySet
      <3> QED
        BY <2>2, <3>1, <3>2, <3>3
    <2>5. g[r] # Cardinality(Units(b, r))
      <3>1. g[s] = b[Any(s)].cost + g[r]
        BY <1>7, <2>3
      <3>2. Cardinality(Units(b, s)) = b[Any(s)].cost + Cardinality(Units(b, r))
        BY <1>4, <2>3
      <3> QED
        BY <2>2, <3>1, <3>2
    <2>6. n - 1 \in Wrong
      BY <2>4, <2>5
    <2> QED
      BY <2>1, <2>4, <2>6
  <1>9. g[S] = Cardinality(Units(b, S))
    <2>1. S \in SUBSET S /\ Cardinality(S) \in Nat
      BY <1>1
    <2> QED
      BY <1>8, <2>1
  <1> QED
    BY <1>9, SumIs DEF g

\* What is left of a request has fewer tokens.
LEMMA SuffixIsCheaper ==
  ASSUME NEW b \in Seq(ChatMessage), NEW f \in Cuts(b), f > 1
  PROVE  Sum(Suffix(b, f), DOMAIN Suffix(b, f)) < Sum(b, DOMAIN b)
         /\ Sum(b, DOMAIN b) \in Nat /\ Sum(Suffix(b, f), DOMAIN Suffix(b, f)) \in Nat
  <1> DEFINE t == Suffix(b, f)
             n == Len(b)
             m == n - f + 1
             A == Units(t, 1..m)
             B == Units(b, 1..n)
  <1>1. /\ t \in Seq(ChatMessage) /\ Len(t) = m /\ f \in 1..(n + 1) /\ n \in Nat /\ m \in Nat
        /\ \A i \in 1..m : t[i] = b[i + f - 1] /\ i + f - 1 \in 1..n
    BY SuffixShape
  <1>2. DOMAIN t = 1..m /\ DOMAIN b = 1..n
    BY <1>1
  <1> HIDE DEF t
  <1>3. /\ \A i \in 1..n : b[i].cost \in Nat /\ b[i].cost > 0
        /\ \A i \in 1..m : t[i].cost \in Nat
    <2>1. \A x \in ChatMessage : x.cost \in Nat /\ x.cost > 0
      BY DEF ChatMessage
    <2> QED
      BY <1>1, <2>1
  <1>4. IsFiniteSet(1..m) /\ IsFiniteSet(1..n)
    BY <1>1, FS_Interval
  <1> HIDE DEF n, m
  <1>5. Sum(t, 1..m) = Cardinality(A) /\ Sum(b, 1..n) = Cardinality(B)
    BY <1>3, <1>4, SumIsUnits
  <1>6. IsFiniteSet(A) /\ Cardinality(A) \in Nat /\ IsFiniteSet(B) /\ Cardinality(B) \in Nat
    BY <1>3, <1>4, UnitsFinite
  <1>7. \A u : u \in A <=> \E i \in 1..m : \E c \in 1..t[i].cost : u = <<i, c>>
    BY DEF Units, Pile
  <1>8. \A u : u \in B <=> \E i \in 1..n : \E c \in 1..b[i].cost : u = <<i, c>>
    BY DEF Units, Pile
  <1> HIDE DEF A, B
  <1> DEFINE h == [u \in A |-> <<u[1] + f - 1, u[2]>>]
  <1>9. h \in Injection(A, B)
    <2>1. \A u \in A : h[u] \in B
      <3> SUFFICES ASSUME NEW u \in A PROVE h[u] \in B
        OBVIOUS
      <3>1. PICK i \in 1..m, c \in Nat : c \in 1..t[i].cost /\ u = <<i, c>>
        BY <1>3, <1>7
      <3>2. h[u] = <<i + f - 1, c>> /\ i + f - 1 \in 1..n /\ c \in 1..b[i + f - 1].cost
        BY <1>1, <3>1
      <3> QED
        BY <1>8, <3>2
    <2>2. \A u, v \in A : h[u] = h[v] => u = v
      <3> SUFFICES ASSUME NEW u \in A, NEW v \in A, h[u] = h[v] PROVE u = v
        OBVIOUS
      <3>1. PICK i \in 1..m, c \in Nat : c \in 1..t[i].cost /\ u = <<i, c>>
        BY <1>3, <1>7
      <3>2. PICK j \in 1..m, d \in Nat : d \in 1..t[j].cost /\ v = <<j, d>>
        BY <1>3, <1>7
      <3>3. i + f - 1 = j + f - 1 /\ c = d
        BY <3>1, <3>2
      <3>4. i = j
        BY <1>1, <3>3
      <3> QED
        BY <3>1, <3>2, <3>3, <3>4
    <2>3. h \in [A -> B]
      BY <2>1
    <2> HIDE DEF h
    <2> QED
      BY <2>2, <2>3 DEF Injection, IsInjective
  <1>10. h \notin Surjection(A, B)
    <2>1. 1 \in 1..n /\ 1 \in 1..b[1].cost
      BY <1>1, <1>3
    <2>2. <<1, 1>> \in B
      BY <1>8, <2>1
    <2>3. \A u \in A : h[u] # <<1, 1>>
      <3> SUFFICES ASSUME NEW u \in A, h[u] = <<1, 1>> PROVE FALSE
        OBVIOUS
      <3>1. PICK i \in 1..m, c \in Nat : c \in 1..t[i].cost /\ u = <<i, c>>
        BY <1>3, <1>7
      <3>2. i + f - 1 = 1
        BY <3>1
      <3> QED
        BY <1>1, <3>2
    <2> QED
      BY <2>2, <2>3 DEF Surjection
  <1>11. Cardinality(A) <= Cardinality(B) /\ Cardinality(A) # Cardinality(B)
    BY <1>6, <1>9, <1>10, FS_Injection
  <1>12. Sum(t, DOMAIN t) < Sum(b, DOMAIN b) /\ Sum(t, DOMAIN t) \in Nat /\ Sum(b, DOMAIN b) \in Nat
    BY <1>2, <1>5, <1>6, <1>11
  <1> QED
    BY <1>12 DEF t

-----------------------------------------------------------------------------
(* Retries *)

\* overflow_trim_drop_count with trim_oldest_message_blocks: an overflow retry has
\* fewer messages and fewer tokens than the request that was too long, also when a
\* block of calls and results goes as one; it never sends the same request again.
THEOREM RetriesGetShorter == Spec => RetriesShrink
  <1>1. ASSUME TypeInv, [Next]_vars, turn'.retry > turn.retry
        PROVE  Len(body') < Len(body) /\ Tokens(body') < Tokens(body)
    <2>0. body \in Seq(ChatMessage) /\ turn \in Turn /\ turn.retry \in Nat /\ Len(body) \in Nat
      <3>1. TypeOK
        BY <1>1 DEF TypeInv
      <3>2. body \in Seq(ChatMessage) /\ turn \in Turn
        BY <3>1 DEF TypeOK
      <3>3. turn.retry \in Nat
        BY <3>2 DEF Turn
      <3> QED
        BY <3>2, <3>3
    <2>1. OverflowRetry
      <3>1. ~(turn.retry > turn.retry) /\ ~(0 > turn.retry)
        BY <2>0
      <3>2. CASE turn' = turn
        BY <1>1, <3>1, <3>2
      <3>3. CASE turn' = NewTurn
        BY <1>1, <3>1, <3>3 DEF NewTurn
      <3>4. ASSUME NEW lossy, NEW n, turn' = [NewTurn EXCEPT !.lossy = lossy, !.base = n]
            PROVE  FALSE
        BY <1>1, <3>1, <3>4 DEF NewTurn
      <3>5. CASE turn' = [NewTurn EXCEPT !.resolved = turn.next]
        BY <1>1, <3>1, <3>5 DEF NewTurn
      <3>6. ASSUME NEW r, NEW n \in {0}, turn' = [turn EXCEPT !.rounds = r, !.retry = n]
            PROVE  FALSE
        BY <1>1, <2>0, <3>1, <3>6 DEF Turn
      <3>7. CASE turn' = [turn EXCEPT !.retry = 0]
        BY <1>1, <2>0, <3>1, <3>7 DEF Turn
      <3>8. ASSUME NEW n, NEW t, turn' = [turn EXCEPT !.next = n, !.total = t]
            PROVE  FALSE
        BY <1>1, <2>0, <3>1, <3>8 DEF Turn
      <3>9. ASSUME NEW n, turn' = [turn EXCEPT !.next = n]
            PROVE  FALSE
        BY <1>1, <2>0, <3>1, <3>9 DEF Turn
      <3>10. ASSUME NEW lossy, NEW n, NEW known,
                    turn' = [turn EXCEPT !.lossy = lossy, !.base = n, !.known = known]
             PROVE  FALSE
        BY <1>1, <2>0, <3>1, <3>10 DEF Turn
      <3>11. CASE \E lossy \in BOOLEAN, cost \in Costs : Chat(lossy, cost)
        BY <3>4, <3>11 DEF Chat
      <3>12. CASE KeepWindow \/ KeepSummary \/ Summarize \/ Truncate
        BY <3>2, <3>12 DEF KeepWindow, KeepSummary, Summarize, Truncate, Begin
      <3>13. CASE Send
        BY <3>6, <3>13 DEF Send
      <3>14. CASE TooManyRounds \/ Answer \/ Stop \/ StopPreserving
        BY <3>3, <3>14 DEF TooManyRounds, Answer, Stop, StopPreserving, End
      <3>15. CASE NextCandidate
        BY <3>7, <3>15 DEF NextCandidate
      <3>16. CASE \E n \in 1..MaxCalls : Calls(n)
        BY <3>8, <3>16 DEF Calls
      <3>17. CASE NewContext \/ \E cost \in Costs : ToolResult(cost)
        BY <3>9, <3>17 DEF NewContext, ToolResult, NextCall
      <3>18. CASE Ask
        BY <3>5, <3>18 DEF Ask
      <3>19. CASE \E lossy \in BOOLEAN, known \in BOOLEAN, cost \in Costs :
                    Resolve(lossy, known, cost)
        BY <3>10, <3>19 DEF Resolve
      <3>20. CASE UNCHANGED vars
        BY <3>2, <3>20 DEF vars
      <3> QED
        BY <1>1, <3>11, <3>12, <3>13, <3>14, <3>15, <3>16, <3>17, <3>18, <3>19, <3>20 DEF
           Next
    <2>2. Len(body) > MinKept /\ body' = TrimBlocks(body, OverflowDrop(Len(body)))
      BY <2>1 DEF OverflowRetry
    <2>3. OverflowDrop(Len(body)) \in Nat /\ OverflowDrop(Len(body)) > 0 /\ body # <<>>
      BY <2>0, <2>2, DropIsPositive, Sizes
    <2>4. PICK f \in Cuts(body) : body' = Suffix(body, f) /\ f > 1
      BY <2>0, <2>2, <2>3, TrimIsSuffix
    <2>5. f \in 1..(Len(body) + 1) /\ Len(Suffix(body, f)) = Len(body) - f + 1
      BY <2>0, SuffixShape
    <2>6. Tokens(body') < Tokens(body)
      <3> DEFINE fixed == Fixed + HeadCost
      <3>1. fixed \in Nat
        <4> DEFINE covered == IF head.covered > 0 THEN SummaryCost ELSE 0
                   dropped == IF head.dropped > 0 THEN 1 ELSE 0
        <4>1. SummaryCost \in Nat /\ Fixed \in Nat
          BY SizesAssumption
        <4>2. covered \in Nat /\ dropped \in Nat
          BY <4>1
        <4>3. fixed = Fixed + (covered + dropped)
          BY DEF HeadCost
        <4> HIDE DEF covered, dropped, fixed
        <4> QED
          BY <4>1, <4>2, <4>3
      <3>2. /\ Sum(body', DOMAIN body') < Sum(body, DOMAIN body)
            /\ Sum(body', DOMAIN body') \in Nat /\ Sum(body, DOMAIN body) \in Nat
        BY <2>0, <2>4, SuffixIsCheaper
      <3>3. \A b : Tokens(b) = fixed + Sum(b, DOMAIN b)
        BY DEF Tokens, Sum
      <3> HIDE DEF fixed
      <3> QED
        BY <3>1, <3>2, <3>3
    <2> QED
      BY <2>0, <2>4, <2>5, <2>6
  <1>2. ASSUME TypeInv, [Next]_vars
        PROVE  [turn'.retry > turn.retry => Len(body') < Len(body) /\ Tokens(body') < Tokens(body)]_vars
    BY <1>1, <1>2
  <1> QED
    BY <1>2, Typed, PTL DEF Spec, RetriesShrink

-----------------------------------------------------------------------------
(* Where each message of the history is when a turn sends its first request *)

LEMMA TokensType ==
  ASSUME TypeOK, NEW b \in Seq(ChatMessage)
  PROVE  Tokens(b) \in Nat
  <1>1. \A i \in DOMAIN b : b[i].cost \in Nat
    <2>1. \A x \in ChatMessage : x.cost \in Nat
      BY DEF ChatMessage
    <2> QED
      BY <2>1
  <1>2. IsFiniteSet(DOMAIN b)
    <2>1. DOMAIN b = 1..Len(b) /\ IsFiniteSet(1..Len(b))
      BY FS_Interval
    <2> QED
      BY <2>1
  <1>3. Sum(b, DOMAIN b) \in Nat
    BY <1>1, <1>2, SumIsUnits, UnitsFinite
  <1>4. Fixed \in Nat /\ SummaryCost \in Nat
    BY SizesAssumption
  <1>5. HeadCost \in Nat
    BY <1>4 DEF HeadCost
  <1> QED
    BY <1>3, <1>4, <1>5 DEF Tokens, Sum

\* A new request shows the history in its order; only the message of the calls is
\* of none.
InOrder(b) == \A k, l \in DOMAIN b : k < l /\ b[k].src > 0 /\ b[l].src > 0 => b[k].src <= b[l].src

LEMMA CardsInOrder ==
  ASSUME stored \in Seq(StoredMessage), NEW skip \in Nat, NEW last \in 0..Len(stored)
  PROVE  /\ InOrder(Cards(skip, last))
         /\ \A k \in DOMAIN Cards(skip, last) : Cards(skip, last)[k].src \in 1..last
  <1> DEFINE c == Cards(skip, last)
  <1>1. c \in Seq(ChatMessage) /\ \A k \in 1..Len(c) : skip + k \in 1..last /\ c[k] = Card(skip + k)
    BY CardsShape
  <1>2. \A k \in 1..last : Card(k).src = k
    BY CardShape
  <1> HIDE DEF c
  <1>3. \A k \in DOMAIN c : c[k].src = skip + k /\ skip + k \in 1..last /\ k \in Nat
    BY <1>1, <1>2
  <1> QED
    BY <1>3 DEF c, InOrder

LEMMA OrderAppend ==
  ASSUME NEW b \in Seq(ChatMessage), NEW m \in ChatMessage, InOrder(b),
         m.src > 0 => \A k \in DOMAIN b : b[k].src <= m.src
  PROVE  InOrder(Append(b, m))
  <1> DEFINE c == Append(b, m)
  <1>1. c[Len(b) + 1] = m /\ \A k \in 1..Len(b) : c[k] = b[k]
    OBVIOUS
  <1>2. DOMAIN c = 1..(Len(b) + 1) /\ DOMAIN b = 1..Len(b) /\ Len(b) \in Nat
    OBVIOUS
  <1> HIDE DEF c
  <1>3. ASSUME NEW k \in DOMAIN c, NEW l \in DOMAIN c, k < l, c[k].src > 0, c[l].src > 0
        PROVE  c[k].src <= c[l].src
    <2>1. k \in DOMAIN b /\ c[k] = b[k]
      BY <1>1, <1>2, <1>3
    <2>2. CASE l = Len(b) + 1
      BY <1>1, <1>3, <2>1, <2>2
    <2>3. CASE l # Len(b) + 1
      BY <1>1, <1>2, <1>3, <2>1, <2>3 DEF InOrder
    <2> QED
      BY <2>2, <2>3
  <1> QED
    BY <1>3 DEF InOrder, c

LEMMA AssembledInOrder ==
  ASSUME TypeInv, turn.base = Len(stored), turn.base > 0, NEW skip \in Nat
  PROVE  InOrder(Assembled(skip))
  <1>1. TypeOK /\ stored \in Seq(StoredMessage) /\ turn.base \in Nat
    BY DEF TypeInv, TypeOK
  <1>2. CASE Assembled(skip) = Cards(skip, turn.base)
    BY <1>1, <1>2, CardsInOrder
  <1>3. ASSUME turn.resolved \in 1..MaxCalls, NEW last \in {turn.base - 1, turn.base},
               Assembled(skip) =
                 Append(Append(Cards(skip, last), CallsMessage({turn.resolved})),
                        Result(turn.resolved, turn.base, stored[turn.base].cost))
        PROVE  InOrder(Assembled(skip))
    <2> DEFINE c == Cards(skip, last)
               m == CallsMessage({turn.resolved})
               r == Result(turn.resolved, turn.base, stored[turn.base].cost)
    <2>1. /\ last \in 0..Len(stored) /\ c \in Seq(ChatMessage) /\ m \in ChatMessage
          /\ r \in ChatMessage /\ r.src = turn.base
      BY <1>1, <1>3, ResolvedPieces
    <2>2. InOrder(c) /\ \A k \in DOMAIN c : c[k].src \in 1..last
      BY <1>1, <2>1, CardsInOrder
    <2>3. m.src = 0
      BY DEF CallsMessage
    <2> HIDE DEF c, m, r
    <2>4. Append(c, m) \in Seq(ChatMessage) /\ InOrder(Append(c, m))
      BY <2>1, <2>2, <2>3, OrderAppend
    <2>5. ASSUME NEW k \in DOMAIN Append(c, m) PROVE Append(c, m)[k].src <= turn.base
      <3>1. k \in 1..(Len(c) + 1) /\ Len(c) \in Nat
        BY <2>1
      <3>2. CASE k = Len(c) + 1
        BY <1>1, <2>1, <2>3, <3>2
      <3>3. CASE k # Len(c) + 1
        <4>1. k \in DOMAIN c /\ Append(c, m)[k] = c[k]
          BY <2>1, <3>1, <3>3
        <4> QED
          BY <1>1, <1>3, <2>2, <4>1
      <3> QED
        BY <3>2, <3>3
    <2>6. InOrder(Append(Append(c, m), r))
      BY <2>1, <2>4, <2>5, OrderAppend
    <2> QED
      BY <1>3, <2>6 DEF c, m, r
  <1> QED
    BY <1>1, <1>2, <1>3, AssembledShape

\* prepare_request_messages leaves a request that fits alone.
LEMMA FittingIsKept ==
  ASSUME NEW b \in Seq(ChatMessage), ~turn.lossy \/ Tokens(b) <= Budget
  PROVE  Prepared(b) = b
  <1>1. CASE ~turn.lossy
    BY <1>1 DEF Prepared
  <1>2. CASE turn.lossy
    <2> DEFINE starts == BlockStarts(b)
               Rank(i) == Cardinality(Before(starts, i))
    <2>1. starts \in SUBSET (1..Len(b)) /\ Cardinality(starts) \in Nat
      BY StartsFinite
    <2>2. TrimBlocks(b, 0) = b
      <3>0. IsFiniteSet(starts)
        <4>1. IsFiniteSet(1..Len(b))
          BY FS_Interval
        <4> QED
          BY <2>1, <4>1, FS_Subset
      <3>1. CASE 0 >= Cardinality(starts)
        <4>1. starts = {}
          BY <2>1, <3>0, <3>1, FS_EmptySet
        <4>2. b = <<>>
          BY <4>1, FirstCut DEF Cuts
        <4> QED
          BY <3>1, <4>2 DEF TrimBlocks
      <3>2. CASE ~(0 >= Cardinality(starts))
        <4> DEFINE first == CHOOSE i \in starts : Rank(i) = 0
        <4>1. \E i \in starts : Rank(i) = 0
          <5>1. 0 < Cardinality(starts) /\ Len(b) \in Nat
            BY <2>1, <3>2
          <5> HIDE DEF starts
          <5> QED
            BY <2>1, <5>1, Ranked
        <4>2. first \in starts /\ Rank(first) = 0
          BY <4>1
        <4>3. TrimBlocks(b, 0) = Suffix(b, first)
          BY <3>2 DEF TrimBlocks, Suffix, Before
        <4> HIDE DEF first
        <4>4. 1 \in starts
          <5>1. 1 \in Cuts(b) /\ starts # {}
            BY <4>2, FirstCut
          <5>2. b # <<>>
            BY <2>1, <5>1
          <5> QED
            BY <5>1, <5>2 DEF Cuts
        <4>5. first = 1
          <5>1. SUFFICES ASSUME first # 1 PROVE FALSE
            OBVIOUS
          <5>2. 1 < first
            BY <2>1, <4>2, <5>1
          <5>3. 1 \in Before(starts, first)
            BY <4>4, <5>2 DEF Before
          <5>4. IsFiniteSet(Before(starts, first))
            BY <3>0, FS_Subset DEF Before
          <5> QED
            BY <4>2, <5>3, <5>4, FS_EmptySet
        <4> QED
          BY <4>3, <4>5, FirstCut
      <3> QED
        BY <3>1, <3>2
    <2>3. Tokens(TrimBlocks(b, 0)) <= Budget
      BY <1>2, <2>2
    <2> DEFINE blocks == Cardinality(starts)
               N == {n \in 0..blocks : n = blocks \/ Tokens(TrimBlocks(b, n)) <= Budget}
    <2>4. N \in SUBSET Nat /\ 0 \in N
      BY <2>1, <2>3
    <2>5. Prepared(b) = TrimBlocks(b, Min(N))
      BY <1>2 DEF Prepared
    <2>6. Min(N) = 0
      <3> HIDE DEF N
      <3>0. N # {}
        BY <2>4
      <3>1. Min(N) \in N /\ \A n \in N : Min(N) <= n
        BY <2>4, <3>0, MinIn
      <3>2. Min(N) \in Nat /\ Min(N) <= 0
        BY <2>4, <3>1
      <3> QED
        BY <3>2
    <2> QED
      BY <2>2, <2>5, <2>6
  <1> QED
    BY <1>1, <1>2

\* What the first request of a turn starts from, until it is sent.
Opened ==
    pc = "round" /\ turn.rounds = 0 =>
        /\ turn.base = Len(stored) /\ turn.base > 0
        /\ head.covered \in {0, compacted}
        /\ \E skip \in 0..turn.base :
             /\ body = Assembled(skip)
             /\ turn.lossy => skip <= head.covered + head.dropped
             /\ ~turn.lossy => skip <= window

\* The saved summary has read the last message it counts for.
LastRead == \A j \in unread : j < compacted

LEMMA OpenedNext ==
  ASSUME TypeInv, HasUser, Opened, [Next]_vars
  PROVE  Opened'
  <1>1. CASE UNCHANGED vars
    <2>1. \A skip : Assembled(skip)' = Assembled(skip)
      BY <1>1 DEF vars, Assembled, Cards, Card, Previewed, CallsMessage, Result, AtMost,
         AtLeast
    <2> QED
      BY <1>1, <2>1 DEF vars, Opened
  <1>2. CASE Begins
    <2>1. PICK skip \in 0..turn.base :
            /\ body' = Assembled(skip)
            /\ turn.lossy => skip <= head'.covered + head'.dropped
            /\ ~turn.lossy => skip <= window
      BY <1>2, BeginShape
    <2>2. /\ pc = "budget" /\ turn' = turn /\ window' = window /\ stored' = stored
          /\ turn.base = Len(stored) /\ turn.base > 0
      BY <1>2, BeginShape
    <2>3. \A s : Assembled(s)' = Assembled(s)
      BY <2>2 DEF Assembled, Cards, Card, Previewed, CallsMessage, Result, AtMost, AtLeast
    <2>4. head'.covered \in {0, compacted'}
      <3>1. Covered = compacted
        BY <2>2, BudgetSkips
      <3>2. CASE KeepWindow
        BY <3>2 DEF KeepWindow, Begin, NoHead
      <3>3. CASE KeepSummary
        BY <3>1, <3>3 DEF KeepSummary, Begin
      <3>4. CASE Summarize
        BY <3>4 DEF Summarize, Begin
      <3>5. CASE Truncate
        BY <3>1, <3>5 DEF Truncate, Begin
      <3> QED
        BY <1>2, <3>2, <3>3, <3>4, <3>5 DEF Begins
    <2> QED
      BY <2>1, <2>2, <2>3, <2>4 DEF Opened
  <1>3. CASE Goes
    <2>1. turn'.rounds > 0 /\ turn'.rounds \in Nat
      BY <1>3, GoesFrame, TypeNext DEF TypeInv, TypeOK, Turn
    <2> QED
      BY <2>1 DEF Opened
  <1>4. CASE Next /\ pc' \notin Running
    BY <1>4 DEF Opened, Running
  <1> QED
    BY <1>1, <1>2, <1>3, <1>4, Kinds

LEMMA LastReadNext ==
  ASSUME TypeInv, LastRead, [Next]_vars
  PROVE  LastRead'
  <1>1. CASE Summarize
    BY <1>1, UnreadShape DEF Summarize, LastRead
  <1>2. CASE UNCHANGED <<compacted, unread>>
    BY <1>2 DEF LastRead
  <1> QED
    BY <1>1, <1>2 DEF Next, vars, Chat, KeepWindow, KeepSummary, Truncate, Send,
       TooManyRounds,
       OverflowRetry, NextCandidate, Answer, Calls, ToolResult, NewContext, Ask, Resolve, Stop,
       StopPreserving, store

\* The request that is sent shows every message of the new one, or, when that one
\* was too long, none up to the last that it leaves out.
LEMMA SentShows ==
  ASSUME TypeInv, Send, InOrder(body), NEW i \in Nat, i > 0, Shows(body, i), ~Shows(body', i)
  PROVE  turn.lossy /\ Tokens(body) > Budget /\ \A j \in 1..i : ~Shows(body', j)
  <1>1. body \in Seq(ChatMessage) /\ body' = Repaired(Prepared(body))
    BY DEF Send, TypeInv, TypeOK
  <1>2. turn.lossy /\ ~(Tokens(body) <= Budget)
    <2>1. SUFFICES ASSUME ~turn.lossy \/ Tokens(body) <= Budget PROVE FALSE
      OBVIOUS
    <2>2. Prepared(body) = body
      BY <1>1, <2>1, FittingIsKept
    <2> QED
      BY <1>1, <2>2, RepairedShows
  <1>3. Tokens(body) > Budget
    BY <1>1, <1>2, TokensType, SizesAssumption DEF TypeInv
  <1>4. PICK f \in Cuts(body) : Prepared(body) = Suffix(body, f)
    BY <1>1, PreparedIsSuffix
  <1>5. /\ f \in 1..(Len(body) + 1) /\ Suffix(body, f) \in Seq(ChatMessage)
        /\ Len(Suffix(body, f)) = Len(body) - f + 1
        /\ \A k \in 1..(Len(body) - f + 1) : Suffix(body, f)[k] = body[k + f - 1]
    BY <1>1, SuffixShape
  <1> DEFINE t == Suffix(body, f)
             n == Len(body)
  <1>a. /\ n \in Nat /\ DOMAIN body = 1..n /\ f \in 1..(n + 1)
        /\ t \in Seq(ChatMessage) /\ Len(t) = n - f + 1 /\ body' = Repaired(t)
        /\ \A k \in 1..(n - f + 1) : t[k] = body[k + f - 1]
    BY <1>1, <1>4, <1>5
  <1> HIDE DEF t, n
  <1>b. DOMAIN t = 1..(n - f + 1)
    BY <1>a
  <1>6. ASSUME NEW j \in 1..i, Shows(body', j) PROVE FALSE
    <2>1. PICK k \in DOMAIN body' : body'[k].src = j
      BY <1>6 DEF Shows
    <2>2. k \in 1..(n - f + 1) /\ body[k + f - 1].src = j
      <3>1. /\ body' \in Seq(ChatMessage) /\ Len(body') = n - f + 1
            /\ \A x \in 1..(n - f + 1) : body'[x].src = t[x].src
        <4>1. /\ Repaired(t) \in Seq(ChatMessage) /\ Len(Repaired(t)) = Len(t)
              /\ \A x \in 1..Len(t) : Repaired(t)[x].src = t[x].src
          BY <1>a, RepairedShape
        <4> QED
          BY <1>a, <4>1
      <3>2. DOMAIN body' = 1..(n - f + 1)
        BY <1>a, <3>1
      <3> QED
        BY <1>a, <2>1, <3>1, <3>2
    <2>3. PICK l \in DOMAIN body : body[l].src = i
      BY DEF Shows
    <2>4. l < f
      <3>1. SUFFICES ASSUME ~(l < f) PROVE FALSE
        OBVIOUS
      <3>2. l - f + 1 \in 1..(n - f + 1) /\ (l - f + 1) + f - 1 = l
        BY <1>a, <2>3, <3>1
      <3>3. t[l - f + 1].src = i /\ l - f + 1 \in DOMAIN t
        BY <1>a, <1>b, <2>3, <3>2
      <3>4. Shows(t, i)
        BY <3>3 DEF Shows
      <3> QED
        BY <1>a, <3>4, RepairedShows
    <2>5. k + f - 1 \in DOMAIN body /\ l < k + f - 1
      BY <1>a, <2>2, <2>3, <2>4
    <2>6. i <= j
      BY <2>2, <2>3, <2>5 DEF InOrder
    <2>7. i = j
      BY <2>6
    <2> QED
      BY <1>6, <2>7
  <1> QED
    BY <1>2, <1>3, <1>6

\* When the first request of a turn is sent, each message of the history is shown in
\* it, counted by its notice or its summary, or before the window the model asked
\* for; one that only the summary's count stands for is older than one the summary
\* has read, and one that is in none of them was trimmed, with all that are older,
\* from a request over its budget.
THEOREM HistoryAccountedFor == Spec => NothingLeftOut
  <1> DEFINE Told(i) ==
        \/ Shown(i)'
        \/ i \in (head.covered + 1)..(head.covered + head.dropped)
        \/ ~turn.lossy /\ i <= window
        \/ i <= head.covered /\ \E j \in i..head.covered : j \notin unread
        \/ turn.lossy /\ Tokens(body) > Budget /\ \A j \in 1..i : ~Shown(j)'
  <1>1. Init => Opened /\ LastRead
    BY DEF Init, Opened, LastRead
  <1>2. TypeInv /\ HasUser /\ Opened /\ LastRead /\ [Next]_vars => (Opened /\ LastRead)'
    BY OpenedNext, LastReadNext
  <1>3. ASSUME TypeInv, Opened, LastRead, [Next]_vars,
               pc = "round", turn.rounds = 0, pc' = "sent", NEW i \in 1..turn.base
        PROVE  Told(i)
    <2>1. Send
      BY <1>3 DEF Next, vars, Chat, KeepWindow, KeepSummary, Summarize, Truncate, Begin,
         TooManyRounds, End, OverflowRetry, NextCandidate, Answer, Calls, ToolResult, NewContext,
         NextCall, Ask, Resolve, Stop, StopPreserving
    <2>2. /\ turn.base = Len(stored) /\ turn.base > 0 /\ turn.base \in Nat
          /\ head.covered \in {0, compacted}
          /\ head.covered \in Nat /\ head.dropped \in Nat /\ window \in Nat
          /\ turn.lossy \in BOOLEAN /\ compacted \in Nat
      BY <1>3 DEF Opened, TypeInv, TypeOK, HeadNote, Turn
    <2>3. PICK skip \in 0..turn.base :
            /\ body = Assembled(skip)
            /\ turn.lossy => skip <= head.covered + head.dropped
            /\ ~turn.lossy => skip <= window
      BY <1>3 DEF Opened
    <2>4. CASE i > skip
      <3>1. Shows(body, i) /\ InOrder(body)
        BY <1>3, <2>2, <2>3, <2>4, AssembledShows, AssembledInOrder
      <3>2. \A j : Shown(j)' <=> Shows(body', j)
        BY DEF Shown, Shows
      <3> QED
        BY <1>3, <2>1, <2>2, <3>1, <3>2, SentShows
    <2>5. CASE ~(i > skip) /\ ~turn.lossy
      BY <1>3, <2>2, <2>3, <2>5
    <2>6. CASE ~(i > skip) /\ turn.lossy
      <3>1. i <= head.covered + head.dropped
        BY <1>3, <2>2, <2>3, <2>6
      <3>2. CASE i <= head.covered
        <4>1. head.covered = compacted /\ compacted \notin unread
          BY <1>3, <2>2, <3>2 DEF LastRead
        <4> QED
          BY <1>3, <2>2, <3>2, <4>1
      <3>3. CASE ~(i <= head.covered)
        BY <1>3, <2>2, <3>1, <3>3
      <3> QED
        BY <3>2, <3>3
    <2> QED
      BY <2>4, <2>5, <2>6
  <1>4. TypeInv /\ Opened /\ LastRead /\ [Next]_vars
          => [pc = "round" /\ turn.rounds = 0 /\ pc' = "sent"
                => \A i \in 1..turn.base : Told(i)]_vars
    BY <1>3
  <1> QED
    BY <1>1, <1>2, <1>4, Typed, PTL DEF Spec, NothingLeftOut

================================================================================
