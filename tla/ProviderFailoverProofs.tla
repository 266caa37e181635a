------------------------ MODULE ProviderFailoverProofs ------------------------
(***************************************************************************)
(* Theorems about ProviderFailover, for any configuration of providers,    *)
(* keys, routes and limits and any number of turns and relay requests.     *)
(*                                                                         *)
(* The shared maps only need their types.  What the properties rest on is  *)
(* an invariant of each turn by itself, Good(label, r), a predicate on the *)
(* place of a turn and its locals: every step of a turn goes through Set,  *)
(* so it is enough to show Good of the pair that Set writes.               *)
(***************************************************************************)
EXTENDS ProviderFailover, FiniteSetTheorems, TLAPS

\* Labels at which the turn works on the candidate it has found usable.
Trying == {"circuit", "open", "head", "describe", "stream", "won", "failed", "blame", "wait"}

Relaying == {"relayed", "relay_end"}

\* Requests to the candidate that the retry counter does not count.
Uncounted(r) == IF r.native THEN 0 ELSE 1

\* Every refusal of the model is in model_incompatible_provider_ids, except the one
\* that RejectModel is about to add.
Remembers(label, r) ==
    \/ r.refusers \subseteq r.bad
    \/ /\ label = "failed" /\ r.kind = "model"
       /\ r.refusers \subseteq r.bad \cup {ProviderOf[r.list[r.at]]}

Good(label, r) ==
    /\ label \in Labels
    /\ r \in Turn
    /\ r.list \in Seq(KeysOf(InTrust))
    /\ r.at >= 1
    /\ label \in Trying \cup Relaying => r.at <= Len(r.list)
    /\ label \in Trying => ProviderOf[r.list[r.at]] \notin r.bad
    /\ Remembers(label, r)
    /\ r.shown => label \in {"failed", "blame"}
    /\ r.answers <= 1
    /\ r.answers = 1 => label \in {"won", "answered", "select"}
    /\ r.retry <= MaxRetries + 1
    /\ ~r.echoed => r.retry <= MaxRetries
    /\ r.sent <= MaxRetries + 3
    /\ label \in {"head", "describe", "wait"} => r.sent <= r.retry + Uncounted(r)
    /\ label \in {"stream", "failed"} => r.sent <= r.retry + Uncounted(r) + 1
    /\ label \in {"stream", "failed"} => r.sent >= 1
    /\ r.shown => r.kind \in AfterText

Maps ==
    /\ block \in [Keys -> Block]
    /\ circuit \in [Keys -> Circuit]
    /\ starts \in Nat

Turning ==
    /\ pc \in [Turns -> Labels]
    /\ turn \in [Turns -> Turn]
    /\ \A t \in Turns : Good(pc[t], turn[t])

FailoverInv == Maps /\ Turning

-----------------------------------------------------------------------------
(* Lists of candidates *)

LEMMA ListType ==
  ASSUME NEW P \in SUBSET InTrust, NEW first, NEW s \in Lists(P, first)
  PROVE  s \in Seq(KeysOf(InTrust)) /\ s \in Seq(Keys)
  <1>1. IsFiniteSet(KeysOf(P))
    BY ConfigAssumption, FS_Subset DEF KeysOf
  <1>2. Cardinality(KeysOf(P)) \in Nat
    BY <1>1, FS_CardinalityType
  <1>3. s \in [1..Cardinality(KeysOf(P)) -> KeysOf(P)]
    BY DEF Lists
  <1>4. KeysOf(P) \subseteq KeysOf(InTrust) /\ KeysOf(P) \subseteq Keys
    BY DEF KeysOf
  <1> QED
    BY <1>2, <1>3, <1>4

LEMMA ActiveTrusted == Active \in InTrust /\ {Active} \in SUBSET InTrust
  BY ConfigAssumption DEF InTrust

LEMMA SelectedTrusted ==
  /\ RoutesToTry \in SUBSET InTrust
  /\ Backups \in SUBSET InTrust
  BY ActiveTrusted, ConfigAssumption DEF RoutesToTry, EligibleRoutes, Backups

-----------------------------------------------------------------------------
(* The shared maps *)

LEMMA CircuitUpdates ==
  ASSUME NEW x \in Circuit
  PROVE  /\ [x EXCEPT !.phase = "half", !.successes = 0] \in Circuit
         /\ [x EXCEPT !.phase = "expired"] \in Circuit
         /\ [x EXCEPT !.requests = @ + 1, !.streak = 0] \in Circuit
         /\ [x EXCEPT !.successes = @ + 1] \in Circuit
         /\ [x EXCEPT !.requests = @ + 1, !.failures = @ + 1, !.streak = @ + 1] \in Circuit
         /\ [x EXCEPT !.phase = "open", !.successes = 0] \in Circuit
         /\ NewCircuit \in Circuit
  <1> USE DEF Circuit
  <1>1. [x EXCEPT !.phase = "half", !.successes = 0] \in Circuit
    OBVIOUS
  <1>2. [x EXCEPT !.phase = "expired"] \in Circuit
    OBVIOUS
  <1>3. [x EXCEPT !.requests = @ + 1, !.streak = 0] \in Circuit
    <2>1. x.requests + 1 \in Nat
      OBVIOUS
    <2> QED BY <2>1
  <1>4. [x EXCEPT !.successes = @ + 1] \in Circuit
    <2>1. x.successes + 1 \in Nat
      OBVIOUS
    <2> QED BY <2>1
  <1>5. [x EXCEPT !.requests = @ + 1, !.failures = @ + 1, !.streak = @ + 1] \in Circuit
    <2>1. x.requests + 1 \in Nat /\ x.failures + 1 \in Nat /\ x.streak + 1 \in Nat
      OBVIOUS
    <2> QED BY <2>1
  <1>6. [x EXCEPT !.phase = "open", !.successes = 0] \in Circuit
    OBVIOUS
  <1>7. NewCircuit \in Circuit
    BY DEF NewCircuit
  <1> QED
    BY <1>1, <1>2, <1>3, <1>4, <1>5, <1>6, <1>7

LEMMA MapUpdates ==
  ASSUME Maps, NEW c \in Keys
  PROVE  /\ Succeeded(c) \in [Keys -> Circuit]
         /\ Failed(c) \in [Keys -> Circuit]
         /\ [circuit EXCEPT ![c].phase = "expired"] \in [Keys -> Circuit]
         /\ [block EXCEPT ![c] = "none"] \in [Keys -> Block]
  <1> USE DEF Maps
  <1>1. Succeeded(c) \in [Keys -> Circuit]
    BY CircuitUpdates DEF Succeeded
  <1>2. Failed(c) \in [Keys -> Circuit]
    BY CircuitUpdates DEF Failed
  <1>3. [circuit EXCEPT ![c].phase = "expired"] \in [Keys -> Circuit]
    BY CircuitUpdates
  <1>4. [block EXCEPT ![c] = "none"] \in [Keys -> Block]
    BY DEF Block
  <1> QED
    BY <1>1, <1>2, <1>3, <1>4

LEMMA TouchedType ==
  ASSUME NEW C \in [Keys -> Circuit], NEW S
  PROVE  Touched(C, S) \in [Keys -> Circuit]
  BY CircuitUpdates DEF Touched

LEMMA ReleaseType ==
  ASSUME Maps, NEW S \in SUBSET Keys
  PROVE  ReleaseOpen(S) \in [Keys -> Circuit] /\ Release(S) \in [Keys -> Block]
  <1>1. ReleaseOpen(S) \in [Keys -> Circuit]
    BY CircuitUpdates DEF ReleaseOpen, Maps
  <1>2. Release(S) \in [Keys -> Block]
    BY DEF Release, Block, Maps
  <1> QED
    BY <1>1, <1>2

LEMMA BlamedType ==
  ASSUME Maps, NEW c \in Keys, NEW kind
  PROVE  Blamed(c, kind) \in [Keys -> Block]
  BY DEF Blamed, Blames, Block, Maps

-----------------------------------------------------------------------------
(* One turn: what each step writes is Good *)

LEMMA TurnFields ==
  ASSUME NEW x \in Turn
  PROVE  /\ x.list \in Seq(Keys) /\ x.at \in Nat /\ x.bad \in SUBSET Providers
         /\ x.refusers \in SUBSET Providers
         /\ x.retry \in Nat /\ x.native \in BOOLEAN /\ x.echoed \in BOOLEAN
         /\ x.leak \in BOOLEAN /\ x.kind \in Kinds \cup {"none"} /\ x.rounds \in Nat
         /\ x.sent \in Nat /\ x.shown \in BOOLEAN
         /\ x.tried \in BOOLEAN /\ x.owed \in BOOLEAN /\ x.answers \in Nat
  BY DEF Turn

LEMMA SetGood ==
  ASSUME Turning, NEW t \in Turns, NEW label, NEW r, Good(label, r), Set(t, label, r)
  PROVE  Turning'
  <1>1. label \in Labels /\ r \in Turn
    BY DEF Good
  <1>2. pc' = [pc EXCEPT ![t] = label] /\ turn' = [turn EXCEPT ![t] = r]
    BY DEF Set
  <1>3. ASSUME NEW u \in Turns PROVE Good(pc'[u], turn'[u])
    BY <1>2 DEF Turning
  <1> QED
    BY <1>1, <1>2, <1>3 DEF Turning

LEMMA NoTurnGood ==
  ASSUME NEW label \in {"idle", "select", "relay"}
  PROVE  Good(label, NoTurn)
  <1>1. NoTurn \in Turn
    BY DEF NoTurn, Turn
  <1>2. NoTurn.list \in Seq(KeysOf(InTrust))
    BY DEF NoTurn
  <1> QED
    BY <1>1, <1>2, LimitsAssumption DEF Good, Remembers, NoTurn, Labels, Trying, Relaying

LEMMA SelectGood ==
  ASSUME NEW x, Good("select", x), NEW s \in Seq(KeysOf(InTrust)), s \in Seq(Keys),
         NEW label \in {"exhausted", "circuits"}
  PROVE  Good(label, [x EXCEPT !.list = s, !.at = 1, !.leak = FALSE,
                               !.rounds = @ + 1, !.answers = 0,
                               !.tried = FALSE, !.owed = FALSE])
  <1> DEFINE y == [x EXCEPT !.list = s, !.at = 1, !.leak = FALSE,
                            !.rounds = @ + 1, !.answers = 0,
                            !.tried = FALSE, !.owed = FALSE]
  <1>1. x \in Turn
    BY DEF Good
  <1>2. y \in Turn
    <2>1. x.rounds + 1 \in Nat
      BY <1>1, TurnFields
    <2> QED
      BY <1>1, <2>1 DEF Turn
  <1>3. /\ y.list = s /\ y.at = 1 /\ y.answers = 0 /\ y.shown = x.shown
        /\ y.bad = x.bad
        /\ y.refusers = x.refusers /\ y.retry = x.retry /\ y.echoed = x.echoed
        /\ y.sent = x.sent
    BY <1>1 DEF Turn
  <1>4. Remembers(label, y)
    BY <1>1, <1>3, TurnFields DEF Good, Remembers
  <1> QED
    BY <1>2, <1>3, <1>4 DEF Good, Labels, Trying, Relaying

\* Going to another label with the same locals.
LEMMA MoveGood ==
  ASSUME NEW x,
         \/ Good("key", x) /\ x.at > Len(x.list)
         \/ Good("circuit", x) \/ Good("wait", x) \/ Good("head", x) \/ Good("won", x) \/ Good("answered", x)
  PROVE  /\ Good("key", x) => Good("exhausted", x)
         /\ Good("circuit", x) => Good("open", x)
         /\ Good("wait", x) => Good("head", x)
         /\ Good("head", x) => Good("describe", x)
         /\ Good("won", x) => Good("answered", x)
         /\ Good("answered", x) => Good("select", x)
  BY DEF Good, Remembers, Labels, Trying, Relaying

LEMMA EnterGood ==
  ASSUME NEW x, Good("key", x), x.at <= Len(x.list), ProviderOf[x.list[x.at]] \notin x.bad
  PROVE  Good("circuit", x)
  BY DEF Good, Remembers, Labels, Trying, Relaying

LEMMA OwedGood ==
  ASSUME NEW x, NEW label \in {"circuits", "keys"}, Good(label, x), NEW b \in BOOLEAN,
         NEW next \in {"keys", "key"}
  PROVE  Good(next, [x EXCEPT !.owed = b])
  <1> DEFINE y == [x EXCEPT !.owed = b]
  <1>1. x \in Turn
    BY DEF Good
  <1>2. y \in Turn
    BY <1>1 DEF Turn
  <1>3. /\ y.list = x.list /\ y.at = x.at /\ y.bad = x.bad /\ y.refusers = x.refusers
        /\ y.retry = x.retry
        /\ y.native = x.native /\ y.echoed = x.echoed /\ y.kind = x.kind /\ y.sent = x.sent
        /\ y.shown = x.shown /\ y.answers = x.answers
    BY <1>1 DEF Turn
  <1>4. Remembers(next, y)
    BY <1>1, <1>3, TurnFields DEF Good, Remembers
  <1> QED
    BY <1>1, <1>2, <1>3, <1>4, TurnFields, LimitsAssumption DEF Good, Labels, Trying,
       Relaying,
       Uncounted, AfterText

LEMMA AdvanceGood ==
  ASSUME NEW x, NEW label \in Labels \ {"failed"}, Good(label, x), ~x.shown, x.answers = 0
  PROVE  Good("key", [x EXCEPT !.at = @ + 1, !.kind = "none"])
  <1> DEFINE y == [x EXCEPT !.at = @ + 1, !.kind = "none"]
  <1>1. x \in Turn
    BY DEF Good
  <1>2. y \in Turn
    <2>1. x.at + 1 \in Nat
      BY <1>1, TurnFields
    <2> QED
      BY <1>1, <2>1 DEF Turn
  <1>3. /\ y.at = x.at + 1 /\ y.kind = "none" /\ y.list = x.list /\ y.bad = x.bad
        /\ y.refusers = x.refusers /\ y.retry = x.retry /\ y.native = x.native
        /\ y.echoed = x.echoed /\ y.sent = x.sent
        /\ y.shown = x.shown /\ y.answers = x.answers
    BY <1>1 DEF Turn
  <1>4. Remembers("key", y)
    BY <1>1, <1>3, TurnFields DEF Good, Remembers
  <1> QED
    BY <1>1, <1>2, <1>3, <1>4, TurnFields, LimitsAssumption DEF Good, Labels, Trying,
       Relaying,
       Uncounted, AfterText

LEMMA OpenGood ==
  ASSUME NEW x, Good("open", x), NEW native \in BOOLEAN
  PROVE  Good("head", [x EXCEPT !.retry = 0, !.sent = 0, !.native = native])
  <1> DEFINE y == [x EXCEPT !.retry = 0, !.sent = 0, !.native = native]
  <1>1. x \in Turn
    BY DEF Good
  <1>2. y \in Turn
    BY <1>1 DEF Turn
  <1>3. /\ y.retry = 0 /\ y.sent = 0 /\ y.native = native /\ y.list = x.list
        /\ y.at = x.at /\ y.bad = x.bad /\ y.refusers = x.refusers /\ y.echoed = x.echoed
        /\ y.kind = x.kind
        /\ y.shown = x.shown /\ y.answers = x.answers
    BY <1>1 DEF Turn
  <1>4. Remembers("head", y)
    BY <1>1, <1>3, TurnFields DEF Good, Remembers
  <1> QED
    BY <1>1, <1>2, <1>3, <1>4, TurnFields, LimitsAssumption DEF Good, Labels, Trying,
       Relaying,
       Uncounted, AfterText

LEMMA TriedGood ==
  ASSUME NEW x, Good("open", x)
  PROVE  Good("open", [x EXCEPT !.tried = TRUE])
  <1> DEFINE y == [x EXCEPT !.tried = TRUE]
  <1>1. x \in Turn
    BY DEF Good
  <1>2. y \in Turn
    BY <1>1 DEF Turn
  <1>3. /\ y.list = x.list /\ y.at = x.at /\ y.bad = x.bad /\ y.refusers = x.refusers
        /\ y.retry = x.retry
        /\ y.native = x.native /\ y.echoed = x.echoed /\ y.kind = x.kind /\ y.sent = x.sent
        /\ y.shown = x.shown /\ y.answers = x.answers
    BY <1>1 DEF Turn
  <1>4. Remembers("open", y)
    BY <1>1, <1>3, TurnFields DEF Good, Remembers
  <1> QED
    BY <1>1, <1>2, <1>3, <1>4, TurnFields, LimitsAssumption DEF Good, Labels, Trying,
       Relaying,
       Uncounted, AfterText

LEMMA SendGood ==
  ASSUME NEW x, Good("head", x) \/ Good("describe", x)
  PROVE  Good("stream", [x EXCEPT !.sent = @ + 1, !.tried = TRUE])
  <1> DEFINE y == [x EXCEPT !.sent = @ + 1, !.tried = TRUE]
  <1>1. x \in Turn
    BY DEF Good
  <1>2. y \in Turn
    <2>1. x.sent + 1 \in Nat
      BY <1>1, TurnFields
    <2> QED
      BY <1>1, <2>1 DEF Turn
  <1>3. /\ y.sent = x.sent + 1 /\ y.list = x.list /\ y.at = x.at /\ y.bad = x.bad
        /\ y.refusers = x.refusers /\ y.retry = x.retry /\ y.native = x.native
        /\ y.echoed = x.echoed /\ y.kind = x.kind
        /\ y.shown = x.shown /\ y.answers = x.answers
    BY <1>1 DEF Turn
  <1>4. /\ y.sent <= y.retry + Uncounted(y) + 1
        /\ y.sent <= MaxRetries + 3 /\ y.sent >= 1
    <2>1. x.sent <= x.retry + Uncounted(x) /\ x.retry <= MaxRetries + 1
      BY DEF Good
    <2>2. Uncounted(y) = Uncounted(x) /\ Uncounted(x) \in {0, 1}
      BY <1>1, <1>3, TurnFields DEF Uncounted
    <2>3. x.sent \in Nat /\ x.retry \in Nat
      BY <1>1, TurnFields
    <2> QED
      BY <1>3, <2>1, <2>2, <2>3, LimitsAssumption
  <1>5. Remembers("stream", y)
    BY <1>1, <1>3, TurnFields DEF Good, Remembers
  <1> QED
    BY <1>1, <1>2, <1>3, <1>5, <1>4, TurnFields, LimitsAssumption DEF Good, Labels, Trying,
       Relaying, AfterText

LEMMA NoVisionGood ==
  ASSUME NEW x, Good("stream", x), x.native
  PROVE  Good("head", [x EXCEPT !.native = FALSE])
  <1> DEFINE y == [x EXCEPT !.native = FALSE]
  <1>1. x \in Turn
    BY DEF Good
  <1>2. y \in Turn
    BY <1>1 DEF Turn
  <1>3. /\ y.native = FALSE /\ y.list = x.list /\ y.at = x.at /\ y.bad = x.bad
        /\ y.refusers = x.refusers /\ y.retry = x.retry /\ y.echoed = x.echoed
        /\ y.kind = x.kind /\ y.sent = x.sent
        /\ y.shown = x.shown /\ y.answers = x.answers
    BY <1>1 DEF Turn
  <1>4. Remembers("head", y)
    BY <1>1, <1>3, TurnFields DEF Good, Remembers
  <1> QED
    BY <1>1, <1>2, <1>3, <1>4, TurnFields, LimitsAssumption DEF Good, Labels, Trying,
       Relaying,
       Uncounted, AfterText

LEMMA SucceedGood ==
  ASSUME NEW x, Good("stream", x)
  PROVE  Good("won", [x EXCEPT !.answers = @ + 1])
  <1> DEFINE y == [x EXCEPT !.answers = @ + 1]
  <1>1. x \in Turn
    BY DEF Good
  <1>2. y \in Turn
    <2>1. x.answers + 1 \in Nat
      BY <1>1, TurnFields
    <2> QED
      BY <1>1, <2>1 DEF Turn
  <1>3. /\ y.answers = x.answers + 1 /\ y.list = x.list /\ y.at = x.at /\ y.bad = x.bad
        /\ y.refusers = x.refusers /\ y.retry = x.retry /\ y.native = x.native
        /\ y.echoed = x.echoed /\ y.kind = x.kind
        /\ y.sent = x.sent /\ y.shown = x.shown
    BY <1>1 DEF Turn
  <1>4. Remembers("won", y)
    BY <1>1, <1>3, TurnFields DEF Good, Remembers
  <1> QED
    BY <1>1, <1>2, <1>3, <1>4, TurnFields, LimitsAssumption DEF Good, Labels, Trying,
       Relaying,
       Uncounted, AfterText

LEMMA FailGood ==
  ASSUME NEW x, Good("stream", x), NEW kind \in Kinds, NEW visible \in BOOLEAN,
         visible => kind \in AfterText, NEW R \in SUBSET Providers,
         R = IF kind = "model" THEN x.refusers \cup {ProviderOf[x.list[x.at]]} ELSE x.refusers
  PROVE  Good("failed", [x EXCEPT !.kind = kind, !.shown = visible, !.refusers = R])
  <1> DEFINE y == [x EXCEPT !.kind = kind, !.shown = visible, !.refusers = R]
  <1>1. x \in Turn
    BY DEF Good
  <1>2. y \in Turn
    BY <1>1 DEF Turn
  <1>3. /\ y.kind = kind /\ y.shown = visible /\ y.list = x.list /\ y.at = x.at
        /\ y.bad = x.bad /\ y.refusers = R /\ y.retry = x.retry /\ y.native = x.native
        /\ y.echoed = x.echoed
        /\ y.sent = x.sent /\ y.answers = x.answers
    BY <1>1 DEF Turn
  <1>4. Remembers("failed", y)
    BY <1>1, <1>3, TurnFields DEF Good, Remembers
  <1> QED
    BY <1>1, <1>2, <1>3, <1>4, TurnFields, LimitsAssumption DEF Good, Labels, Trying,
       Relaying,
       Uncounted, AfterText

LEMMA EchoGood ==
  ASSUME NEW x, Good("failed", x), ~x.echoed, x.kind = "echo"
  PROVE  Good("head", [x EXCEPT !.shown = FALSE, !.echoed = TRUE,
                               !.retry = @ + 1, !.kind = "none"])
  <1> DEFINE y == [x EXCEPT !.shown = FALSE, !.echoed = TRUE,
                               !.retry = @ + 1, !.kind = "none"]
  <1>1. x \in Turn
    BY DEF Good
  <1>2. y \in Turn
    <2>1. x.retry + 1 \in Nat
      BY <1>1, TurnFields
    <2> QED
      BY <1>1, <2>1 DEF Turn
  <1>3. /\ y.shown = FALSE /\ y.echoed = TRUE /\ y.retry = x.retry + 1 /\ y.kind = "none"
        /\ y.list = x.list /\ y.at = x.at /\ y.bad = x.bad /\ y.refusers = x.refusers
        /\ y.native = x.native
        /\ y.sent = x.sent /\ y.answers = x.answers
    BY <1>1 DEF Turn
  <1>4. Remembers("head", y)
    BY <1>1, <1>3, TurnFields DEF Good, Remembers
  <1> QED
    BY <1>1, <1>2, <1>3, <1>4, TurnFields, LimitsAssumption DEF Good, Labels, Trying,
       Relaying,
       Uncounted, AfterText

LEMMA VisionGood ==
  ASSUME NEW x, Good("failed", x), x.kind = "vision"
  PROVE  Good("head", [x EXCEPT !.native = FALSE, !.sent = @ - 1, !.kind = "none"])
  <1> DEFINE y == [x EXCEPT !.native = FALSE, !.sent = @ - 1, !.kind = "none"]
  <1>1. x \in Turn
    BY DEF Good
  <1>2. y \in Turn
    <2>1. x.sent - 1 \in Nat
      BY <1>1, TurnFields DEF Good
    <2> QED
      BY <1>1, <2>1 DEF Turn
  <1>3. /\ y.native = FALSE /\ y.kind = "none" /\ y.list = x.list /\ y.at = x.at
        /\ y.bad = x.bad /\ y.refusers = x.refusers /\ y.retry = x.retry
        /\ y.echoed = x.echoed /\ y.sent = x.sent - 1
        /\ y.shown = x.shown /\ y.answers = x.answers
    BY <1>1 DEF Turn
  <1>4. Remembers("head", y)
    BY <1>1, <1>3, TurnFields DEF Good, Remembers
  <1> QED
    BY <1>1, <1>2, <1>3, <1>4, TurnFields, LimitsAssumption DEF Good, Labels, Trying,
       Relaying,
       Uncounted, AfterText

LEMMA RetryGood ==
  ASSUME NEW x, Good("failed", x), x.kind # "model", x.retry < MaxRetries, NEW b \in BOOLEAN
  PROVE  Good("wait", [x EXCEPT !.shown = FALSE, !.retry = @ + 1, !.leak = b,
                               !.kind = "none"])
  <1> DEFINE y == [x EXCEPT !.shown = FALSE, !.retry = @ + 1, !.leak = b,
                               !.kind = "none"]
  <1>1. x \in Turn
    BY DEF Good
  <1>2. y \in Turn
    <2>1. x.retry + 1 \in Nat
      BY <1>1, TurnFields
    <2> QED
      BY <1>1, <2>1 DEF Turn
  <1>3. /\ y.shown = FALSE /\ y.retry = x.retry + 1 /\ y.kind = "none" /\ y.list = x.list
        /\ y.at = x.at /\ y.bad = x.bad /\ y.refusers = x.refusers /\ y.native = x.native
        /\ y.echoed = x.echoed
        /\ y.sent = x.sent /\ y.answers = x.answers
    BY <1>1 DEF Turn
  <1>4. Remembers("wait", y)
    BY <1>1, <1>3, TurnFields DEF Good, Remembers
  <1> QED
    BY <1>1, <1>2, <1>3, <1>4, TurnFields, LimitsAssumption DEF Good, Labels, Trying,
       Relaying,
       Uncounted, AfterText

LEMMA TrimGood ==
  ASSUME NEW x, Good("failed", x), x.kind # "model", x.retry < MaxRetries, ~x.shown
  PROVE  Good("wait", [x EXCEPT !.retry = @ + 1, !.kind = "none"])
  <1> DEFINE y == [x EXCEPT !.retry = @ + 1, !.kind = "none"]
  <1>1. x \in Turn
    BY DEF Good
  <1>2. y \in Turn
    <2>1. x.retry + 1 \in Nat
      BY <1>1, TurnFields
    <2> QED
      BY <1>1, <2>1 DEF Turn
  <1>3. /\ y.retry = x.retry + 1 /\ y.kind = "none" /\ y.list = x.list /\ y.at = x.at
        /\ y.bad = x.bad /\ y.refusers = x.refusers /\ y.native = x.native
        /\ y.echoed = x.echoed /\ y.sent = x.sent
        /\ y.shown = x.shown /\ y.answers = x.answers
    BY <1>1 DEF Turn
  <1>4. Remembers("wait", y)
    BY <1>1, <1>3, TurnFields DEF Good, Remembers
  <1> QED
    BY <1>1, <1>2, <1>3, <1>4, TurnFields, LimitsAssumption DEF Good, Labels, Trying,
       Relaying,
       Uncounted, AfterText

LEMMA BlameGood ==
  ASSUME NEW x, Good("failed", x), x.kind # "model", NEW b \in BOOLEAN
  PROVE  Good("blame", [x EXCEPT !.leak = b])
  <1> DEFINE y == [x EXCEPT !.leak = b]
  <1>1. x \in Turn
    BY DEF Good
  <1>2. y \in Turn
    BY <1>1 DEF Turn
  <1>3. /\ y.list = x.list /\ y.at = x.at /\ y.bad = x.bad /\ y.refusers = x.refusers
        /\ y.retry = x.retry
        /\ y.native = x.native /\ y.echoed = x.echoed /\ y.kind = x.kind /\ y.sent = x.sent
        /\ y.shown = x.shown /\ y.answers = x.answers
    BY <1>1 DEF Turn
  <1>4. Remembers("blame", y)
    BY <1>1, <1>3, TurnFields DEF Good, Remembers
  <1> QED
    BY <1>1, <1>2, <1>3, <1>4, TurnFields, LimitsAssumption DEF Good, Labels, Trying,
       Relaying,
       Uncounted, AfterText

LEMMA ResetGood ==
  ASSUME NEW x, Good("blame", x)
  PROVE  Good("blame", [x EXCEPT !.shown = FALSE])
  <1> DEFINE y == [x EXCEPT !.shown = FALSE]
  <1>1. x \in Turn
    BY DEF Good
  <1>2. y \in Turn
    BY <1>1 DEF Turn
  <1>3. /\ y.shown = FALSE /\ y.list = x.list /\ y.at = x.at /\ y.bad = x.bad
        /\ y.refusers = x.refusers /\ y.retry = x.retry /\ y.native = x.native
        /\ y.echoed = x.echoed /\ y.kind = x.kind
        /\ y.sent = x.sent /\ y.answers = x.answers
    BY <1>1 DEF Turn
  <1>4. Remembers("blame", y)
    BY <1>1, <1>3, TurnFields DEF Good, Remembers
  <1> QED
    BY <1>1, <1>2, <1>3, <1>4, TurnFields, LimitsAssumption DEF Good, Labels, Trying,
       Relaying,
       Uncounted, AfterText

LEMMA RefuseGood ==
  ASSUME NEW x, Good("failed", x), x.kind = "model", NEW p \in Providers,
         p = ProviderOf[x.list[x.at]]
  PROVE  Good("exhausted", [x EXCEPT !.bad = @ \cup {p}])
  <1> DEFINE y == [x EXCEPT !.bad = @ \cup {p}]
  <1>1. x \in Turn
    BY DEF Good
  <1>2. y \in Turn
    <2>1. x.bad \cup {p} \in SUBSET Providers
      BY <1>1, TurnFields
    <2> QED
      BY <1>1, <2>1 DEF Turn
  <1>3. /\ y.bad = x.bad \cup {p} /\ y.refusers = x.refusers /\ y.list = x.list
        /\ y.at = x.at /\ y.retry = x.retry
        /\ y.native = x.native /\ y.echoed = x.echoed /\ y.kind = x.kind /\ y.sent = x.sent
        /\ y.shown = x.shown /\ y.answers = x.answers
    BY <1>1 DEF Turn
  <1>4. Remembers("exhausted", y)
    BY <1>1, <1>3, TurnFields DEF Good, Remembers
  <1> QED
    BY <1>1, <1>2, <1>3, <1>4, TurnFields, LimitsAssumption DEF Good, Labels, Trying,
       Relaying,
       Uncounted, AfterText

LEMMA RelayListGood ==
  ASSUME NEW s \in Seq(KeysOf(InTrust)), s \in Seq(Keys)
  PROVE  Good("relay", [NoTurn EXCEPT !.list = s])
  <1> DEFINE y == [NoTurn EXCEPT !.list = s]
  <1>1. NoTurn \in Turn
    BY DEF NoTurn, Turn
  <1>2. y \in Turn
    BY <1>1 DEF Turn
  <1>3. /\ y.list = s /\ y.at = 1 /\ y.sent = 0 /\ ~y.shown /\ y.answers = 0
        /\ y.bad = {} /\ y.refusers = {} /\ y.retry = 0
    BY DEF NoTurn
  <1>4. Remembers("relay", y)
    BY <1>1, <1>3, TurnFields DEF Good, Remembers
  <1> QED
    BY <1>2, <1>3, <1>4, LimitsAssumption DEF Good, Labels, Trying, Relaying

LEMMA RelayPickGood ==
  ASSUME NEW x, NEW label \in {"relay", "relay_again"}, Good(label, x), NEW i \in DOMAIN x.list
  PROVE  Good("relayed", [x EXCEPT !.at = i, !.sent = 1])
  <1> DEFINE y == [x EXCEPT !.at = i, !.sent = 1]
  <1>1. x \in Turn
    BY DEF Good
  <1>2. i \in Nat /\ i >= 1 /\ i <= Len(x.list)
    BY <1>1, TurnFields
  <1>3. y \in Turn
    BY <1>1, <1>2 DEF Turn
  <1>4. /\ y.list = x.list /\ y.at = i /\ y.sent = 1 /\ y.shown = x.shown
        /\ y.answers = x.answers /\ y.retry = x.retry /\ y.echoed = x.echoed
        /\ y.bad = x.bad /\ y.refusers = x.refusers
    BY <1>1 DEF Turn
  <1>5. Remembers("relayed", y)
    BY <1>4 DEF Good, Remembers
  <1>6. /\ x.list \in Seq(KeysOf(InTrust)) /\ ~x.shown
        /\ x.answers <= 1 /\ x.answers # 1
        /\ x.retry <= MaxRetries + 1 /\ (~x.echoed => x.retry <= MaxRetries)
    BY DEF Good
  <1>7. 1 <= MaxRetries + 3
    BY LimitsAssumption
  <1>8. /\ "relayed" \in Labels
        /\ "relayed" \notin Trying
        /\ "relayed" \notin {"head", "wait", "stream", "failed"}
    BY DEF Labels, Trying
  <1> HIDE DEF y
  <1>9. Good("relayed", y)
    BY <1>2, <1>3, <1>4, <1>5, <1>6, <1>7, <1>8 DEF Good
  <1> QED
    BY <1>9 DEF y

LEMMA RelayEndGood ==
  ASSUME NEW x, Good("relayed", x), NEW kind \in Kinds
  PROVE  Good("relay_end", [x EXCEPT !.kind = kind])
  <1> DEFINE y == [x EXCEPT !.kind = kind]
  <1>1. x \in Turn
    BY DEF Good
  <1>2. y \in Turn
    BY <1>1 DEF Turn
  <1>3. /\ y.list = x.list /\ y.at = x.at /\ y.sent = x.sent /\ y.shown = x.shown
        /\ y.answers = x.answers /\ y.retry = x.retry /\ y.echoed = x.echoed
        /\ y.bad = x.bad /\ y.refusers = x.refusers
    BY <1>1 DEF Turn
  <1>4. Remembers("relay_end", y)
    BY <1>1, <1>3, TurnFields DEF Good, Remembers
  <1> QED
    BY <1>1, <1>2, <1>3, <1>4, TurnFields DEF Good, Labels, Trying, Relaying

LEMMA RelayMoveGood ==
  ASSUME NEW x
  PROVE  /\ Good("relay", x) => Good("relay_keys", x)
         /\ Good("relay_keys", x) => Good("relay_circuits", x)
         /\ Good("relay_circuits", x) => Good("relay_again", x)
         /\ Good("relayed", x) => Good("relay_end", x)
  BY DEF Good, Remembers, Labels, Trying, Relaying

\* The candidate of a turn at work is a key of the active provider's level.
LEMMA CandidateType ==
  ASSUME NEW label \in Trying \cup Relaying, NEW x, Good(label, x)
  PROVE  /\ x.list[x.at] \in Keys
         /\ Trust[ProviderOf[x.list[x.at]]] = Trust[Active]
         /\ ProviderOf[x.list[x.at]] \in Providers
  <1>1. x.at \in 1..Len(x.list)
    BY TurnFields DEF Good
  <1>2. x.list[x.at] \in KeysOf(InTrust)
    BY <1>1 DEF Good
  <1> QED
    BY <1>2 DEF KeysOf, InTrust

-----------------------------------------------------------------------------
(* The steps *)

LEMMA At ==
  ASSUME FailoverInv, NEW t \in Turns
  PROVE  Good(pc[t], turn[t]) /\ turn[t] \in Turn
  BY DEF FailoverInv, Turning, Good

LEMMA ReachType ==
  ASSUME FailoverInv, NEW t \in Turns
  PROVE  Reach(t) \in SUBSET Keys
  BY At, TurnFields DEF Reach

\* A turn moves on from a candidate with locals that show no text.
LEMMA AdvanceTurning ==
  ASSUME FailoverInv, NEW t \in Turns, NEW label \in Labels \ {"failed"}, NEW x, Good(label, x),
         ~x.shown, x.answers = 0, Advance(t, x)
  PROVE  Turning'
  BY AdvanceGood, SetGood DEF Advance, FailoverInv

LEMMA EndTurning ==
  ASSUME FailoverInv, NEW t \in Turns, End(t)
  PROVE  Turning'
  BY NoTurnGood, SetGood DEF End, FailoverInv

LEMMA SelectStep ==
  ASSUME FailoverInv, NEW t \in Turns, Select(t)
  PROVE  Maps' /\ Turning'
  <1> DEFINE routed == EligibleRoutes # {}
             P == IF routed THEN RoutesToTry ELSE Backups
  <1>1. PICK first \in IF routed /\ P # {} THEN P ELSE {Active} :
           \E s \in Lists(P, first) :
             /\ circuit' = IF routed THEN Touched(circuit, FirstUsable(s)) ELSE circuit
             /\ \/ Set(t, IF s = <<>> THEN "exhausted" ELSE "circuits",
                       [turn[t] EXCEPT !.list = s, !.at = 1, !.leak = FALSE,
                                       !.rounds = @ + 1, !.answers = 0,
                                       !.tried = FALSE, !.owed = FALSE])
                \/ End(t)
    BY DEF Select
  <1>2. PICK s \in Lists(P, first) :
             /\ circuit' = IF routed THEN Touched(circuit, FirstUsable(s)) ELSE circuit
             /\ \/ Set(t, IF s = <<>> THEN "exhausted" ELSE "circuits",
                       [turn[t] EXCEPT !.list = s, !.at = 1, !.leak = FALSE,
                                       !.rounds = @ + 1, !.answers = 0,
                                       !.tried = FALSE, !.owed = FALSE])
                \/ End(t)
    BY <1>1
  <1>3. P \in SUBSET InTrust
    BY SelectedTrusted
  <1>4. s \in Seq(KeysOf(InTrust)) /\ s \in Seq(Keys)
    BY <1>3, ListType
  <1>5. Good("select", turn[t])
    BY At DEF Select
  <1>6. Turning'
    BY <1>2, <1>4, <1>5, SelectGood, SetGood, EndTurning DEF FailoverInv
  <1>7. Maps'
    <2>1. FirstUsable(s) \in SUBSET Keys
      BY <1>4 DEF FirstUsable
    <2>2. circuit' \in [Keys -> Circuit]
      BY <1>2, <2>1, TouchedType DEF FailoverInv, Maps
    <2> QED
      BY <2>2 DEF Select, FailoverInv, Maps
  <1> QED
    BY <1>6, <1>7

LEMMA ReleaseStep ==
  ASSUME FailoverInv, NEW t \in Turns, ReleaseCircuits(t) \/ ReleaseKeys(t)
  PROVE  Maps' /\ Turning'
  <1>1. CASE ReleaseCircuits(t)
    <2>1. Good("circuits", turn[t])
      BY <1>1, At DEF ReleaseCircuits
    <2>2. Turning'
      BY <1>1, <2>1, OwedGood, SetGood DEF ReleaseCircuits, FailoverInv
    <2> QED
      BY <1>1, <2>2, ReachType, ReleaseType DEF ReleaseCircuits, FailoverInv, Maps
  <1>2. CASE ReleaseKeys(t)
    <2> DEFINE b == turn[t].owed \/ (/\ \A c \in Reach(t) : ~Available(c)
                                     /\ \E c \in Reach(t) : block[c] # "rejected" /\ ~Open(c))
    <2>1. Good("keys", turn[t])
      BY <1>2, At DEF ReleaseKeys
    <2>2. b \in BOOLEAN
      OBVIOUS
    <2>3. Set(t, "key", [turn[t] EXCEPT !.owed = b])
      BY <1>2 DEF ReleaseKeys
    <2> HIDE DEF b
    <2>4. Good("key", [turn[t] EXCEPT !.owed = b])
      BY <2>1, <2>2, OwedGood
    <2>5. Turning'
      BY <2>3, <2>4, SetGood DEF FailoverInv
    <2> QED
      BY <1>2, <2>5, ReachType, ReleaseType DEF ReleaseKeys, FailoverInv, Maps
  <1> QED
    BY <1>1, <1>2

LEMMA CheckStep ==
  ASSUME FailoverInv, NEW t \in Turns, CheckKey(t) \/ CheckCircuit(t)
  PROVE  Maps' /\ Turning'
  <1>1. CASE CheckKey(t)
    <2>1. Good("key", turn[t]) /\ "key" \in Labels
      BY <1>1, At DEF CheckKey, Labels
    <2>2. ~turn[t].shown /\ turn[t].answers = 0
      BY <2>1, TurnFields DEF Good
    <2>3. Maps'
      BY <1>1 DEF CheckKey, FailoverInv, Maps, health
    <2>4. CASE turn[t].at > Len(turn[t].list)
      BY <1>1, <2>1, <2>3, <2>4, MoveGood, SetGood DEF CheckKey, Goto, FailoverInv
    <2>5. CASE Advance(t, turn[t])
      BY <2>1, <2>2, <2>3, <2>5, AdvanceTurning
    <2>6. CASE /\ ~(turn[t].at > Len(turn[t].list))
               /\ ProviderOf[Candidate(t)] \notin turn[t].bad
               /\ Goto(t, "circuit")
      <3>1. turn[t].at <= Len(turn[t].list)
        BY <2>1, <2>6, TurnFields DEF Good
      <3> QED
        BY <2>1, <2>3, <2>6, <3>1, EnterGood, SetGood DEF Goto, Candidate, FailoverInv
    <2> QED
      BY <1>1, <2>4, <2>5, <2>6 DEF CheckKey
  <1>2. CASE CheckCircuit(t)
    <2>1. Good("circuit", turn[t]) /\ "circuit" \in Labels
      BY <1>2, At DEF CheckCircuit, Labels
    <2>2. ~turn[t].shown /\ turn[t].answers = 0
      BY <2>1, TurnFields DEF Good
    <2>3. Candidate(t) \in Keys
      BY <2>1, CandidateType DEF Candidate, Trying
    <2>4. Maps'
      BY <1>2, <2>3, TouchedType DEF CheckCircuit, FailoverInv, Maps
    <2>5. CASE Advance(t, turn[t])
      BY <2>1, <2>2, <2>4, <2>5, AdvanceTurning
    <2>6. CASE Goto(t, "open")
      BY <2>1, <2>4, <2>6, MoveGood, SetGood DEF Goto, FailoverInv
    <2> QED
      BY <1>2, <2>5, <2>6 DEF CheckCircuit
  <1> QED
    BY <1>1, <1>2

LEMMA OpenStep ==
  ASSUME FailoverInv, NEW t \in Turns, OpenProvider(t)
  PROVE  Maps' /\ Turning'
  <1>1. Good("open", turn[t]) /\ "open" \in Labels
    BY At DEF OpenProvider, Labels
  <1>2. Candidate(t) \in Keys
    BY <1>1, CandidateType DEF Candidate, Trying
  <1>3. Maps'
    BY <1>2, MapUpdates DEF OpenProvider, FailoverInv, Maps
  <1>4. CASE \E native \in BOOLEAN :
               Set(t, "head", [turn[t] EXCEPT !.retry = 0, !.sent = 0, !.native = native])
    BY <1>1, <1>3, <1>4, OpenGood, SetGood DEF FailoverInv
  <1>5. CASE Advance(t, [turn[t] EXCEPT !.tried = TRUE])
    <2> DEFINE y == [turn[t] EXCEPT !.tried = TRUE]
    <2>1. Good("open", y)
      BY <1>1, TriedGood
    <2>2. ~y.shown /\ y.answers = 0
      <3> HIDE DEF y
      <3> QED BY <2>1, TurnFields DEF Good
    <2> HIDE DEF y
    <2>3. Advance(t, y)
      BY <1>5 DEF y
    <2> QED
      BY <1>1, <1>3, <2>1, <2>2, <2>3, AdvanceTurning
  <1> QED
    BY <1>4, <1>5 DEF OpenProvider

LEMMA StreamStep ==
  ASSUME FailoverInv, NEW t \in Turns,
         \/ Send(t) \/ Describe(t) \/ Described(t) \/ Abandon(t) \/ RefusesVision(t)
         \/ Succeed(t)
         \/ \E kind \in Kinds, visible \in BOOLEAN : Fail(t, kind, visible)
  PROVE  Maps' /\ Turning'
  <1>1. CASE Send(t)
    BY <1>1, At, SendGood, SetGood DEF Send, FailoverInv, Maps, health
  <1>6. CASE Describe(t)
    BY <1>6, At, MoveGood, SetGood DEF Describe, Goto, FailoverInv, Maps, health
  <1>7. CASE Described(t)
    <2>1. Maps'
      BY <1>7 DEF Described, FailoverInv, Maps, health
    <2>2. Good("describe", turn[t])
      BY <1>7, At DEF Described
    <2>3. CASE Set(t, "stream", [turn[t] EXCEPT !.sent = @ + 1, !.tried = TRUE])
      BY <2>1, <2>2, <2>3, SendGood, SetGood DEF FailoverInv
    <2>4. CASE End(t)
      BY <2>1, <2>4, EndTurning
    <2> QED
      BY <1>7, <2>3, <2>4 DEF Described
  <1>2. CASE Abandon(t)
    BY <1>2, EndTurning DEF Abandon, FailoverInv, Maps, health
  <1>3. CASE RefusesVision(t)
    BY <1>3, At, NoVisionGood, SetGood DEF RefusesVision, FailoverInv, Maps, health
  <1>4. CASE Succeed(t)
    <2>1. Good("stream", turn[t])
      BY <1>4, At DEF Succeed
    <2>2. Candidate(t) \in Keys
      BY <2>1, CandidateType DEF Candidate, Trying
    <2>3. Maps'
      BY <1>4, <2>2, MapUpdates DEF Succeed, FailoverInv, Maps
    <2> QED
      BY <1>4, <2>1, <2>3, SucceedGood, SetGood DEF Succeed, FailoverInv
  <1>5. ASSUME NEW kind \in Kinds, NEW visible \in BOOLEAN, Fail(t, kind, visible)
        PROVE  Maps' /\ Turning'
    <2>1. Good("stream", turn[t])
      BY <1>5, At DEF Fail
    <2> DEFINE R == IF kind = "model" THEN turn[t].refusers \cup {ProviderOf[Candidate(t)]}
                                      ELSE turn[t].refusers
    <2>2. /\ R \in SUBSET Providers
          /\ R = IF kind = "model"
                   THEN turn[t].refusers \cup {ProviderOf[turn[t].list[turn[t].at]]}
                   ELSE turn[t].refusers
      <3>1. turn[t].refusers \in SUBSET Providers
        BY <2>1, TurnFields DEF Good
      <3>2. ProviderOf[Candidate(t)] \in Providers
        BY <2>1, CandidateType DEF Candidate, Trying
      <3> QED
        BY <3>1, <3>2 DEF Candidate
    <2>3. Set(t, "failed", [turn[t] EXCEPT !.kind = kind, !.shown = visible, !.refusers = R])
      BY <1>5 DEF Fail
    <2> HIDE DEF R
    <2>4. Good("failed", [turn[t] EXCEPT !.kind = kind, !.shown = visible, !.refusers = R])
      BY <1>5, <2>1, <2>2, FailGood DEF Fail
    <2> QED
      BY <1>5, <2>3, <2>4, SetGood DEF Fail, FailoverInv, Maps, health
  <1> QED
    BY <1>1, <1>2, <1>3, <1>4, <1>5, <1>6, <1>7

LEMMA AnswerStep ==
  ASSUME FailoverInv, NEW t \in Turns, SucceedKey(t) \/ Answered(t) \/ Exhausted(t)
  PROVE  Maps' /\ Turning'
  <1>1. CASE SucceedKey(t)
    <2>1. Good("won", turn[t])
      BY <1>1, At DEF SucceedKey
    <2>2. Candidate(t) \in Keys
      BY <2>1, CandidateType DEF Candidate, Trying
    <2>3. Maps'
      BY <1>1, <2>2, MapUpdates DEF SucceedKey, FailoverInv, Maps
    <2> QED
      BY <1>1, <2>1, <2>3, MoveGood, SetGood DEF SucceedKey, Goto, FailoverInv
  <1>2. CASE Answered(t)
    <2>1. Good("answered", turn[t])
      BY <1>2, At DEF Answered
    <2>2. Maps'
      BY <1>2 DEF Answered, FailoverInv, Maps, health
    <2>3. CASE Goto(t, "select")
      BY <2>1, <2>2, <2>3, MoveGood, SetGood DEF Goto, FailoverInv
    <2>4. CASE End(t)
      BY <2>2, <2>4, EndTurning
    <2> QED
      BY <1>2, <2>3, <2>4 DEF Answered
  <1>3. CASE Exhausted(t)
    BY <1>3, EndTurning DEF Exhausted, FailoverInv, Maps, health
  <1> QED
    BY <1>1, <1>2, <1>3

LEMMA RetryStep ==
  ASSUME FailoverInv, NEW t \in Turns,
         RetryEcho(t) \/ RetryVision(t) \/ RetryPlain(t) \/ RetryTrimmed(t) \/ Wait(t)
  PROVE  Maps' /\ Turning'
  <1>0. Maps'
    BY DEF RetryEcho, RetryVision, RetryPlain, RetryTrimmed, Wait, FailoverInv, Maps, health
  <1>1. CASE RetryEcho(t)
    <2>1. Good("failed", turn[t])
      BY <1>1, At DEF RetryEcho
    <2>2. CASE turn[t].echoed
      BY <1>0, <1>1, <2>2, EndTurning DEF RetryEcho
    <2>3. CASE ~turn[t].echoed
      BY <1>0, <1>1, <2>1, <2>3, EchoGood, SetGood DEF RetryEcho, FailoverInv
    <2> QED
      BY <2>2, <2>3
  <1>2. CASE RetryVision(t)
    BY <1>0, <1>2, At, VisionGood, SetGood DEF RetryVision, FailoverInv
  <1>3. CASE RetryPlain(t)
    <2> DEFINE b == turn[t].leak \/ turn[t].kind = "leaked"
    <2>1. Good("failed", turn[t]) /\ turn[t].retry < MaxRetries /\ turn[t].kind # "model"
      BY <1>3, At DEF RetryPlain, CanRetry, Retryable
    <2>2. Set(t, "wait", [turn[t] EXCEPT !.shown = FALSE, !.retry = @ + 1, !.leak = b,
                                         !.kind = "none"])
      BY <1>3 DEF RetryPlain
    <2>3. b \in BOOLEAN
      OBVIOUS
    <2> HIDE DEF b
    <2> QED
      BY <1>0, <2>1, <2>2, <2>3, RetryGood, SetGood DEF FailoverInv
  <1>4. CASE RetryTrimmed(t)
    BY <1>0, <1>4, At, TrimGood, SetGood DEF RetryTrimmed, FailoverInv
  <1>5. CASE Wait(t)
    BY <1>0, <1>5, At, MoveGood, SetGood DEF Wait, Goto, FailoverInv
  <1> QED
    BY <1>1, <1>2, <1>3, <1>4, <1>5

LEMMA GiveUpStep ==
  ASSUME FailoverInv, NEW t \in Turns, BlameKey(t) \/ GiveUp(t) \/ RejectModel(t)
  PROVE  Maps' /\ Turning'
  <1>1. CASE BlameKey(t)
    <2> DEFINE b == turn[t].leak \/ turn[t].kind = "leaked"
    <2>1. Good("failed", turn[t]) /\ turn[t].kind # "model"
      BY <1>1, At DEF BlameKey
    <2>2. Set(t, "blame", [turn[t] EXCEPT !.leak = b])
      BY <1>1 DEF BlameKey
    <2>3. b \in BOOLEAN
      OBVIOUS
    <2> HIDE DEF b
    <2>4. Turning'
      BY <2>1, <2>2, <2>3, BlameGood, SetGood DEF FailoverInv
    <2>5. Candidate(t) \in Keys
      BY <2>1, CandidateType DEF Candidate, Trying
    <2>6. block' \in [Keys -> Block]
      BY <1>1, <2>5, BlamedType DEF BlameKey, FailoverInv
    <2> QED
      BY <1>1, <2>4, <2>6 DEF BlameKey, FailoverInv, Maps
  <1>2. CASE GiveUp(t)
    <2> DEFINE y == [turn[t] EXCEPT !.shown = FALSE]
    <2>1. Good("blame", turn[t]) /\ "blame" \in Labels
      BY <1>2, At DEF GiveUp, Labels
    <2>2. Candidate(t) \in Keys
      BY <2>1, CandidateType DEF Candidate, Trying
    <2>3. Maps'
      BY <1>2, <2>2, MapUpdates DEF GiveUp, FailoverInv, Maps
    <2>4. Good("blame", y) /\ ~y.shown
      <3>1. turn[t].shown \in BOOLEAN /\ turn[t] \in Turn
        BY At, TurnFields
      <3> QED
        BY <2>1, <3>1, ResetGood DEF Turn
    <2>5. CASE End(t)
      BY <2>3, <2>5, EndTurning
    <2>6. CASE Advance(t, y)
      <3> HIDE DEF y
      <3>1. y.answers = 0
        BY <2>4, TurnFields DEF Good
      <3> QED
        BY <2>1, <2>3, <2>4, <2>6, <3>1, AdvanceTurning
    <2> QED
      BY <1>2, <2>5, <2>6 DEF GiveUp
  <1>3. CASE RejectModel(t)
    <2> DEFINE p == ProviderOf[Candidate(t)]
               y == [turn[t] EXCEPT !.bad = @ \cup {p}]
    <2>1. Good("failed", turn[t]) /\ turn[t].kind = "model"
          /\ "exhausted" \in Labels \ {"failed"}
      BY <1>3, At DEF RejectModel, Labels
    <2>2. p \in Providers /\ p = ProviderOf[turn[t].list[turn[t].at]]
      BY <2>1, CandidateType DEF Candidate, Trying
    <2>3. Good("exhausted", y)
      <3> HIDE DEF p
      <3> QED BY <2>1, <2>2, RefuseGood
    <2>4. Advance(t, y)
      BY <1>3 DEF RejectModel
    <2> HIDE DEF y
    <2>5. ~y.shown /\ y.answers = 0
      BY <2>3, TurnFields DEF Good
    <2> QED
      BY <1>3, <2>1, <2>3, <2>4, <2>5, AdvanceTurning DEF RejectModel, FailoverInv, Maps,
         health
  <1> QED
    BY <1>1, <1>2, <1>3

LEMMA RelayStep ==
  ASSUME FailoverInv, NEW t \in Turns,
         \/ RelayPick(t) \/ RelayReleaseKeys(t) \/ RelayReleaseCircuits(t)
         \/ RelayDone(t) \/ RelayEnd(t)
  PROVE  Maps' /\ Turning'
  <1>1. CASE RelayPick(t)
    <2>1. Good(pc[t], turn[t]) /\ pc[t] \in {"relay", "relay_again"}
      BY <1>1, At DEF RelayPick
    <2>2. Maps'
      BY <1>1, TouchedType DEF RelayPick, FailoverInv, Maps
    <2>3. CASE End(t)
      BY <2>2, <2>3, EndTurning
    <2>4. CASE pc[t] = "relay" /\ Goto(t, "relay_keys")
      BY <2>1, <2>2, <2>4, RelayMoveGood, SetGood DEF Goto, FailoverInv
    <2>5. ASSUME NEW i \in DOMAIN turn[t].list,
                 Set(t, "relayed", [turn[t] EXCEPT !.at = i, !.sent = 1])
          PROVE  Turning'
      BY <2>1, <2>5, RelayPickGood, SetGood DEF FailoverInv
    <2> QED
      BY <1>1, <2>2, <2>3, <2>4, <2>5 DEF RelayPick
  <1>2. CASE RelayReleaseKeys(t)
    <2>1. Turning'
      BY <1>2, At, RelayMoveGood, SetGood DEF RelayReleaseKeys, Goto, FailoverInv
    <2> QED
      BY <1>2, <2>1, ReachType, ReleaseType DEF RelayReleaseKeys, FailoverInv, Maps
  <1>3. CASE RelayReleaseCircuits(t)
    <2>1. Turning'
      BY <1>3, At, RelayMoveGood, SetGood DEF RelayReleaseCircuits, Goto, FailoverInv
    <2> QED
      BY <1>3, <2>1, ReachType, ReleaseType DEF RelayReleaseCircuits, FailoverInv, Maps
  <1>4. CASE RelayDone(t)
    <2>1. Good("relayed", turn[t])
      BY <1>4, At DEF RelayDone
    <2>2. Candidate(t) \in Keys
      BY <2>1, CandidateType DEF Candidate, Relaying
    <2>3. block' \in [Keys -> Block]
      <3>1. [block EXCEPT ![Candidate(t)] = "none"] \in [Keys -> Block]
        BY <2>2, MapUpdates DEF FailoverInv
      <3>2. ASSUME NEW kind \in Kinds PROVE Blamed(Candidate(t), kind) \in [Keys -> Block]
        BY <2>2, BlamedType DEF FailoverInv
      <3> QED
        BY <1>4, <3>1, <3>2 DEF RelayDone
    <2>4. Maps'
      BY <1>4, <2>3 DEF RelayDone, FailoverInv, Maps
    <2>5. CASE Goto(t, "relay_end")
      BY <2>1, <2>4, <2>5, RelayMoveGood, SetGood DEF Goto, FailoverInv
    <2>6. ASSUME NEW kind \in Kinds, Set(t, "relay_end", [turn[t] EXCEPT !.kind = kind])
          PROVE  Turning'
      BY <2>1, <2>6, RelayEndGood, SetGood DEF FailoverInv
    <2> QED
      BY <1>4, <2>4, <2>5, <2>6 DEF RelayDone
  <1>5. CASE RelayEnd(t)
    <2>1. Good("relay_end", turn[t])
      BY <1>5, At DEF RelayEnd
    <2>2. Candidate(t) \in Keys
      BY <2>1, CandidateType DEF Candidate, Relaying
    <2>3. Maps'
      BY <1>5, <2>2, MapUpdates DEF RelayEnd, FailoverInv, Maps
    <2> QED
      BY <1>5, <2>3, EndTurning DEF RelayEnd
  <1> QED
    BY <1>1, <1>2, <1>3, <1>4, <1>5

LEMMA OutsideStep ==
  ASSUME FailoverInv,
         \/ \E t \in Turns : StartTurn(t) \/ StartRelay(t)
         \/ \E c \in Keys : Cooled(c) \/ Expire(c) \/ ClearBlock(c)
  PROVE  Maps' /\ Turning'
  <1>1. ASSUME NEW t \in Turns, StartTurn(t) PROVE Maps' /\ Turning'
    BY <1>1, NoTurnGood, SetGood DEF StartTurn, FailoverInv, Maps, health
  <1>3. ASSUME NEW t \in Turns, StartRelay(t) PROVE Maps' /\ Turning'
    <2>1. PICK s \in Lists({Active}, Active) : Set(t, "relay", [NoTurn EXCEPT !.list = s])
      BY <1>3 DEF StartRelay
    <2>2. s \in Seq(KeysOf(InTrust)) /\ s \in Seq(Keys)
      BY ActiveTrusted, ListType
    <2>3. Turning'
      BY <2>1, <2>2, RelayListGood, SetGood DEF FailoverInv
    <2> QED
      BY <1>3, <2>3 DEF StartRelay, FailoverInv, Maps, health
  <1>2. ASSUME NEW c \in Keys, Cooled(c) \/ Expire(c) \/ ClearBlock(c) PROVE Maps' /\ Turning'
    <2>1. block' \in [Keys -> Block] /\ circuit' \in [Keys -> Circuit]
      BY <1>2, MapUpdates DEF Cooled, Expire, ClearBlock, FailoverInv, Maps
    <2> QED
      BY <1>2, <2>1 DEF Cooled, Expire, ClearBlock, FailoverInv, Maps, Turning
  <1> QED
    BY <1>1, <1>2, <1>3

-----------------------------------------------------------------------------
(* The theorems *)

LEMMA InitInv ==
  ASSUME Init
  PROVE  FailoverInv
  <1>1. NewCircuit \in Circuit /\ "none" \in Block
    BY DEF NewCircuit, Circuit, Block
  <1>2. Good("idle", NoTurn) /\ "idle" \in Labels
    BY NoTurnGood DEF Labels
  <1>3. NoTurn \in Turn
    BY <1>2 DEF Good
  <1> QED
    BY <1>1, <1>2, <1>3 DEF Init, FailoverInv, Maps, Turning

LEMMA NextInv ==
  ASSUME FailoverInv, [Next]_vars
  PROVE  FailoverInv'
  <1>1. ASSUME NEW t \in Turns, Step(t) PROVE Maps' /\ Turning'
    BY <1>1, SelectStep, ReleaseStep, CheckStep, OpenStep, StreamStep, AnswerStep,
       RetryStep, GiveUpStep, RelayStep DEF Step
  <1>2. CASE Next
    BY <1>1, <1>2, OutsideStep, StreamStep DEF Next, FailoverInv
  <1>3. CASE UNCHANGED vars
    BY <1>3 DEF vars, FailoverInv, Maps, Turning
  <1> QED
    BY <1>2, <1>3

\* The inductive invariant: the shared maps have their types, and every turn is
\* Good at the place it has reached.
THEOREM Invariance == Spec => []FailoverInv
  BY InitInv, NextInv, PTL DEF Spec

\* The maps and the locals keep their types: what a failure files a key under is
\* always a block reason, and every list holds configured keys.
THEOREM TypeCorrect == Spec => []TypeOK
  <1>1. FailoverInv => TypeOK
    BY DEF FailoverInv, Maps, Turning, TypeOK
  <1> QED
    BY <1>1, Invariance, PTL

\* No request of a turn or of the relay leaves the active provider's trust level,
\* for every configuration of providers, keys, routes and fallback.
THEOREM TrustBoundaryHolds == Spec => []TrustBoundary
  <1>1. FailoverInv => TrustBoundary
    <2>1. SUFFICES ASSUME FailoverInv, NEW t \in Turns, InFlight(t)
                   PROVE  Trust[ProviderOf[Candidate(t)]] = Trust[Active]
      BY DEF TrustBoundary
    <2>2. pc[t] \in Trying \cup Relaying
      BY <2>1 DEF InFlight, Trying, Relaying
    <2> QED
      BY <2>1, <2>2, At, CandidateType DEF Candidate
  <1> QED
    BY <1>1, Invariance, PTL

\* A request never streams over text that a failed attempt left on the screen.
THEOREM NoDuplicateTextHolds == Spec => []NoDuplicateText
  <1>1. FailoverInv => NoDuplicateText
    <2>1. SUFFICES ASSUME FailoverInv, NEW t \in Turns, InFlight(t)
                   PROVE  ~turn[t].shown
      BY DEF NoDuplicateText
    <2> QED
      BY <2>1, At DEF Good, InFlight
  <1> QED
    BY <1>1, Invariance, PTL

\* A round takes one answer, whatever number of candidates it walks.
THEOREM OneAnswerHolds == Spec => []OneAnswer
  <1>1. FailoverInv => OneAnswer
    BY At DEF OneAnswer, Good
  <1> QED
    BY <1>1, Invariance, PTL

\* A candidate is sent max_provider_retries + 3 requests at most that it does not
\* refuse as images it cannot see, whatever it answers to them and in between.
THEOREM AttemptsBoundedHolds == Spec => []AttemptsBounded
  <1>1. FailoverInv => AttemptsBounded
    BY At DEF AttemptsBounded, Good
  <1> QED
    BY <1>1, Invariance, PTL

\* A provider that refused the model is not asked again in the turn.
THEOREM ModelRefusal == Spec => []ModelRefusalHolds
  <1>1. FailoverInv => ModelRefusalHolds
    <2>1. SUFFICES ASSUME FailoverInv, NEW t \in Turns, pc[t] = "stream"
                   PROVE  ProviderOf[Candidate(t)] \notin turn[t].refusers
      BY DEF ModelRefusalHolds
    <2> QED
      BY <2>1, At DEF Good, Remembers, Trying, Candidate
  <1> QED
    BY <1>1, Invariance, PTL

\* No timer, no guard and no verdict on another key ends the refusal of a key: a
\* verdict on a request that is out with it, or the user, does.
THEOREM RefusedKeyStaysOut == Spec => RefusedStaysOut
  <1> DEFINE Back(c) ==
        \/ \E t \in Turns : /\ pc[t] \in {"won", "failed", "relayed"} /\ pc'[t] # pc[t]
                             /\ Candidate(t) = c
        \/ ClearBlock(c)
  <1>1. ASSUME FailoverInv, [Next]_vars, NEW c \in Keys, block[c] = "rejected",
               block'[c] # "rejected"
        PROVE  Back(c)
    <2>1. block \in [Keys -> Block] /\ pc \in [Turns -> Labels]
      BY <1>1 DEF FailoverInv, Maps, Turning
    <2>2. block' # block
      BY <1>1
    <2>3. ASSUME NEW S PROVE Release(S)[c] = "rejected"
      BY <1>1 DEF Release
    <2>4. ASSUME NEW d, d # c, NEW kind PROVE Blamed(d, kind)[c] = "rejected"
      BY <1>1, <2>1, <2>4 DEF Blamed
    <2>5. ASSUME NEW t \in Turns, SucceedKey(t) PROVE Back(c)
      BY <1>1, <2>1, <2>5 DEF SucceedKey, Goto, Set
    <2>6. ASSUME NEW t \in Turns, RelayDone(t) PROVE Back(c)
      BY <1>1, <2>1, <2>4, <2>6 DEF RelayDone, Goto, Set
    <2>7. ASSUME NEW t \in Turns, ReleaseKeys(t) \/ RelayReleaseKeys(t) PROVE FALSE
      BY <1>1, <2>3, <2>7 DEF ReleaseKeys, RelayReleaseKeys
    <2>8. ASSUME NEW t \in Turns, BlameKey(t) PROVE Back(c)
      BY <1>1, <2>1, <2>4, <2>8 DEF BlameKey, Set
    <2>9. ASSUME NEW t \in Turns, Step(t) \/ Described(t) PROVE Back(c)
      BY <2>2, <2>5, <2>6, <2>7, <2>8, <2>9 DEF Step, Select, ReleaseCircuits, CheckKey,
         CheckCircuit, OpenProvider, Send, Describe, Described, Abandon, RefusesVision,
         Succeed, Answered, Fail,
         RetryEcho, RetryVision, RetryPlain, RetryTrimmed, Wait, GiveUp, RejectModel,
         Exhausted, RelayPick, RelayReleaseCircuits, RelayEnd, health
    <2>10. ASSUME NEW t \in Turns, StartTurn(t) \/ StartRelay(t) PROVE FALSE
      BY <2>2, <2>10 DEF StartTurn, StartRelay, health
    <2>11. ASSUME NEW d \in Keys, Cooled(d) \/ Expire(d) PROVE FALSE
      BY <1>1, <2>1, <2>11 DEF Cooled, Expire
    <2>12. ASSUME NEW d \in Keys, ClearBlock(d) PROVE Back(c)
      <3>1. d = c
        BY <1>1, <2>1, <2>12 DEF ClearBlock
      <3> QED
        BY <2>12, <3>1
    <2>13. Next
      BY <1>1, <2>2 DEF vars
    <2> QED
      BY <2>9, <2>10, <2>11, <2>12, <2>13 DEF Next
  <1>2. FailoverInv /\ [Next]_vars =>
          [\A c \in Keys : block[c] = "rejected" /\ block'[c] # "rejected" =>
             \/ \E t \in Turns : /\ pc[t] \in {"won", "failed", "relayed"} /\ pc'[t] # pc[t]
                                  /\ Candidate(t) = c
             \/ ClearBlock(c)]_vars
    BY <1>1
  <1> QED
    BY <1>2, Invariance, PTL DEF Spec, RefusedStaysOut

-----------------------------------------------------------------------------
(* The guards *)

\* Labels of a turn that has asked a candidate in this round.
Asked == {"stream", "won", "answered", "failed", "blame", "wait"}

Reachable(r, i) == ProviderOf[r.list[i]] \notin r.bad

\* No circuit is in the way, and one key is at most cooling down.
Released(r) ==
    /\ \A i \in DOMAIN r.list : Reachable(r, i) => ~Open(r.list[i])
    /\ \E i \in DOMAIN r.list : Reachable(r, i) /\ block[r.list[i]] # "rejected"

\* A usable candidate is still ahead.
Left(r) == \E i \in DOMAIN r.list : i >= r.at /\ Reachable(r, i) /\ Usable(r.list[i])

\* What a guard has promised is kept: until the round asks somebody, the candidate
\* it was for stays ahead.
Promise(label, r) ==
    /\ label \in Asked => r.tried
    /\ label \in {"circuits", "keys"} => r.at = 1
    /\ label = "keys" /\ r.owed => Released(r)
    /\ label \in {"key", "circuit"} /\ r.owed /\ ~r.tried => Left(r)
    /\ label = "exhausted" /\ r.owed => r.tried

PromiseInv == \A t \in Turns : Promise(pc[t], turn[t])

LEMMA SetHere ==
  ASSUME FailoverInv, NEW t \in Turns, NEW label, NEW r, Set(t, label, r)
  PROVE  pc'[t] = label /\ turn'[t] = r
  BY DEF Set, FailoverInv, Turning

LEMMA SetPromise ==
  ASSUME FailoverInv, NEW t \in Turns, NEW label, NEW r, Set(t, label, r),
         \/ label \notin Asked \cup {"circuits", "keys", "key", "circuit", "exhausted"}
         \/ label \notin {"circuits", "keys"} /\ r.tried
  PROVE  Promise(pc[t], turn[t])'
  <1>1. pc'[t] = label /\ turn'[t] = r
    BY SetHere
  <1> QED
    BY <1>1 DEF Promise, Asked

LEMMA AdvanceTried ==
  ASSUME FailoverInv, NEW t \in Turns, NEW r \in Turn, r.tried, Advance(t, r)
  PROVE  Promise(pc[t], turn[t])'
  <1> DEFINE y == [r EXCEPT !.at = @ + 1, !.kind = "none"]
  <1>1. y.tried
    BY DEF Turn
  <1>2. Set(t, "key", y)
    BY DEF Advance
  <1> HIDE DEF y
  <1> QED
    BY <1>1, <1>2, SetPromise

LEMMA EndPromise ==
  ASSUME FailoverInv, NEW t \in Turns, End(t)
  PROVE  Promise(pc[t], turn[t])'
  BY SetPromise DEF End, Asked

LEMMA ReleaseCircuitsPromise ==
  ASSUME FailoverInv, NEW t \in Turns, Promise(pc[t], turn[t]), ReleaseCircuits(t)
  PROVE  Promise(pc[t], turn[t])'
  <1> DEFINE r == turn[t]
             owes == /\ \A c \in Reach(t) : Open(c)
                     /\ \E c \in Reach(t) : block[c] # "rejected"
             y == [r EXCEPT !.owed = owes]
  <1>1. r \in Turn /\ r.at = 1 /\ r.list \in Seq(Keys) /\ Reach(t) \in SUBSET Keys
    BY At, TurnFields, ReachType DEF Promise, ReleaseCircuits
  <1>2. /\ y.owed = owes /\ y.at = 1 /\ y.list = r.list /\ y.bad = r.bad
    BY <1>1 DEF Turn
  <1>3. pc'[t] = "keys" /\ turn'[t] = y /\ block' = block /\ circuit' = ReleaseOpen(Reach(t))
    BY SetHere DEF ReleaseCircuits
  <1>4. turn'[t].owed = owes /\ turn'[t].at = 1 /\ turn'[t].list = r.list /\ turn'[t].bad = r.bad
    BY <1>2, <1>3
  <1> HIDE DEF y
  <1>5. ASSUME owes PROVE Released(turn[t])'
    <2>1. \A i \in DOMAIN r.list : r.list[i] \in Keys /\ (Reachable(r, i) <=> r.list[i] \in Reach(t))
      BY <1>1 DEF Reach, Reachable, KeysOf
    <2>2. Reach(t) # {} /\ \A c \in Reach(t) : Open(c)
      BY <1>5
    <2>3. ASSUME NEW c \in Reach(t) PROVE circuit'[c].phase = "half"
      <3>1. circuit'[c] = [circuit[c] EXCEPT !.phase = "half", !.successes = 0]
        BY <1>1, <1>3, <2>2 DEF ReleaseOpen
      <3>2. circuit[c] \in Circuit
        BY <1>1 DEF FailoverInv, Maps
      <3> QED
        BY <3>1, <3>2 DEF Circuit
    <2>4. ASSUME NEW i \in DOMAIN turn'[t].list, Reachable(turn[t], i)' PROVE circuit'[turn'[t].list[i]].phase # "open"
      BY <1>4, <2>1, <2>3, <2>4 DEF Reachable
    <2>5. PICK c \in Reach(t) : block[c] # "rejected"
      BY <1>5
    <2>6. PICK i \in DOMAIN r.list : r.list[i] = c
      BY DEF Reach
    <2>7. i \in DOMAIN turn'[t].list /\ Reachable(turn[t], i)' /\ block'[turn'[t].list[i]] # "rejected"
      BY <1>3, <1>4, <2>1, <2>5, <2>6 DEF Reachable
    <2> QED
      BY <2>4, <2>7 DEF Released, Open, Reachable
  <1> QED
    BY <1>3, <1>4, <1>5 DEF Promise, Asked

LEMMA ReleaseKeysPromise ==
  ASSUME FailoverInv, NEW t \in Turns, Promise(pc[t], turn[t]), ReleaseKeys(t)
  PROVE  Promise(pc[t], turn[t])'
  <1> DEFINE r == turn[t]
             owes == /\ \A c \in Reach(t) : ~Available(c)
                     /\ \E c \in Reach(t) : block[c] # "rejected" /\ ~Open(c)
             y == [r EXCEPT !.owed = @ \/ owes]
  <1>1. /\ r \in Turn /\ r.at = 1 /\ r.list \in Seq(Keys) /\ Reach(t) \in SUBSET Keys
        /\ r.owed => Released(r)
    BY At, TurnFields, ReachType DEF Promise, ReleaseKeys
  <1>2. /\ y.owed = (r.owed \/ owes) /\ y.at = 1 /\ y.list = r.list /\ y.bad = r.bad
    BY <1>1 DEF Turn
  <1>3. pc'[t] = "key" /\ turn'[t] = y /\ circuit' = circuit /\ block' = Release(Reach(t))
    BY SetHere DEF ReleaseKeys
  <1>4. /\ turn'[t].owed = (r.owed \/ owes) /\ turn'[t].at = 1
        /\ turn'[t].list = r.list /\ turn'[t].bad = r.bad
    BY <1>2, <1>3
  <1> HIDE DEF y
  <1>5. \A i \in DOMAIN r.list : r.list[i] \in Keys /\ (Reachable(r, i) <=> r.list[i] \in Reach(t))
    BY <1>1 DEF Reach, Reachable, KeysOf
  <1>6. \A c \in Reach(t) : \E i \in DOMAIN r.list : r.list[i] = c
    BY DEF Reach
  <1>7. ASSUME r.owed \/ owes PROVE \E c \in Reach(t) : ~Open(c) /\ block'[c] = "none"
    <2>1. CASE owes
      <3>1. PICK c \in Reach(t) : block[c] # "rejected" /\ ~Open(c)
        BY <2>1
      <3>2. block'[c] = "none"
        BY <1>1, <1>3, <2>1, <3>1 DEF Release, Available
      <3> QED
        BY <3>1, <3>2
    <2>2. CASE r.owed
      <3>1. \A c \in Reach(t) : ~Open(c)
        BY <1>1, <1>5, <1>6, <2>2 DEF Released
      <3>2. PICK c \in Reach(t) : block[c] # "rejected"
        BY <1>1, <1>5, <2>2 DEF Released
      <3>3. CASE \A d \in Reach(t) : block[d] # "none"
        BY <1>1, <1>3, <3>1, <3>2, <3>3 DEF Release
      <3>4. ASSUME NEW d \in Reach(t), block[d] = "none"
            PROVE  ~Open(d) /\ block'[d] = "none"
        BY <1>1, <1>3, <3>1, <3>4 DEF Release
      <3> QED
        BY <3>3, <3>4
    <2> QED
      BY <1>7, <2>1, <2>2
  <1>8. ASSUME r.owed \/ owes PROVE Left(turn[t])'
    <2>1. PICK c \in Reach(t) : ~Open(c) /\ block'[c] = "none"
      BY <1>7, <1>8
    <2>2. PICK i \in DOMAIN r.list : r.list[i] = c
      BY <1>6
    <2>3. i \in DOMAIN turn'[t].list /\ i >= turn'[t].at /\ Reachable(turn[t], i)' /\ turn'[t].list[i] = c
      BY <1>1, <1>4, <1>5, <2>2 DEF Reachable
    <2>4. block'[c] = "none" /\ circuit'[c].phase # "open"
      BY <1>3, <2>1 DEF Open
    <2> QED
      BY <2>3, <2>4 DEF Left, Usable, Available, Open, Reachable
  <1> QED
    BY <1>3, <1>4, <1>8 DEF Promise, Asked

\* A skipped candidate is not the one that was promised.
LEMMA SkipLeft ==
  ASSUME FailoverInv, NEW t \in Turns, Advance(t, turn[t]), UNCHANGED block,
         \A c \in Keys : Open(c)' => Open(c),
         turn[t].owed /\ ~turn[t].tried => Left(turn[t]),
         turn[t].at \in DOMAIN turn[t].list =>
           ~Reachable(turn[t], turn[t].at) \/ ~Usable(Candidate(t))
  PROVE  Promise(pc[t], turn[t])'
  <1> DEFINE r == turn[t]
             y == [r EXCEPT !.at = @ + 1, !.kind = "none"]
  <1>1. r \in Turn /\ r.list \in Seq(Keys) /\ r.at \in Nat
    BY At, TurnFields
  <1>2. /\ y.owed = r.owed /\ y.tried = r.tried /\ y.list = r.list /\ y.bad = r.bad
        /\ y.at = r.at + 1
    BY <1>1 DEF Turn
  <1>3. pc'[t] = "key" /\ turn'[t] = y
    BY SetHere DEF Advance
  <1>4. /\ turn'[t].owed = r.owed /\ turn'[t].tried = r.tried /\ turn'[t].list = r.list
        /\ turn'[t].bad = r.bad /\ turn'[t].at = r.at + 1
    BY <1>2, <1>3
  <1> HIDE DEF y
  <1>5. ASSUME r.owed, ~r.tried PROVE Left(turn[t])'
    <2>1. PICK i \in DOMAIN r.list : i >= r.at /\ Reachable(r, i) /\ Usable(r.list[i])
      BY <1>5 DEF Left
    <2>2. i # r.at
      BY <2>1 DEF Candidate
    <2>3. /\ i \in DOMAIN turn'[t].list /\ i >= turn'[t].at
          /\ Reachable(turn[t], i)' /\ r.list[i] \in Keys
      BY <1>1, <1>4, <2>1, <2>2 DEF Reachable
    <2>4. block'[r.list[i]] = "none" /\ circuit'[r.list[i]].phase # "open"
      BY <2>1, <2>3 DEF Usable, Available, Open
    <2> QED
      BY <1>4, <2>3, <2>4 DEF Left, Usable, Available, Open, Reachable
  <1> QED
    BY <1>3, <1>4, <1>5 DEF Promise, Asked

LEMMA CheckKeyPromise ==
  ASSUME FailoverInv, NEW t \in Turns, Promise(pc[t], turn[t]), CheckKey(t)
  PROVE  Promise(pc[t], turn[t])'
  <1> DEFINE r == turn[t]
  <1>1. /\ r \in Turn /\ r.list \in Seq(Keys) /\ r.at \in Nat
        /\ r.owed /\ ~r.tried => Left(r)
        /\ UNCHANGED <<block, circuit>>
    BY At, TurnFields DEF Promise, CheckKey, health
  <1>2. CASE r.at > Len(r.list)
    <2>1. pc'[t] = "exhausted" /\ turn'[t] = r
      BY <1>2, SetHere DEF CheckKey, Goto
    <2>2. ~Left(r)
      BY <1>1, <1>2 DEF Left
    <2> QED
      BY <1>1, <2>1, <2>2 DEF Promise, Asked
  <1>3. CASE ~(r.at > Len(r.list))
             /\ (ProviderOf[Candidate(t)] \in r.bad \/ ~Available(Candidate(t)))
    <2>1. Advance(t, r)
      BY <1>3 DEF CheckKey
    <2>2. ~Reachable(r, r.at) \/ ~Usable(Candidate(t))
      BY <1>3 DEF Reachable, Usable, Candidate
    <2>3. \A c \in Keys : Open(c)' => Open(c)
      BY <1>1 DEF Open
    <2> QED
      BY <1>1, <2>1, <2>2, <2>3, SkipLeft
  <1>4. CASE Goto(t, "circuit")
    <2>1. pc'[t] = "circuit" /\ turn'[t] = r
      BY <1>4, SetHere DEF Goto
    <2>2. Left(turn[t]) => Left(turn[t])'
      BY <1>1, <2>1 DEF Left, Usable, Available, Open, Reachable
    <2> QED
      BY <1>1, <2>1, <2>2 DEF Promise, Asked
  <1> QED
    BY <1>2, <1>3, <1>4 DEF CheckKey

LEMMA TouchedOpen ==
  ASSUME Maps, NEW S, circuit' = Touched(circuit, S)
  PROVE  \A c \in Keys : Open(c)' => Open(c)
  <1>1. ASSUME NEW c \in Keys, Open(c)' PROVE Open(c)
    <2>1. CASE c \in S /\ circuit[c].phase = "expired"
      <3>1. circuit'[c] = [circuit[c] EXCEPT !.phase = "half", !.successes = 0]
        BY <2>1 DEF Touched
      <3>2. circuit[c] \in Circuit
        BY DEF Maps
      <3>3. circuit'[c].phase = "half"
        BY <3>1, <3>2 DEF Circuit
      <3> QED
        BY <1>1, <3>3 DEF Open
    <2>2. CASE ~(c \in S /\ circuit[c].phase = "expired")
      BY <1>1, <2>2 DEF Touched, Open
    <2> QED
      BY <2>1, <2>2
  <1> QED
    BY <1>1

LEMMA CheckCircuitPromise ==
  ASSUME FailoverInv, NEW t \in Turns, Promise(pc[t], turn[t]), CheckCircuit(t)
  PROVE  Promise(pc[t], turn[t])'
  <1>1. \A c \in Keys : Open(c)' => Open(c)
    BY TouchedOpen DEF CheckCircuit, FailoverInv
  <1>2. CASE Open(Candidate(t)) /\ Advance(t, turn[t])
    <2>1. ~Usable(Candidate(t)) /\ UNCHANGED block
      BY <1>2 DEF Usable, CheckCircuit
    <2>2. turn[t].owed /\ ~turn[t].tried => Left(turn[t])
      BY DEF Promise, CheckCircuit
    <2> QED
      BY <1>1, <1>2, <2>1, <2>2, SkipLeft
  <1>3. CASE Goto(t, "open")
    BY <1>3, SetPromise DEF Goto, Asked
  <1> QED
    BY <1>2, <1>3 DEF CheckCircuit

\* Guards and timers only take obstacles away.
LEMMA TimerPromise ==
  ASSUME FailoverInv, NEW t \in Turns, Promise(pc[t], turn[t]), NEW c \in Keys,
         Cooled(c) \/ Expire(c) \/ ClearBlock(c)
  PROVE  Promise(pc[t], turn[t])'
  <1>1. turn[t].list \in Seq(Keys) /\ block \in [Keys -> Block] /\ circuit \in [Keys -> Circuit]
    BY At, TurnFields DEF FailoverInv, Maps
  <1>2. pc' = pc /\ turn' = turn
    BY DEF Cooled, Expire, ClearBlock
  <1>3. ASSUME NEW d \in Keys
        PROVE  /\ circuit'[d].phase = "open" => Open(d)
               /\ block'[d] = block[d] \/ block'[d] = "none"
    <2>1. circuit[d] \in Circuit /\ circuit[c] \in Circuit
      BY <1>1
    <2>2. CASE Expire(c)
      <3>1. circuit' = [circuit EXCEPT ![c] = [circuit[c] EXCEPT !.phase = "expired"]]
        BY <2>2 DEF Expire
      <3>2. [circuit[c] EXCEPT !.phase = "expired"].phase = "expired"
        BY <2>1 DEF Circuit
      <3> QED
        BY <1>1, <2>2, <3>1, <3>2 DEF Expire, Open
    <2>3. CASE Cooled(c) \/ ClearBlock(c)
      BY <1>1, <2>3 DEF Cooled, ClearBlock, Open
    <2> QED
      BY <2>2, <2>3
  <1>4. \A i \in DOMAIN turn[t].list : turn[t].list[i] \in Keys
    BY <1>1
  <1>5. Released(turn[t]) => Released(turn[t])'
    BY <1>2, <1>3, <1>4 DEF Released, Reachable, Open
  <1>6. Left(turn[t]) => Left(turn[t])'
    BY <1>2, <1>3, <1>4 DEF Left, Reachable, Usable, Available, Open
  <1> QED
    BY <1>2, <1>5, <1>6 DEF Promise

LEMMA SelectPromise ==
  ASSUME FailoverInv, NEW t \in Turns, Select(t)
  PROVE  Promise(pc[t], turn[t])'
  <1>0. ASSUME End(t) PROVE Promise(pc[t], turn[t])'
    BY <1>0, EndPromise
  <1> SUFFICES ASSUME ~End(t) PROVE Promise(pc[t], turn[t])'
    BY <1>0
  <1>1. PICK s :
          Set(t, IF s = <<>> THEN "exhausted" ELSE "circuits",
              [turn[t] EXCEPT !.list = s, !.at = 1, !.leak = FALSE, !.rounds = @ + 1,
                              !.answers = 0, !.tried = FALSE, !.owed = FALSE])
    BY DEF Select
  <1> DEFINE y == [turn[t] EXCEPT !.list = s, !.at = 1, !.leak = FALSE, !.rounds = @ + 1,
                                  !.answers = 0, !.tried = FALSE, !.owed = FALSE]
             label == IF s = <<>> THEN "exhausted" ELSE "circuits"
  <1>2. y.at = 1 /\ y.owed = FALSE
    BY At DEF Turn
  <1>3. label \in {"exhausted", "circuits"}
    OBVIOUS
  <1>4. Set(t, label, y)
    BY <1>1
  <1> HIDE DEF y, label
  <1>5. pc'[t] = label /\ turn'[t] = y
    BY <1>4, SetHere
  <1> QED
    BY <1>2, <1>3, <1>5 DEF Promise, Asked

LEMMA OpenPromise ==
  ASSUME FailoverInv, NEW t \in Turns, OpenProvider(t)
  PROVE  Promise(pc[t], turn[t])'
  <1>1. CASE \E native \in BOOLEAN :
               Set(t, "head", [turn[t] EXCEPT !.retry = 0, !.sent = 0, !.native = native])
    BY <1>1, SetPromise DEF Asked
  <1>2. CASE Advance(t, [turn[t] EXCEPT !.tried = TRUE])
    <2> DEFINE y == [turn[t] EXCEPT !.tried = TRUE]
    <2>1. y \in Turn /\ y.tried
      BY At DEF Turn
    <2> HIDE DEF y
    <2>2. Advance(t, y)
      BY <1>2 DEF y
    <2> QED
      BY <2>1, <2>2, AdvanceTried
  <1> QED
    BY <1>1, <1>2 DEF OpenProvider

\* What follows a request keeps in mind that there was one.
LEMMA AskedPromise ==
  ASSUME FailoverInv, NEW t \in Turns, Promise(pc[t], turn[t]),
         \/ Send(t) \/ Described(t) \/ Succeed(t) \/ SucceedKey(t) \/ RetryPlain(t) \/ RetryTrimmed(t)
         \/ BlameKey(t) \/ RejectModel(t)
         \/ \E kind \in Kinds, visible \in BOOLEAN : Fail(t, kind, visible)
  PROVE  Promise(pc[t], turn[t])'
  <1> DEFINE r == turn[t]
  <1>1. r \in Turn /\ (pc[t] \in Asked => r.tried)
    BY At DEF Promise
  <1>2. CASE Send(t) \/ Described(t)
    <2> DEFINE y == [r EXCEPT !.sent = @ + 1, !.tried = TRUE]
    <2>1. y.tried
      BY <1>1 DEF Turn
    <2>2. Set(t, "stream", y) \/ End(t)
      BY <1>2 DEF Send, Described
    <2> HIDE DEF y
    <2> QED
      BY <2>1, <2>2, SetPromise, EndPromise
  <1>3. CASE Succeed(t)
    <2> DEFINE y == [r EXCEPT !.answers = @ + 1]
    <2>1. y.tried
      BY <1>1, <1>3 DEF Turn, Succeed, Asked
    <2>2. Set(t, "won", y)
      BY <1>3 DEF Succeed
    <2> HIDE DEF y
    <2> QED
      BY <2>1, <2>2, SetPromise
  <1>4. CASE SucceedKey(t)
    <2>1. r.tried
      BY <1>1, <1>4 DEF SucceedKey, Asked
    <2> QED
      BY <1>4, <2>1, SetPromise DEF SucceedKey, Goto
  <1>5. CASE RetryPlain(t)
    <2> DEFINE b == r.leak \/ r.kind = "leaked"
               y == [r EXCEPT !.shown = FALSE, !.retry = @ + 1, !.leak = b, !.kind = "none"]
    <2>1. y.tried
      BY <1>1, <1>5 DEF Turn, RetryPlain, Asked
    <2>2. Set(t, "wait", y)
      BY <1>5 DEF RetryPlain
    <2> HIDE DEF y
    <2> QED
      BY <2>1, <2>2, SetPromise
  <1>6. CASE RetryTrimmed(t)
    <2> DEFINE y == [r EXCEPT !.retry = @ + 1, !.kind = "none"]
    <2>1. y.tried
      BY <1>1, <1>6 DEF Turn, RetryTrimmed, Asked
    <2>2. Set(t, "wait", y)
      BY <1>6 DEF RetryTrimmed
    <2> HIDE DEF y
    <2> QED
      BY <2>1, <2>2, SetPromise
  <1>7. CASE BlameKey(t)
    <2> DEFINE b == r.leak \/ r.kind = "leaked"
               y == [r EXCEPT !.leak = b]
    <2>1. y.tried
      BY <1>1, <1>7 DEF Turn, BlameKey, Asked
    <2>2. Set(t, "blame", y)
      BY <1>7 DEF BlameKey
    <2> HIDE DEF y
    <2> QED
      BY <2>1, <2>2, SetPromise
  <1>8. CASE RejectModel(t)
    <2> DEFINE y == [r EXCEPT !.bad = @ \cup {ProviderOf[Candidate(t)]}]
    <2>1. Good("failed", r) /\ r.tried
      BY <1>1, <1>8, At DEF RejectModel, Asked
    <2>2. ProviderOf[Candidate(t)] \in Providers
      BY <2>1, CandidateType DEF Candidate, Trying
    <2>3. y.tried /\ y \in Turn
      BY <1>1, <2>1, <2>2 DEF Turn
    <2>4. Advance(t, y)
      BY <1>8 DEF RejectModel
    <2> HIDE DEF y
    <2> QED
      BY <2>3, <2>4, AdvanceTried
  <1>9. ASSUME NEW kind \in Kinds, NEW visible \in BOOLEAN, Fail(t, kind, visible)
        PROVE  Promise(pc[t], turn[t])'
    <2> DEFINE R == IF kind = "model" THEN r.refusers \cup {ProviderOf[Candidate(t)]}
                                      ELSE r.refusers
               y == [r EXCEPT !.kind = kind, !.shown = visible, !.refusers = R]
    <2>1. y.tried
      BY <1>1, <1>9 DEF Turn, Fail, Asked
    <2>2. Set(t, "failed", y)
      BY <1>9 DEF Fail
    <2> HIDE DEF y
    <2> QED
      BY <2>1, <2>2, SetPromise
  <1> QED
    BY <1>2, <1>3, <1>4, <1>5, <1>6, <1>7, <1>8, <1>9

LEMMA GiveUpPromise ==
  ASSUME FailoverInv, NEW t \in Turns, Promise(pc[t], turn[t]), GiveUp(t)
  PROVE  Promise(pc[t], turn[t])'
  <1> DEFINE y == [turn[t] EXCEPT !.shown = FALSE]
  <1>1. turn[t] \in Turn /\ turn[t].tried
    BY At DEF Promise, GiveUp, Asked
  <1>2. y \in Turn /\ y.tried
    BY <1>1 DEF Turn
  <1>3. End(t) \/ Advance(t, y)
    BY DEF GiveUp
  <1> HIDE DEF y
  <1> QED
    BY <1>2, <1>3, EndPromise, AdvanceTried

\* Back to the candidate, on to the next round, to the end, and the relay.
LEMMA FreePromise ==
  ASSUME FailoverInv, NEW t \in Turns,
         \/ StartTurn(t) \/ StartRelay(t) \/ Abandon(t) \/ RefusesVision(t) \/ Answered(t)
         \/ Describe(t)
         \/ RetryEcho(t) \/ RetryVision(t) \/ Wait(t) \/ Exhausted(t)
         \/ RelayPick(t) \/ RelayReleaseKeys(t) \/ RelayReleaseCircuits(t)
         \/ RelayDone(t) \/ RelayEnd(t)
  PROVE  Promise(pc[t], turn[t])'
  <1> DEFINE Free == {"idle", "select", "head", "describe", "relay", "relay_keys", "relay_circuits",
                      "relay_again", "relayed", "relay_end"}
  <1>1. \E label \in Free : \E r : Set(t, label, r)
    <2>1. CASE \/ StartTurn(t) \/ StartRelay(t) \/ Abandon(t) \/ RefusesVision(t) \/ Answered(t)
               \/ Describe(t) \/ Exhausted(t)
      BY <2>1 DEF StartTurn, StartRelay, Abandon, RefusesVision, Answered, Describe,
         Exhausted, End, Goto
    <2>2. CASE RetryEcho(t) \/ RetryVision(t) \/ Wait(t)
      BY <2>2 DEF RetryEcho, RetryVision, Wait, End, Goto
    <2>3. CASE RelayPick(t)
      BY <2>3 DEF RelayPick, End, Goto
    <2>4. CASE RelayReleaseKeys(t) \/ RelayReleaseCircuits(t) \/ RelayDone(t) \/ RelayEnd(t)
      BY <2>4 DEF RelayReleaseKeys, RelayReleaseCircuits, RelayDone, RelayEnd, End, Goto
    <2> QED
      BY <2>1, <2>2, <2>3, <2>4
  <1>2. PICK label \in Free : \E r : Set(t, label, r)
    BY <1>1
  <1>3. PICK r : Set(t, label, r)
    BY <1>2
  <1>4. label \notin Asked \cup {"circuits", "keys", "key", "circuit", "exhausted"}
    BY DEF Asked
  <1> QED
    BY <1>3, <1>4, SetPromise

\* With one turn or relayed request at a time, a round to which one of the two guards
\* has promised an attempt makes one before it reports that no provider is available,
\* for any number of keys, providers and routes.  (A second turn may spend the
\* promise of the first: its failure can open a circuit again before the first has
\* come to that candidate.)
THEOREM GuardsKeepWord ==
  ASSUME NEW one, Turns = {one}
  PROVE  Spec => []GuardsWork
  <1>1. Init => PromiseInv
    BY DEF Init, PromiseInv, Promise, Asked
  <1>2. ASSUME FailoverInv, PromiseInv, [Next]_vars PROVE PromiseInv'
    <2>1. one \in Turns /\ Promise(pc[one], turn[one])
      BY <1>2 DEF PromiseInv
    <2>2. ASSUME NEW t \in Turns, Step(t) \/ Described(t) PROVE Promise(pc[t], turn[t])'
      <3>1. Promise(pc[t], turn[t])
        BY <1>2 DEF PromiseInv
      <3> QED
        BY <1>2, <2>2, <3>1, SelectPromise, ReleaseCircuitsPromise, ReleaseKeysPromise,
           CheckKeyPromise, CheckCircuitPromise, OpenPromise, AskedPromise, GiveUpPromise,
           FreePromise DEF Step
    <2>3. CASE Next
      <3>1. CASE \E t \in Turns : StartTurn(t) \/ StartRelay(t) \/ Step(t) \/ Described(t)
        BY <1>2, <2>2, <3>1, FreePromise DEF PromiseInv
      <3>2. CASE \E c \in Keys : Cooled(c) \/ Expire(c) \/ ClearBlock(c)
        BY <1>2, <2>1, <3>2, TimerPromise DEF PromiseInv
      <3> QED
        BY <2>3, <3>1, <3>2 DEF Next
    <2>4. CASE UNCHANGED vars
      BY <1>2, <2>4 DEF vars, PromiseInv, Promise, Released, Left, Reachable, Usable,
         Available,
         Open
    <2> QED
      BY <1>2, <2>3, <2>4
  <1>3. PromiseInv => GuardsWork
    BY DEF PromiseInv, Promise, GuardsWork
  <1> QED
    BY <1>1, <1>2, <1>3, Invariance, PTL DEF Spec
=============================================================================
