--------------------------- MODULE ProviderFailover ---------------------------
(***************************************************************************)
(* Which provider credential a request of the agent goes to.  Every turn   *)
(* (run_session) walks a list of candidates, one per usable API key, and   *)
(* retries, repairs or gives up on each; Desktop's local relay forwards    *)
(* single requests beside them.  All of them share two process-wide maps,  *)
(* the health of the keys and the circuit breakers, each behind a mutex:   *)
(* an action is one critical section, or one scan of a candidate list, and *)
(* anything happens between two.                                           *)
(*                                                                         *)
(* Time is a set of timers: a cooldown or an open circuit ends when its    *)
(* timer fires, in any order.  The weighted rotation that chooses who goes *)
(* first is left open here: any key, and any route, may win.               *)
(***************************************************************************)
EXTENDS Naturals, Sequences, FiniteSets

CONSTANTS
    Turns,              \* turns and relay requests that may be in flight
    Providers, Keys,    \* configured providers and their usable keys
    ProviderOf,         \* the provider of a key
    Rank,               \* place of a provider (of its route) or key in the configuration
    Trust,              \* trust_level of a provider
    Active,             \* active_provider_id
    Fallback,           \* provider_fallback_enabled
    Routes,             \* providers of the enabled model_routes of the model
    Kinds,              \* failures the endpoints produce, of FailureKinds
    MaxRetries,         \* max_provider_retries
    MaxRounds,          \* max_tool_rounds
    FailureThreshold, RecoveryThreshold, MinRequests, RatePercent,
                        \* circuit_failure_threshold, circuit_recovery_success_threshold,
                        \* circuit_min_request_count, circuit_error_rate_threshold_percent
    MaxStarts           \* bound: turns and relay requests ever started

\* What an attempt may fail with, as the retry loop tells failures apart.
\* stalled: a stream timeout; network: a transport error; decode: a transport
\* error that is_retryable leaves out; dropped: the stream ended early; busy: a
\* busy notice instead of an answer; leaked: tool calls in the text; empty: no
\* output; server: 5xx; limited: 429; quota: 429 that names its reset; refused:
\* 401; denied: a 403 that names the key; forbidden: any other 403; rejected: 400,
\* 404, 408, 409; throttled: rate_limit_exceeded inside a stream; overflow:
\* context too long; model: the provider does not have the model; echo: replayed
\* tool history; vision: images not supported; other: anything else.
FailureKinds == {"stalled", "network", "decode", "dropped", "busy", "leaked", "empty",
                 "server", "limited", "quota", "refused", "denied", "forbidden",
                 "rejected", "throttled", "overflow", "model", "echo", "vision", "other"}

ASSUME ConfigAssumption ==
    /\ Active \in Providers
    /\ ProviderOf \in [Keys -> Providers]
    /\ IsFiniteSet(Keys)
    /\ Routes \subseteq Providers
    /\ Fallback \in BOOLEAN
    /\ Kinds \subseteq FailureKinds
ASSUME LimitsAssumption ==
    /\ MaxRetries \in Nat /\ MaxRounds \in Nat /\ MaxStarts \in Nat
    /\ FailureThreshold \in Nat /\ RecoveryThreshold \in Nat
    /\ MinRequests \in Nat /\ RatePercent \in Nat

VARIABLES
    block,      \* PROVIDER_KEY_HEALTH: why a key is out of rotation
    circuit,    \* PROVIDER_CIRCUITS
    pc,         \* where a turn is
    turn,       \* its locals
    starts      \* turns and relay requests started so far

health == <<block, circuit>>
vars   == <<block, circuit, pc, turn, starts>>

\* Some(Unstable) and Some(RateLimited) with a blocked_until in the past are read
\* as None everywhere, so they are "none" here.
Block == {"none", "rejected", "rate_limited", "unstable"}

\* "open": opened_until lies ahead; "expired": it has passed and nobody looked;
\* "half": half_open.
Circuit == [phase : {"closed", "open", "expired", "half"}, streak : Nat,
            requests : Nat, failures : Nat, successes : Nat]

NewCircuit == [phase |-> "closed", streak |-> 0, requests |-> 0, failures |-> 0,
               successes |-> 0]

Labels == {"idle", "select", "circuits", "keys", "key", "circuit", "open", "head",
           "describe", "stream", "won", "answered", "failed", "blame", "wait", "exhausted",
           "relay", "relay_keys", "relay_circuits", "relay_again", "relayed", "relay_end"}

Turn == [list   : Seq(Keys),            \* candidates
         at     : Nat,                  \* candidate_index, from 1
         bad    : SUBSET Providers,     \* model_incompatible_provider_ids
         refusers : SUBSET Providers,   \* history: who answered that it lacks the model
         retry  : Nat,                  \* retry_attempt
         native : BOOLEAN,              \* images still go out as images
         echoed : BOOLEAN,              \* historical_tool_echo_retry_used
         leak   : BOOLEAN,              \* dsml_protocol_repair_attempted
         kind   : Kinds \cup {"none"},  \* the failure being handled
         rounds : Nat,
         \* history
         sent   : Nat,                  \* requests to the candidate, but the ones that
                                        \* RetryVision answers
         shown  : BOOLEAN,              \* text of a failed attempt on the screen
         tried  : BOOLEAN,              \* has this round asked any candidate
         owed   : BOOLEAN,              \* a release_* guard promised an attempt
         answers : Nat]                 \* answers in this round

NoTurn == [list |-> <<>>, at |-> 1, bad |-> {}, refusers |-> {}, retry |-> 0, native |-> FALSE,
           echoed |-> FALSE, leak |-> FALSE, kind |-> "none", rounds |-> 0, sent |-> 0,
           shown |-> FALSE, tried |-> FALSE, owed |-> FALSE,
           answers |-> 0]

-----------------------------------------------------------------------------
(* What a failure means *)

\* is_retryable_provider_attempt
Retryable == {"stalled", "network", "dropped", "busy", "leaked", "empty", "server",
              "limited", "refused", "rejected", "throttled"}

\* stream_restart_discards_partial_output
Restartable == {"stalled", "network", "decode", "dropped", "busy", "leaked"}

\* Failures that can follow text the client has already shown.
AfterText == {"stalled", "network", "decode", "dropped", "busy", "leaked", "throttled",
              "overflow", "echo", "other"}

\* classify_provider_key_failure
Blames(kind) ==
    CASE kind \in {"refused", "denied"} -> "rejected"
      [] kind \in {"limited", "quota"} -> "rate_limited"
      [] kind \in {"stalled", "network", "decode", "server", "forbidden"} -> "unstable"
      [] OTHER -> "none"

-----------------------------------------------------------------------------
(* The shared maps *)

Open(c) == circuit[c].phase = "open"

Available(c) == block[c] = "none"

Usable(c) == Available(c) /\ ~Open(c)

\* record_provider_key_failure: a failure that blames the key sets the block,
\* whatever it was.
Blamed(c, kind) ==
    [block EXCEPT ![c] = IF Blames(kind) = "none" THEN @ ELSE Blames(kind)]

\* Mutant of Release: rejected keys are put back too.
ReleaseAll(S) ==
    IF S # {} /\ \A c \in S : block[c] # "none"
      THEN [c \in Keys |-> IF c \in S THEN "none" ELSE block[c]]
      ELSE block

\* release_key_cooldowns_when_all_are_blocked
Release(S) ==
    IF S # {} /\ \A c \in S : block[c] # "none"
      THEN [c \in Keys |-> IF c \in S /\ block[c] # "rejected" THEN "none" ELSE block[c]]
      ELSE block

\* Mutant of ReleaseOpen: the guard looks for one open circuit in vain.
ReleaseNone(S) == circuit

\* release_circuits_when_all_are_open
ReleaseOpen(S) ==
    IF S # {} /\ \A c \in S : Open(c)
      THEN [c \in Keys |-> IF c \in S
                             THEN [circuit[c] EXCEPT !.phase = "half", !.successes = 0]
                             ELSE circuit[c]]
      ELSE circuit

\* circuit_allows, for a circuit that is not open: a look at an expired one
\* makes it half open.
Touched(C, S) ==
    [c \in Keys |-> IF c \in S /\ C[c].phase = "expired"
                      THEN [C[c] EXCEPT !.phase = "half", !.successes = 0]
                      ELSE C[c]]

\* record_provider_success
Succeeded(c) ==
    LET old == circuit[c]
        new == IF old.phase # "half"
                 THEN [old EXCEPT !.requests = @ + 1, !.streak = 0]
                 ELSE IF old.successes + 1 >= RecoveryThreshold
                        THEN NewCircuit
                        ELSE [old EXCEPT !.successes = @ + 1]
    IN  [circuit EXCEPT ![c] = new]

\* record_provider_failure
Failed(c) ==
    LET old == circuit[c]
        new == [old EXCEPT !.requests = @ + 1, !.failures = @ + 1, !.streak = @ + 1]
        opens == \/ old.phase = "half"
                 \/ new.streak >= FailureThreshold
                 \/ /\ new.requests >= MinRequests
                    /\ new.failures * 100 >= RatePercent * new.requests
    IN  [circuit EXCEPT ![c] =
            IF opens THEN [new EXCEPT !.phase = "open", !.successes = 0] ELSE new]

-----------------------------------------------------------------------------
(* The candidates of a turn *)

KeysOf(P) == {k \in Keys : ProviderOf[k] \in P}

InTrust == {p \in Providers : Trust[p] = Trust[Active]}

\* Mutant of EligibleRoutes: routes of every level.
AllRoutes == Routes

\* eligible_model_routes
EligibleRoutes == Routes \cap InTrust

\* Mutant of Backups: the fallback takes every configured provider.
AllBackups == Providers

\* The active provider and, with the fallback enabled, the others of its level.
Backups == {Active} \cup (IF Fallback THEN InTrust ELSE {})

\* Routes with a key that could be asked now; all that have a key when there is
\* none.
RoutesToTry ==
    LET expanded == {p \in EligibleRoutes : KeysOf({p}) # {}}
        usable == {p \in expanded : \E k \in KeysOf({p}) : Usable(k)}
    IN  IF usable # {} THEN usable ELSE expanded

\* Order of two candidates: the provider that goes first, then configuration
\* order; inside a provider the key that won the rotation, then configuration
\* order.
Precedes(a, b, first, winners) ==
    LET p == ProviderOf[a]
        q == ProviderOf[b]
    IN  IF p = q
          THEN a \in winners \/ (b \notin winners /\ Rank[a] < Rank[b])
          ELSE p = first \/ (q # first /\ Rank[p] < Rank[q])

Winners == {W \in SUBSET Keys : \A a, b \in W : ProviderOf[a] = ProviderOf[b] => a = b}

\* provider_candidates: the keys of P as a list
Lists(P, first) ==
    {s \in [1..Cardinality(KeysOf(P)) -> KeysOf(P)] :
        \E W \in Winners :
            \A i, j \in DOMAIN s :
                i < j => s[i] # s[j] /\ Precedes(s[i], s[j], first, W)}

\* The keys that routed_provider_candidates finds usable: it stops at the first
\* one of a provider.
FirstUsable(s) ==
    {s[i] : i \in {j \in DOMAIN s :
        /\ Usable(s[j])
        /\ \A h \in 1..(j - 1) : ProviderOf[s[h]] = ProviderOf[s[j]] => ~Usable(s[h])}}

Candidate(t) == turn[t].list[turn[t].at]

HasNext(t) == turn[t].at < Len(turn[t].list)

\* Candidates whose provider has not refused the model in this turn.
Reach(t) == {turn[t].list[i] : i \in DOMAIN turn[t].list}
                \ KeysOf(turn[t].bad)

Set(t, label, locals) ==
    /\ pc' = [pc EXCEPT ![t] = label]
    /\ turn' = [turn EXCEPT ![t] = locals]

Goto(t, label) == Set(t, label, turn[t])

End(t) == Set(t, "idle", NoTurn)

\* On to the next candidate.
Advance(t, locals) == Set(t, "key", [locals EXCEPT !.at = @ + 1, !.kind = "none"])

-----------------------------------------------------------------------------
(* A round of a turn *)

StartTurn(t) ==
    /\ pc[t] = "idle"
    /\ starts < MaxStarts
    /\ starts' = starts + 1
    /\ Set(t, "select", NoTurn)
    /\ UNCHANGED health

\* provider_candidates.  An empty list ends the turn, and so does a first
\* candidate that cannot be opened when the turn begins.
Select(t) ==
    /\ pc[t] = "select"
    /\ LET routed == EligibleRoutes # {}
           P == IF routed THEN RoutesToTry ELSE Backups
       IN  \E first \in IF routed /\ P # {} THEN P ELSE {Active} :
             \E s \in Lists(P, first) :
               /\ circuit' = IF routed THEN Touched(circuit, FirstUsable(s)) ELSE circuit
               /\ \/ Set(t, IF s = <<>> THEN "exhausted" ELSE "circuits",
                         [turn[t] EXCEPT !.list = s, !.at = 1, !.leak = FALSE,
                                         !.rounds = @ + 1, !.answers = 0,
                                         !.tried = FALSE, !.owed = FALSE])
                  \/ turn[t].rounds = 0 /\ s # <<>> /\ End(t)
    /\ UNCHANGED <<block, starts>>

\* With every circuit open, each is given an attempt ...
ReleaseCircuits(t) ==
    /\ pc[t] = "circuits"
    /\ circuit' = ReleaseOpen(Reach(t))
    /\ Set(t, "keys", [turn[t] EXCEPT !.owed =
            /\ \A c \in Reach(t) : Open(c)
            /\ \E c \in Reach(t) : block[c] # "rejected"])
    /\ UNCHANGED <<block, starts>>

\* ... and with every key blocked, the ones that only cool down.
ReleaseKeys(t) ==
    /\ pc[t] = "keys"
    /\ block' = Release(Reach(t))
    /\ Set(t, "key", [turn[t] EXCEPT !.owed = @ \/
            /\ \A c \in Reach(t) : ~Available(c)
            /\ \E c \in Reach(t) : block[c] # "rejected" /\ ~Open(c)])
    /\ UNCHANGED <<circuit, starts>>

\* Mutant of CheckKey: a candidate that is skipped is looked at again.
CheckKeyAgain(t) ==
    /\ pc[t] = "key"
    /\ IF turn[t].at > Len(turn[t].list) THEN Goto(t, "exhausted")
       ELSE IF ProviderOf[Candidate(t)] \in turn[t].bad \/ ~Available(Candidate(t))
              THEN Goto(t, "key")
              ELSE Goto(t, "circuit")
    /\ UNCHANGED <<health, starts>>

\* The next candidate, unless its provider refused the model or its key is
\* blocked (provider_key_is_available).
CheckKey(t) ==
    /\ pc[t] = "key"
    /\ IF turn[t].at > Len(turn[t].list) THEN Goto(t, "exhausted")
       ELSE IF ProviderOf[Candidate(t)] \in turn[t].bad \/ ~Available(Candidate(t))
              THEN Advance(t, turn[t])
              ELSE Goto(t, "circuit")
    /\ UNCHANGED <<health, starts>>

\* circuit_allows
CheckCircuit(t) ==
    /\ pc[t] = "circuit"
    /\ IF Open(Candidate(t)) THEN Advance(t, turn[t]) ELSE Goto(t, "open")
    /\ circuit' = Touched(circuit, {Candidate(t)})
    /\ UNCHANGED <<block, starts>>

\* open_provider; without a key in the environment it fails and counts as a
\* failed request.
OpenProvider(t) ==
    /\ pc[t] = "open"
    /\ \/ /\ \E native \in BOOLEAN :
               Set(t, "head", [turn[t] EXCEPT !.retry = 0, !.sent = 0, !.native = native])
          /\ UNCHANGED circuit
       \/ /\ circuit' = Failed(Candidate(t))
          /\ Advance(t, [turn[t] EXCEPT !.tried = TRUE])
    /\ UNCHANGED <<block, starts>>

\* stream_provider_attempt
Send(t) ==
    /\ pc[t] = "head"
    /\ Set(t, "stream", [turn[t] EXCEPT !.sent = @ + 1, !.tried = TRUE])
    /\ UNCHANGED <<health, starts>>

\* Images that do not go out as images are described by the vision delegate
\* first, unless the description is cached or there is no delegate ...
Describe(t) ==
    /\ pc[t] = "head"
    /\ ~turn[t].native
    /\ Goto(t, "describe")
    /\ UNCHANGED <<health, starts>>

\* ... which answers, fails (the request then says so), or never does either:
\* opening its stream has no timeout and looks at no cancel.
Described(t) ==
    /\ pc[t] = "describe"
    /\ \/ Set(t, "stream", [turn[t] EXCEPT !.sent = @ + 1, !.tried = TRUE])
       \/ End(t)
    /\ UNCHANGED <<health, starts>>

\* A cancelled session, or content that must not go to this provider.
Abandon(t) ==
    /\ pc[t] \in {"head", "stream", "wait"}
    /\ End(t)
    /\ UNCHANGED <<health, starts>>

\* The answer is that the model cannot see the image: the text is reset and the
\* request goes out again with a description.
RefusesVision(t) ==
    /\ pc[t] = "stream"
    /\ turn[t].native
    /\ Set(t, "head", [turn[t] EXCEPT !.native = FALSE])
    /\ UNCHANGED <<health, starts>>

Succeed(t) ==
    /\ pc[t] = "stream"
    /\ circuit' = Succeeded(Candidate(t))
    /\ Set(t, "won", [turn[t] EXCEPT !.answers = @ + 1])
    /\ UNCHANGED <<block, starts>>

\* record_provider_key_success
SucceedKey(t) ==
    /\ pc[t] = "won"
    /\ block' = [block EXCEPT ![Candidate(t)] = "none"]
    /\ Goto(t, "answered")
    /\ UNCHANGED <<circuit, starts>>

\* Mutant of Answered: the loop walks on to the remaining candidates.
AnsweredAndOn(t) ==
    /\ pc[t] = "answered"
    /\ Advance(t, turn[t])
    /\ UNCHANGED <<health, starts>>

\* A finished attempt ends the round; after tool calls there is another one.
Answered(t) ==
    /\ pc[t] = "answered"
    /\ \/ turn[t].rounds < MaxRounds /\ Goto(t, "select")
       \/ End(t)
    /\ UNCHANGED <<health, starts>>

\* An attempt fails, possibly after text was shown.  That images are not supported
\* is read from the words of a 400, 404 or 422: a request without images can be
\* answered so too.
Fail(t, kind, visible) ==
    /\ pc[t] = "stream"
    /\ visible => kind \in AfterText
    /\ kind \in {"echo", "busy", "leaked"} => visible
    /\ Set(t, "failed", [turn[t] EXCEPT !.kind = kind, !.shown = visible,
            !.refusers = IF kind = "model" THEN @ \cup {ProviderOf[Candidate(t)]} ELSE @])
    /\ UNCHANGED <<health, starts>>

-----------------------------------------------------------------------------
(* What the loop does with a failed attempt *)

HandlesPlainly(t) == turn[t].kind \notin {"echo", "vision"}

\* The failure is worth another attempt on the same candidate: it is retryable,
\* text it left on the screen can be reset, retries are left, and a leak is
\* answered with the repair instruction once per round.
CanRetry(t) ==
    /\ turn[t].kind \in Retryable
    /\ turn[t].shown => turn[t].kind \in Restartable
    /\ turn[t].retry < MaxRetries
    /\ turn[t].kind = "leaked" => ~turn[t].leak

\* The text is reset; one corrected retry per turn, outside the retry budget.
RetryEcho(t) ==
    /\ pc[t] = "failed"
    /\ turn[t].kind = "echo"
    /\ IF turn[t].echoed
         THEN End(t)
         ELSE Set(t, "head", [turn[t] EXCEPT !.shown = FALSE, !.echoed = TRUE,
                                             !.retry = @ + 1, !.kind = "none"])
    /\ UNCHANGED <<health, starts>>

\* The same request with descriptions for images: at once, not counted as a retry,
\* and whether it had images or not.
RetryVision(t) ==
    /\ pc[t] = "failed"
    /\ turn[t].kind = "vision"
    /\ Set(t, "head", [turn[t] EXCEPT !.native = FALSE, !.sent = @ - 1, !.kind = "none"])
    /\ UNCHANGED <<health, starts>>

\* Mutants of RetryPlain: without the StreamReset, and without counting.
RetryUnreset(t) ==
    /\ pc[t] = "failed"
    /\ CanRetry(t)
    /\ Set(t, "wait", [turn[t] EXCEPT !.retry = @ + 1, !.leak = @ \/ turn[t].kind = "leaked",
                                      !.kind = "none"])
    /\ UNCHANGED <<health, starts>>

RetryUncounted(t) ==
    /\ pc[t] = "failed"
    /\ CanRetry(t)
    /\ Set(t, "wait", [turn[t] EXCEPT !.shown = FALSE, !.leak = @ \/ turn[t].kind = "leaked",
                                      !.kind = "none"])
    /\ UNCHANGED <<health, starts>>

\* StreamReset when text was shown, then the same request after a delay.
RetryPlain(t) ==
    /\ pc[t] = "failed"
    /\ CanRetry(t)
    /\ Set(t, "wait", [turn[t] EXCEPT !.shown = FALSE, !.retry = @ + 1,
                                      !.leak = @ \/ turn[t].kind = "leaked",
                                      !.kind = "none"])
    /\ UNCHANGED <<health, starts>>

\* A request that is too long is sent again with its oldest messages trimmed,
\* when lossy compaction is enabled and more than four are left.  (One block can
\* then be removed, so the break for "nothing removed" is never taken.)
RetryTrimmed(t) ==
    /\ pc[t] = "failed"
    /\ turn[t].kind = "overflow"
    /\ ~turn[t].shown
    /\ turn[t].retry < MaxRetries
    /\ Set(t, "wait", [turn[t] EXCEPT !.retry = @ + 1, !.kind = "none"])
    /\ UNCHANGED <<health, starts>>

\* wait_for_retry_delay
Wait(t) ==
    /\ pc[t] = "wait"
    /\ Goto(t, "head")
    /\ UNCHANGED <<health, starts>>

\* Retries are spent.  A key at fault is blocked ...
BlameKey(t) ==
    /\ pc[t] = "failed"
    /\ HandlesPlainly(t) /\ ~CanRetry(t) /\ turn[t].kind # "model"
    /\ block' = Blamed(Candidate(t), turn[t].kind)
    /\ Set(t, "blame", [turn[t] EXCEPT !.leak = @ \/ turn[t].kind = "leaked"])
    /\ UNCHANGED <<circuit, starts>>

\* Mutant of GiveUp: on to the backup without the StreamReset.
GiveUpUnreset(t) ==
    /\ pc[t] = "blame"
    /\ circuit' = Failed(Candidate(t))
    /\ IF turn[t].shown /\ ~(turn[t].kind \in Restartable /\ HasNext(t))
         THEN End(t)
         ELSE Advance(t, turn[t])
    /\ UNCHANGED <<block, starts>>

\* ... the circuit counts the failure, and the next candidate is taken.  Text on
\* the screen is reset for it; when that is not possible the turn ends.
GiveUp(t) ==
    /\ pc[t] = "blame"
    /\ circuit' = Failed(Candidate(t))
    /\ IF turn[t].shown /\ ~(turn[t].kind \in Restartable /\ HasNext(t))
         THEN End(t)
         ELSE Advance(t, [turn[t] EXCEPT !.shown = FALSE])
    /\ UNCHANGED <<block, starts>>

\* Mutant of RejectModel: the refusal is not remembered.
RejectModelOnce(t) ==
    /\ pc[t] = "failed"
    /\ turn[t].kind = "model"
    /\ Advance(t, turn[t])
    /\ UNCHANGED <<health, starts>>

\* The provider does not have the model: neither key nor circuit is at fault, and
\* none of its keys is asked again in this turn.
RejectModel(t) ==
    /\ pc[t] = "failed"
    /\ turn[t].kind = "model"
    /\ Advance(t, [turn[t] EXCEPT !.bad = @ \cup {ProviderOf[Candidate(t)]}])
    /\ UNCHANGED <<health, starts>>

\* ProviderFallbackExhausted
Exhausted(t) ==
    /\ pc[t] = "exhausted"
    /\ End(t)
    /\ UNCHANGED <<health, starts>>

-----------------------------------------------------------------------------
(* The local relay: one request to the active provider *)

StartRelay(t) ==
    /\ pc[t] = "idle"
    /\ starts < MaxStarts
    /\ starts' = starts + 1
    /\ \E s \in Lists({Active}, Active) : Set(t, "relay", [NoTurn EXCEPT !.list = s])
    /\ UNCHANGED health

\* open_active_provider_request: the first usable key.  When there is none both
\* guards run and it looks again; a second miss refuses the request.
RelayPick(t) ==
    /\ pc[t] \in {"relay", "relay_again"}
    /\ LET list == turn[t].list
           usable == {i \in DOMAIN list : Usable(list[i])}
       IN  \/ /\ usable = {}
              /\ IF pc[t] = "relay" THEN Goto(t, "relay_keys") ELSE End(t)
              /\ UNCHANGED circuit
           \/ \E i \in usable :
              /\ \A j \in usable : i <= j
              /\ circuit' = Touched(circuit, {list[i]})
              /\ Set(t, "relayed", [turn[t] EXCEPT !.at = i, !.sent = 1])
    /\ UNCHANGED <<block, starts>>

RelayReleaseKeys(t) ==
    /\ pc[t] = "relay_keys"
    /\ block' = Release(Reach(t))
    /\ Goto(t, "relay_circuits")
    /\ UNCHANGED <<circuit, starts>>

RelayReleaseCircuits(t) ==
    /\ pc[t] = "relay_circuits"
    /\ circuit' = ReleaseOpen(Reach(t))
    /\ Goto(t, "relay_again")
    /\ UNCHANGED <<block, starts>>

\* The answer, or the failure, is recorded for the key ...
RelayDone(t) ==
    /\ pc[t] = "relayed"
    /\ \/ /\ block' = [block EXCEPT ![Candidate(t)] = "none"]
          /\ Goto(t, "relay_end")
       \/ \E kind \in Kinds \ (AfterText \ {"network", "other"}) :
            /\ block' = Blamed(Candidate(t), kind)
            /\ Set(t, "relay_end", [turn[t] EXCEPT !.kind = kind])
    /\ UNCHANGED <<circuit, starts>>

\* ... and for the circuit, and handed to the caller.
RelayEnd(t) ==
    /\ pc[t] = "relay_end"
    /\ circuit' = IF turn[t].kind = "none" THEN Succeeded(Candidate(t))
                                          ELSE Failed(Candidate(t))
    /\ End(t)
    /\ UNCHANGED <<block, starts>>

-----------------------------------------------------------------------------
(* Timers and the user *)

\* blocked_until passes
Cooled(c) ==
    /\ block[c] \in {"rate_limited", "unstable"}
    /\ block' = [block EXCEPT ![c] = "none"]
    /\ UNCHANGED <<circuit, pc, turn, starts>>

\* opened_until passes
Expire(c) ==
    /\ Open(c)
    /\ circuit' = [circuit EXCEPT ![c].phase = "expired"]
    /\ UNCHANGED <<block, pc, turn, starts>>

\* clear_provider_key_block; editing the key's value has the same effect, since
\* health is filed under a fingerprint of it.
ClearBlock(c) ==
    /\ block[c] # "none"
    /\ block' = [block EXCEPT ![c] = "none"]
    /\ UNCHANGED <<circuit, pc, turn, starts>>

-----------------------------------------------------------------------------
Init ==
    /\ block = [c \in Keys |-> "none"]
    /\ circuit = [c \in Keys |-> NewCircuit]
    /\ pc = [t \in Turns |-> "idle"]
    /\ turn = [t \in Turns |-> NoTurn]
    /\ starts = 0

Step(t) ==
    \/ Select(t) \/ ReleaseCircuits(t) \/ ReleaseKeys(t) \/ CheckKey(t) \/ CheckCircuit(t)
    \/ OpenProvider(t) \/ Send(t) \/ Describe(t) \/ Abandon(t) \/ RefusesVision(t)
    \/ Succeed(t) \/ SucceedKey(t) \/ Answered(t)
    \/ \E kind \in Kinds, visible \in BOOLEAN : Fail(t, kind, visible)
    \/ RetryEcho(t) \/ RetryVision(t) \/ RetryPlain(t) \/ RetryTrimmed(t) \/ Wait(t)
    \/ BlameKey(t) \/ GiveUp(t) \/ RejectModel(t) \/ Exhausted(t)
    \/ RelayPick(t) \/ RelayReleaseKeys(t) \/ RelayReleaseCircuits(t)
    \/ RelayDone(t) \/ RelayEnd(t)

Next ==
    \/ \E t \in Turns : StartTurn(t) \/ StartRelay(t) \/ Step(t) \/ Described(t)
    \/ \E c \in Keys : Cooled(c) \/ Expire(c) \/ ClearBlock(c)

Spec == Init /\ [][Next]_vars

\* Requests to candidates have timeouts, from their opening on, and the runtime
\* polls a turn until it returns.  The request to the vision delegate has none
\* before its first event: Described is not fair.
Fairness == \A t \in Turns : WF_vars(Step(t))

FairSpec == Spec /\ Fairness

-----------------------------------------------------------------------------
(* Properties *)

TypeOK ==
    /\ block \in [Keys -> Block]
    /\ circuit \in [Keys -> Circuit]
    /\ pc \in [Turns -> Labels]
    /\ turn \in [Turns -> Turn]
    /\ starts \in Nat

InFlight(t) == pc[t] \in {"stream", "relayed"}

\* "Provider fallback also never crosses trust levels": every request goes to a
\* provider of the active provider's level, whatever rotation, fallback and
\* routes choose.
TrustBoundary == \A t \in Turns : InFlight(t) => Trust[ProviderOf[Candidate(t)]] = Trust[Active]

\* visible_output_was_started: text a failed attempt left on the screen is gone
\* (StreamReset) before another request can stream the answer again.
NoDuplicateText == \A t \in Turns : InFlight(t) => ~turn[t].shown

\* "A single request goes out; answers are never fanned out": a round takes one
\* answer.
OneAnswer == \A t \in Turns : turn[t].answers <= 1

\* A candidate gets max_provider_retries + 1 requests, one more after an echo of
\* tool history and one more when the answer is that it cannot see the image: a
\* failing endpoint is not stormed.  Requests refused with the words of
\* body_indicates_vision_unsupported are not among them; there is no bound on
\* those (EveryTurnEnds).
AttemptsBounded == \A t \in Turns : turn[t].sent <= MaxRetries + 3

\* When every circuit is open, or every key is blocked and one of them may be
\* released, the round asks somebody before it reports that no provider is
\* available.
GuardsWork ==
    \A t \in Turns : pc[t] = "exhausted" /\ turn[t].owed => turn[t].tried

\* A provider that refused the model is not asked again in the turn.
ModelRefusalHolds ==
    \A t \in Turns : pc[t] = "stream" => ProviderOf[Candidate(t)] \notin turn[t].refusers

\* A refusal of a key ends through a verdict on a request that is out with it, or
\* through the user.  No timer, no release_* guard and no verdict on another key
\* of its provider ends it.  The verdict need not be a success: a later failure
\* replaces the refusal with a cooldown, which then passes (RefusedIsFinal).
RefusedStaysOut ==
    [][\A c \in Keys : block[c] = "rejected" /\ block'[c] # "rejected" =>
         \/ \E t \in Turns : /\ pc[t] \in {"won", "failed", "relayed"} /\ pc'[t] # pc[t]
                              /\ Candidate(t) = c
         \/ ClearBlock(c)]_vars

\* "A key refused with 401/403 is dropped for the rest of the process": it stays
\* rejected until a request with it succeeds or the user acts.
\* The code does not satisfy it: README, section 6.
RefusedIsFinal ==
    [][\A c \in Keys : block[c] = "rejected" => block'[c] \in {"none", "rejected"}]_vars

\* "a turn whose every key is cooling down must still get one attempt": a round
\* that could reach a key that was not refused asks somebody.
\* The code does not satisfy it: README, section 6.
EveryRoundAttempts ==
    \A t \in Turns :
        pc[t] = "exhausted" /\ (\E c \in Reach(t) : block[c] # "rejected") => turn[t].tried

\* A turn in the loop ends, whatever the endpoints answer, unless the vision
\* delegate never answers or an endpoint goes on answering that it does not
\* support images.
TurnEnds ==
    \A t \in Turns : pc[t] # "idle" ~>
        (pc[t] = "idle" \/ [](pc[t] = "describe") \/ []<>(turn[t].kind = "vision"))

\* "Vision-unsupported: mark route and retry with delegate": the retry, like every
\* other, comes to an end, and with it the turn.
\* The code does not satisfy it: README, section 6.
EveryTurnEnds ==
    \A t \in Turns : pc[t] # "idle" ~> (pc[t] = "idle" \/ [](pc[t] = "describe"))

=============================================================================
