-------------------------- MODULE FollowUpQueueProofs --------------------------
(***************************************************************************)
(* Theorems about FollowUpQueue, for any number of calls, entries, clicks, *)
(* failures of the store and restarts.                                     *)
(*                                                                         *)
(* Entries are numbered in the order in which they are queued, so that one *)
(* that does not exist yet is above `created' and one that a start of the  *)
(* process has reconciled is not above `inherited'.                        *)
(***************************************************************************)
EXTENDS FollowUpQueue, WellFoundedInduction, TLAPS

ScalarsOK ==
    /\ status \in AtRest \cup Active /\ owner \in Tasks \cup {NoTask}
    /\ clicks \in 0 .. MaxClicks /\ failures \in 0 .. MaxFailures /\ restarts \in 0 .. MaxRestarts
    /\ refused \subseteq Items

TablesOK ==
    /\ rows \in [Items -> Cell] /\ shown \in [Items -> Cell]
    /\ arriving \subseteq Items
    /\ snapshot = NoSnapshot \/ snapshot \in [Items -> Cell]
    /\ cancelling \subseteq [item : Items, was : Entry]
    /\ created \in 0 .. MaxItems /\ inherited \in 0 .. created
    /\ sent \in [Items -> Nat]

ChainOK ==
    /\ draining \in BOOLEAN /\ generation \in Nat
    /\ inFlight \in 0 .. generation /\ unsettled \subseteq 1 .. generation

\* An entry that was never queued is nowhere.
Fresh ==
    \A i \in Items : i > created =>
        /\ rows[i] = "none" /\ shown[i] = "none" /\ i \notin arriving /\ sent[i] = 0
        /\ snapshot # NoSnapshot => snapshot[i] = "none"

\* Nothing calls an entry queued that a start of the process has reconciled.
Settled ==
    /\ \A i \in Items : i <= inherited =>
        /\ rows[i] # "queued" /\ shown[i] # "queued" /\ i \notin arriving
        /\ snapshot # NoSnapshot => snapshot[i] # "queued"
    /\ \A c \in cancelling : c.item <= inherited => c.was # "queued"

\* The entry of a call exists, its row is gone once the delete has answered, and
\* one that a drain has chosen was never reconciled.
Fits(r) ==
    /\ r.item <= created
    /\ r.pc = "delete" => r.item # 0
    /\ r.pc \notin {"idle", "delete"} /\ r.item # 0 => rows[r.item] = "none"
    /\ r.auto => r.item > inherited

CallsFit == \A t \in Tasks : Fits(task[t])

QueueInv == TypeOK /\ Fresh /\ Settled /\ SentIsGone /\ CallsFit

-----------------------------------------------------------------------------
LEMMA TypeParts == TypeOK <=> ScalarsOK /\ TablesOK /\ ChainOK /\ task \in [Tasks -> Task]
  BY DEF TypeOK, ScalarsOK, TablesOK, ChainOK

LEMMA TypePartsNext == TypeOK' <=> ScalarsOK' /\ TablesOK' /\ ChainOK' /\ task' \in [Tasks -> Task]
  BY DEF TypeOK, ScalarsOK, TablesOK, ChainOK

LEMMA ItemsNat == Items \subseteq Nat /\ 0 \notin Items
  BY QueueBounds DEF Items

LEMMA NumbersNat == \A x \in Items \cup {0} : x \in Nat
  BY QueueBounds DEF Items

LEMMA ItemNat == \A r \in Task : r.item \in Items \cup {0} /\ r.item \in Nat
  <1> TAKE r \in Task
  <1>1. r.item \in Items \cup {0}
    BY DEF Task
  <1> QED
    BY <1>1, NumbersNat

LEMMA IdleOK == Idle \in Task /\ Idle.item = 0 /\ ~Idle.auto /\ Idle.pc = "idle" /\ Idle.gen = 0
                /\ Idle.outer = 0 /\ Idle.prev = 0 /\ Idle.saw = "done"
  BY DEF Idle, Task, Kinds, Labels, AtRest

LEMMA LeastItem ==
  ASSUME NEW T \in SUBSET Items, T # {}
  PROVE  Oldest(T) \in T
  <1> DEFINE R == {ss \in Nat \X Nat : ss[1] < ss[2]}
  <1>1. IsWellFoundedOn(R, Nat)
    BY NatLessThanWellFounded DEF OpToRel
  <1>2. T \subseteq Nat
    BY ItemsNat
  <1>3. PICK x \in T : \A y \in T : ~(<<y, x>> \in R)
    <2> HIDE DEF R
    <2> QED
      BY <1>1, <1>2, WFMin
  <1>4. ASSUME NEW y \in T PROVE x <= y
    <2>1. x \in Nat /\ y \in Nat
      BY <1>2
    <2>2. ~(y < x)
      <3>1. SUFFICES ASSUME y < x PROVE FALSE
        OBVIOUS
      <3>2. <<y, x>> \in Nat \X Nat /\ <<y, x>>[1] < <<y, x>>[2]
        BY <2>1, <3>1
      <3>3. <<y, x>> \in R
        BY <3>2
      <3> QED
        BY <1>3, <3>3
    <2> QED
      BY <2>1, <2>2
  <1>5. \E z \in T : \A y \in T : z <= y
    BY <1>4
  <1> QED
    BY <1>5 DEF Oldest

-----------------------------------------------------------------------------
(* What a call becomes *)

\* A call that goes on with its entry, or without one.
Kept(t) ==
    \E r \in Task :
        /\ task' = [task EXCEPT ![t] = r]
        /\ r.pc # "delete"
        /\ \/ r.item = 0 /\ ~r.auto
           \/ pc(t) \notin {"idle", "delete"} /\ r.item = task[t].item /\ r.auto = task[t].auto

LEMMA MoveKeeps ==
  ASSUME TypeOK, NEW t \in Tasks, NEW label \in Labels \ {"delete"}, Move(t, label),
         pc(t) \notin {"idle", "delete"}
  PROVE  Kept(t)
  <1> DEFINE r == [task[t] EXCEPT !.pc = label, !.prev = 0, !.saw = "done"]
  <1>1. task[t] \in Task
    BY DEF TypeOK
  <1>2. r \in Task /\ r.pc = label /\ r.item = task[t].item /\ r.auto = task[t].auto
    BY <1>1 DEF Task, AtRest
  <1>3. task' = [task EXCEPT ![t] = r]
    BY DEF Move, TypeOK
  <1> HIDE DEF r
  <1> QED
    BY <1>2, <1>3 DEF Kept

LEMMA SettleKeeps ==
  ASSUME ChainOK, NEW gens, Settle(gens), UNCHANGED generation
  PROVE  inFlight' \in 0 .. generation' /\ unsettled' \subseteq 1 .. generation' /\ generation' \in Nat
  <1>1. generation' \in Nat /\ inFlight' \in {0, inFlight}
    BY DEF ChainOK, Settle
  <1>2. inFlight' \in 0 .. generation'
    BY <1>1 DEF ChainOK
  <1>3. unsettled' \subseteq unsettled
    BY DEF Settle
  <1>4. unsettled' \subseteq 1 .. generation'
    BY <1>3, generation' = generation DEF ChainOK
  <1> QED
    BY <1>1, <1>2, <1>4

LEMMA FinishKeeps ==
  ASSUME TypeOK, NEW t \in Tasks, Finish(t), UNCHANGED generation
  PROVE  Kept(t) /\ ChainOK'
  <1>1. Kept(t)
    BY IdleOK DEF Finish, Kept
  <1>2. ChainOK
    BY TypeParts
  <1>3. draining' \in BOOLEAN
    BY <1>2 DEF Finish, ChainOK
  <1>4. inFlight' \in 0 .. generation' /\ unsettled' \subseteq 1 .. generation' /\ generation' \in Nat
    BY <1>2, SettleKeeps DEF Finish
  <1> QED
    BY <1>1, <1>3, <1>4 DEF ChainOK

LEMMA ReturnedKeeps ==
  ASSUME TypeOK, NEW t \in Tasks, Returned(t), UNCHANGED generation
  PROVE  Kept(t) /\ ChainOK'
  <1>1. CASE ~task[t].auto
    BY <1>1, FinishKeeps DEF Returned
  <1>2. CASE task[t].auto
    <2> DEFINE r == [task[t] EXCEPT !.pc = "list", !.auto = FALSE, !.item = 0, !.gen = task[t].outer]
    <2>1. task[t] \in Task
      BY DEF TypeOK
    <2>2. r \in Task /\ r.pc = "list" /\ r.item = 0 /\ ~r.auto
      BY <2>1 DEF Task, Labels
    <2>3. task' = [task EXCEPT ![t] = r]
      BY <1>2 DEF Returned, TypeOK
    <2> HIDE DEF r
    <2>4. Kept(t)
      BY <2>2, <2>3 DEF Kept
    <2>5. ChainOK
      BY TypeParts
    <2>6. inFlight' \in 0 .. generation' /\ unsettled' \subseteq 1 .. generation' /\ generation' \in Nat
      BY <1>2, <2>5, SettleKeeps DEF Returned
    <2>7. draining' \in BOOLEAN
      BY <1>2 DEF Returned
    <2> QED
      BY <2>4, <2>6, <2>7 DEF ChainOK
  <1> QED
    BY <1>1, <1>2 DEF TypeOK, Task

LEMMA StayKeeps ==
  ASSUME TypeOK, UNCHANGED <<draining, inFlight, unsettled>>, UNCHANGED generation
  PROVE  ChainOK'
  BY DEF TypeOK, ChainOK

LEMMA EnterDrainKeeps ==
  ASSUME TypeOK, NEW t \in Tasks, EnterDrain(t), UNCHANGED generation, pc(t) \notin {"idle", "delete"}
  PROVE  Kept(t) /\ ChainOK'
  <1>1. CASE draining
    BY <1>1, FinishKeeps DEF EnterDrain
  <1>2. CASE ~draining
    <2>1. Move(t, "list") /\ UNCHANGED <<draining, inFlight, unsettled>>
      BY <1>2 DEF EnterDrain
    <2> QED
      BY <2>1, MoveKeeps, StayKeeps DEF Labels
  <1> QED
    BY <1>1, <1>2

LEMMA CatchKeeps ==
  ASSUME TypeOK, NEW t \in Tasks, Catch(t), UNCHANGED generation, pc(t) \notin {"idle", "delete"}
  PROVE  Kept(t) /\ ChainOK' /\ shown' \in {shown, ShownNotStarted}
  <1>1. CASE ~Current(t)
    BY <1>1, ReturnedKeeps DEF Catch
  <1>2. CASE Current(t) /\ Queued = {}
    BY <1>2, ReturnedKeeps DEF Catch
  <1>3. CASE Current(t) /\ Queued # {}
    <2>1. Move(t, "mark") /\ UNCHANGED <<draining, inFlight, unsettled>> /\ shown' = ShownNotStarted
      BY <1>3 DEF Catch
    <2> QED
      BY <2>1, MoveKeeps, StayKeeps DEF Labels
  <1> QED
    BY <1>1, <1>2, <1>3

LEMMA NewSendKeeps ==
  ASSUME TypeOK, NEW t \in Tasks, NEW call \in Task, NewSend(t, call), draining' \in BOOLEAN
  PROVE  /\ ChainOK'
         /\ \E r \in Task : /\ task' = [task EXCEPT ![t] = r]
                            /\ r.pc \in {"cancel", "chat"} /\ r.item = call.item /\ r.auto = call.auto
  <1>1. /\ generation' = generation + 1 /\ inFlight' = generation + 1
        /\ unsettled' = unsettled \cup {generation + 1}
    BY DEF NewSend
  <1>2. ChainOK'
    BY <1>1 DEF TypeOK, ChainOK
  <1> DEFINE label == IF call.steer /\ (Busy \/ call.saw = "running") THEN "cancel" ELSE "chat"
             out == IF call.auto THEN call.outer ELSE generation + 1
             before == IF call.steer THEN inFlight ELSE 0
             r == [call EXCEPT !.gen = generation + 1, !.saw = "done", !.outer = out,
                               !.prev = before, !.pc = label]
  <1>3. label \in {"cancel", "chat"} /\ out \in Nat /\ before \in Nat /\ generation + 1 \in Nat
    BY DEF TypeOK, Task
  <1>4. task' = [task EXCEPT ![t] = r]
    BY DEF NewSend, Task
  <1> HIDE DEF label, out, before
  <1>5. r \in Task /\ r.pc = label /\ r.item = call.item /\ r.auto = call.auto
    BY <1>3 DEF Task, Labels, AtRest
  <1> HIDE DEF r
  <1> QED
    BY <1>2, <1>3, <1>4, <1>5

-----------------------------------------------------------------------------
(* The tables *)

\* Rows and the window's copy only lose the mark `queued', row by row.
Marking == [i \in Items |-> IF rows[i] = "queued" THEN "not_started" ELSE rows[i]]

LEMMA MarkTables ==
  ASSUME QueueInv, shown' \in {shown, ShownNotStarted}, rows' \in {rows, Marking},
         UNCHANGED <<arriving, snapshot, cancelling, created, inherited, sent>>
  PROVE  TablesOK' /\ Fresh' /\ Settled' /\ SentIsGone'
         /\ \A i \in Items : rows[i] = "none" => rows'[i] = "none"
  <1>1. /\ shown' \in [Items -> Cell]
        /\ \A i \in Items : /\ shown[i] = "none" => shown'[i] = "none"
                            /\ shown'[i] = "queued" => shown[i] = "queued"
    BY DEF QueueInv, TypeOK, ShownNotStarted, Queued, Cell, Entry
  <1>2. /\ rows' \in [Items -> Cell]
        /\ \A i \in Items : /\ rows[i] = "none" => rows'[i] = "none"
                            /\ rows'[i] = "queued" => rows[i] = "queued"
    BY DEF QueueInv, TypeOK, Marking, Cell, Entry
  <1>3. TablesOK'
    BY <1>1, <1>2 DEF QueueInv, TypeOK, TablesOK
  <1>4. Fresh'
    BY <1>1, <1>2 DEF QueueInv, Fresh
  <1>5. Settled'
    BY <1>1, <1>2 DEF QueueInv, Settled
  <1>6. SentIsGone'
    BY <1>2 DEF QueueInv, SentIsGone
  <1> QED
    BY <1>2, <1>3, <1>4, <1>5, <1>6

\* Calls fit as long as rows do not come back.
LEMMA FitsStays ==
  ASSUME QueueInv, UNCHANGED inherited, created' \in Nat, created <= created',
         \A i \in Items : i <= created /\ rows[i] = "none" => rows'[i] = "none",
         NEW r \in Task, Fits(r)
  PROVE  Fits(r)'
  <1>1. r.item \in Items \cup {0} /\ r.item \in Nat /\ created \in Nat
    <2>1. created \in Nat
      BY QueueBounds DEF QueueInv, TypeOK
    <2> QED
      BY <2>1, ItemNat
  <1>2. (r.item <= created)'
    BY <1>1 DEF Fits
  <1>3. ASSUME r.pc \notin {"idle", "delete"}, r.item # 0 PROVE rows'[r.item] = "none"
    BY <1>1, <1>3 DEF Fits
  <1>4. r.auto => r.item > inherited'
    BY DEF Fits
  <1>5. r.pc = "delete" => r.item # 0
    BY DEF Fits
  <1> QED
    BY <1>2, <1>3, <1>4, <1>5 DEF Fits

LEMMA OthersFit ==
  ASSUME QueueInv, UNCHANGED inherited, created' \in Nat, created <= created',
         \A i \in Items : i <= created /\ rows[i] = "none" => rows'[i] = "none",
         NEW t \in Tasks, NEW r \in Task, task' = [task EXCEPT ![t] = r], Fits(r)'
  PROVE  CallsFit' /\ task' \in [Tasks -> Task]
  <1>1. task' \in [Tasks -> Task]
    BY DEF QueueInv, TypeOK
  <1>2. ASSUME NEW u \in Tasks PROVE Fits(task[u])'
    <2>1. CASE u = t
      <3>1. task'[u] = r
        BY <2>1 DEF QueueInv, TypeOK
      <3> QED
        BY <3>1 DEF Fits
    <2>2. CASE u # t
      <3>1. PICK q \in Task : q = task[u]
        BY DEF QueueInv, TypeOK
      <3>2. Fits(q)
        BY <3>1 DEF QueueInv, CallsFit
      <3>3. Fits(q)'
        BY <3>2, FitsStays
      <3>4. task'[u] = q
        BY <2>2, <3>1 DEF QueueInv, TypeOK
      <3> QED
        BY <3>3, <3>4 DEF Fits
    <2> QED
      BY <2>1, <2>2
  <1> QED
    BY <1>1, <1>2 DEF CallsFit

LEMMA SameTasksFit ==
  ASSUME QueueInv, UNCHANGED <<inherited, task>>, created' \in Nat, created <= created',
         \A i \in Items : i <= created /\ rows[i] = "none" => rows'[i] = "none"
  PROVE  CallsFit' /\ task' \in [Tasks -> Task]
  <1>1. task' \in [Tasks -> Task]
    BY DEF QueueInv, TypeOK
  <1>2. ASSUME NEW u \in Tasks PROVE Fits(task[u])'
    <2>1. PICK q \in Task : q = task[u]
      BY DEF QueueInv, TypeOK
    <2>2. Fits(q)'
      BY <2>1, FitsStays DEF QueueInv, CallsFit
    <2> QED
      BY <2>1, <2>2 DEF Fits
  <1> QED
    BY <1>1, <1>2 DEF CallsFit

\* A step of a call that touches no entry but by marking.
LEMMA KeptStep ==
  ASSUME QueueInv, NEW t \in Tasks, Kept(t), ChainOK', ScalarsOK',
         shown' \in {shown, ShownNotStarted}, rows' \in {rows, Marking},
         UNCHANGED <<arriving, snapshot, cancelling, created, inherited, sent>>
  PROVE  QueueInv'
  <1>1. TablesOK' /\ Fresh' /\ Settled' /\ SentIsGone'
        /\ \A i \in Items : rows[i] = "none" => rows'[i] = "none"
    BY MarkTables
  <1>2. created \in Nat /\ created' \in Nat /\ created <= created'
    BY QueueBounds DEF QueueInv, TypeOK
  <1>3. PICK r \in Task :
          /\ task' = [task EXCEPT ![t] = r]
          /\ r.pc # "delete"
          /\ \/ r.item = 0 /\ ~r.auto
             \/ pc(t) \notin {"idle", "delete"} /\ r.item = task[t].item /\ r.auto = task[t].auto
    BY DEF Kept
  <1>4. Fits(r)
    <2>1. CASE r.item = 0 /\ ~r.auto
      BY <1>2, <1>3, <2>1 DEF Fits
    <2>2. CASE pc(t) \notin {"idle", "delete"} /\ r.item = task[t].item /\ r.auto = task[t].auto
      BY <1>3, <2>2 DEF QueueInv, CallsFit, Fits, pc
    <2> QED
      BY <1>3, <2>1, <2>2
  <1>5. Fits(r)'
    BY <1>1, <1>2, <1>4, FitsStays
  <1>6. CallsFit' /\ task' \in [Tasks -> Task]
    BY <1>1, <1>2, <1>3, <1>5, OthersFit
  <1>7. TypeOK'
    BY <1>1, <1>6, TypePartsNext
  <1> QED
    BY <1>1, <1>6, <1>7 DEF QueueInv

-----------------------------------------------------------------------------
(* The steps of a call *)

LEMMA ClickOK == ASSUME TypeOK, Click PROVE clicks' \in 0 .. MaxClicks
  BY QueueBounds DEF TypeOK, Click

LEMMA StoreFailsOK == ASSUME TypeOK, StoreFails PROVE failures' \in 0 .. MaxFailures
  BY QueueBounds DEF TypeOK, StoreFails

\* A call that changes its label or what it has read, and nothing else.
LEMMA RelabelKeeps ==
  ASSUME TypeOK, NEW t \in Tasks, pc(t) \notin {"idle", "delete"}, NEW label \in Labels \ {"delete"},
         NEW s \in AtRest \cup Active,
         \/ task' = [task EXCEPT ![t].pc = label]
         \/ task' = [task EXCEPT ![t].pc = label, ![t].saw = s]
  PROVE  Kept(t)
  <1>1. task[t] \in Task
    BY DEF TypeOK
  <1>2. CASE task' = [task EXCEPT ![t].pc = label]
    <2> DEFINE r == [task[t] EXCEPT !.pc = label]
    <2>1. r \in Task /\ r.pc = label /\ r.item = task[t].item /\ r.auto = task[t].auto
      BY <1>1 DEF Task
    <2>2. task' = [task EXCEPT ![t] = r]
      BY <1>2 DEF TypeOK
    <2> HIDE DEF r
    <2> QED
      BY <2>1, <2>2 DEF Kept
  <1>3. CASE task' = [task EXCEPT ![t].pc = label, ![t].saw = s]
    <2> DEFINE r == [task[t] EXCEPT !.pc = label, !.saw = s]
    <2>1. r \in Task /\ r.pc = label /\ r.item = task[t].item /\ r.auto = task[t].auto
      BY <1>1 DEF Task
    <2>2. task' = [task EXCEPT ![t] = r]
      BY <1>3 DEF TypeOK
    <2> HIDE DEF r
    <2> QED
      BY <2>1, <2>2 DEF Kept
  <1> QED
    BY <1>2, <1>3

LEMMA QuietSteps ==
  ASSUME QueueInv, NEW t \in Tasks,
         SteerCancels(t) \/ SteerRefused(t) \/ Joined(t) \/ DrainStops(t) \/ DeleteFails(t) \/ Stopped(t)
  PROVE  QueueInv'
  <1>0. TypeOK /\ ScalarsOK
    BY TypeParts DEF QueueInv
  <1>1. UNCHANGED <<shown, rows, arriving, snapshot, cancelling, created, inherited, sent>>
    BY DEF SteerCancels, SteerRefused, Joined, DrainStops, DeleteFails, Stopped, backend, window, others, input, history
  <1>2. CASE SteerCancels(t)
    <2>1. Kept(t)
      BY <1>0, <1>2, RelabelKeeps DEF SteerCancels, Labels, AtRest, Active
    <2>2. ChainOK' /\ ScalarsOK'
      BY <1>0, <1>2 DEF SteerCancels, chain, others, input, history, TypeOK, ChainOK, ScalarsOK, AtRest
    <2> QED
      BY <1>1, <2>1, <2>2, KeptStep
  <1>3. CASE SteerRefused(t)
    <2>1. Kept(t) /\ ChainOK'
      BY <1>0, <1>3, FinishKeeps DEF SteerRefused
    <2>2. ScalarsOK'
      BY <1>0, <1>3 DEF SteerRefused, backend, others, input, history, ScalarsOK
    <2> QED
      BY <1>1, <2>1, <2>2, KeptStep
  <1>4. CASE Joined(t)
    <2>1. Kept(t)
      BY <1>0, <1>4, MoveKeeps DEF Joined, Labels
    <2>2. ChainOK' /\ ScalarsOK'
      BY <1>0, <1>4 DEF Joined, backend, chain, others, input, history, TypeOK, ChainOK, ScalarsOK
    <2> QED
      BY <1>1, <2>1, <2>2, KeptStep
  <1>5. CASE DrainStops(t)
    <2>1. Kept(t) /\ ChainOK'
      BY <1>0, <1>5, FinishKeeps DEF DrainStops
    <2>2. ScalarsOK'
      BY <1>0, <1>5 DEF DrainStops, backend, others, input, history, ScalarsOK
    <2> QED
      BY <1>1, <2>1, <2>2, KeptStep
  <1>6. CASE DeleteFails(t)
    <2>1. Kept(t) /\ ChainOK'
      BY <1>0, <1>6, FinishKeeps DEF DeleteFails
    <2>2. failures' \in 0 .. MaxFailures
      BY <1>0, <1>6, StoreFailsOK DEF DeleteFails
    <2>3. ScalarsOK'
      BY <1>0, <1>6, <2>2 DEF DeleteFails, backend, input, history, ScalarsOK
    <2> QED
      BY <1>1, <2>1, <2>3, KeptStep
  <1>7. CASE Stopped(t)
    <2>1. Kept(t) /\ ChainOK'
      BY <1>0, <1>7, FinishKeeps DEF Stopped
    <2>2. ScalarsOK'
      BY <1>0, <1>7 DEF Stopped, others, input, history, ScalarsOK, AtRest
    <2> QED
      BY <1>1, <2>1, <2>2, KeptStep
  <1> QED
    BY <1>2, <1>3, <1>4, <1>5, <1>6, <1>7

LEMMA TurnSteps ==
  ASSUME QueueInv, NEW t \in Tasks, ChatRefused(t) \/ TurnReturns(t) \/ TakenIn(t) \/ TurnFails(t)
  PROVE  QueueInv'
  <1>0. TypeOK /\ ScalarsOK
    BY TypeParts DEF QueueInv
  <1>1. UNCHANGED <<rows, arriving, snapshot, cancelling, created, inherited, sent, generation>>
    BY DEF ChatRefused, TurnReturns, TakenIn, TurnFails, backend, window, others, input, history
  <1>2. CASE ChatRefused(t)
    <2>1. Kept(t) /\ ChainOK' /\ shown' \in {shown, ShownNotStarted}
      BY <1>0, <1>1, <1>2, CatchKeeps DEF ChatRefused
    <2>2. ScalarsOK'
      BY <1>0, <1>2 DEF ChatRefused, backend, others, input, history, ScalarsOK
    <2> QED
      BY <1>1, <2>1, <2>2, KeptStep
  <1>3. CASE TurnReturns(t)
    <2>1. Kept(t) /\ ChainOK'
      <3>1. CASE Move(t, "back") /\ UNCHANGED <<draining, inFlight, unsettled>>
        BY <1>0, <1>1, <1>3, <3>1, MoveKeeps, StayKeeps DEF TurnReturns, Labels
      <3>2. CASE Returned(t)
        BY <1>0, <1>1, <3>2, ReturnedKeeps
      <3> QED
        BY <1>3, <3>1, <3>2 DEF TurnReturns
    <2>2. status' \in AtRest \cup Active /\ owner' \in Tasks \cup {NoTask}
      BY <1>0, <1>3 DEF TurnReturns, ScalarsOK, AtRest, Active
    <2>3. ScalarsOK' /\ shown' = shown
      BY <1>0, <1>3, <2>2 DEF TurnReturns, window, others, input, history, ScalarsOK
    <2> QED
      BY <1>1, <2>1, <2>3, KeptStep
  <1>4. CASE TakenIn(t)
    <2>1. Kept(t) /\ ChainOK'
      <3>1. CASE EnterDrain(t)
        BY <1>0, <1>1, <1>4, <3>1, EnterDrainKeeps DEF TakenIn
      <3>2. CASE Returned(t)
        BY <1>0, <1>1, <3>2, ReturnedKeeps
      <3> QED
        BY <1>4, <3>1, <3>2 DEF TakenIn
    <2>2. ScalarsOK' /\ shown' = shown
      BY <1>0, <1>4 DEF TakenIn, backend, window, others, input, history, ScalarsOK
    <2> QED
      BY <1>1, <2>1, <2>2, KeptStep
  <1>5. CASE TurnFails(t)
    <2>1. Kept(t) /\ ChainOK' /\ shown' \in {shown, ShownNotStarted}
      <3>1. CASE EnterDrain(t) /\ UNCHANGED shown
        BY <1>0, <1>1, <1>5, <3>1, EnterDrainKeeps DEF TurnFails
      <3>2. CASE Catch(t)
        BY <1>0, <1>1, <1>5, <3>2, CatchKeeps DEF TurnFails
      <3> QED
        BY <1>5, <3>1, <3>2 DEF TurnFails
    <2>2. ScalarsOK'
      BY <1>0, <1>5 DEF TurnFails, others, input, history, ScalarsOK, AtRest
    <2> QED
      BY <1>1, <2>1, <2>2, KeptStep
  <1> QED
    BY <1>2, <1>3, <1>4, <1>5

LEMMA ResolveSteps ==
  ASSUME QueueInv, NEW t \in Tasks, ResolveAccepted(t) \/ ResolveRefused(t)
  PROVE  QueueInv'
  <1>0. TypeOK /\ ScalarsOK
    BY TypeParts DEF QueueInv
  <1>1. UNCHANGED <<shown, rows, arriving, snapshot, cancelling, created, inherited, sent>>
    BY DEF ResolveAccepted, ResolveRefused, backend, window, others, input, history
  <1>2. Kept(t)
    BY <1>0, MoveKeeps DEF ResolveAccepted, ResolveRefused, Labels
  <1>3. ChainOK'
    BY <1>0 DEF ResolveAccepted, ResolveRefused, chain, TypeOK, ChainOK
  <1>4. failures' \in 0 .. MaxFailures
    BY <1>0, StoreFailsOK DEF ResolveAccepted, ResolveRefused, others, ScalarsOK
  <1>5. status' \in AtRest \cup Active /\ owner' \in Tasks \cup {NoTask}
    BY <1>0 DEF ResolveAccepted, ResolveRefused, backend, ScalarsOK, Active
  <1>6. UNCHANGED <<clicks, restarts, refused>>
    BY DEF ResolveAccepted, ResolveRefused, others, input, history
  <1>7. ScalarsOK'
    BY <1>0, <1>4, <1>5, <1>6 DEF ScalarsOK
  <1> QED
    BY <1>1, <1>2, <1>3, <1>7, KeptStep

LEMMA DrainSteps ==
  ASSUME QueueInv, NEW t \in Tasks, List(t) \/ DrainMarks(t) \/ Marked(t)
  PROVE  QueueInv'
  <1>0. TypeOK /\ ScalarsOK
    BY TypeParts DEF QueueInv
  <1>1. UNCHANGED <<arriving, snapshot, cancelling, created, inherited, sent, generation>>
    BY DEF List, DrainMarks, Marked, backend, window, chain, others, input, history
  <1>2. CASE List(t)
    <2>1. PICK s \in AtRest \cup Active : task' = [task EXCEPT ![t].pc = "decide", ![t].saw = s]
      BY <1>0, <1>2 DEF List, ScalarsOK
    <2>2. Kept(t)
      BY <1>0, <1>2, <2>1, RelabelKeeps DEF List, Labels
    <2>3. failures' \in 0 .. MaxFailures
      BY <1>0, <1>2, StoreFailsOK DEF List, ScalarsOK
    <2>4. ChainOK' /\ ScalarsOK' /\ shown' = shown /\ rows' = rows
      BY <1>0, <1>2, <2>3 DEF List, backend, window, chain, input, history, TypeOK, ChainOK, ScalarsOK
    <2> QED
      BY <1>1, <2>2, <2>4, KeptStep
  <1>3. CASE DrainMarks(t)
    <2>1. Kept(t) /\ ChainOK'
      <3>1. CASE Finish(t)
        BY <1>0, <1>1, <3>1, FinishKeeps
      <3>2. CASE Move(t, "mark") /\ UNCHANGED <<draining, inFlight, unsettled>>
        BY <1>0, <1>1, <1>3, <3>2, MoveKeeps, StayKeeps DEF DrainMarks, Labels
      <3> QED
        BY <1>3, <3>1, <3>2 DEF DrainMarks
    <2>2. ScalarsOK' /\ shown' = ShownNotStarted /\ rows' = rows
      BY <1>0, <1>3 DEF DrainMarks, backend, others, input, history, ScalarsOK
    <2> QED
      BY <1>1, <2>1, <2>2, KeptStep
  <1>4. CASE Marked(t)
    <2>1. Kept(t) /\ ChainOK'
      <3>1. CASE Move(t, "stop") /\ UNCHANGED <<draining, inFlight, unsettled>>
        BY <1>0, <1>1, <1>4, <3>1, MoveKeeps, StayKeeps DEF Marked, Labels
      <3>2. CASE Returned(t)
        BY <1>0, <1>1, <3>2, ReturnedKeeps
      <3> QED
        BY <1>4, <3>1, <3>2 DEF Marked
    <2>2. failures' \in 0 .. MaxFailures
      BY <1>0, <1>4, StoreFailsOK DEF Marked, ScalarsOK
    <2>3. ScalarsOK' /\ shown' = shown /\ rows' \in {rows, Marking}
      BY <1>0, <1>4, <2>2 DEF Marked, window, input, history, ScalarsOK, Marking
    <2> QED
      BY <1>1, <2>1, <2>3, KeptStep
  <1> QED
    BY <1>2, <1>3, <1>4

\* What the user starts without an entry.
LEMMA UserSteps ==
  ASSUME QueueInv, NEW t \in Tasks,
         (\E steer \in BOOLEAN : SendComposer(t, steer)) \/ Resolve(t) \/ StopClicked(t)
  PROVE  QueueInv'
  <1>0. TypeOK /\ ScalarsOK
    BY TypeParts DEF QueueInv
  <1>1. UNCHANGED <<rows, arriving, snapshot, cancelling, created, inherited, sent>> /\ clicks' \in 0 .. MaxClicks
    BY <1>0, ClickOK DEF SendComposer, Resolve, StopClicked, backend, window, history
  <1>2. CASE \E steer \in BOOLEAN : SendComposer(t, steer)
    <2>1. PICK steer \in BOOLEAN : SendComposer(t, steer)
      BY <1>2
    <2> DEFINE call == [Idle EXCEPT !.steer = steer]
    <2>2. call \in Task /\ call.item = 0 /\ ~call.auto
      BY IdleOK DEF Task
    <2>3. NewSend(t, call) /\ draining' \in BOOLEAN
      BY <1>0, <2>1 DEF SendComposer, TypeOK
    <2> HIDE DEF call
    <2>4. ChainOK' /\ \E r \in Task : /\ task' = [task EXCEPT ![t] = r]
                                      /\ r.pc \in {"cancel", "chat"} /\ r.item = call.item /\ r.auto = call.auto
      BY <1>0, <2>2, <2>3, NewSendKeeps
    <2>5. Kept(t)
      BY <2>2, <2>4 DEF Kept
    <2>6. ScalarsOK' /\ shown' = shown
      BY <1>0, <1>1, <2>1 DEF SendComposer, backend, window, history, ScalarsOK
    <2> QED
      BY <1>1, <2>4, <2>5, <2>6, KeptStep
  <1>3. CASE Resolve(t)
    <2> DEFINE r == [Idle EXCEPT !.kind = "resolve", !.pc = "resolve"]
    <2>1. r \in Task /\ r.item = 0 /\ ~r.auto /\ r.pc = "resolve"
      BY IdleOK DEF Task, Kinds, Labels
    <2>2. task' = [task EXCEPT ![t] = r]
      BY <1>3 DEF Resolve
    <2> HIDE DEF r
    <2>3. Kept(t)
      BY <2>1, <2>2 DEF Kept
    <2>4. ChainOK' /\ ScalarsOK' /\ shown' = shown
      BY <1>0, <1>1, <1>3 DEF Resolve, backend, window, chain, history, TypeOK, ChainOK, ScalarsOK, Active
    <2> QED
      BY <1>1, <2>3, <2>4, KeptStep
  <1>4. CASE StopClicked(t)
    <2> DEFINE label == IF Queued = {} THEN "stop" ELSE "mark"
               r == [Idle EXCEPT !.kind = "stop", !.pc = label]
    <2>1. r \in Task /\ r.item = 0 /\ ~r.auto /\ r.pc # "delete"
      BY IdleOK DEF Task, Kinds, Labels
    <2>2. task' = [task EXCEPT ![t] = r]
      BY <1>4 DEF StopClicked
    <2> HIDE DEF r
    <2>3. Kept(t)
      BY <2>1, <2>2 DEF Kept
    <2>4. ChainOK' /\ ScalarsOK' /\ shown' = ShownNotStarted
      BY <1>0, <1>1, <1>4 DEF StopClicked, backend, chain, history, TypeOK, ChainOK, ScalarsOK
    <2> QED
      BY <1>1, <2>3, <2>4, KeptStep
  <1> QED
    BY <1>2, <1>3, <1>4

\* A call that is about to delete the row of an entry the window shows.
LEMMA DeleteCall ==
  ASSUME QueueInv, NEW t \in Tasks, NEW i \in Items, shown[i] # "none", NEW r \in Task,
         r.pc = "delete", r.item = i, r.auto => shown[i] = "queued",
         task' = [task EXCEPT ![t] = r], ChainOK', ScalarsOK',
         UNCHANGED <<shown, rows, arriving, snapshot, cancelling, created, inherited, sent>>
  PROVE  QueueInv'
  <1>1. TablesOK' /\ Fresh' /\ Settled' /\ SentIsGone'
    BY MarkTables
  <1>2. created \in Nat /\ created' \in Nat /\ created <= created'
    BY QueueBounds DEF QueueInv, TypeOK
  <1>3. i <= created /\ i # 0
    BY <1>2, NumbersNat, ItemsNat DEF QueueInv, Fresh
  <1>4. r.auto => i > inherited
    <2>1. inherited \in Nat /\ i \in Nat
      BY NumbersNat DEF QueueInv, TypeOK
    <2> QED
      BY <2>1 DEF QueueInv, Settled
  <1>5. Fits(r)
    BY <1>3, <1>4 DEF Fits
  <1>6. Fits(r)'
    BY <1>2, <1>5, FitsStays
  <1>7. CallsFit' /\ task' \in [Tasks -> Task]
    BY <1>2, <1>6, OthersFit
  <1>8. TypeOK'
    BY <1>1, <1>7, TypePartsNext
  <1> QED
    BY <1>1, <1>7, <1>8 DEF QueueInv

LEMMA ItemSteps ==
  ASSUME QueueInv, NEW t \in Tasks, NEW i \in Items, SendItem(t, i) \/ EditItem(t, i)
  PROVE  QueueInv'
  <1>0. TypeOK /\ ScalarsOK
    BY TypeParts DEF QueueInv
  <1>1. /\ UNCHANGED <<shown, rows, arriving, snapshot, cancelling, created, inherited, sent>>
        /\ clicks' \in 0 .. MaxClicks /\ shown[i] # "none" /\ refused' \subseteq refused
        /\ UNCHANGED <<status, owner, failures, restarts>> /\ UNCHANGED chain
    BY <1>0, ClickOK DEF SendItem, EditItem, backend, window, history
  <1>2. ChainOK' /\ ScalarsOK'
    BY <1>0, <1>1 DEF chain, TypeOK, ChainOK, ScalarsOK
  <1>3. CASE SendItem(t, i)
    <2> DEFINE s == IF Busy THEN "running" ELSE "done"
               st == (shown[i] = "queued")
               r == [Idle EXCEPT !.item = i, !.pc = "delete", !.steer = st, !.saw = s]
    <2>1. s \in AtRest \cup Active /\ st \in BOOLEAN
      BY DEF AtRest, Active
    <2>2. task' = [task EXCEPT ![t] = r]
      BY <1>3 DEF SendItem
    <2> HIDE DEF s, st
    <2>3. r \in Task /\ r.pc = "delete" /\ r.item = i /\ ~r.auto
      BY <2>1, IdleOK DEF Task, Labels
    <2> HIDE DEF r
    <2> QED
      BY <1>1, <1>2, <2>2, <2>3, DeleteCall
  <1>4. CASE EditItem(t, i)
    <2> DEFINE r == [Idle EXCEPT !.kind = "edit", !.item = i, !.pc = "delete"]
    <2>1. task' = [task EXCEPT ![t] = r]
      BY <1>4 DEF EditItem
    <2>2. r \in Task /\ r.pc = "delete" /\ r.item = i /\ ~r.auto
      BY IdleOK DEF Task, Labels, Kinds
    <2> HIDE DEF r
    <2> QED
      BY <1>1, <1>2, <2>1, <2>2, DeleteCall
  <1> QED
    BY <1>3, <1>4

\* A drain takes the oldest of the entries the window shows as queued.
LEMMA DrainSendsStep ==
  ASSUME QueueInv, NEW t \in Tasks, DrainSends(t)
  PROVE  QueueInv'
  <1>0. TypeOK /\ ScalarsOK
    BY TypeParts DEF QueueInv
  <1>1. PICK i \in Items : i = Oldest(Queued) /\ shown[i] = "queued"
    BY LeastItem DEF DrainSends, Queued
  <1> DEFINE o == task[t].outer
             r == [Idle EXCEPT !.item = i, !.pc = "delete", !.auto = TRUE, !.outer = o]
  <1>2. o \in Nat
    BY <1>0 DEF TypeOK, Task
  <1>3. task' = [task EXCEPT ![t] = r]
    BY <1>1 DEF DrainSends
  <1> HIDE DEF o
  <1>4. r \in Task /\ r.pc = "delete" /\ r.item = i
    BY <1>2, IdleOK DEF Task, Labels
  <1> HIDE DEF r
  <1>5. /\ UNCHANGED <<shown, rows, arriving, snapshot, cancelling, created, inherited, sent>>
        /\ UNCHANGED <<status, owner, failures, restarts, clicks, refused>>
        /\ UNCHANGED <<generation, inFlight, unsettled>> /\ draining' = TRUE
    BY DEF DrainSends, backend, window, others, input, history
  <1>6. ChainOK' /\ ScalarsOK'
    BY <1>0, <1>5 DEF TypeOK, ChainOK, ScalarsOK
  <1> QED
    BY <1>1, <1>3, <1>4, <1>5, <1>6, DeleteCall

\* The row goes before the send.
LEMMA DeletedStep ==
  ASSUME QueueInv, NEW t \in Tasks, Deleted(t)
  PROVE  QueueInv'
  <1>0. TypeOK /\ ScalarsOK /\ task[t] \in Task
    BY TypeParts DEF QueueInv, TypeOK
  <1>1. PICK i : i = task[t].item
    OBVIOUS
  <1>2. i \in Items /\ i <= created /\ pc(t) = "delete"
    <2>1. i # 0 /\ i <= created
      BY <1>1 DEF QueueInv, CallsFit, Fits, Deleted, pc
    <2> QED
      BY <1>0, <1>1, <2>1, ItemNat DEF Deleted
  <1>3. /\ rows' = [rows EXCEPT ![i] = "none"] /\ shown' = [shown EXCEPT ![i] = "none"]
        /\ UNCHANGED <<arriving, snapshot, cancelling, created, inherited, sent>>
        /\ UNCHANGED <<status, owner, failures, restarts, clicks, refused>>
    BY <1>1 DEF Deleted, WithoutRow, others, input, history
  <1>4. /\ rows' \in [Items -> Cell] /\ shown' \in [Items -> Cell] /\ rows'[i] = "none"
        /\ \A j \in Items : /\ rows'[j] \in {rows[j], "none"}
                            /\ shown'[j] \in {shown[j], "none"}
    BY <1>0, <1>2, <1>3 DEF TypeOK, Cell
  <1>5. ScalarsOK' /\ TablesOK'
    BY <1>0, <1>3, <1>4 DEF TypeOK, ScalarsOK, TablesOK
  <1>6. Fresh'
    BY <1>3, <1>4 DEF QueueInv, Fresh
  <1>7. Settled'
    BY <1>3, <1>4 DEF QueueInv, Settled
  <1>8. SentIsGone'
    BY <1>3, <1>4 DEF QueueInv, SentIsGone
  <1>9. /\ created \in Nat /\ created' \in Nat /\ created <= created'
        /\ \A j \in Items : j <= created /\ rows[j] = "none" => rows'[j] = "none"
    BY <1>3, <1>4, QueueBounds DEF QueueInv, TypeOK
  <1>10. ChainOK' /\ \E r \in Task : task' = [task EXCEPT ![t] = r] /\ Fits(r)'
    <2>1. CASE Finish(t) /\ UNCHANGED generation
      <3>1. ChainOK' /\ task' = [task EXCEPT ![t] = Idle]
        BY <1>0, <2>1, FinishKeeps DEF Finish
      <3>2. PICK r \in Task : r = Idle
        BY IdleOK
      <3>3. Fits(r)'
        BY <1>9, <3>2, IdleOK DEF Fits
      <3> QED
        BY <3>1, <3>2, <3>3
    <2>2. CASE NewSend(t, task[t]) /\ UNCHANGED draining
      <3>1. draining' \in BOOLEAN
        BY <1>0, <2>2 DEF TypeOK
      <3>2. PICK q \in Task : q = task[t]
        BY <1>0
      <3>3. ChainOK' /\ \E r \in Task : /\ task' = [task EXCEPT ![t] = r]
                                        /\ r.pc \in {"cancel", "chat"} /\ r.item = q.item /\ r.auto = q.auto
        BY <1>0, <2>2, <3>1, <3>2, NewSendKeeps
      <3>4. PICK r \in Task : /\ task' = [task EXCEPT ![t] = r]
                              /\ r.pc \in {"cancel", "chat"} /\ r.item = q.item /\ r.auto = q.auto
        BY <3>3
      <3>5. q.item = i /\ (q.auto => i > inherited)
        BY <1>1, <3>2 DEF QueueInv, CallsFit, Fits
      <3>6. Fits(r)'
        BY <1>2, <1>3, <1>4, <3>4, <3>5 DEF Fits
      <3> QED
        BY <3>3, <3>4, <3>6
    <2> QED
      BY <2>1, <2>2 DEF Deleted
  <1>11. CallsFit' /\ task' \in [Tasks -> Task]
    BY <1>3, <1>9, <1>10, OthersFit
  <1>12. TypeOK'
    BY <1>5, <1>10, <1>11, TypePartsNext
  <1> QED
    BY <1>6, <1>7, <1>8, <1>11, <1>12 DEF QueueInv

LEMMA ChatAcceptedStep ==
  ASSUME QueueInv, NEW t \in Tasks, ChatAccepted(t)
  PROVE  QueueInv'
  <1>0. TypeOK /\ ScalarsOK /\ task[t] \in Task
    BY TypeParts DEF QueueInv, TypeOK
  <1>1. /\ UNCHANGED <<shown, rows, arriving, snapshot, cancelling, created, inherited>>
        /\ UNCHANGED <<failures, restarts, clicks, refused>> /\ UNCHANGED chain
        /\ status' = "running" /\ owner' = t /\ pc(t) = "chat" /\ Move(t, "turn")
    BY DEF ChatAccepted, window, others, input, history
  <1>2. PICK i \in Items \cup {0} : i = task[t].item
    BY <1>0, ItemNat
  <1>3. sent' = [j \in Items |-> sent[j] + (IF j = i THEN 1 ELSE 0)]
    BY <1>2 DEF ChatAccepted
  <1>4. i # 0 => rows[i] = "none" /\ i <= created
    BY <1>1, <1>2 DEF QueueInv, CallsFit, Fits, pc
  <1>5. sent' \in [Items -> Nat] /\ \A j \in Items : j # i => sent'[j] = sent[j]
    BY <1>0, <1>3 DEF TypeOK
  <1>6. TablesOK'
    BY <1>0, <1>1, <1>5 DEF TypeOK, TablesOK
  <1>7. Settled'
    BY <1>1 DEF QueueInv, Settled
  <1>8. Fresh'
    <2>1. ASSUME NEW j \in Items, j > created PROVE j # i
      BY <1>4, <2>1, NumbersNat, QueueBounds, <1>0 DEF TypeOK
    <2> QED
      BY <1>1, <1>5, <2>1 DEF QueueInv, Fresh
  <1>9. SentIsGone'
    <2> SUFFICES ASSUME NEW j \in Items, sent'[j] > 0 PROVE rows'[j] = "none"
      BY DEF SentIsGone
    <2>1. CASE j = i
      BY <1>1, <1>4, <2>1, ItemsNat
    <2>2. CASE j # i
      BY <1>1, <1>5, <2>2 DEF QueueInv, SentIsGone
    <2> QED
      BY <2>1, <2>2
  <1>10. Kept(t)
    BY <1>0, <1>1, MoveKeeps DEF Labels
  <1>11. PICK r \in Task :
          /\ task' = [task EXCEPT ![t] = r]
          /\ r.pc # "delete"
          /\ \/ r.item = 0 /\ ~r.auto
             \/ r.item = task[t].item /\ r.auto = task[t].auto
    BY <1>10 DEF Kept
  <1>12. created \in Nat /\ created' \in Nat /\ created <= created'
         /\ \A j \in Items : j <= created /\ rows[j] = "none" => rows'[j] = "none"
    BY <1>1, QueueBounds DEF QueueInv, TypeOK
  <1>13. Fits(r)
    BY <1>1, <1>11, <1>12 DEF QueueInv, CallsFit, Fits, pc
  <1>14. Fits(r)'
    BY <1>1, <1>12, <1>13, FitsStays
  <1>15. CallsFit' /\ task' \in [Tasks -> Task]
    BY <1>1, <1>11, <1>12, <1>14, OthersFit
  <1>16. ChainOK' /\ ScalarsOK'
    BY <1>0, <1>1 DEF chain, TypeOK, ChainOK, ScalarsOK, Active
  <1>17. TypeOK'
    BY <1>6, <1>15, <1>16, TypePartsNext
  <1> QED
    BY <1>7, <1>8, <1>9, <1>15, <1>17 DEF QueueInv

-----------------------------------------------------------------------------
(* The steps of the table and of the window's copy *)

\* A step that leaves every call alone.
LEMMA TableStep ==
  ASSUME QueueInv, UNCHANGED <<task, inherited>>, UNCHANGED chain, ScalarsOK', TablesOK',
         Fresh', Settled', SentIsGone', created <= created',
         \A i \in Items : i <= created /\ rows[i] = "none" => rows'[i] = "none"
  PROVE  QueueInv'
  <1>1. created' \in Nat
    BY QueueBounds DEF TablesOK
  <1>2. CallsFit' /\ task' \in [Tasks -> Task]
    BY <1>1, SameTasksFit
  <1>3. ChainOK'
    BY DEF QueueInv, TypeOK, ChainOK, chain
  <1> QED
    BY <1>2, <1>3, TypePartsNext DEF QueueInv

LEMMA EnqueueStep ==
  ASSUME QueueInv, NEW i \in Items, Enqueue(i)
  PROVE  QueueInv'
  <1>0. TypeOK /\ ScalarsOK /\ i \in Nat /\ created \in Nat /\ inherited \in Nat /\ inherited <= created
    BY TypeParts, NumbersNat, QueueBounds DEF QueueInv, TypeOK
  <1>1. /\ i = created + 1 /\ created' = i
        /\ rows' = [rows EXCEPT ![i] = "queued"] /\ arriving' = arriving \cup {i}
        /\ UNCHANGED <<shown, snapshot, cancelling, inherited, sent, task>> /\ UNCHANGED chain
        /\ UNCHANGED <<status, owner, failures, restarts, clicks, refused>>
    BY DEF Enqueue, history
  <1>2. rows' \in [Items -> Cell] /\ \A j \in Items : j # i => rows'[j] = rows[j]
    BY <1>0, <1>1 DEF TypeOK, Cell, Entry
  <1>3. created' \in 0 .. MaxItems /\ inherited' \in 0 .. created'
    BY <1>0, <1>1, QueueBounds DEF Items
  <1>4. ScalarsOK' /\ TablesOK'
    BY <1>0, <1>1, <1>2, <1>3 DEF TypeOK, ScalarsOK, TablesOK
  <1>5. \A j \in Items : j > created' => j > created /\ j # i
    BY <1>0, <1>1, NumbersNat
  <1>6. Fresh'
    BY <1>1, <1>2, <1>5 DEF QueueInv, Fresh
  <1>7. \A j \in Items : j <= inherited => j # i
    BY <1>0, <1>1, NumbersNat
  <1>8. Settled'
    BY <1>1, <1>2, <1>7 DEF QueueInv, Settled
  <1>9. sent[i] = 0
    BY <1>0, <1>1 DEF QueueInv, Fresh
  <1>10. SentIsGone'
    BY <1>1, <1>2, <1>9 DEF QueueInv, SentIsGone
  <1>11. \A j \in Items : j <= created /\ rows[j] = "none" => rows'[j] = "none"
    BY <1>0, <1>1, <1>2, NumbersNat
  <1>12. created <= created'
    BY <1>0, <1>1
  <1> QED
    BY <1>1, <1>4, <1>6, <1>8, <1>10, <1>11, <1>12, TableStep

\* The window's copy changes to states that are known to be right.
LEMMA WindowStep ==
  ASSUME QueueInv, UNCHANGED <<task, inherited, rows, created, sent>>, UNCHANGED chain, ScalarsOK',
         shown' \in [Items -> Cell],
         \A i \in Items : i > created => shown'[i] = "none",
         \A i \in Items : i <= inherited => shown'[i] # "queued",
         arriving' \subseteq arriving,
         snapshot' \in {snapshot, NoSnapshot, rows},
         cancelling' \subseteq [item : Items, was : Entry],
         \A c \in cancelling' : c.item <= inherited => c.was # "queued"
  PROVE  QueueInv'
  <1>1. TablesOK'
    BY DEF QueueInv, TypeOK, TablesOK
  <1>2. Fresh'
    BY DEF QueueInv, Fresh
  <1>3. Settled'
    BY DEF QueueInv, Settled
  <1>4. SentIsGone'
    BY DEF QueueInv, SentIsGone
  <1>5. created <= created' /\ \A i \in Items : i <= created /\ rows[i] = "none" => rows'[i] = "none"
    BY QueueBounds DEF QueueInv, TypeOK
  <1> QED
    BY <1>1, <1>2, <1>3, <1>4, <1>5, TableStep

LEMMA ArrivedStep ==
  ASSUME QueueInv, NEW i \in Items, Arrived(i)
  PROVE  QueueInv'
  <1>0. ScalarsOK /\ i \in Nat /\ created \in Nat /\ inherited \in Nat
    BY TypeParts, NumbersNat, QueueBounds DEF QueueInv, TypeOK
  <1>1. /\ i \in arriving /\ arriving' = arriving \ {i} /\ shown' = [shown EXCEPT ![i] = "queued"]
        /\ UNCHANGED <<task, inherited, rows, created, sent, snapshot, cancelling>> /\ UNCHANGED chain
        /\ UNCHANGED <<status, owner, failures, restarts, clicks, refused>>
    BY DEF Arrived, backend, others, input, history
  <1>2. ~(i > created) /\ ~(i <= inherited)
    BY <1>1 DEF QueueInv, Fresh, Settled
  <1>3. /\ shown' \in [Items -> Cell]
        /\ \A j \in Items : j # i => shown'[j] = shown[j]
    BY <1>1 DEF QueueInv, TypeOK, Cell, Entry
  <1>4. /\ \A j \in Items : j > created => shown'[j] = "none"
        /\ \A j \in Items : j <= inherited => shown'[j] # "queued"
    BY <1>2, <1>3 DEF QueueInv, Fresh, Settled
  <1>5. ScalarsOK'
    BY <1>0, <1>1 DEF ScalarsOK
  <1>6. /\ cancelling' \subseteq [item : Items, was : Entry]
        /\ \A c \in cancelling' : c.item <= inherited => c.was # "queued"
    BY <1>1 DEF QueueInv, TypeOK, Settled
  <1> QED
    BY <1>1, <1>3, <1>4, <1>5, <1>6, WindowStep

LEMMA CancelItemStep ==
  ASSUME QueueInv, NEW i \in Items, CancelItem(i)
  PROVE  QueueInv'
  <1>0. TypeOK /\ ScalarsOK
    BY TypeParts DEF QueueInv
  <1>1. PICK c : c = [item |-> i, was |-> shown[i]]
    OBVIOUS
  <1>2. /\ shown[i] \in {"queued", "not_started"} /\ shown' = [shown EXCEPT ![i] = "cancelled"]
        /\ cancelling' = cancelling \cup {c} /\ refused' = refused \cup {i}
        /\ UNCHANGED <<task, inherited, rows, created, sent, arriving, snapshot>> /\ UNCHANGED chain
        /\ UNCHANGED <<status, owner, failures, restarts>>
    BY <1>1 DEF CancelItem, backend
  <1>3. clicks' \in 0 .. MaxClicks
    BY <1>0, ClickOK DEF CancelItem
  <1>4. /\ shown' \in [Items -> Cell] /\ shown'[i] = "cancelled"
        /\ \A j \in Items : j # i => shown'[j] = shown[j]
    BY <1>0, <1>2 DEF TypeOK, Cell, Entry
  <1>5. ~(i > created)
    BY <1>2 DEF QueueInv, Fresh
  <1>6. /\ \A j \in Items : j > created => shown'[j] = "none"
        /\ \A j \in Items : j <= inherited => shown'[j] # "queued"
    BY <1>4, <1>5 DEF QueueInv, Fresh, Settled
  <1>7. ScalarsOK'
    BY <1>0, <1>2, <1>3 DEF ScalarsOK
  <1>8. c \in [item : Items, was : Entry] /\ (c.item <= inherited => c.was # "queued")
    BY <1>1, <1>2 DEF Entry, QueueInv, Settled
  <1>9. /\ cancelling' \subseteq [item : Items, was : Entry]
        /\ \A d \in cancelling' : d.item <= inherited => d.was # "queued"
    BY <1>2, <1>8 DEF QueueInv, TypeOK, Settled
  <1> QED
    BY <1>2, <1>4, <1>6, <1>7, <1>9, WindowStep

LEMMA CancelledItemStep ==
  ASSUME QueueInv, NEW c \in cancelling, CancelledItem(c)
  PROVE  QueueInv'
  <1>0. TypeOK /\ ScalarsOK /\ created \in Nat
    BY TypeParts, QueueBounds DEF QueueInv, TypeOK
  <1>1. /\ cancelling' = cancelling \ {c}
        /\ UNCHANGED <<task, inherited, created, sent, arriving, snapshot>> /\ UNCHANGED chain
        /\ UNCHANGED <<status, owner, restarts, clicks>>
    BY DEF CancelledItem, input
  <1>2. c.item \in Items /\ c.was \in Entry
    BY <1>0 DEF TypeOK
  <1>3. c.item <= inherited => c.was # "queued"
    BY DEF QueueInv, Settled
  <1>4. /\ shown' \in [Items -> Cell]
        /\ \A j \in Items : /\ shown[j] = "none" => shown'[j] = "none"
                            /\ shown'[j] = "queued" => shown[j] = "queued" \/ (j = c.item /\ c.was = "queued")
    BY <1>0, <1>2 DEF CancelledItem, TypeOK, Cell
  <1>5. /\ rows' \in [Items -> Cell]
        /\ \A j \in Items : /\ rows[j] = "none" => rows'[j] = "none"
                            /\ rows'[j] = "queued" => rows[j] = "queued"
    BY <1>0, <1>2 DEF CancelledItem, Updated, TypeOK, Cell, Entry
  <1>6. failures' \in 0 .. MaxFailures /\ refused' \subseteq Items
    BY <1>0, StoreFailsOK DEF CancelledItem, ScalarsOK
  <1>7. ScalarsOK' /\ TablesOK'
    BY <1>0, <1>1, <1>4, <1>5, <1>6 DEF TypeOK, ScalarsOK, TablesOK
  <1>8. Fresh'
    BY <1>1, <1>4, <1>5 DEF QueueInv, Fresh
  <1>9. Settled'
    BY <1>1, <1>3, <1>4, <1>5 DEF QueueInv, Settled
  <1>10. SentIsGone'
    BY <1>1, <1>5 DEF QueueInv, SentIsGone
  <1>11. created <= created'
    BY <1>0, <1>1
  <1> QED
    BY <1>1, <1>5, <1>7, <1>8, <1>9, <1>10, <1>11, TableStep

LEMMA HydrateSteps ==
  ASSUME QueueInv, HydrateRead \/ HydrateMerge
  PROVE  QueueInv'
  <1>0. TypeOK /\ ScalarsOK
    BY TypeParts DEF QueueInv
  <1>1. /\ UNCHANGED <<task, inherited, rows, created, sent, arriving, cancelling>> /\ UNCHANGED chain
        /\ UNCHANGED <<status, owner, failures, restarts, refused>>
        /\ snapshot' \in {NoSnapshot, rows} /\ clicks' \in 0 .. MaxClicks
    BY <1>0, ClickOK DEF HydrateRead, HydrateMerge, backend, others, input, history, ScalarsOK
  <1>2. /\ shown' \in [Items -> Cell]
        /\ \A j \in Items : j > created => shown'[j] = "none"
        /\ \A j \in Items : j <= inherited => shown'[j] # "queued"
    <2>1. CASE HydrateRead
      BY <1>0, <2>1 DEF HydrateRead, QueueInv, Fresh, Settled, TypeOK
    <2>2. CASE HydrateMerge
      BY <1>0, <2>2 DEF HydrateMerge, QueueInv, Fresh, Settled, TypeOK
    <2> QED
      BY <2>1, <2>2
  <1>3. ScalarsOK'
    BY <1>0, <1>1 DEF ScalarsOK
  <1>4. /\ cancelling' \subseteq [item : Items, was : Entry]
        /\ \A c \in cancelling' : c.item <= inherited => c.was # "queued"
    BY <1>1 DEF QueueInv, TypeOK, Settled
  <1> QED
    BY <1>1, <1>2, <1>3, <1>4, WindowStep

\* A reconcile leaves no entry queued; without one the entries it was to settle stay
\* above `inherited'.
LEMMA RestartStep == QueueInv /\ Restart => QueueInv'
  <1> SUFFICES ASSUME QueueInv, Restart PROVE QueueInv'
    OBVIOUS
  <1>0. TypeOK /\ ScalarsOK /\ created \in Nat
    BY TypeParts, QueueBounds DEF QueueInv, TypeOK
  <1>1. /\ shown' = [i \in Items |-> "none"] /\ arriving' = {}
        /\ snapshot' = rows' /\ cancelling' = {}
        /\ UNCHANGED <<sent, refused, clicks, created>> /\ owner' = NoTask
        /\ draining' = FALSE /\ generation' = 0 /\ inFlight' = 0 /\ unsettled' = {}
        /\ task' = [t \in Tasks |-> Idle] /\ status' \in {status, "cancelled"}
    BY DEF Restart, Interrupted, input
  <1>2. restarts' \in 0 .. MaxRestarts /\ failures' \in 0 .. MaxFailures
    BY <1>0, QueueBounds, StoreFailsOK DEF Restart, TypeOK
  <1>3. /\ rows' \in [Items -> Cell] /\ inherited' \in 0 .. created
        /\ \A i \in Items : /\ i <= inherited' => rows'[i] # "queued"
                            /\ rows[i] = "none" => rows'[i] = "none"
    <2>1. CASE rows' = Reconciled /\ inherited' = created
      BY <1>0, <2>1 DEF Reconciled, TypeOK, Cell, Entry
    <2>2. CASE UNCHANGED <<rows, inherited>>
      BY <1>0, <2>2 DEF QueueInv, Settled, TypeOK
    <2> QED
      BY <2>1, <2>2 DEF Restart
  <1>4. ScalarsOK'
    BY <1>0, <1>1, <1>2 DEF ScalarsOK, AtRest
  <1>5. ChainOK' /\ task' \in [Tasks -> Task]
    <2>1. draining' \in BOOLEAN
      BY <1>1
    <2>2. generation' \in Nat /\ inFlight' \in 0 .. generation' /\ unsettled' \subseteq 1 .. generation'
      BY <1>1
    <2>3. task' \in [Tasks -> Task]
      BY <1>1, IdleOK
    <2> QED
      BY <2>1, <2>2, <2>3 DEF ChainOK
  <1>6. TablesOK'
    BY <1>0, <1>1, <1>3 DEF TypeOK, TablesOK, Cell
  <1>7. Fresh'
    BY <1>1, <1>3 DEF QueueInv, Fresh
  <1>8. Settled'
    BY <1>1, <1>3 DEF Settled
  <1>9. SentIsGone'
    BY <1>1, <1>3 DEF QueueInv, SentIsGone
  <1>10. CallsFit'
    BY <1>0, <1>1, IdleOK DEF CallsFit, Fits
  <1>11. TypeOK'
    BY <1>4, <1>5, <1>6, TypePartsNext
  <1> QED
    BY <1>7, <1>8, <1>9, <1>10, <1>11 DEF QueueInv

-----------------------------------------------------------------------------
LEMMA QueueInit == Init => QueueInv
  <1> SUFFICES ASSUME Init PROVE QueueInv
    OBVIOUS
  <1>1. ScalarsOK
    BY QueueBounds DEF Init, ScalarsOK, AtRest
  <1>2. TablesOK
    BY QueueBounds DEF Init, TablesOK, Cell
  <1>3. ChainOK /\ task \in [Tasks -> Task]
    <2>1. draining \in BOOLEAN
      BY DEF Init
    <2>2. generation \in Nat /\ inFlight \in 0 .. generation /\ unsettled \subseteq 1 .. generation
      BY DEF Init
    <2>3. task \in [Tasks -> Task]
      BY IdleOK DEF Init
    <2> QED
      BY <2>1, <2>2, <2>3 DEF ChainOK
  <1>4. Fresh /\ SentIsGone
    BY DEF Init, Fresh, SentIsGone
  <1>5. Settled
    BY DEF Init, Settled
  <1>6. CallsFit
    BY IdleOK DEF Init, CallsFit, Fits
  <1>7. TypeOK
    BY <1>1, <1>2, <1>3, TypeParts
  <1> QED
    BY <1>4, <1>5, <1>6, <1>7 DEF QueueInv

LEMMA StutterStep == QueueInv /\ UNCHANGED vars => QueueInv'
  <1> SUFFICES ASSUME QueueInv, UNCHANGED vars PROVE QueueInv'
    OBVIOUS
  <1>1. TypeOK'
    BY DEF QueueInv, TypeOK, vars
  <1>2. Fresh' /\ SentIsGone'
    BY DEF QueueInv, Fresh, SentIsGone, vars
  <1>3. Settled'
    BY DEF QueueInv, Settled, vars
  <1>4. CallsFit'
    BY DEF QueueInv, CallsFit, Fits, vars
  <1> QED
    BY <1>1, <1>2, <1>3, <1>4 DEF QueueInv

LEMMA QueueNext == QueueInv /\ [Next]_vars => QueueInv'
  <1> SUFFICES ASSUME QueueInv, [Next]_vars PROVE QueueInv'
    OBVIOUS
  <1>1. ASSUME NEW t \in Tasks, Proceed(t) PROVE QueueInv'
    BY <1>1, QuietSteps, TurnSteps, ResolveSteps, DrainSteps, DrainSendsStep, DeletedStep, ChatAcceptedStep DEF Proceed
  <1>2. ASSUME NEW t \in Tasks, User(t) PROVE QueueInv'
    BY <1>2, UserSteps, ItemSteps DEF User
  <1>3. ASSUME NEW i \in Items, Enqueue(i) \/ Arrived(i) \/ CancelItem(i) PROVE QueueInv'
    BY <1>3, EnqueueStep, ArrivedStep, CancelItemStep
  <1>4. ASSUME NEW c \in cancelling, CancelledItem(c) PROVE QueueInv'
    BY <1>4, CancelledItemStep
  <1>5. CASE HydrateRead \/ HydrateMerge
    BY <1>5, HydrateSteps
  <1>6. CASE Restart
    BY <1>6, RestartStep
  <1>7. CASE UNCHANGED vars
    BY <1>7, StutterStep
  <1> QED
    BY <1>1, <1>2, <1>3, <1>4, <1>5, <1>6, <1>7 DEF Next

LEMMA QueueInvariant == Spec => []QueueInv
  BY QueueInit, QueueNext, PTL DEF Spec

-----------------------------------------------------------------------------
\* The table, the window's copy and its calls have their types.
THEOREM TypeCorrect == Spec => []TypeOK
  <1>1. QueueInv => TypeOK
    BY DEF QueueInv
  <1> QED
    BY QueueInvariant, <1>1, PTL

\* deleteFollowUp before the send: whatever fails or restarts, the table never
\* offers an entry again that has become a message.
THEOREM SentIsAlwaysGone == Spec => []SentIsGone
  <1>1. QueueInv => SentIsGone
    BY DEF QueueInv
  <1> QED
    BY QueueInvariant, <1>1, PTL

\* reconcile_interrupted_sessions: no drain sends an entry that a start of the process
\* has reconciled, through the table, a read in flight or a failed cancel.  The
\* start whose reconcile fails, which is not fatal, reconciles none.
THEOREM RestartNeverEverSends == Spec => RestartNeverSends
  <1>1. QueueInv => \A t \in Tasks : task[t].auto => task[t].item > inherited
    BY DEF QueueInv, CallsFit, Fits
  <1>2. QueueInv /\ [Next]_vars
          => [\A t \in Tasks : task[t].auto /\ pc(t) = "chat" /\ pc(t)' = "turn"
                => task[t].item > inherited]_vars
    BY <1>1
  <1> QED
    BY QueueInvariant, <1>2, PTL DEF Spec, RestartNeverSends
=============================================================================
