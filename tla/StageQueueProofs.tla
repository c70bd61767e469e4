-------------------------- MODULE StageQueueProofs --------------------------
(***************************************************************************)
(* For any finite number of callers and a queue with room for all their    *)
(* entries (three each), no caller is left blocked on a stage that is      *)
(* over.                                                                   *)
(***************************************************************************)
EXTENDS StageQueue, SequenceTheorems, FiniteSetTheorems, TLAPS

\* The queue can hold every entry there is.
QueueHasRoom == IsFiniteSet(Entry) /\ Cardinality(Entry) <= QueueCap

-----------------------------------------------------------------------------
(* Sequences. *)

\* Taking the entry at position i out of a sequence moves the later ones up.
LEMMA RemoveAtProperties ==
  ASSUME NEW S, NEW q \in Seq(S), NEW i \in 1 .. Len(q)
  PROVE  /\ RemoveAt(q, i) \in Seq(S)
         /\ Len(RemoveAt(q, i)) = Len(q) - 1
         /\ \A j \in 1 .. Len(q) - 1 :
               RemoveAt(q, i)[j] = IF j < i THEN q[j] ELSE q[j + 1]
<1> DEFINE a == SubSeq(q, 1, i - 1)
           b == SubSeq(q, i + 1, Len(q))
<1>1. /\ Len(q) \in Nat
      /\ \A j \in 1 .. Len(q) : q[j] \in S
  BY LenProperties
<1>2. /\ a \in Seq(S) /\ Len(a) = i - 1
      /\ \A j \in 1 .. i - 1 : a[j] = q[j]
  <2>1. \A j \in 1 .. i - 1 : q[j] \in S
    BY <1>1
  <2>2. /\ a \in Seq(S)
        /\ Len(a) = IF 1 <= i - 1 THEN i - 1 - 1 + 1 ELSE 0
        /\ \A j \in 1 .. i - 1 - 1 + 1 : a[j] = q[1 + j - 1]
    BY <2>1, <1>1, SubSeqProperties
  <2> QED BY <2>2, <1>1
<1>3. /\ b \in Seq(S) /\ Len(b) = Len(q) - i
      /\ \A j \in 1 .. Len(q) - i : b[j] = q[i + j]
  <2>1. \A j \in i + 1 .. Len(q) : q[j] \in S
    BY <1>1
  <2>2. /\ b \in Seq(S)
        /\ Len(b) = IF i + 1 <= Len(q) THEN Len(q) - (i + 1) + 1 ELSE 0
        /\ \A j \in 1 .. Len(q) - (i + 1) + 1 : b[j] = q[i + 1 + j - 1]
    BY <2>1, <1>1, SubSeqProperties
  <2> QED BY <2>2, <1>1
<1>4. /\ a \o b \in Seq(S)
      /\ Len(a \o b) = Len(a) + Len(b)
      /\ \A j \in 1 .. Len(a) + Len(b) :
            (a \o b)[j] = IF j <= Len(a) THEN a[j] ELSE b[j - Len(a)]
  BY <1>2, <1>3, ConcatProperties
<1>5. RemoveAt(q, i) = a \o b
  BY DEF RemoveAt
<1> HIDE DEF a, b
<1>6. Len(a) + Len(b) = Len(q) - 1
  BY <1>1, <1>2, <1>3
<1>7. ASSUME NEW j \in 1 .. Len(q) - 1
      PROVE  (a \o b)[j] = IF j < i THEN q[j] ELSE q[j + 1]
  <2>1. CASE j < i
    BY <2>1, <1>1, <1>2, <1>4, <1>6
  <2>2. CASE ~(j < i)
    <3>1. /\ j - (i - 1) \in 1 .. Len(q) - i
          /\ ~(j <= Len(a))
          /\ i + (j - (i - 1)) = j + 1
      BY <2>2, <1>1, <1>2
    <3>2. (a \o b)[j] = b[j - (i - 1)]
      BY <3>1, <1>2, <1>4, <1>6
    <3> QED BY <2>2, <3>1, <3>2, <1>3
  <2> QED BY <2>1, <2>2
<1> QED BY <1>4, <1>5, <1>6, <1>7

\* A queue of distinct entries that lacks one is not full.
LEMMA RoomForOne ==
  ASSUME QueueHasRoom, NEW q \in Seq(Entry), NEW e \in Entry,
         \A i, j \in DOMAIN q : q[i] = q[j] => i = j,
         \A i \in DOMAIN q : q[i] # e
  PROVE  Len(q) < QueueCap
<1> DEFINE f == [i \in 1 .. Len(q) + 1 |-> IF i <= Len(q) THEN q[i] ELSE e]
<1>1. /\ Len(q) \in Nat /\ DOMAIN q = 1 .. Len(q)
      /\ \A i \in 1 .. Len(q) : q[i] \in Entry
  BY LenProperties
<1>2. f \in Injection(1 .. Len(q) + 1, Entry)
  BY <1>1 DEF Injection, IsInjective
<1>3. Cardinality(1 .. Len(q) + 1) <= Cardinality(Entry)
  <2> HIDE DEF f
  <2> QED BY <1>2, FS_Injection DEF QueueHasRoom
<1>4. Cardinality(1 .. Len(q) + 1) = Len(q) + 1
  BY <1>1, FS_Interval
<1>5. Cardinality(Entry) \in Nat
  BY FS_CardinalityType DEF QueueHasRoom
<1> QED BY <1>1, <1>3, <1>4, <1>5, QueueCapAssumption DEF QueueHasRoom

-----------------------------------------------------------------------------
(* Types. *)

LEMMA StageFacts ==
  /\ Stage = 0 .. 5 /\ AwaitedStage = {1, 2, 3}
  /\ \A c \in 0 .. 4 : StageAfter(c) = c + 1
  /\ INITIALIZING = 0 /\ FETCHING_RC = 1 /\ DOWNLOADING_UPDATES = 2
  /\ INSTALLING = 3 /\ LAZY_DOWNLOADING = 4 /\ FINISHED = 5
BY DEF Stage, AwaitedStage, StageAfter, INITIALIZING, FETCHING_RC,
       DOWNLOADING_UPDATES, INSTALLING, LAZY_DOWNLOADING, FINISHED

LEMMA PassGateType ==
  ASSUME TypeOK, NEW w \in Waiters, PassGate(w)
  PROVE  /\ wpc' \in [Waiters -> WaiterPC]
         /\ wst' \in [Waiters -> AwaitedStage]
         /\ enqueued' \in [Waiters -> BOOLEAN]
<1>1. CASE wst[w] = INSTALLING
  BY <1>1 DEF PassGate, Goto, TypeOK, WaiterPC
<1>2. CASE wst[w] # INSTALLING
  <2>1. wst[w] + 1 \in AwaitedStage
    BY <1>2, StageFacts DEF TypeOK
  <2>2. /\ wpc' = [wpc EXCEPT ![w] = "offering"]
        /\ wst' = [wst EXCEPT ![w] = wst[w] + 1]
        /\ enqueued' = [enqueued EXCEPT ![w] = FALSE]
    BY <1>2 DEF PassGate, Goto
  <2> QED BY <2>1, <2>2 DEF TypeOK, WaiterPC
<1> QED BY <1>1, <1>2

LEMMA TypeStep ==
  ASSUME TypeOK, [Next]_vars
  PROVE  TypeOK'
<1> USE DEF TypeOK
<1>1. CASE RunnerStep
  <2>1. CASE PackageArrives
    BY <2>1 DEF PackageArrives, waiterVars
  <2>2. ASSUME NEW c \in Stage, OnComplete(c) PROVE TypeOK'
    BY <2>2, StageFacts DEF OnComplete, waiterVars, RunnerPC, StageAfter
  <2>3. CASE TakeSize
    BY <2>3, LenProperties DEF TakeSize, waiterVars, RunnerPC
  <2>4. CASE Poll
    <3>1. CASE queue = <<>>
      BY <2>4, <3>1 DEF Poll, waiterVars
    <3>2. CASE queue # <<>>
      BY <2>4, <3>2, HeadTailProperties DEF Poll, waiterVars
    <3> QED BY <3>1, <3>2
  <2>5. CASE CompleteHand
    BY <2>5 DEF CompleteHand, waiterVars
  <2>6. CASE PutBack
    BY <2>6, AppendProperties DEF PutBack, waiterVars
  <2>7. CASE TurnEnds
    BY <2>7 DEF TurnEnds, waiterVars, RunnerPC
  <2>8. CASE Drain
    <3>1. CASE queue = <<>>
      BY <2>8, <3>1 DEF Drain, waiterVars, RunnerPC
    <3>2. CASE queue # <<>>
      BY <2>8, <3>2, HeadTailProperties DEF Drain, waiterVars
    <3> QED BY <3>1, <3>2
  <2>9. CASE Finish
    BY <2>9 DEF Finish, waiterVars, RunnerPC
  <2> QED BY <1>1, <2>1, <2>2, <2>3, <2>4, <2>5, <2>6, <2>7, <2>8, <2>9 DEF RunnerStep
<1>2. CASE Die
  BY <1>2 DEF Die, waiterVars, RunnerPC
<1>3. ASSUME NEW w \in Waiters, Arrive(w) \/ WaiterStep(w) \/ Timeout(w)
      PROVE  TypeOK'
  <2>1. CASE Arrive(w)
    BY <2>1 DEF Arrive, Goto, runnerVars, WaiterPC
  <2>2. CASE Offer(w)
    <3>1. EntryOf(w) \in Entry
      BY DEF EntryOf, Entry
    <3> QED BY <2>2, <3>1, AppendProperties DEF Offer, Goto, runnerVars, WaiterPC
  <2>3. CASE CheckStage(w)
    BY <2>3 DEF CheckStage, Goto, runnerVars, WaiterPC
  <2>4. CASE RemoveOwn(w)
    <3>1. queue' \in Seq(Entry)
      BY <2>4, RemoveAtProperties, LenProperties DEF RemoveOwn
    <3>2. EntryOf(w) \in Entry
      BY DEF EntryOf, Entry
    <3> QED BY <2>4, <3>1, <3>2 DEF RemoveOwn, Goto, runnerVars, WaiterPC
  <2>5. CASE Wake(w)
    BY <2>5, PassGateType DEF Wake, runnerVars
  <2>6. CASE Timeout(w)
    BY <2>6, PassGateType DEF Timeout, Goto, runnerVars, WaiterPC
  <2>7. CASE Recheck(w)
    BY <2>7, PassGateType DEF Recheck, Goto, runnerVars, WaiterPC
  <2>8. CASE GiveUp(w)
    BY <2>8 DEF GiveUp, Goto, runnerVars, WaiterPC
  <2> QED BY <1>3, <2>1, <2>2, <2>3, <2>4, <2>5, <2>6, <2>7, <2>8 DEF WaiterStep
<1>4. CASE UNCHANGED vars
  BY <1>4 DEF vars
<1> QED BY <1>1, <1>2, <1>3, <1>4 DEF Next

LEMMA InitType ==
  ASSUME Init
  PROVE  TypeOK
<1>1. /\ INITIALIZING \in Stage /\ FETCHING_RC \in AwaitedStage
      /\ <<>> \in Seq(Entry)
  BY StageFacts, EmptySeq
<1>2. enqueued \in [Waiters -> BOOLEAN]
  BY Zenon DEF Init
<1>3. wpc \in [Waiters -> WaiterPC] /\ wst \in [Waiters -> AwaitedStage]
  BY <1>1 DEF Init, WaiterPC
<1>4. 0 \in Nat
  OBVIOUS
<1> QED BY <1>1, <1>2, <1>3, <1>4, Zenon DEF Init, TypeOK, RunnerPC

\* Every variable of the wait queue keeps its type, whatever the number of
\* callers and the capacity of the queue.
THEOREM TypeCorrect == Spec => []TypeOK
<1>1. Init => TypeOK
  BY InitType
<1>2. TypeOK /\ [Next]_vars => TypeOK'
  BY TypeStep
<1> QED BY <1>1, <1>2, PTL DEF Spec

-----------------------------------------------------------------------------
(* The wait queue loses nobody. *)

Parts == HandInTurn /\ TurnOfStage /\ EntriesDistinct /\ EntriesOffered
           /\ EntryKeptOrDone /\ NoLostWakeup

LEMMA QueueFacts ==
  ASSUME TypeOK
  PROVE  /\ Len(queue) \in Nat /\ DOMAIN queue = 1 .. Len(queue)
         /\ \A i \in 1 .. Len(queue) : queue[i] \in Entry
         /\ \A e \in Entry : e.w \in Waiters /\ e.s \in AwaitedStage
         /\ \A w \in Waiters : EntryOf(w) \in Entry /\ EntryOf(w).w = w
                                /\ EntryOf(w).s = wst[w]
         /\ hand # None => hand \in Entry
         /\ None \notin Entry
BY LenProperties, NoneAssumption DEF TypeOK, Entry, EntryOf

\* The steps of the runner that touch neither the queue nor the hand: a stage
\* ends, the size is taken, the turn ends, the package arrives, the task ends.
LEMMA RunnerBookkeeping ==
  ASSUME IndInv, TypeOK',
         \/ PackageArrives \/ TakeSize \/ TurnEnds \/ Finish \/ Die
         \/ \E c \in Stage : OnComplete(c)
  PROVE  Parts'
<1> USE QueueFacts DEF IndInv, Parts
<1>1. /\ UNCHANGED <<queue, hand, done, wpc, wst, enqueued>>
  BY DEF PackageArrives, OnComplete, TakeSize, TurnEnds, Finish, Die, waiterVars
<1>2. /\ EntriesDistinct' /\ EntriesOffered' /\ EntryKeptOrDone'
  BY <1>1 DEF EntriesDistinct, EntriesOffered, EntryKeptOrDone, Queued, EntryOf
<1>3. HandInTurn'
  BY <1>1 DEF PackageArrives, OnComplete, TakeSize, TurnEnds, Finish, Die, HandInTurn
<1>4. TurnOfStage'
  BY <1>1 DEF PackageArrives, OnComplete, TakeSize, TurnEnds, Finish, Die, TurnOfStage
<1>5. NoLostWakeup'
  <2> SUFFICES ASSUME NEW w \in Waiters, BlockedOn(w)', (stage > wst[w])'
               PROVE  (EntryOf(w) \in InThisTurn)'
    BY DEF NoLostWakeup
  <2>1. BlockedOn(w) /\ EntryOf(w)' = EntryOf(w)
    BY <1>1 DEF BlockedOn, EntryOf
  <2>2. EntryOf(w) \in Queued \cup {hand}
    BY <2>1 DEF EntryKeptOrDone, BlockedOn
  <2>3. CASE \E c \in Stage : OnComplete(c)
    <3>1. hand = None
      BY <2>3 DEF OnComplete, HandInTurn
    <3>2. EntryOf(w) \in Queued
      BY <2>2, <3>1
    <3> QED BY <2>1, <2>3, <3>2, <1>1 DEF OnComplete, InThisTurn, Queued
  <2>4. CASE TakeSize
    <3>1. hand = None
      BY <2>4 DEF TakeSize, HandInTurn
    <3>2. PICK i \in 1 .. Len(queue) : queue[i] = EntryOf(w)
      BY <2>2, <3>1 DEF Queued
    <3> QED BY <2>1, <2>4, <3>2, <1>1 DEF TakeSize, InThisTurn
  <2>5. CASE PackageArrives \/ Finish \/ Die \/ TurnEnds
    <3>1. stage > wst[w]
      BY <2>5, <1>1 DEF PackageArrives, Finish, Die, TurnEnds
    <3>2. EntryOf(w) \in InThisTurn
      BY <2>1, <3>1 DEF NoLostWakeup
    <3>3. CASE TurnEnds
      <4>1. InThisTurn = {hand} \cup {queue[i] : i \in {}}
        BY <3>3 DEF TurnEnds, InThisTurn
      <4> QED BY <3>2, <3>3, <4>1 DEF TurnEnds
    <3>4. CASE PackageArrives \/ Finish \/ Die
      BY <3>2, <3>4 DEF PackageArrives, Finish, Die, InThisTurn
    <3> QED BY <2>5, <3>3, <3>4
  <2> QED BY <2>3, <2>4, <2>5
<1> QED BY <1>2, <1>3, <1>4, <1>5

\* The oldest entry leaves the queue.
LEMMA TailFacts ==
  ASSUME TypeOK, EntriesDistinct, queue # <<>>, queue' = Tail(queue)
  PROVE  /\ Head(queue) = queue[1] /\ Head(queue) \in Entry
         /\ Len(queue) > 0 /\ Len(queue') = Len(queue) - 1
         /\ DOMAIN queue' = 1 .. Len(queue')
         /\ \A i \in 1 .. Len(queue') : queue'[i] = queue[i + 1]
         /\ Queued = Queued' \cup {Head(queue)} /\ Head(queue) \notin Queued'
         /\ \A i, j \in DOMAIN queue' : queue'[i] = queue'[j] => i = j
<1> USE QueueFacts
<1>1. /\ Head(queue) \in Entry /\ Tail(queue) \in Seq(Entry)
      /\ Len(Tail(queue)) = Len(queue) - 1
      /\ \A i \in 1 .. Len(Tail(queue)) : Tail(queue)[i] = queue[i + 1]
  BY HeadTailProperties DEF TypeOK
<1>2. Len(queue') \in Nat /\ DOMAIN queue' = 1 .. Len(queue')
  BY <1>1, LenProperties
<1>3. Len(queue) > 0
  BY <1>1, <1>2
<1>4. Head(queue) = queue[1]
  OBVIOUS
<1>5. \A i \in 1 .. Len(queue') :
         i + 1 \in 1 .. Len(queue) /\ queue'[i] = queue[i + 1]
  BY <1>1, <1>2
<1>6. Queued \subseteq Queued' \cup {Head(queue)}
  <2>1. ASSUME NEW i \in 1 .. Len(queue), i # 1 PROVE queue[i] \in Queued'
    <3>1. i - 1 \in 1 .. Len(queue') /\ queue'[i - 1] = queue[i]
      BY <2>1, <1>1, <1>2, <1>5
    <3> QED BY <3>1, <1>2 DEF Queued
  <2> QED BY <2>1, <1>4 DEF Queued
<1>7. Queued' \cup {Head(queue)} \subseteq Queued
  BY <1>2, <1>3, <1>4, <1>5 DEF Queued
<1>8. Head(queue) \notin Queued'
  <2>1. \A i \in 1 .. Len(queue') : i + 1 # 1 /\ 1 \in 1 .. Len(queue)
    BY <1>2, <1>3
  <2> QED BY <2>1, <1>2, <1>4, <1>5 DEF Queued, EntriesDistinct
<1>9. ASSUME NEW i \in 1 .. Len(queue'), NEW j \in 1 .. Len(queue'),
             queue'[i] = queue'[j]
      PROVE  i = j
  <2>1. i + 1 = j + 1
    BY <1>5, <1>9 DEF EntriesDistinct
  <2> QED BY <2>1, <1>2
<1> QED BY <1>1, <1>2, <1>3, <1>4, <1>5, <1>6, <1>7, <1>8, <1>9

LEMMA PollStep ==
  ASSUME IndInv, TypeOK', Poll
  PROVE  Parts'
<1> USE QueueFacts DEF IndInv, Parts
<1>1. /\ UNCHANGED <<stage, rpc, completing, done, wpc, wst, enqueued>>
      /\ rpc = "turning" /\ hand = None /\ left > 0 /\ left' = left - 1
  BY DEF Poll, waiterVars
<1>2. CASE queue = <<>>
  <2>1. UNCHANGED <<queue, hand>> /\ Len(queue) = 0
    BY <1>2 DEF Poll
  <2>2. Queued = {}
    BY <2>1 DEF Queued
  <2>3. /\ HandInTurn' /\ TurnOfStage' /\ EntriesDistinct' /\ EntriesOffered'
        /\ EntryKeptOrDone'
    BY <1>1, <2>1 DEF HandInTurn, TurnOfStage, EntriesDistinct, EntriesOffered,
                      EntryKeptOrDone, Queued, EntryOf
  <2>4. NoLostWakeup'
    <3> SUFFICES ASSUME NEW w \in Waiters, BlockedOn(w)', (stage > wst[w])'
                 PROVE  FALSE
      BY DEF NoLostWakeup
    <3>1. EntryOf(w) \in InThisTurn
      BY <1>1 DEF NoLostWakeup, BlockedOn, EntryOf
    <3>2. InThisTurn = {None}
      BY <1>1, <2>1 DEF InThisTurn
    <3> QED BY <3>1, <3>2
  <2> QED BY <2>3, <2>4
<1>3. CASE queue # <<>>
  <2>1. /\ hand' = queue[1] /\ hand' \in Entry
        /\ Len(queue') = Len(queue) - 1 /\ Len(queue) > 0
        /\ \A i \in 1 .. Len(queue') : queue'[i] = queue[i + 1]
        /\ DOMAIN queue' = 1 .. Len(queue')
        /\ Queued = Queued' \cup {hand'} /\ hand' \notin Queued'
        /\ \A i, j \in DOMAIN queue' : queue'[i] = queue'[j] => i = j
    BY <1>3, TailFacts DEF Poll
  <2>3. EntriesDistinct'
    BY <2>1 DEF EntriesDistinct
  <2>4. HandInTurn' /\ TurnOfStage'
    BY <1>1 DEF HandInTurn, TurnOfStage
  <2>5. EntriesOffered' /\ EntryKeptOrDone'
    BY <1>1, <2>1 DEF EntriesOffered, EntryKeptOrDone, EntryOf
  <2>6. NoLostWakeup'
    <3> SUFFICES ASSUME NEW w \in Waiters, BlockedOn(w)', (stage > wst[w])'
                 PROVE  (EntryOf(w) \in InThisTurn)'
      BY DEF NoLostWakeup
    <3>1. EntryOf(w) \in InThisTurn /\ EntryOf(w)' = EntryOf(w)
      BY <1>1 DEF NoLostWakeup, BlockedOn, EntryOf
    <3>2. PICK i \in 1 .. Len(queue) : i <= left /\ queue[i] = EntryOf(w)
      BY <3>1, <1>1 DEF InThisTurn
    <3>3. CASE i = 1
      BY <3>1, <3>2, <3>3, <2>1, <1>1 DEF InThisTurn
    <3>4. CASE i # 1
      <4>1. /\ i - 1 \in 1 .. Len(queue') /\ i - 1 \in 1 .. left'
            /\ queue'[i - 1] = EntryOf(w)
        BY <3>2, <3>4, <2>1, <1>1 DEF TypeOK
      <4> QED BY <4>1, <3>1, <2>1, <1>1 DEF InThisTurn
    <3> QED BY <3>3, <3>4
  <2> QED BY <2>3, <2>4, <2>5, <2>6
<1> QED BY <1>2, <1>3

LEMMA CompleteHandStep ==
  ASSUME IndInv, TypeOK', CompleteHand
  PROVE  Parts'
<1> USE QueueFacts DEF IndInv, Parts
<1>1. /\ UNCHANGED <<stage, queue, rpc, completing, left, wpc, wst, enqueued>>
      /\ rpc = "turning" /\ hand # None /\ hand' = None /\ done' = done \cup {hand}
  BY DEF CompleteHand, waiterVars
<1>2. /\ HandInTurn' /\ TurnOfStage' /\ EntriesDistinct' /\ EntriesOffered'
  BY <1>1 DEF HandInTurn, TurnOfStage, EntriesDistinct, EntriesOffered, Queued
<1>3. EntryKeptOrDone'
  BY <1>1 DEF EntryKeptOrDone, Queued, EntryOf
<1>4. NoLostWakeup'
  BY <1>1 DEF NoLostWakeup, InThisTurn, BlockedOn, EntryOf
<1> QED BY <1>2, <1>3, <1>4

\* An entry that joins the back of the queue.
LEMMA AppendFacts ==
  ASSUME TypeOK, NEW e \in Entry, queue' = Append(queue, e)
  PROVE  /\ Len(queue') = Len(queue) + 1 /\ DOMAIN queue' = 1 .. Len(queue) + 1
         /\ \A i \in 1 .. Len(queue) : queue'[i] = queue[i]
         /\ queue'[Len(queue) + 1] = e
         /\ Queued' = Queued \cup {e}
<1>1. /\ Len(queue') = Len(queue) + 1 /\ DOMAIN queue' = 1 .. Len(queue) + 1
      /\ \A i \in 1 .. Len(queue) : queue'[i] = queue[i]
      /\ queue'[Len(queue) + 1] = e
  BY AppendProperties, LenProperties DEF TypeOK
<1>2. Queued' = Queued \cup {e}
  BY <1>1, QueueFacts DEF Queued
<1> QED BY <1>1, <1>2

LEMMA PutBackStep ==
  ASSUME IndInv, TypeOK', QueueHasRoom, PutBack
  PROVE  Parts'
<1> USE QueueFacts DEF IndInv, Parts
<1>1. /\ UNCHANGED <<stage, done, rpc, completing, left, wpc, wst, enqueued>>
      /\ rpc = "turning" /\ hand # None /\ hand' = None /\ hand.s > completing
  BY DEF PutBack, waiterVars
<1>2. queue' = Append(queue, hand)
  BY <1>1, RoomForOne DEF PutBack, EntriesDistinct, TypeOK, Queued
<1>3. /\ Len(queue') = Len(queue) + 1 /\ DOMAIN queue' = 1 .. Len(queue) + 1
      /\ \A i \in 1 .. Len(queue) : queue'[i] = queue[i]
      /\ queue'[Len(queue) + 1] = hand
      /\ Queued' = Queued \cup {hand}
  BY <1>1, <1>2, AppendFacts
<1>4. HandInTurn' /\ TurnOfStage' /\ EntriesOffered' /\ EntryKeptOrDone'
  BY <1>1, <1>3 DEF HandInTurn, TurnOfStage, EntriesOffered, EntryKeptOrDone, EntryOf
<1>5. EntriesDistinct'
  <2>1. ASSUME NEW i \in 1 .. Len(queue) + 1, NEW j \in 1 .. Len(queue) + 1,
               queue'[i] = queue'[j]
        PROVE  i = j
    <3>1. CASE i <= Len(queue) /\ j <= Len(queue)
      BY <2>1, <3>1, <1>3 DEF EntriesDistinct
    <3>2. CASE i = Len(queue) + 1 \/ j = Len(queue) + 1
      BY <2>1, <3>2, <1>3 DEF EntriesDistinct, Queued
    <3> QED BY <3>1, <3>2
  <2>2. hand' \notin Queued'
    BY <1>1, <1>3 DEF Queued
  <2> QED BY <2>1, <2>2, <1>3 DEF EntriesDistinct
<1>6. NoLostWakeup'
  <2> SUFFICES ASSUME NEW w \in Waiters, BlockedOn(w)', (stage > wst[w])'
               PROVE  (EntryOf(w) \in InThisTurn)'
    BY DEF NoLostWakeup
  <2>1. /\ EntryOf(w) \in InThisTurn /\ EntryOf(w)' = EntryOf(w) /\ stage > wst[w]
    BY <1>1 DEF NoLostWakeup, BlockedOn, EntryOf
  <2>2. EntryOf(w) # hand
    BY <1>1, <2>1, StageFacts DEF TurnOfStage, TypeOK, StageAfter
  <2>3. PICK i \in 1 .. Len(queue) : i \in 1 .. left /\ queue[i] = EntryOf(w)
    BY <2>1, <2>2, <1>1 DEF InThisTurn
  <2> QED BY <2>1, <2>3, <1>1, <1>3 DEF InThisTurn
<1> QED BY <1>4, <1>5, <1>6

LEMMA DrainStep ==
  ASSUME IndInv, TypeOK', Drain
  PROVE  Parts'
<1> USE QueueFacts DEF IndInv, Parts
<1>1. /\ UNCHANGED <<stage, completing, left, hand, wpc, wst, enqueued>>
      /\ rpc = "draining" /\ rpc' \in {"draining", "finishing"} /\ hand = None
  BY DEF Drain, waiterVars, HandInTurn
<1>2. HandInTurn' /\ TurnOfStage'
  BY <1>1 DEF HandInTurn, TurnOfStage
<1>3. NoLostWakeup'
  <2> SUFFICES ASSUME NEW w \in Waiters, BlockedOn(w)', (stage > wst[w])'
               PROVE  FALSE
    BY DEF NoLostWakeup
  <2>1. done \subseteq done'
    BY DEF Drain
  <2>2. BlockedOn(w) /\ stage > wst[w]
    BY <1>1, <2>1 DEF BlockedOn, EntryOf
  <2> QED BY <2>2, <1>1 DEF NoLostWakeup, InThisTurn
<1>4. CASE queue = <<>>
  <2>1. UNCHANGED <<queue, done>>
    BY <1>4 DEF Drain
  <2>2. EntriesDistinct' /\ EntriesOffered' /\ EntryKeptOrDone'
    BY <1>1, <2>1 DEF EntriesDistinct, EntriesOffered, EntryKeptOrDone, Queued, EntryOf
  <2> QED BY <1>2, <1>3, <2>2
<1>5. CASE queue # <<>>
  <2>1. /\ done' = done \cup {Head(queue)}
        /\ Queued = Queued' \cup {Head(queue)}
        /\ \A i, j \in DOMAIN queue' : queue'[i] = queue'[j] => i = j
    BY <1>5, TailFacts DEF Drain
  <2>2. EntriesDistinct'
    BY <1>1, <2>1 DEF EntriesDistinct
  <2>3. EntriesOffered'
    BY <1>1, <2>1 DEF EntriesOffered
  <2>4. EntryKeptOrDone'
    BY <1>1, <2>1 DEF EntryKeptOrDone, EntryOf
  <2> QED BY <1>2, <1>3, <2>2, <2>3, <2>4
<1> QED BY <1>4, <1>5

\* The steps of a caller that leave the queue alone. A caller that goes to
\* "blocked" has just read that its stage is not over.
LEMMA CallerStep ==
  ASSUME IndInv, TypeOK', NEW w \in Waiters,
         \/ Arrive(w) \/ CheckStage(w) \/ Wake(w) \/ Timeout(w)
         \/ Recheck(w) \/ GiveUp(w)
  PROVE  Parts'
<1> USE QueueFacts, StageFacts DEF IndInv, Parts
<1>1. UNCHANGED <<queue, done, stage, rpc, completing, left, hand>>
  BY DEF Arrive, CheckStage, Wake, Timeout, Recheck, GiveUp, runnerVars
<1>2. \A v \in Waiters \ {w} : wpc'[v] = wpc[v] /\ wst'[v] = wst[v]
  BY DEF Arrive, CheckStage, Wake, Timeout, Recheck, GiveUp, PassGate, Goto, TypeOK
<1>3. \/ /\ wst'[w] = wst[w] + 1
         /\ wpc'[w] = "offering"
      \/ /\ wst'[w] = wst[w] /\ wpc[w] = "outside" /\ wpc'[w] = "offering"
      \/ /\ wst'[w] = wst[w] /\ wpc[w] # "outside" /\ wpc[w] # "offering"
         /\ wpc'[w] \notin {"outside", "offering", "checking", "blocked"}
      \/ /\ wst'[w] = wst[w] /\ wpc[w] = "checking" /\ wpc'[w] = "blocked"
         /\ ~(stage > wst[w])
  <2>1. CASE Arrive(w)
    BY <2>1 DEF Arrive, Goto, TypeOK
  <2>2. CASE CheckStage(w)
    BY <2>2 DEF CheckStage, Goto, TypeOK
  <2>3. ASSUME PassGate(w) 
        PROVE  \/ wst'[w] = wst[w] + 1 /\ wpc'[w] = "offering"
               \/ wst' = wst /\ wpc'[w] = "passed"
    BY <2>3 DEF PassGate, Goto, TypeOK
  <2>4. CASE Wake(w)
    BY <2>3, <2>4 DEF Wake, TypeOK
  <2>5. CASE Timeout(w)
    BY <2>3, <2>5 DEF Timeout, Goto, TypeOK
  <2>6. CASE Recheck(w)
    BY <2>3, <2>6 DEF Recheck, Goto, TypeOK
  <2>7. CASE GiveUp(w)
    BY <2>7 DEF GiveUp, Goto, TypeOK
  <2> QED BY <2>1, <2>2, <2>4, <2>5, <2>6, <2>7
<1>4. HandInTurn' /\ TurnOfStage' /\ EntriesDistinct'
  BY <1>1 DEF HandInTurn, TurnOfStage, EntriesDistinct, Queued
<1>5. EntriesOffered'
  <2> SUFFICES ASSUME NEW e \in Queued \cup ({hand} \ {None})
               PROVE  \/ e.s < wst'[e.w]
                      \/ e.s = wst'[e.w] /\ wpc'[e.w] \notin {"outside", "offering"}
    BY <1>1 DEF EntriesOffered, Queued
  <2>1. e \in Entry
    BY DEF Queued
  <2>2. /\ e.s \in {1, 2, 3}
        /\ \/ e.s < wst[e.w]
           \/ e.s = wst[e.w] /\ wpc[e.w] \notin {"outside", "offering"}
    BY <2>1 DEF EntriesOffered
  <2>3. wst[w] \in {1, 2, 3}
    BY DEF TypeOK
  <2>4. CASE e.w = w
    BY <2>2, <2>3, <2>4, <1>3
  <2>5. CASE e.w # w
    BY <2>1, <2>2, <2>5, <1>2
  <2> QED BY <2>4, <2>5
<1>6. EntryKeptOrDone'
  <2> SUFFICES ASSUME NEW v \in Waiters, wpc'[v] \in {"checking", "blocked"}
               PROVE  EntryOf(v)' \in Queued \cup {hand} \cup done
    BY <1>1 DEF EntryKeptOrDone, Queued
  <2>1. wpc[v] \in {"checking", "blocked"} /\ wst'[v] = wst[v]
    BY <1>2, <1>3
  <2> QED BY <2>1 DEF EntryKeptOrDone, EntryOf
<1>7. NoLostWakeup'
  <2> SUFFICES ASSUME NEW v \in Waiters, BlockedOn(v)', (stage > wst[v])'
               PROVE  (EntryOf(v) \in InThisTurn)'
    BY DEF NoLostWakeup
  <2>1. v # w
    BY <1>1, <1>3 DEF BlockedOn
  <2>2. EntryOf(v) \in InThisTurn /\ EntryOf(v)' = EntryOf(v)
    BY <2>1, <1>1, <1>2 DEF NoLostWakeup, BlockedOn, EntryOf
  <2> QED BY <2>2, <1>1 DEF InThisTurn, Queued
<1> QED BY <1>4, <1>5, <1>6, <1>7

LEMMA OfferStep ==
  ASSUME IndInv, TypeOK', QueueHasRoom, NEW w \in Waiters, Offer(w)
  PROVE  Parts'
<1> USE QueueFacts DEF IndInv, Parts
<1>1. /\ UNCHANGED <<done, stage, rpc, completing, left, hand, wst>>
      /\ wpc[w] = "offering" /\ wpc' = [wpc EXCEPT ![w] = "checking"]
  BY DEF Offer, runnerVars, Goto
<1>2. EntryOf(w) \notin Queued /\ EntryOf(w) # hand
  <2>1. wst[w] \in {1, 2, 3} /\ ~(wst[w] < wst[w])
    BY StageFacts DEF TypeOK
  <2> QED BY <2>1, <1>1 DEF EntriesOffered
<1>3. queue' = Append(queue, EntryOf(w))
  BY <1>2, RoomForOne DEF Offer, EntriesDistinct, TypeOK, Queued
<1>4. /\ Len(queue') = Len(queue) + 1 /\ DOMAIN queue' = 1 .. Len(queue) + 1
      /\ \A i \in 1 .. Len(queue) : queue'[i] = queue[i]
      /\ queue'[Len(queue) + 1] = EntryOf(w)
      /\ Queued' = Queued \cup {EntryOf(w)}
  BY <1>3, AppendFacts
<1>5. HandInTurn' /\ TurnOfStage'
  BY <1>1 DEF HandInTurn, TurnOfStage
<1>6. EntriesDistinct'
  <2>1. ASSUME NEW i \in 1 .. Len(queue) + 1, NEW j \in 1 .. Len(queue) + 1,
               queue'[i] = queue'[j]
        PROVE  i = j
    <3>1. CASE i <= Len(queue) /\ j <= Len(queue)
      BY <2>1, <3>1, <1>4 DEF EntriesDistinct
    <3>2. CASE i = Len(queue) + 1 \/ j = Len(queue) + 1
      BY <2>1, <3>2, <1>2, <1>4 DEF Queued
    <3> QED BY <3>1, <3>2
  <2> QED BY <2>1, <1>1, <1>2, <1>4 DEF EntriesDistinct
<1>7. EntriesOffered'
  BY <1>1, <1>4 DEF EntriesOffered, TypeOK
<1>8. EntryKeptOrDone'
  BY <1>1, <1>4 DEF EntryKeptOrDone, EntryOf, TypeOK
<1>9. NoLostWakeup'
  <2> SUFFICES ASSUME NEW v \in Waiters, BlockedOn(v)', (stage > wst[v])'
               PROVE  (EntryOf(v) \in InThisTurn)'
    BY DEF NoLostWakeup
  <2>1. EntryOf(v) \in InThisTurn /\ EntryOf(v)' = EntryOf(v)
    BY <1>1 DEF NoLostWakeup, BlockedOn, EntryOf, TypeOK
  <2>2. InThisTurn \subseteq InThisTurn'
    <3>1. CASE rpc = "sizing"
      BY <3>1, <1>1, <1>4 DEF InThisTurn
    <3>2. CASE rpc = "turning"
      BY <3>2, <1>1, <1>4 DEF InThisTurn
    <3>3. CASE rpc \notin {"sizing", "turning"}
      BY <3>3 DEF InThisTurn
    <3> QED BY <3>1, <3>2, <3>3
  <2> QED BY <2>1, <2>2
<1> QED BY <1>5, <1>6, <1>7, <1>8, <1>9

LEMMA RemoveOwnStep ==
  ASSUME IndInv, TypeOK', NEW w \in Waiters, RemoveOwn(w)
  PROVE  Parts'
<1> USE QueueFacts DEF IndInv, Parts
<1>1. /\ UNCHANGED <<stage, rpc, completing, left, hand, wst>>
      /\ wpc[w] = "removing" /\ wpc' = [wpc EXCEPT ![w] = "blocked"]
      /\ done' = done \cup {EntryOf(w)}
  BY DEF RemoveOwn, runnerVars, Goto
<1>2. HandInTurn' /\ TurnOfStage'
  BY <1>1 DEF HandInTurn, TurnOfStage
<1>3. CASE UNCHANGED queue
  <2>1. EntriesDistinct' /\ EntriesOffered' /\ EntryKeptOrDone'
    BY <1>1, <1>3 DEF EntriesDistinct, EntriesOffered, EntryKeptOrDone, Queued,
                      EntryOf, TypeOK
  <2>2. NoLostWakeup'
    <3> SUFFICES ASSUME NEW v \in Waiters, BlockedOn(v)', (stage > wst[v])'
                 PROVE  (EntryOf(v) \in InThisTurn)'
      BY DEF NoLostWakeup
    <3>1. v # w /\ BlockedOn(v) /\ EntryOf(v)' = EntryOf(v)
      BY <1>1 DEF BlockedOn, EntryOf, TypeOK
    <3> QED BY <3>1, <1>1, <1>3 DEF NoLostWakeup, InThisTurn, Queued
  <2> QED BY <1>2, <2>1, <2>2
<1>4. ASSUME NEW k \in 1 .. Len(queue), queue[k] = EntryOf(w),
             queue' = RemoveAt(queue, k)
      PROVE  Parts'
  <2>1. /\ Len(queue') = Len(queue) - 1 /\ DOMAIN queue' = 1 .. Len(queue) - 1
        /\ \A j \in 1 .. Len(queue) - 1 :
              queue'[j] = IF j < k THEN queue[j] ELSE queue[j + 1]
    <3>1. queue \in Seq(Entry)
      BY DEF TypeOK
    <3>2. /\ RemoveAt(queue, k) \in Seq(Entry)
          /\ Len(RemoveAt(queue, k)) = Len(queue) - 1
          /\ \A j \in 1 .. Len(queue) - 1 :
                RemoveAt(queue, k)[j] = IF j < k THEN queue[j] ELSE queue[j + 1]
      BY <3>1, RemoveAtProperties
    <3>3. /\ queue' \in Seq(Entry) /\ Len(queue') = Len(queue) - 1
          /\ \A j \in 1 .. Len(queue) - 1 :
                queue'[j] = IF j < k THEN queue[j] ELSE queue[j + 1]
      BY <3>2, <1>4
    <3> QED BY <3>3, LenProperties
  <2> DEFINE old(j) == IF j < k THEN j ELSE j + 1
  <2>2. ASSUME NEW j \in 1 .. Len(queue) - 1
        PROVE  old(j) \in 1 .. Len(queue) /\ queue'[j] = queue[old(j)]
    BY <2>1
  <2>3. Queued' \subseteq Queued
    BY <2>1, <2>2 DEF Queued
  <2>4. ASSUME NEW i \in 1 .. Len(queue), i # k
        PROVE  \E j \in 1 .. Len(queue) - 1 : j <= i /\ queue'[j] = queue[i]
    <3>1. CASE i < k
      BY <3>1, <2>1
    <3>2. CASE i > k
      <4>1. i - 1 \in 1 .. Len(queue) - 1 /\ ~(i - 1 < k) /\ i - 1 <= i
        BY <3>2
      <4>2. queue'[i - 1] = queue[i - 1 + 1]
        BY <4>1, <2>1
      <4> QED BY <4>1, <4>2
    <3> QED BY <2>4, <3>1, <3>2
  <2>5. Queued \subseteq Queued' \cup {EntryOf(w)}
    <3>1. ASSUME NEW i \in 1 .. Len(queue), i # k PROVE queue[i] \in Queued'
      BY <2>1, <2>4, <3>1 DEF Queued
    <3> QED BY <1>4, <3>1 DEF Queued
  <2>6. EntriesDistinct'
    <3>1. ASSUME NEW i \in 1 .. Len(queue) - 1, NEW j \in 1 .. Len(queue) - 1,
                 queue'[i] = queue'[j]
          PROVE  i = j
      <4>1. old(i) = old(j)
        BY <2>2, <3>1 DEF EntriesDistinct
      <4> QED BY <4>1
    <3> QED BY <3>1, <2>1, <2>3, <1>1 DEF EntriesDistinct
  <2>7. EntriesOffered'
    BY <2>3, <1>1 DEF EntriesOffered, TypeOK
  <2>8. EntryKeptOrDone'
    BY <2>5, <1>1 DEF EntryKeptOrDone, EntryOf, TypeOK
  <2>9. NoLostWakeup'
    <3> SUFFICES ASSUME NEW v \in Waiters, BlockedOn(v)', (stage > wst[v])'
                 PROVE  (EntryOf(v) \in InThisTurn)'
      BY DEF NoLostWakeup
    <3>1. /\ v # w /\ BlockedOn(v) /\ EntryOf(v)' = EntryOf(v)
          /\ EntryOf(v) \in InThisTurn /\ EntryOf(v) # EntryOf(w)
      BY <1>1 DEF NoLostWakeup, BlockedOn, EntryOf, TypeOK
    <3>2. CASE rpc = "sizing"
      BY <3>1, <3>2, <2>5, <1>1 DEF InThisTurn
    <3>3. CASE rpc = "turning" /\ EntryOf(v) # hand
      <4>1. PICK i \in 1 .. Len(queue) : i \in 1 .. left /\ queue[i] = EntryOf(v)
        BY <3>1, <3>3 DEF InThisTurn
      <4>2. PICK j \in 1 .. Len(queue) - 1 : j <= i /\ queue'[j] = EntryOf(v)
        BY <2>4, <3>1, <4>1, <1>4
      <4>3. j \in 1 .. left'
        BY <4>1, <4>2, <1>1 DEF TypeOK
      <4> QED BY <4>2, <4>3, <3>1, <3>3, <2>1, <1>1 DEF InThisTurn
    <3>4. CASE rpc = "turning" /\ EntryOf(v) = hand
      BY <3>1, <3>4, <1>1 DEF InThisTurn
    <3> QED BY <3>1, <3>2, <3>3, <3>4 DEF InThisTurn
  <2> QED BY <1>2, <2>6, <2>7, <2>8, <2>9
<1> QED BY <1>3, <1>4 DEF RemoveOwn

LEMMA StutterStep ==
  ASSUME IndInv, UNCHANGED vars
  PROVE  Parts'
<1>1. UNCHANGED <<stage, queue, done, rpc, completing, left, hand, wpc, wst>>
  BY DEF vars
<1>2. UNCHANGED <<Queued, InThisTurn>>
  BY <1>1 DEF Queued, InThisTurn
<1>3. \A w \in Waiters : UNCHANGED <<EntryOf(w), BlockedOn(w)>>
  BY <1>1 DEF EntryOf, BlockedOn
<1>4. (HandInTurn /\ TurnOfStage /\ EntriesDistinct /\ EntriesOffered)'
  BY <1>1, <1>2 DEF IndInv, HandInTurn, TurnOfStage, EntriesDistinct, EntriesOffered
<1>5. EntryKeptOrDone' /\ NoLostWakeup'
  BY <1>1, <1>2, <1>3 DEF IndInv, EntryKeptOrDone, NoLostWakeup
<1> QED BY <1>4, <1>5 DEF Parts

LEMMA IndStep ==
  ASSUME IndInv, QueueHasRoom, [Next]_vars
  PROVE  IndInv'
<1>1. TypeOK'
  BY TypeStep DEF IndInv
<1>2. Parts'
  <2>1. CASE RunnerStep \/ Die
    BY <2>1, <1>1, RunnerBookkeeping, PollStep, CompleteHandStep, PutBackStep,
       DrainStep DEF RunnerStep
  <2>2. ASSUME NEW w \in Waiters, Arrive(w) \/ WaiterStep(w) \/ Timeout(w)
        PROVE  Parts'
    BY <2>2, <1>1, OfferStep, RemoveOwnStep, CallerStep DEF WaiterStep
  <2> QED BY <2>1, <2>2, StutterStep DEF Next
<1> QED BY <1>1, <1>2 DEF IndInv, Parts

LEMMA InitInd ==
  ASSUME Init, TypeOK
  PROVE  IndInv
<1>1. DOMAIN queue = {}
  BY DEF Init
<1>2. Queued = {} /\ hand = None
  BY <1>1 DEF Init, Queued
<1>3. HandInTurn /\ TurnOfStage /\ EntriesDistinct /\ EntriesOffered
  BY <1>1, <1>2 DEF Init, HandInTurn, TurnOfStage, EntriesDistinct, EntriesOffered
<1>4. \A w \in Waiters : wpc[w] = "outside"
  BY DEF Init
<1>5. EntryKeptOrDone /\ NoLostWakeup
  BY <1>4 DEF EntryKeptOrDone, NoLostWakeup, BlockedOn
<1> QED BY <1>3, <1>5 DEF IndInv

\* With room for every entry, a caller blocked on a stage that is over is among
\* those the turn of the queue in progress completes: offering the entry before
\* reading the stage, against writing the stage before turning the queue, loses
\* no wake-up (awaitCompletion and onComplete of UpdateTask).
THEOREM NoWakeupLost ==
  ASSUME QueueHasRoom
  PROVE  Spec => []NoLostWakeup
<1>1. Init => IndInv
  BY InitInd, InitType
<1>2. IndInv /\ [Next]_vars => IndInv'
  BY IndStep
<1>3. IndInv => NoLostWakeup
  BY DEF IndInv
<1> QED BY <1>1, <1>2, <1>3, PTL DEF Spec

\* With room for every entry, no offer and no putting back drops an entry: a
\* blocked caller is in the queue or in the runner's hand.
THEOREM NoEntryDropped ==
  ASSUME QueueHasRoom
  PROVE  Spec => []EntryKept
<1>1. Init => IndInv
  BY InitInd, InitType
<1>2. IndInv /\ [Next]_vars => IndInv'
  BY IndStep
<1>3. IndInv => EntryKept
  BY DEF IndInv, EntryKept, EntryKeptOrDone, BlockedOn
<1> QED BY <1>1, <1>2, <1>3, PTL DEF Spec

=============================================================================
