------------------------------ MODULE StageQueue ------------------------------
(***************************************************************************)
(* The wait queue of UpdateTask: await, awaitCompletion, waitForStage and  *)
(* onComplete, with every step that another thread can see.                *)
(*                                                                         *)
(* One thread, the runner (run, then runInternal), ends the stages; any    *)
(* number of callers wait for them. A caller offers an entry to a bounded  *)
(* queue BEFORE it reads the stage; onComplete writes the stage BEFORE it  *)
(* turns the queue over once, completing the entries whose stage is over   *)
(* and putting the others back. waitQueue and currentStage are read and    *)
(* written with no common lock.                                            *)
(***************************************************************************)
EXTENDS Naturals, Sequences, SequencesExt, Stages

CONSTANTS
    Waiters,    \* callers of await
    QueueCap,   \* capacity of the ArrayBlockingQueue
    None        \* the runner holds no entry

ASSUME QueueCapAssumption == QueueCap \in Nat \ {0}
ASSUME NoneAssumption == None \notin [w : Waiters, s : AwaitedStage]

VARIABLES
    stage,      \* currentStage
    queue,      \* waitQueue, oldest entry first
    done,       \* entries whose WaitTask is complete
    rpc,        \* where the runner is
    completing, \* the argument of the onComplete in progress or last made
    left,       \* qSize, the polls onComplete still makes
    hand,       \* the entry polled and not yet completed or put back
    pkgDone,    \* packageUpdate?.isDone == true
    wpc,        \* where each caller is
    wst,        \* the stage each caller awaits
    enqueued,   \* whether the caller's offer was accepted
    timedOut    \* updateTimedOut

vars == <<stage, queue, done, rpc, completing, left, hand, pkgDone,
          wpc, wst, enqueued, timedOut>>

runnerVars == <<stage, rpc, completing, left, hand, pkgDone>>
waiterVars == <<wpc, wst, enqueued, timedOut>>

Entry == [w : Waiters, s : AwaitedStage]
EntryOf(w) == [w |-> w, s |-> wst[w]]
Queued == {queue[i] : i \in DOMAIN queue}

RunnerPC == {"working", "sizing", "turning", "draining", "finishing", "ended", "dead"}
WaiterPC == {"outside", "offering", "checking", "removing", "blocked", "caught",
             "expiring", "expired", "passed"}

TypeOK ==
    /\ stage \in Stage
    /\ queue \in Seq(Entry)
    /\ done \subseteq Entry
    /\ rpc \in RunnerPC
    /\ completing \in Stage
    /\ left \in Nat
    /\ hand \in Entry \cup {None}
    /\ pkgDone \in BOOLEAN
    /\ wpc \in [Waiters -> WaiterPC]
    /\ wst \in [Waiters -> AwaitedStage]
    /\ enqueued \in [Waiters -> BOOLEAN]
    /\ timedOut \in BOOLEAN

Init ==
    /\ stage = INITIALIZING
    /\ queue = <<>>
    /\ done = {}
    /\ rpc = "working"
    /\ completing = INITIALIZING
    /\ left = 0
    /\ hand = None
    /\ pkgDone = FALSE
    /\ wpc = [w \in Waiters |-> "outside"]
    /\ wst = [w \in Waiters |-> FETCHING_RC]
    /\ enqueued = [w \in Waiters |-> FALSE]
    /\ timedOut = FALSE

-----------------------------------------------------------------------------
(* The runner. *)

\* The stages run and runInternal end, in order: a null release config ends
\* INSTALLING right after INITIALIZING, and a stage ends after the one before.
EndsNext(c) ==
    \/ stage = INITIALIZING /\ c = INITIALIZING
    \/ stage = FETCHING_RC /\ c \in {FETCHING_RC, INSTALLING}
    \/ stage = DOWNLOADING_UPDATES /\ c = DOWNLOADING_UPDATES /\ pkgDone
    \/ stage \in {INSTALLING, LAZY_DOWNLOADING} /\ c = stage

\* packageUpdate.get() returns before runInternal ends DOWNLOADING_UPDATES.
PackageArrives ==
    /\ rpc = "working" /\ stage = DOWNLOADING_UPDATES /\ ~pkgDone
    /\ pkgDone' = TRUE
    /\ UNCHANGED <<stage, queue, done, rpc, completing, left, hand, waiterVars>>

\* onComplete's early return is its first conjunct; it writes currentStage.
OnComplete(c) ==
    /\ rpc = "working" /\ EndsNext(c)
    /\ ~(c < stage \/ stage = FINISHED)
    /\ completing' = c
    /\ stage' = StageAfter(c)
    /\ rpc' = "sizing"
    /\ UNCHANGED <<queue, done, left, hand, pkgDone, waiterVars>>

\* Variant: one poll too few.
TakeSizeShort ==
    /\ rpc = "sizing"
    /\ left' = Len(queue) - 1
    /\ rpc' = "turning"
    /\ UNCHANGED <<stage, queue, done, completing, hand, pkgDone, waiterVars>>

\* var qSize = waitQueue.size
TakeSize ==
    /\ rpc = "sizing"
    /\ left' = Len(queue)
    /\ rpc' = "turning"
    /\ UNCHANGED <<stage, queue, done, completing, hand, pkgDone, waiterVars>>

\* One poll of the loop; it finds the queue empty when callers removed their
\* own entries in between.
Poll ==
    /\ rpc = "turning" /\ hand = None /\ left > 0
    /\ left' = left - 1
    /\ IF queue = <<>>
       THEN UNCHANGED <<queue, hand>>
       ELSE hand' = Head(queue) /\ queue' = Tail(queue)
    /\ UNCHANGED <<stage, done, rpc, completing, pkgDone, waiterVars>>

\* Variant: the entries of the stage that begins are completed too.
CompleteHandEarly ==
    /\ rpc = "turning" /\ hand # None /\ hand.s <= completing + 1
    /\ done' = done \cup {hand}
    /\ hand' = None
    /\ UNCHANGED <<stage, queue, rpc, completing, left, pkgDone, waiterVars>>

CompleteHand ==
    /\ rpc = "turning" /\ hand # None /\ hand.s <= completing
    /\ done' = done \cup {hand}
    /\ hand' = None
    /\ UNCHANGED <<stage, queue, rpc, completing, left, pkgDone, waiterVars>>

\* Variant: the entry is not put back.
PutBackForgotten ==
    /\ rpc = "turning" /\ hand # None /\ hand.s > completing
    /\ hand' = None
    /\ UNCHANGED <<stage, queue, done, rpc, completing, left, pkgDone, waiterVars>>

\* The entry goes to the back; offer drops it when callers filled the queue
\* since the poll.
PutBack ==
    /\ rpc = "turning" /\ hand # None /\ hand.s > completing
    /\ queue' = IF Len(queue) < QueueCap THEN Append(queue, hand) ELSE queue
    /\ hand' = None
    /\ UNCHANGED <<stage, done, rpc, completing, left, pkgDone, waiterVars>>

TurnEnds ==
    /\ rpc = "turning" /\ hand = None /\ left = 0
    /\ rpc' = IF stage = FINISHED THEN "draining" ELSE "working"
    /\ UNCHANGED <<stage, queue, done, completing, left, hand, pkgDone, waiterVars>>

\* The drain once the task is FINISHED.
Drain ==
    /\ rpc = "draining"
    /\ IF queue = <<>>
       THEN rpc' = "finishing" /\ UNCHANGED <<queue, done>>
       ELSE /\ done' = done \cup {Head(queue)}
            /\ queue' = Tail(queue)
            /\ UNCHANGED rpc
    /\ UNCHANGED <<stage, completing, left, hand, pkgDone, waiterVars>>

\* onFinish and onFinishWaitTask.complete().
Finish ==
    /\ rpc = "finishing"
    /\ rpc' = "ended"
    /\ UNCHANGED <<stage, queue, done, completing, left, hand, pkgDone, waiterVars>>

\* An exception between two stages or in onFinish: the pool drops it and
\* nobody ends the remaining stages.
Die ==
    /\ rpc \in {"working", "finishing"}
    /\ stage # INITIALIZING
    /\ rpc' = "dead"
    /\ UNCHANGED <<stage, queue, done, completing, left, hand, pkgDone, waiterVars>>

RunnerStep ==
    \/ PackageArrives
    \/ \E c \in Stage : OnComplete(c)
    \/ TakeSize \/ Poll \/ CompleteHand \/ PutBack \/ TurnEnds \/ Drain \/ Finish

-----------------------------------------------------------------------------
(* The callers of await. *)

Goto(w, pc) == wpc' = [wpc EXCEPT ![w] = pc]

Arrive(w) ==
    /\ wpc[w] = "outside"
    /\ Goto(w, "offering")
    /\ UNCHANGED <<queue, done, wst, enqueued, timedOut, runnerVars>>

\* waitQueue.offer(entry)
Offer(w) ==
    /\ wpc[w] = "offering"
    /\ enqueued' = [enqueued EXCEPT ![w] = Len(queue) < QueueCap]
    /\ queue' = IF Len(queue) < QueueCap THEN Append(queue, EntryOf(w)) ELSE queue
    /\ Goto(w, "checking")
    /\ UNCHANGED <<done, wst, timedOut, runnerVars>>

\* Variant: the caller blocks without reading the stage again.
CheckStageOmitted(w) ==
    /\ wpc[w] = "checking"
    /\ Goto(w, "blocked")
    /\ UNCHANGED <<queue, done, wst, enqueued, timedOut, runnerVars>>

\* The stage is read after the entry is queued.
CheckStage(w) ==
    /\ wpc[w] = "checking"
    /\ Goto(w, IF stage > wst[w] \/ stage = FINISHED THEN "removing" ELSE "blocked")
    /\ UNCHANGED <<queue, done, wst, enqueued, timedOut, runnerVars>>

\* The stage was over already: take the entry back, complete the own task.
RemoveOwn(w) ==
    /\ wpc[w] = "removing"
    /\ IF enqueued[w] /\ EntryOf(w) \in Queued
       THEN \E i \in DOMAIN queue :
               queue[i] = EntryOf(w) /\ queue' = RemoveAt(queue, i)
       ELSE UNCHANGED queue
    /\ done' = done \cup {EntryOf(w)}
    /\ Goto(w, "blocked")
    /\ UNCHANGED <<wst, enqueued, timedOut, runnerVars>>

\* await goes on to the next stage, or returns currentResult after the last.
PassGate(w) ==
    IF wst[w] = INSTALLING
    THEN Goto(w, "passed") /\ UNCHANGED <<wst, enqueued>>
    ELSE /\ Goto(w, "offering")
         /\ wst' = [wst EXCEPT ![w] = @ + 1]
         /\ enqueued' = [enqueued EXCEPT ![w] = FALSE]

\* wt.get returns.
Wake(w) ==
    /\ wpc[w] = "blocked" /\ EntryOf(w) \in done
    /\ PassGate(w)
    /\ UNCHANGED <<queue, done, timedOut, runnerVars>>

\* wt.get throws TimeoutException. At DOWNLOADING_UPDATES it is swallowed when
\* the package has arrived; the entry stays in the queue in every case.
Timeout(w) ==
    /\ wpc[w] = "blocked" /\ EntryOf(w) \notin done
    /\ IF wst[w] = DOWNLOADING_UPDATES /\ pkgDone
       THEN PassGate(w)
       ELSE Goto(w, "caught") /\ UNCHANGED <<wst, enqueued>>
    /\ UNCHANGED <<queue, done, timedOut, runnerVars>>

\* Variant: a caller whose stage is just over gives up as well.
RecheckLate(w) ==
    /\ wpc[w] = "caught"
    /\ IF stage <= wst[w] + 1
       THEN Goto(w, "expiring") /\ UNCHANGED <<wst, enqueued>>
       ELSE PassGate(w)
    /\ UNCHANGED <<queue, done, timedOut, runnerVars>>

\* Variant: a caller whose stage is not over waits once more.
RecheckWaits(w) ==
    /\ wpc[w] = "caught"
    /\ IF stage < wst[w] + 1
       THEN Goto(w, "blocked") /\ UNCHANGED <<wst, enqueued>>
       ELSE PassGate(w)
    /\ UNCHANGED <<queue, done, timedOut, runnerVars>>

\* waitForStage reads the stage again in its catch block ...
Recheck(w) ==
    /\ wpc[w] = "caught"
    /\ IF stage < wst[w] + 1
       THEN Goto(w, "expiring") /\ UNCHANGED <<wst, enqueued>>
       ELSE PassGate(w)
    /\ UNCHANGED <<queue, done, timedOut, runnerVars>>

\* ... and, some time later, sets updateTimedOut and gives up.
GiveUp(w) ==
    /\ wpc[w] = "expiring"
    /\ timedOut' = TRUE
    /\ Goto(w, "expired")
    /\ UNCHANGED <<queue, done, wst, enqueued, runnerVars>>

WaiterStep(w) ==
    \/ Offer(w) \/ CheckStage(w) \/ RemoveOwn(w) \/ Wake(w) \/ Recheck(w) \/ GiveUp(w)

Next ==
    \/ RunnerStep
    \/ Die
    \/ \E w \in Waiters : Arrive(w) \/ WaiterStep(w) \/ Timeout(w)

\* Threads run; what runInternal does between two stages ends.
ThreadFairness ==
    /\ WF_vars(RunnerStep)
    /\ \A w \in Waiters : WF_vars(WaiterStep(w))

\* A timed get returns or throws.
TimerFairness == \A w \in Waiters : WF_vars(Timeout(w))

Spec == Init /\ [][Next]_vars

\* Without the timers: only the hand-over through the queue wakes a caller.
QueueSpec == Spec /\ ThreadFairness

-----------------------------------------------------------------------------
(* What the queue must never do. *)

BlockedOn(w) == wpc[w] = "blocked" /\ EntryOf(w) \notin done

\* A caller blocked with its entry accepted is always known to the runner: its
\* entry is in the queue or in the runner's hand. (An offer that the full queue
\* refused, or an entry put back into a full queue, would leave the caller to
\* its timer: awaitCompletion, onComplete.)
EntryKept ==
    \A w \in Waiters :
        BlockedOn(w) => EntryOf(w) \in Queued \/ hand = EntryOf(w)

\* The entries the rest of the current turn will poll, and the one in hand.
InThisTurn ==
    CASE rpc = "sizing"  -> Queued
      [] rpc = "turning" -> {queue[i] : i \in DOMAIN queue \cap 1..left} \cup {hand}
      [] OTHER           -> {}

\* A caller blocked on a stage that is over is woken by the turn in progress.
\* This is what queueing before reading the stage is for (the comment in
\* awaitCompletion): no caller sleeps on a stage that ended before it slept.
NoLostWakeup ==
    \A w \in Waiters :
        BlockedOn(w) /\ stage > wst[w] => EntryOf(w) \in InThisTurn

\* await returns currentResult only when the installation is over.
PassedOnlyAfterInstall ==
    \A w \in Waiters : wpc[w] = "passed" => stage > INSTALLING

\* Every call of await returns, even if the runner dies and whatever the full
\* queue refused or dropped: the timers see to it (wt.get with a timeout).
EveryAwaitReturns ==
    TimerFairness =>
        \A w \in Waiters : wpc[w] = "offering" ~> wpc[w] \in {"expired", "passed"}

\* A blocked caller whose stage is over and whose entry the runner knows is
\* woken by the runner, without its timer, also while the queue is full.
KnownEntryWakes ==
    \A w \in Waiters :
        BlockedOn(w) /\ stage > wst[w] /\ EntryOf(w) \in Queued \cup {hand}
            ~> wpc[w] # "blocked"

\* What makes NoLostWakeup inductive.

HandInTurn == hand # None => rpc = "turning"

TurnOfStage ==
    rpc \in {"sizing", "turning", "draining"} => stage = StageAfter(completing)

EntriesDistinct ==
    /\ \A i, j \in DOMAIN queue : queue[i] = queue[j] => i = j
    /\ hand \notin Queued

\* A caller has no entry for a stage it has not offered one for.
EntriesOffered ==
    \A e \in Queued \cup ({hand} \ {None}) :
        \/ e.s < wst[e.w]
        \/ e.s = wst[e.w] /\ wpc[e.w] \notin {"outside", "offering"}

EntryKeptOrDone ==
    \A w \in Waiters :
        wpc[w] \in {"checking", "blocked"} =>
            EntryOf(w) \in Queued \cup {hand} \cup done

IndInv ==
    /\ TypeOK /\ HandInTurn /\ TurnOfStage
    /\ EntriesDistinct /\ EntriesOffered /\ EntryKeptOrDone /\ NoLostWakeup

-----------------------------------------------------------------------------
(* The queue implements the gates of StageGate. *)

\* What makes the implementation of the gates inductive: an entry is completed
\* only when its stage is over, whoever completes it.
DoneIsOver == \A e \in done : stage > e.s

DrainsAtEnd == rpc = "draining" => stage = FINISHED

CallersAtGates ==
    \A w \in Waiters :
        /\ wpc[w] = "outside"  => wst[w] = FETCHING_RC
        /\ wpc[w] = "removing" => stage > wst[w]
        /\ wpc[w] = "passed"   => stage > INSTALLING

GateInv == TypeOK /\ TurnOfStage /\ DrainsAtEnd /\ DoneIsOver /\ CallersAtGates

GateOf(w) ==
    CASE wpc[w] = "outside" -> [at |-> "outside"]
      [] wpc[w] = "passed"  -> [at |-> "passed"]
      [] wpc[w] \in {"expiring", "expired"} -> [at |-> "expired", s |-> wst[w]]
      [] OTHER -> [at |-> "waiting", s |-> wst[w]]

gates == [w \in Waiters |-> GateOf(w)]

Gate == INSTANCE StageGate WITH gate <- gates

\* Whatever the interleaving of offers, polls and stage changes, a caller
\* passes a gate only when its stage is over (or its package is there), and
\* gives up only at a gate whose stage was not.
ImplementsGates == Gate!GateSpec

=============================================================================
