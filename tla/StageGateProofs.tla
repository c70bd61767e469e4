--------------------------- MODULE StageGateProofs ---------------------------
(***************************************************************************)
(* The wait queue implements the gates of StageGate, for any callers and   *)
(* any capacity of the queue: what a full queue costs is time, never a     *)
(* caller let through or sent away at a gate it should not have been.      *)
(***************************************************************************)
EXTENDS StageQueueProofs

-----------------------------------------------------------------------------
(* The invariant. *)

LEMMA InitGateInv ==
  ASSUME Init
  PROVE  GateInv
<1>1. TypeOK
  BY InitType
<1>2. TurnOfStage /\ DrainsAtEnd /\ DoneIsOver /\ CallersAtGates
  BY DEF Init, TurnOfStage, DrainsAtEnd, DoneIsOver, CallersAtGates
<1> QED BY <1>1, <1>2 DEF GateInv

\* A step of the runner completes entries of stages that are over only.
LEMMA RunnerKeepsGateInv ==
  ASSUME GateInv, TypeOK', RunnerStep \/ Die
  PROVE  GateInv'
<1> USE StageFacts DEF GateInv, TurnOfStage, DrainsAtEnd, DoneIsOver, CallersAtGates,
        waiterVars
<1>1. CASE PackageArrives \/ TakeSize \/ TurnEnds \/ Finish \/ Die
  BY <1>1 DEF PackageArrives, TakeSize, TurnEnds, Finish, Die
<1>2. ASSUME NEW c \in Stage, OnComplete(c)
      PROVE  GateInv'
  <2>1. stage' \in Stage /\ stage' >= stage /\ stage' = StageAfter(completing')
    BY <1>2 DEF OnComplete, EndsNext, TypeOK
  <2>2. \A e \in done : e.s \in AwaitedStage
    BY DEF TypeOK, Entry
  <2>3. \A w \in Waiters : wst[w] \in AwaitedStage
    BY DEF TypeOK
  <2> QED BY <1>2, <2>1, <2>2, <2>3 DEF OnComplete, TypeOK
<1>3. CASE Poll \/ PutBack
  BY <1>3 DEF Poll, PutBack
<1>4. CASE CompleteHand
  <2>1. hand \in Entry
    BY <1>4 DEF CompleteHand, TypeOK
  <2>2. hand.s \in AwaitedStage /\ completing \in Stage /\ stage = StageAfter(completing)
    BY <1>4, <2>1 DEF CompleteHand, Entry, TypeOK
  <2>3. stage > hand.s
    BY <1>4, <2>2 DEF CompleteHand, StageAfter
  <2> QED BY <1>4, <2>3 DEF CompleteHand
<1>5. CASE Drain
  <2>1. CASE queue = <<>>
    BY <1>5, <2>1 DEF Drain
  <2>2. CASE queue # <<>>
    <3>1. Head(queue) \in Entry
      BY <2>2, HeadTailProperties DEF TypeOK
    <3>2. stage > Head(queue).s
      BY <1>5, <3>1 DEF Drain, Entry
    <3> QED BY <1>5, <2>2, <3>2 DEF Drain
  <2> QED BY <2>1, <2>2
<1> QED BY <1>1, <1>2, <1>3, <1>4, <1>5 DEF RunnerStep

\* Where a caller stands after a gate it passed.
LEMMA PassGateEffect ==
  ASSUME TypeOK, NEW w \in Waiters, PassGate(w)
  PROVE  /\ \A v \in Waiters \ {w} : wpc'[v] = wpc[v] /\ wst'[v] = wst[v]
         /\ wst[w] = INSTALLING => wpc'[w] = "passed" /\ wst'[w] = wst[w]
         /\ wst[w] # INSTALLING => wpc'[w] = "offering" /\ wst'[w] = wst[w] + 1
BY DEF PassGate, Goto, TypeOK

\* A caller passes the last gate, or completes its own entry, only after it saw
\* the stage over.
LEMMA CallerKeepsGateInv ==
  ASSUME GateInv, TypeOK', NEW w \in Waiters, Arrive(w) \/ WaiterStep(w) \/ Timeout(w)
  PROVE  GateInv'
<1> USE StageFacts DEF GateInv, TurnOfStage, DrainsAtEnd, DoneIsOver, CallersAtGates,
        runnerVars
<1>1. stage \in Stage /\ wst[w] \in AwaitedStage
  BY DEF TypeOK
<1>2. CASE Arrive(w)
  BY <1>2 DEF Arrive, Goto, TypeOK
<1>3. CASE Offer(w)
  BY <1>3 DEF Offer, Goto, TypeOK
<1>4. CASE CheckStage(w)
  BY <1>1, <1>4 DEF CheckStage, Goto, TypeOK
<1>5. CASE RemoveOwn(w)
  <2>1. done' = done \cup {EntryOf(w)} /\ EntryOf(w).s = wst[w] /\ stage > wst[w]
    BY <1>5 DEF RemoveOwn, EntryOf
  <2>2. wpc' = [wpc EXCEPT ![w] = "blocked"] /\ UNCHANGED <<wst, stage, rpc, completing>>
    BY <1>5 DEF RemoveOwn, Goto
  <2> QED BY <2>1, <2>2 DEF TypeOK
<1>6. CASE Wake(w)
  <2>1. stage > wst[w]
    BY <1>6 DEF Wake, EntryOf
  <2> QED BY <1>1, <1>6, <2>1, PassGateEffect DEF Wake
<1>7. CASE Timeout(w)
  <2>1. CASE wst[w] = DOWNLOADING_UPDATES /\ pkgDone
    BY <1>7, <2>1, PassGateEffect DEF Timeout
  <2>2. CASE ~(wst[w] = DOWNLOADING_UPDATES /\ pkgDone)
    BY <1>7, <2>2 DEF Timeout, Goto, TypeOK
  <2> QED BY <2>1, <2>2
<1>8. CASE Recheck(w)
  <2>1. CASE stage < wst[w] + 1
    BY <1>8, <2>1 DEF Recheck, Goto, TypeOK
  <2>2. CASE ~(stage < wst[w] + 1)
    BY <1>1, <1>8, <2>2, PassGateEffect DEF Recheck
  <2> QED BY <2>1, <2>2
<1>9. CASE GiveUp(w)
  BY <1>9 DEF GiveUp, Goto, TypeOK
<1> QED BY <1>2, <1>3, <1>4, <1>5, <1>6, <1>7, <1>8, <1>9 DEF WaiterStep

LEMMA GateInvStep ==
  ASSUME GateInv, [Next]_vars
  PROVE  GateInv'
<1>1. TypeOK'
  BY TypeStep DEF GateInv
<1>2. CASE UNCHANGED vars
  BY <1>2, <1>1 DEF vars, GateInv, TurnOfStage, DrainsAtEnd, DoneIsOver, CallersAtGates
<1>3. CASE Next
  BY <1>1, <1>3, RunnerKeepsGateInv, CallerKeepsGateInv DEF Next
<1> QED BY <1>2, <1>3

\* await returns currentResult to a caller only when the installation is over,
\* whatever the timers and the queue did.
THEOREM PassingMeansInstalled == Spec => []PassedOnlyAfterInstall
<1>1. Init => GateInv
  BY InitGateInv
<1>2. GateInv /\ [Next]_vars => GateInv'
  BY GateInvStep
<1>3. GateInv => PassedOnlyAfterInstall
  BY DEF GateInv, CallersAtGates, PassedOnlyAfterInstall
<1> QED BY <1>1, <1>2, <1>3, PTL DEF Spec

-----------------------------------------------------------------------------
(* The refinement mapping. *)

\* The gate a caller stands at, in the words of StageGate.
LEMMA GateOfValues ==
  ASSUME NEW w \in Waiters
  PROVE  /\ wpc[w] = "outside" => GateOf(w) = Gate!Outside
         /\ wpc[w] = "passed" => GateOf(w) = Gate!Passed
         /\ wpc[w] \in {"expiring", "expired"} => GateOf(w) = Gate!Expired(wst[w])
         /\ wpc[w] \in {"offering", "checking", "removing", "blocked", "caught"}
               => GateOf(w) = Gate!Waiting(wst[w])
BY DEF GateOf, Gate!Outside, Gate!Passed, Gate!Expired, Gate!Waiting

LEMMA GateOfValuesNext ==
  ASSUME NEW w \in Waiters
  PROVE  /\ wpc'[w] = "outside" => GateOf(w)' = Gate!Outside
         /\ wpc'[w] = "passed" => GateOf(w)' = Gate!Passed
         /\ wpc'[w] \in {"expiring", "expired"} => GateOf(w)' = Gate!Expired(wst'[w])
         /\ wpc'[w] \in {"offering", "checking", "removing", "blocked", "caught"}
               => GateOf(w)' = Gate!Waiting(wst'[w])
BY DEF GateOf, Gate!Outside, Gate!Passed, Gate!Expired, Gate!Waiting

\* When the place and the stage of all callers but w stay, so do their gates.
LEMMA OnlyGateOf ==
  ASSUME NEW w \in Waiters, \A v \in Waiters \ {w} : wpc'[v] = wpc[v] /\ wst'[v] = wst[v]
  PROVE  gates' = [gates EXCEPT ![w] = GateOf(w)']
<1>1. \A v \in Waiters \ {w} : GateOf(v)' = GateOf(v)
  BY DEF GateOf
<1> QED BY <1>1 DEF gates

LEMMA SameGates ==
  ASSUME \A v \in Waiters : wpc'[v] = wpc[v] /\ wst'[v] = wst[v]
  PROVE  gates' = gates
<1>1. \A v \in Waiters : GateOf(v)' = GateOf(v)
  BY DEF GateOf
<1> QED BY <1>1 DEF gates

LEMMA GateStages ==
  /\ Gate!INITIALIZING = 0 /\ Gate!FETCHING_RC = 1 /\ Gate!DOWNLOADING_UPDATES = 2
  /\ Gate!INSTALLING = 3 /\ Gate!LAZY_DOWNLOADING = 4 /\ Gate!FINISHED = 5
  /\ Gate!AwaitedStage = {1, 2, 3}
BY DEF Gate!INITIALIZING, Gate!FETCHING_RC, Gate!DOWNLOADING_UPDATES, Gate!INSTALLING,
       Gate!LAZY_DOWNLOADING, Gate!FINISHED, Gate!AwaitedStage

LEMMA InitMapsToInit ==
  ASSUME Init
  PROVE  Gate!GateInit
<1>1. gates = [w \in Waiters |-> Gate!Outside]
  BY GateOfValues DEF Init, gates
<1> QED BY <1>1, StageFacts, GateStages DEF Init, Gate!GateInit

\* The runner ends stages and delivers the package; all else it does is hidden.
LEMMA RunnerMaps ==
  ASSUME GateInv, RunnerStep \/ Die
  PROVE  Gate!Advance \/ Gate!PackageArrives \/ UNCHANGED Gate!gateVars
<1>1. gates' = gates
  BY SameGates DEF RunnerStep, PackageArrives, OnComplete, TakeSize, Poll, CompleteHand,
                   PutBack, TurnEnds, Drain, Finish, Die, waiterVars
<1>2. CASE PackageArrives
  BY <1>1, <1>2, StageFacts, GateStages DEF PackageArrives, Gate!PackageArrives
<1>3. ASSUME NEW c \in Stage, OnComplete(c)
      PROVE  Gate!Advance \/ UNCHANGED Gate!gateVars
  <2>1. pkgDone' = pkgDone /\ stage' = StageAfter(c) /\ stage \in Stage
    BY <1>3 DEF OnComplete, GateInv, TypeOK
  <2>2. /\ stage # FINISHED
        /\ stage' = stage + 1 \/ (stage = FETCHING_RC /\ stage' = LAZY_DOWNLOADING)
    BY <1>3, <2>1, StageFacts DEF OnComplete, EndsNext
  <2> QED BY <1>1, <2>1, <2>2, StageFacts, GateStages DEF Gate!Advance
<1>4. CASE TakeSize \/ Poll \/ CompleteHand \/ PutBack \/ TurnEnds \/ Drain \/ Finish \/ Die
  BY <1>1, <1>4 DEF TakeSize, Poll, CompleteHand, PutBack, TurnEnds, Drain, Finish, Die,
                    Gate!gateVars
<1> QED BY <1>2, <1>3, <1>4 DEF RunnerStep

\* PassGate, taken when its stage is over or the package is there, is Pass.
LEMMA PassGateMaps ==
  ASSUME GateInv, NEW w \in Waiters, PassGate(w),
         wpc[w] \in {"blocked", "caught"},
         stage > wst[w] \/ (wst[w] = DOWNLOADING_UPDATES /\ pkgDone),
         UNCHANGED <<stage, pkgDone>>
  PROVE  Gate!Pass(w)
<1>1. TypeOK /\ wst[w] \in AwaitedStage
  BY DEF GateInv, TypeOK
<1>2. /\ \A v \in Waiters \ {w} : wpc'[v] = wpc[v] /\ wst'[v] = wst[v]
      /\ wst[w] = INSTALLING => wpc'[w] = "passed"
      /\ wst[w] # INSTALLING => wpc'[w] = "offering" /\ wst'[w] = wst[w] + 1
  BY <1>1, PassGateEffect
<1>3. gates[w] = Gate!Waiting(wst[w])
  BY GateOfValues DEF gates
<1>4. GateOf(w)' = IF wst[w] = INSTALLING THEN Gate!Passed ELSE Gate!Waiting(wst[w] + 1)
  BY <1>2, GateOfValuesNext
<1>5. gates' = [gates EXCEPT ![w] =
                   IF wst[w] = INSTALLING THEN Gate!Passed ELSE Gate!Waiting(wst[w] + 1)]
  BY <1>2, <1>4, OnlyGateOf
<1> QED BY <1>1, <1>3, <1>5, StageFacts, GateStages DEF Gate!Pass

\* A caller arrives, passes or gives up; all else it does is hidden.
LEMMA CallerMaps ==
  ASSUME GateInv, NEW w \in Waiters, Arrive(w) \/ WaiterStep(w) \/ Timeout(w)
  PROVE  Gate!Arrive(w) \/ Gate!Pass(w) \/ Gate!Expire(w) \/ UNCHANGED Gate!gateVars
<1>1. TypeOK /\ wst[w] \in AwaitedStage /\ stage \in Stage
  BY DEF GateInv, TypeOK
<1>2. UNCHANGED <<stage, pkgDone>>
  BY DEF Arrive, WaiterStep, Timeout, Offer, CheckStage, RemoveOwn, Wake, Recheck, GiveUp,
         runnerVars
<1>3. CASE Arrive(w)
  <2>1. /\ \A v \in Waiters \ {w} : wpc'[v] = wpc[v] /\ wst'[v] = wst[v]
        /\ wpc[w] = "outside" /\ wpc'[w] = "offering" /\ wst'[w] = FETCHING_RC
    BY <1>1, <1>3 DEF Arrive, Goto, TypeOK, GateInv, CallersAtGates
  <2>2. gates[w] = Gate!Outside /\ GateOf(w)' = Gate!Waiting(FETCHING_RC)
    BY <2>1, GateOfValues, GateOfValuesNext DEF gates
  <2>3. gates' = [gates EXCEPT ![w] = Gate!Waiting(FETCHING_RC)]
    BY <2>1, <2>2, OnlyGateOf
  <2> QED BY <1>2, <2>2, <2>3, StageFacts, GateStages DEF Gate!Arrive
<1>4. CASE Offer(w) \/ CheckStage(w) \/ RemoveOwn(w)
  <2>1. /\ \A v \in Waiters \ {w} : wpc'[v] = wpc[v] /\ wst'[v] = wst[v]
        /\ wst'[w] = wst[w]
        /\ wpc[w] \in {"offering", "checking", "removing"}
        /\ wpc'[w] \in {"checking", "removing", "blocked"}
    BY <1>1, <1>4 DEF Offer, CheckStage, RemoveOwn, Goto, TypeOK
  <2>2. gates[w] = Gate!Waiting(wst[w]) /\ GateOf(w)' = Gate!Waiting(wst[w])
    BY <2>1, GateOfValues, GateOfValuesNext DEF gates
  <2>3. gates' = gates
    BY <2>1, <2>2, OnlyGateOf DEF gates
  <2> QED BY <1>2, <2>3 DEF Gate!gateVars
<1>5. CASE Wake(w)
  <2>1. stage > wst[w]
    BY <1>5 DEF Wake, EntryOf, GateInv, DoneIsOver
  <2> QED BY <1>2, <1>5, <2>1, PassGateMaps DEF Wake
<1>6. CASE Timeout(w)
  <2>1. CASE wst[w] = DOWNLOADING_UPDATES /\ pkgDone
    BY <1>2, <1>6, <2>1, PassGateMaps DEF Timeout
  <2>2. CASE ~(wst[w] = DOWNLOADING_UPDATES /\ pkgDone)
    <3>1. /\ \A v \in Waiters \ {w} : wpc'[v] = wpc[v] /\ wst'[v] = wst[v]
          /\ wst'[w] = wst[w] /\ wpc[w] = "blocked" /\ wpc'[w] = "caught"
      BY <1>1, <1>6, <2>2 DEF Timeout, Goto, TypeOK
    <3>2. gates[w] = Gate!Waiting(wst[w]) /\ GateOf(w)' = Gate!Waiting(wst[w])
      BY <3>1, GateOfValues, GateOfValuesNext DEF gates
    <3>3. gates' = gates
      BY <3>1, <3>2, OnlyGateOf DEF gates
    <3> QED BY <1>2, <3>3 DEF Gate!gateVars
  <2> QED BY <2>1, <2>2
<1>7. CASE Recheck(w)
  <2>1. CASE stage < wst[w] + 1
    <3>1. /\ \A v \in Waiters \ {w} : wpc'[v] = wpc[v] /\ wst'[v] = wst[v]
          /\ wst'[w] = wst[w] /\ wpc[w] = "caught" /\ wpc'[w] = "expiring"
      BY <1>1, <1>7, <2>1 DEF Recheck, Goto, TypeOK
    <3>2. gates[w] = Gate!Waiting(wst[w]) /\ GateOf(w)' = Gate!Expired(wst[w])
      BY <3>1, GateOfValues, GateOfValuesNext DEF gates
    <3>3. gates' = [gates EXCEPT ![w] = Gate!Expired(wst[w])]
      BY <3>1, <3>2, OnlyGateOf
    <3>4. stage <= wst[w] /\ wst[w] \in Gate!AwaitedStage
      BY <1>1, <2>1, StageFacts, GateStages
    <3> QED BY <1>2, <3>2, <3>3, <3>4 DEF Gate!Expire
  <2>2. CASE ~(stage < wst[w] + 1)
    <3>1. stage > wst[w]
      BY <1>1, <2>2, StageFacts
    <3> QED BY <1>2, <1>7, <2>2, <3>1, PassGateMaps DEF Recheck
  <2> QED BY <2>1, <2>2
<1>8. CASE GiveUp(w)
  <2>1. /\ \A v \in Waiters \ {w} : wpc'[v] = wpc[v] /\ wst'[v] = wst[v]
        /\ wst'[w] = wst[w] /\ wpc[w] = "expiring" /\ wpc'[w] = "expired"
    BY <1>1, <1>8 DEF GiveUp, Goto, TypeOK
  <2>2. gates[w] = Gate!Expired(wst[w]) /\ GateOf(w)' = Gate!Expired(wst[w])
    BY <2>1, GateOfValues, GateOfValuesNext DEF gates
  <2>3. gates' = gates
    BY <2>1, <2>2, OnlyGateOf DEF gates
  <2> QED BY <1>2, <2>3 DEF Gate!gateVars
<1> QED BY <1>3, <1>4, <1>5, <1>6, <1>7, <1>8 DEF WaiterStep

LEMMA StepMapsToStep ==
  ASSUME GateInv, [Next]_vars
  PROVE  [Gate!GateNext]_Gate!gateVars
<1>1. CASE UNCHANGED vars
  BY <1>1, SameGates DEF vars, Gate!gateVars
<1>2. CASE RunnerStep \/ Die
  BY <1>2, RunnerMaps DEF Gate!GateNext
<1>3. ASSUME NEW w \in Waiters, Arrive(w) \/ WaiterStep(w) \/ Timeout(w)
      PROVE  [Gate!GateNext]_Gate!gateVars
  BY <1>3, CallerMaps DEF Gate!GateNext
<1> QED BY <1>1, <1>2, <1>3 DEF Next

\* Every behaviour of the wait queue is one of the gates: offers, polls, a queue
\* that is full or turned over at any moment, and a runner that dies are hidden
\* from the callers of await.
THEOREM QueueImplementsGates == Spec => ImplementsGates
<1>1. Init => GateInv
  BY InitGateInv
<1>2. GateInv /\ [Next]_vars => GateInv'
  BY GateInvStep
<1>3. Init => Gate!GateInit
  BY InitMapsToInit
<1>4. GateInv /\ [Next]_vars => [Gate!GateNext]_Gate!gateVars
  BY StepMapsToStep
<1> QED BY <1>1, <1>2, <1>3, <1>4, PTL DEF Spec, ImplementsGates, Gate!GateSpec

=============================================================================
