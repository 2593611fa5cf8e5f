------------------------- MODULE PreParamsPoolProofs -------------------------
(***************************************************************************)
(* Proofs about PreParamsPool, for every TargetSize and MaxConcurrency and *)
(* any number of callers, pauses and failed generations.                   *)
(***************************************************************************)
EXTENDS PreParamsPool, TLAPS

\* Whatever is configured, the pool has room for one item and runs at least one
\* generation and no more than it has room for.
LEMMA Sizes == TargetSize \in Nat \ {0} /\ MaxConcurrency \in 1..TargetSize
BY ConfigAssumption DEF TargetSize, MaxConcurrency, AtLeastOne

\* The pool starts empty, with nothing in flight.
LEMMA PoolInit == Init => PoolInv
<1> SUFFICES ASSUME Init PROVE PoolInv
  OBVIOUS
<1>1. TypeOK
  <2>1. TypeFlags /\ TypePoints
    BY DEF Init, TypeFlags, TypePoints, LoopPoints
  <2>2. TypeCounts
    BY Sizes, PoolBoundsAssumption DEF Init, TypeCounts
  <2> QED
    BY <2>1, <2>2 DEF TypeOK
<1>2. CountInv /\ PauseInv /\ CloseInv
  BY Sizes DEF Init, CountInv, PauseInv, CloseInv
<1> QED
  BY <1>1, <1>2 DEF PoolInv

\* Start and Close.
LEMMA LifecycleStep == PoolInv /\ Lifecycle => PoolInv'
<1> SUFFICES ASSUME PoolInv, Lifecycle PROVE PoolInv'
  OBVIOUS
<1> USE Sizes, PoolBoundsAssumption
<1> USE DEF PoolInv, TypeOK, TypeFlags, TypePoints, TypeCounts, LoopPoints,
            lifeVars, loopVars, genVars, callerVars, pauseVars
<1>1. CASE StartChecks \/ ParentDone \/ CloseBegins \/ CloseCancels \/ CloseReturns
  <2>1. TypeOK'
    <3>1. TypeFlags'
      BY <1>1 DEF StartChecks, ParentDone, CloseBegins, CloseCancels, CloseReturns
    <3>2. TypePoints'
      BY <1>1 DEF StartChecks, ParentDone, CloseBegins, CloseCancels, CloseReturns
    <3>3. TypeCounts'
      BY <1>1 DEF StartChecks, ParentDone, CloseBegins, CloseCancels, CloseReturns
    <3> QED
      BY <3>1, <3>2, <3>3
  <2>2. CountInv'
    BY <1>1 DEF CountInv, StartChecks, ParentDone, CloseBegins, CloseCancels, CloseReturns
  <2>3. PauseInv'
    BY <1>1 DEF PauseInv, StartChecks, ParentDone, CloseBegins, CloseCancels, CloseReturns
  <2>4. CloseInv'
    <3>1. Alive' = Alive
      BY <1>1 DEF Alive, StartChecks, ParentDone, CloseBegins, CloseCancels, CloseReturns
    <3> QED
      BY <1>1, <3>1 DEF CloseInv, StartChecks, ParentDone, CloseBegins, CloseCancels,
         CloseReturns
  <2> QED
    BY <2>1, <2>2, <2>3, <2>4
<1>2. ASSUME NEW n \in 0..TargetSize, StartRuns(n) PROVE PoolInv'
  <2>1. TypeOK'
    BY <1>2 DEF StartRuns
  <2>2. CountInv'
    BY <1>2 DEF StartRuns, CountInv
  <2>3. PauseInv'
    BY <1>2 DEF StartRuns, PauseInv, CountInv
  <2>4. CloseInv'
    BY <1>2 DEF StartRuns, CloseInv
  <2> QED
    BY <2>1, <2>2, <2>3, <2>4
<1> QED
  BY <1>1, <1>2 DEF Lifecycle

\* The refill loop: between the load of inFlight and the spawn the copy can only
\* be too large, so the deficit it computes can only be too small.
LEMMA RefillStep == PoolInv /\ RefillLoop => PoolInv'
<1> SUFFICES ASSUME PoolInv, RefillLoop PROVE PoolInv'
  OBVIOUS
<1> USE Sizes, PoolBoundsAssumption
<1> USE DEF PoolInv, lifeVars, genVars, callerVars, pauseVars, LoopUnchanged
<1>1. TypeOK'
  <2>1. TypeFlags'
    BY DEF RefillLoop, LoopLocks, LoopChecks, LoopLoads, LoopCounts, LoopSpawns,
           LoopSelects, TypeOK, TypeFlags
  <2>2. TypePoints'
    BY DEF RefillLoop, LoopLocks, LoopChecks, LoopLoads, LoopCounts, LoopSpawns,
           LoopSelects, TypeOK, TypePoints, LoopPoints
  <2>3. TypeCounts'
    BY DEF RefillLoop, LoopLocks, LoopChecks, LoopLoads, LoopCounts, LoopSpawns,
           LoopSelects, TypeOK, TypeCounts, CountInv
  <2> QED
    BY <2>1, <2>2, <2>3 DEF TypeOK
<1>2. PauseInv'
  BY DEF RefillLoop, LoopLocks, LoopChecks, LoopLoads, LoopCounts, LoopSpawns,
         LoopSelects, PauseInv
<1>3. CountInv'
  BY DEF RefillLoop, LoopLocks, LoopChecks, LoopLoads, LoopCounts, LoopSpawns,
         LoopSelects, CountInv, TypeOK, TypeCounts
<1>4. CloseInv'
  <2>1. Alive # 0
    BY DEF Alive, RefillLoop, LoopLocks, LoopChecks, LoopLoads, LoopCounts, LoopSpawns,
           LoopSelects, TypeOK, TypeCounts
  <2> QED
    BY <2>1 DEF RefillLoop, LoopLocks, LoopChecks, LoopLoads, LoopCounts, LoopSpawns,
       LoopSelects, CloseInv
<1> QED
  BY <1>1, <1>2, <1>3, <1>4

\* A generation that publishes turns one goroutine into one item.
LEMMA GenerateStep == PoolInv /\ GenerateOne => PoolInv'
<1> SUFFICES ASSUME PoolInv, GenerateOne PROVE PoolInv'
  OBVIOUS
<1> USE Sizes, PoolBoundsAssumption
<1> USE DEF PoolInv, lifeVars, loopVars, callerVars, pauseVars, GenUnchanged
<1>1. TypeOK'
  <2>1. TypeFlags'
    BY DEF GenerateOne, GenSucceeds, GenFails, GenCanceled, GenPublishes, GenBacksOff,
           GenDecrements, GenSignals, TypeOK, TypeFlags
  <2>2. TypePoints'
    BY DEF GenerateOne, GenSucceeds, GenFails, GenCanceled, GenPublishes, GenBacksOff,
           GenDecrements, GenSignals, TypeOK, TypePoints, LoopPoints
  <2>3. TypeCounts'
    BY DEF GenerateOne, GenSucceeds, GenFails, GenCanceled, GenPublishes, GenBacksOff,
           GenDecrements, GenSignals, TypeOK, TypeCounts, CountInv
  <2> QED
    BY <2>1, <2>2, <2>3 DEF TypeOK
<1>2. PauseInv'
  BY DEF GenerateOne, GenSucceeds, GenFails, GenCanceled, GenPublishes, GenBacksOff,
         GenDecrements, GenSignals, PauseInv
<1>3. CountInv'
  BY DEF GenerateOne, GenSucceeds, GenFails, GenCanceled, GenPublishes, GenBacksOff,
         GenDecrements, GenSignals, CountInv, TypeOK, TypeCounts
<1>4. CloseInv'
  <2>1. Alive # 0
    BY DEF Alive, GenerateOne, GenSucceeds, GenFails, GenCanceled, GenPublishes,
           GenBacksOff, GenDecrements, GenSignals, TypeOK, TypeCounts
  <2> QED
    BY <2>1 DEF GenerateOne, GenSucceeds, GenFails, GenCanceled, GenPublishes,
       GenBacksOff, GenDecrements, GenSignals, CloseInv
<1> QED
  BY <1>1, <1>2, <1>3, <1>4

\* Callers only take items, and change the pause flag when the loop is outside
\* ensureRefillWorkers.
LEMMA CallersStep == PoolInv /\ Callers => PoolInv'
<1> SUFFICES ASSUME PoolInv, Callers PROVE PoolInv'
  OBVIOUS
<1> USE Sizes, PoolBoundsAssumption, FlagsAssumption
<1> USE DEF PoolInv, lifeVars, loopVars, genVars, callerVars, pauseVars, CallUnchanged
<1>1. TypeOK'
  <2>1. TypeFlags'
    BY DEF Callers, Acquire, AcquireTakes, AcquireTimesOut, TryAcquire, AcquireReturns,
           PauseRefill, ResumeRefill, ResumeSignals, TypeOK, TypeFlags
  <2>2. TypePoints'
    BY DEF Callers, Acquire, AcquireTakes, AcquireTimesOut, TryAcquire, AcquireReturns,
           PauseRefill, ResumeRefill, ResumeSignals, TypeOK, TypePoints, LoopPoints
  <2>3. TypeCounts'
    <3> USE DEF TypeOK, TypeCounts
    <3>1. CASE Acquire
      BY <3>1 DEF Acquire
    <3>2. CASE AcquireTakes
      BY <3>2 DEF AcquireTakes
    <3>3. CASE AcquireTimesOut
      BY <3>3 DEF AcquireTimesOut
    <3>4. CASE TryAcquire
      BY <3>4 DEF TryAcquire
    <3>5. CASE AcquireReturns
      BY <3>5 DEF AcquireReturns
    <3>6. CASE PauseRefill
      BY <3>6 DEF PauseRefill
    <3>7. CASE ResumeRefill
      BY <3>7 DEF ResumeRefill
    <3>8. CASE ResumeSignals
      BY <3>8 DEF ResumeSignals
    <3> QED
      BY <3>1, <3>2, <3>3, <3>4, <3>5, <3>6, <3>7, <3>8 DEF Callers
  <2> QED
    BY <2>1, <2>2, <2>3 DEF TypeOK
<1>2. PauseInv'
  BY DEF Callers, Acquire, AcquireTakes, AcquireTimesOut, TryAcquire, AcquireReturns,
         PauseRefill, ResumeRefill, ResumeSignals, PauseInv, LoopHoldsMu
<1>3. CountInv'
  <2> USE DEF CountInv, TypeOK, TypeCounts
  <2>1. CASE Acquire
    BY <2>1 DEF Acquire
  <2>2. CASE AcquireTakes
    BY <2>2 DEF AcquireTakes
  <2>3. CASE AcquireTimesOut
    BY <2>3 DEF AcquireTimesOut
  <2>4. CASE TryAcquire
    BY <2>4 DEF TryAcquire
  <2>5. CASE AcquireReturns
    BY <2>5 DEF AcquireReturns
  <2>6. CASE PauseRefill
    BY <2>6 DEF PauseRefill
  <2>7. CASE ResumeRefill
    BY <2>7 DEF ResumeRefill
  <2>8. CASE ResumeSignals
    BY <2>8 DEF ResumeSignals
  <2> QED
    BY <2>1, <2>2, <2>3, <2>4, <2>5, <2>6, <2>7, <2>8 DEF Callers
<1>4. CloseInv'
  <2>1. UNCHANGED <<start, closed, closer>> /\ Alive' = Alive
    BY DEF Callers, Acquire, AcquireTakes, AcquireTimesOut, TryAcquire, AcquireReturns,
           PauseRefill, ResumeRefill, ResumeSignals, Alive
  <2> QED
    BY <2>1 DEF CloseInv
<1> QED
  BY <1>1, <1>2, <1>3, <1>4

\* The invariant of every run of the pool: TypeOK, CountInv, PauseInv, CloseInv.
THEOREM PoolInvariant == Spec => []PoolInv
<1>1. PoolInv /\ UNCHANGED vars => PoolInv'
  BY DEF PoolInv, TypeOK, TypeFlags, TypePoints, TypeCounts, CountInv, PauseInv, CloseInv,
         Alive, vars
<1>2. PoolInv /\ [Next]_vars => PoolInv'
  BY <1>1, LifecycleStep, RefillStep, GenerateStep, CallersStep DEF Next
<1> QED
  BY PoolInit, <1>2, PTL DEF Spec

\* A generation in flight always has a place in the channel it will be sent to.
THEOREM NoGenerationDiscarded == Spec => []RoomForEveryGeneration
<1>1. PoolInv => RoomForEveryGeneration
  BY DEF PoolInv, CountInv, RoomForEveryGeneration
<1> QED
  BY PoolInvariant, <1>1, PTL

\* At most MaxConcurrency generations run at a time.
THEOREM GenerationsBounded == Spec => []ConcurrencyBound
<1>1. PoolInv => ConcurrencyBound
  BY DEF PoolInv, CountInv, ConcurrencyBound
<1> QED
  BY PoolInvariant, <1>1, PTL

\* A Close that does not overlap Start leaves no goroutine of the pool behind.
\* (One that does can: see the run PoolStartRace.)
THEOREM CloseJoinsEverything == Spec => [](~StartRaces => CloseStopsWorkers)
<1>1. PoolInv => (~StartRaces => CloseStopsWorkers)
  BY DEF PoolInv, CloseInv, CloseStopsWorkers
<1> QED
  BY PoolInvariant, <1>1, PTL

\* A paused pool starts no generation.
THEOREM PausedStartsNothing == Spec => PauseHolds
<1>1. PoolInv /\ [Next]_vars => [paused => running' <= running]_vars
  <2> SUFFICES ASSUME PoolInv, Next, paused PROVE running' <= running
    OBVIOUS
  <2> USE DEF PoolInv, TypeOK, TypeCounts, genVars
  <2>1. CASE Lifecycle
    BY <2>1 DEF Lifecycle, StartChecks, StartRuns, ParentDone, CloseBegins,
       CloseCancels, CloseReturns
  <2>2. CASE RefillLoop
    BY <2>2 DEF RefillLoop, LoopLocks, LoopChecks, LoopLoads, LoopCounts, LoopSpawns,
       LoopSelects, PauseInv
  <2>3. CASE GenerateOne
    BY <2>3 DEF GenerateOne, GenSucceeds, GenFails, GenCanceled, GenPublishes,
       GenBacksOff, GenDecrements, GenSignals
  <2>4. CASE Callers
    <3>1. CASE Acquire
      BY <2>4, <3>1 DEF Acquire, CallUnchanged
    <3>2. CASE AcquireTakes
      BY <2>4, <3>2 DEF AcquireTakes, CallUnchanged
    <3>3. CASE AcquireTimesOut
      BY <2>4, <3>3 DEF AcquireTimesOut, CallUnchanged
    <3>4. CASE TryAcquire
      BY <2>4, <3>4 DEF TryAcquire, CallUnchanged
    <3>5. CASE AcquireReturns
      BY <2>4, <3>5 DEF AcquireReturns, CallUnchanged
    <3>6. CASE PauseRefill
      BY <2>4, <3>6 DEF PauseRefill, CallUnchanged
    <3>7. CASE ResumeRefill
      BY <2>4, <3>7 DEF ResumeRefill, CallUnchanged
    <3>8. CASE ResumeSignals
      BY <2>4, <3>8 DEF ResumeSignals, CallUnchanged
    <3> QED
      BY <2>4, <3>1, <3>2, <3>3, <3>4, <3>5, <3>6, <3>7, <3>8 DEF Callers
  <2> QED
    BY <2>1, <2>2, <2>3, <2>4 DEF Next
<1> QED
  BY PoolInvariant, <1>1, PTL DEF Spec, PauseHolds
=============================================================================
