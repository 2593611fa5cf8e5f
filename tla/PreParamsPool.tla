---------------------------- MODULE PreParamsPool ----------------------------
(***************************************************************************)
(* The pool of DKG pre-parameters: internal/preparams/pool.go.  A refill   *)
(* loop starts generation goroutines until the channel ch and the          *)
(* generations in flight make up TargetSize; callers take items, pause and *)
(* resume the refill, and close the pool.                                  *)
(*                                                                         *)
(* Items are interchangeable here, so goroutines and callers at the same   *)
(* control point are counted.  What becomes of one item, and of its cache  *)
(* file, is the subject of PreParamsCache.                                 *)
(***************************************************************************)
EXTENDS Integers

CONSTANTS
  ConfigSize,       \* PreParamsConfig.TargetSize, as the caller or the
                    \* environment gives it: any integer
  ConfigConcurrency,\* PreParamsConfig.MaxConcurrency, likewise
  AutoRefill,       \* cfg.AutoRefillOnAcquire
  StartRaces,       \* may Close be called while Start runs
  MaxCalls,         \* bound: calls of Acquire and TryAcquire
  MaxFailures,      \* bound: generations that fail
  MaxPauses,        \* bound: calls of PauseRefill
  MaxSignaling      \* bound: goroutines between inFlight.Add(-1) and signalRefill

ASSUME ConfigAssumption == ConfigSize \in Int /\ ConfigConcurrency \in Int
ASSUME FlagsAssumption == AutoRefill \in BOOLEAN /\ StartRaces \in BOOLEAN
ASSUME PoolBoundsAssumption == /\ MaxCalls \in Nat /\ MaxFailures \in Nat
                               /\ MaxPauses \in Nat /\ MaxSignaling \in Nat \ {0}

AtLeastOne(n) == IF n < 1 THEN 1 ELSE n

\* NewPool clamps both sizes, as normalizePreParamsConfig has done before it
\* with a configuration from the environment.  TargetSize is the capacity of ch.
TargetSize == AtLeastOne(ConfigSize)
MaxConcurrency == IF AtLeastOne(ConfigConcurrency) > TargetSize
                  THEN TargetSize ELSE AtLeastOne(ConfigConcurrency)

VARIABLES
  enabled,     \* cfg.Enabled
  start,       \* Start: "idle", "checked", "ran"
  runCtx,      \* p.runCtx: "none" before it is set, "live", "done"
  closed,      \* p.closed
  closer,      \* Close: "idle", "cancel", "wait", "returned"
  items,       \* len(p.ch)
  inFlight,    \* p.inFlight
  signal,      \* a token is in refillCh, of capacity 1
  paused,      \* p.refillPaused
  loop,        \* control point of refillLoop
  seen,        \* its local inFlight in ensureRefillWorkers
  running,     \* generateOne goroutines in p.gen, validate and saveToCache
  publishing,  \* at the select that sends to ch
  backoff,     \* in waitBackoff
  finishing,   \* at the deferred inFlight.Add(-1)
  signaling,   \* at the signalRefill and wg.Done that follow
  resuming,    \* ResumeRefill calls between the unlock and signalRefill
  waiting,     \* callers in the select of Acquire
  took,        \* callers that hold an item and have not returned
  calls, failures, pauses   \* history: what the bounds count

lifeVars   == <<enabled, start, runCtx, closed, closer>>
loopVars   == <<loop, seen>>
genVars    == <<running, publishing, backoff, finishing, signaling>>
callerVars == <<waiting, took, calls>>
pauseVars  == <<paused, resuming, pauses>>
vars == <<enabled, start, runCtx, closed, closer, items, inFlight, signal, paused, loop,
          seen, running, publishing, backoff, finishing, signaling, resuming,
          waiting, took, calls, failures, pauses>>

LoopPoints == {"none", "lock", "check", "load", "count", "spawn", "select", "done"}
\* refillLoop is inside ensureRefillWorkers and holds refillMu.
LoopHoldsMu == loop \in {"check", "load", "count", "spawn"}
\* The count of p.wg.
Alive == (IF loop \in {"none", "done"} THEN 0 ELSE 1)
           + running + publishing + backoff + finishing + signaling

Init ==
  /\ enabled \in BOOLEAN
  /\ start = "idle" /\ runCtx = "none" /\ closed = FALSE /\ closer = "idle"
  /\ items = 0 /\ inFlight = 0 /\ signal = FALSE
  /\ paused = FALSE /\ resuming = 0 /\ pauses = 0
  /\ loop = "none" /\ seen = 0
  /\ running = 0 /\ publishing = 0 /\ backoff = 0 /\ finishing = 0
  /\ signaling = 0
  /\ waiting = 0 /\ took = 0 /\ calls = 0 /\ failures = 0

-----------------------------------------------------------------------------
(* Start and Close                                                         *)

StartChecks ==
  /\ start = "idle" /\ ~closed /\ start' = "checked"
  /\ UNCHANGED <<enabled, runCtx, closed, closer, items, inFlight, signal, loopVars,
                 genVars, callerVars, pauseVars, failures>>

\* The body of startOnce: loadFromCache brings in n items; the cache may also
\* fail, and then the pool stays without background refill.
StartRuns(n) ==
  /\ start = "checked" /\ start' = "ran"
  /\ \/ /\ enabled /\ items' = n
        /\ runCtx' = "live" /\ loop' = "lock" /\ signal' = TRUE
     \/ /\ enabled /\ items' = n
        /\ UNCHANGED <<runCtx, loop, signal>>
     \/ ~enabled /\ UNCHANGED <<items, runCtx, loop, signal>>
  /\ UNCHANGED <<enabled, closed, closer, inFlight, seen, genVars, callerVars, pauseVars,
                 failures>>

\* The context given to Start ends.
ParentDone ==
  /\ runCtx = "live" /\ runCtx' = "done"
  /\ UNCHANGED <<enabled, start, closed, closer, items, inFlight, signal, loopVars,
                 genVars, callerVars, pauseVars, failures>>

CloseBegins ==
  /\ closer = "idle" /\ (StartRaces \/ start # "checked")
  /\ closed' = TRUE /\ closer' = "cancel"
  /\ UNCHANGED <<enabled, start, runCtx, items, inFlight, signal, loopVars, genVars,
                 callerVars, pauseVars, failures>>

CloseCancels ==
  /\ closer = "cancel" /\ closer' = "wait"
  /\ runCtx' = IF runCtx = "none" THEN "none" ELSE "done"
  /\ UNCHANGED <<enabled, start, closed, items, inFlight, signal, loopVars, genVars,
                 callerVars, pauseVars, failures>>

\* Mutant: Close does not wait for the goroutines.
CloseReturnsUnjoined ==
  /\ closer = "wait" /\ closer' = "returned"
  /\ UNCHANGED <<enabled, start, runCtx, closed, items, inFlight, signal, loopVars,
                 genVars, callerVars, pauseVars, failures>>

\* p.wg.Wait()
CloseReturns ==
  /\ closer = "wait" /\ Alive = 0 /\ closer' = "returned"
  /\ UNCHANGED <<enabled, start, runCtx, closed, items, inFlight, signal, loopVars,
                 genVars, callerVars, pauseVars, failures>>

Lifecycle == \/ StartChecks \/ ParentDone
             \/ CloseBegins \/ CloseCancels \/ CloseReturns
             \/ \E n \in 0..TargetSize : StartRuns(n)

-----------------------------------------------------------------------------
(* refillLoop and ensureRefillWorkers                                      *)

LoopUnchanged == UNCHANGED <<lifeVars, items, callerVars, pauseVars, failures>>

LoopLocks ==
  /\ loop = "lock" /\ loop' = "check"
  /\ UNCHANGED <<seen, inFlight, signal, genVars>> /\ LoopUnchanged

\* closed and refillPaused
LoopChecks ==
  /\ loop = "check"
  /\ loop' = IF closed \/ paused THEN "select" ELSE "load"
  /\ UNCHANGED <<seen, inFlight, signal, genVars>> /\ LoopUnchanged

\* Mutant: one generation more than MaxConcurrency.
LoopLoadsOneMore ==
  /\ loop = "load"
  /\ seen' = inFlight
  /\ loop' = IF inFlight > MaxConcurrency THEN "select" ELSE "count"
  /\ UNCHANGED <<inFlight, signal, genVars>> /\ LoopUnchanged

LoopLoads ==
  /\ loop = "load"
  /\ seen' = inFlight
  /\ loop' = IF inFlight >= MaxConcurrency THEN "select" ELSE "count"
  /\ UNCHANGED <<inFlight, signal, genVars>> /\ LoopUnchanged

\* Mutant: a deficit of zero starts one more.
LoopCountsOneMore ==
  /\ loop = "count"
  /\ loop' = IF TargetSize - (items + seen) < 0 THEN "select" ELSE "spawn"
  /\ UNCHANGED <<seen, inFlight, signal, genVars>> /\ LoopUnchanged

\* deficit := TargetSize - (len(p.ch) + inFlight)
LoopCounts ==
  /\ loop = "count"
  /\ loop' = IF TargetSize - (items + seen) <= 0 THEN "select" ELSE "spawn"
  /\ UNCHANGED <<seen, inFlight, signal, genVars>> /\ LoopUnchanged

LoopSpawns ==
  /\ loop = "spawn" /\ loop' = "check"
  /\ inFlight' = inFlight + 1 /\ running' = running + 1
  /\ UNCHANGED <<seen, signal, publishing, backoff, finishing, signaling>>
  /\ LoopUnchanged

\* Mutant: the loop does not watch the context.
LoopWaitsForSignal ==
  /\ loop = "select" /\ signal /\ signal' = FALSE /\ loop' = "lock"
  /\ UNCHANGED <<seen, inFlight, genVars>> /\ LoopUnchanged

LoopSelects ==
  /\ loop = "select"
  /\ \/ runCtx = "done" /\ loop' = "done" /\ UNCHANGED signal
     \/ signal /\ signal' = FALSE /\ loop' = "lock"
  /\ UNCHANGED <<seen, inFlight, genVars>> /\ LoopUnchanged

RefillLoop == \/ LoopLocks \/ LoopChecks \/ LoopLoads \/ LoopCounts
              \/ LoopSpawns \/ LoopSelects

-----------------------------------------------------------------------------
(* generateOne                                                             *)

GenUnchanged == UNCHANGED <<lifeVars, loopVars, callerVars, pauseVars>>

GenSucceeds ==
  /\ running > 0
  /\ running' = running - 1 /\ publishing' = publishing + 1
  /\ UNCHANGED <<items, inFlight, signal, backoff, finishing, signaling, failures>>
  /\ GenUnchanged

\* The generator, the validation or saveToCache fails.
GenFails ==
  /\ running > 0 /\ failures < MaxFailures
  /\ failures' = failures + 1
  /\ running' = running - 1 /\ backoff' = backoff + 1
  /\ UNCHANGED <<items, inFlight, signal, publishing, finishing, signaling>>
  /\ GenUnchanged

\* The generator returns the error of the ended context.
GenCanceled ==
  /\ running > 0 /\ runCtx = "done"
  /\ running' = running - 1 /\ finishing' = finishing + 1
  /\ UNCHANGED <<items, inFlight, signal, publishing, backoff, signaling, failures>>
  /\ GenUnchanged

\* The select over runCtx, ch and default: a full ch drops the item.
GenPublishes ==
  /\ publishing > 0
  /\ \/ runCtx = "done" /\ UNCHANGED items
     \/ items' = IF items < TargetSize THEN items + 1 ELSE items
  /\ publishing' = publishing - 1 /\ finishing' = finishing + 1
  /\ UNCHANGED <<inFlight, signal, running, backoff, signaling, failures>>
  /\ GenUnchanged

GenBacksOff ==
  /\ backoff > 0
  /\ backoff' = backoff - 1 /\ finishing' = finishing + 1
  /\ UNCHANGED <<items, inFlight, signal, running, publishing, signaling, failures>>
  /\ GenUnchanged

GenDecrements ==
  /\ finishing > 0 /\ signaling < MaxSignaling
  /\ finishing' = finishing - 1 /\ signaling' = signaling + 1
  /\ inFlight' = inFlight - 1
  /\ UNCHANGED <<items, signal, running, publishing, backoff, failures>>
  /\ GenUnchanged

\* Mutant: the last goroutine does not wake the loop.
GenEndsSilently ==
  /\ signaling > 0 /\ signaling' = signaling - 1
  /\ UNCHANGED <<items, inFlight, signal, running, publishing, backoff, finishing,
                 failures>>
  /\ GenUnchanged

GenSignals ==
  /\ signaling > 0 /\ signaling' = signaling - 1
  /\ signal' = TRUE
  /\ UNCHANGED <<items, inFlight, running, publishing, backoff, finishing, failures>>
  /\ GenUnchanged

GenerateOne == \/ GenSucceeds \/ GenFails \/ GenCanceled \/ GenPublishes
               \/ GenBacksOff \/ GenDecrements \/ GenSignals

-----------------------------------------------------------------------------
(* Acquire, TryAcquire, PauseRefill, ResumeRefill                          *)

CallUnchanged == UNCHANGED <<lifeVars, inFlight, loopVars, genVars, failures>>

\* A closed, disabled or unstarted pool answers without ch: an error or a
\* synchronous generation.
Acquire ==
  /\ calls < MaxCalls /\ calls' = calls + 1
  /\ waiting' = IF closed \/ ~enabled \/ runCtx = "none" THEN waiting
                ELSE waiting + 1
  /\ UNCHANGED <<items, signal, took, pauseVars>> /\ CallUnchanged

AcquireTakes ==
  /\ waiting > 0 /\ items > 0
  /\ items' = items - 1 /\ waiting' = waiting - 1 /\ took' = took + 1
  /\ UNCHANGED <<signal, calls, pauseVars>> /\ CallUnchanged

\* AcquireTimeout or the caller's context: an error, or the synchronous fallback.
AcquireTimesOut ==
  /\ waiting > 0 /\ waiting' = waiting - 1
  /\ UNCHANGED <<items, signal, took, calls, pauseVars>> /\ CallUnchanged

\* A caller whose context has ended or whose pool is closed or disabled gets
\* its answer without ch, as in Acquire.
TryAcquire ==
  /\ calls < MaxCalls /\ calls' = calls + 1
  /\ ~closed /\ enabled
  /\ \/ items > 0 /\ items' = items - 1 /\ took' = took + 1 /\ UNCHANGED signal
     \/ items = 0 /\ signal' = TRUE /\ UNCHANGED <<items, took>>
  /\ UNCHANGED <<waiting, pauseVars>> /\ CallUnchanged

\* finishItem, whether it returns the item or an error, then the deferred
\* signalRefill.
AcquireReturns ==
  /\ took > 0 /\ took' = took - 1
  /\ signal' = IF AutoRefill THEN TRUE ELSE signal
  /\ UNCHANGED <<items, waiting, calls, pauseVars>> /\ CallUnchanged

\* Mutant: the flag is set without refillMu.
PauseRefillUnlocked ==
  /\ pauses < MaxPauses
  /\ paused' = TRUE /\ pauses' = pauses + 1
  /\ UNCHANGED <<items, signal, resuming, callerVars>> /\ CallUnchanged

PauseRefill ==
  /\ pauses < MaxPauses /\ ~LoopHoldsMu
  /\ paused' = TRUE /\ pauses' = pauses + 1
  /\ UNCHANGED <<items, signal, resuming, callerVars>> /\ CallUnchanged

ResumeRefill ==
  /\ ~LoopHoldsMu /\ paused
  /\ paused' = FALSE /\ resuming' = resuming + 1
  /\ UNCHANGED <<items, signal, pauses, callerVars>> /\ CallUnchanged

ResumeSignals ==
  /\ resuming > 0 /\ resuming' = resuming - 1
  /\ signal' = TRUE
  /\ UNCHANGED <<items, paused, pauses, callerVars>> /\ CallUnchanged

Callers == \/ Acquire \/ AcquireTakes \/ AcquireTimesOut \/ TryAcquire
           \/ AcquireReturns \/ PauseRefill \/ ResumeRefill \/ ResumeSignals

Next == Lifecycle \/ RefillLoop \/ GenerateOne \/ Callers

Spec == Init /\ [][Next]_vars

\* The scheduler runs every goroutine, a generation ends (its context has a
\* timeout), a caller that holds an item returns; nobody has to call anything.
FairSpec ==
  /\ Spec
  /\ WF_vars(RefillLoop) /\ WF_vars(CloseCancels) /\ WF_vars(CloseReturns)
  /\ WF_vars(GenSucceeds) /\ WF_vars(GenPublishes) /\ WF_vars(GenBacksOff)
  /\ WF_vars(GenDecrements) /\ WF_vars(GenSignals)
  /\ WF_vars(AcquireReturns) /\ WF_vars(ResumeSignals)

-----------------------------------------------------------------------------
(* Properties                                                              *)

\* Every variable keeps its type, and ch its capacity.
TypeFlags == /\ enabled \in BOOLEAN /\ closed \in BOOLEAN
             /\ signal \in BOOLEAN /\ paused \in BOOLEAN
TypePoints == /\ start \in {"idle", "checked", "ran"}
              /\ runCtx \in {"none", "live", "done"}
              /\ closer \in {"idle", "cancel", "wait", "returned"}
              /\ loop \in LoopPoints
TypeCounts ==
  /\ items \in 0..TargetSize /\ inFlight \in Nat /\ seen \in Nat
  /\ resuming \in Nat /\ pauses \in 0..MaxPauses
  /\ running \in Nat /\ publishing \in Nat /\ backoff \in Nat
  /\ finishing \in Nat /\ signaling \in 0..MaxSignaling
  /\ waiting \in Nat /\ took \in Nat /\ calls \in 0..MaxCalls
  /\ failures \in 0..MaxFailures
TypeOK == TypeFlags /\ TypePoints /\ TypeCounts

\* However the loop's reads of inFlight and len(ch) interleave with goroutines
\* that publish and leave, a generation that runs still has a place in ch: the
\* minutes it took are never thrown away at the select's default.
RoomForEveryGeneration == items + running + publishing <= TargetSize

\* No more than MaxConcurrency generations at a time, those in backoff included.
ConcurrencyBound == running + publishing + backoff + finishing <= MaxConcurrency

\* pool.go:296: from the return of PauseRefill on no generation starts, not even
\* one the loop had already decided on.
PauseHolds == [][paused => running' <= running]_vars

\* When Close returns, the refill loop and every generation have ended.
CloseStopsWorkers == closer = "returned" => Alive = 0

\* Close returns: its cancellation reaches everyone it waits for.
CloseTerminates == closer # "idle" ~> closer = "returned"

\* No wake-up is lost: with AutoRefillOnAcquire a started pool that lacks items
\* is filled again, unless it is paused, closed or its context has ended.
Refilled ==
  runCtx = "live" /\ items < TargetSize ~>
    items = TargetSize \/ paused \/ closed \/ runCtx = "done"

\* What makes the bounds inductive: inFlight counts the goroutines that have not
\* left, and the loop's copy of it covers them and the items published since.
CountInv ==
  /\ inFlight = running + publishing + backoff + finishing
  /\ inFlight <= MaxConcurrency
  /\ loop \in {"count", "spawn"} => inFlight <= seen /\ seen < MaxConcurrency
  /\ items + running + publishing <= TargetSize
  /\ loop = "spawn" => items + running + publishing < TargetSize
  /\ loop = "none" => inFlight = 0
  /\ loop = "none" <=> runCtx = "none"
  /\ start # "ran" => loop = "none" /\ items = 0
PauseInv == loop \in {"load", "count", "spawn"} => ~paused
\* What a Close relies on that does not overlap Start: Start is behind it or
\* will be refused, so nothing is started once the goroutines have ended.
CloseInv ==
  /\ closed <=> closer # "idle"
  /\ ~StartRaces /\ closed => start # "checked"
  /\ ~StartRaces /\ closer = "returned" => Alive = 0
PoolInv == TypeOK /\ CountInv /\ PauseInv /\ CloseInv
=============================================================================
