------------------------- MODULE ExecutionInvProofs -------------------------
(***************************************************************************)
(* Inv is an invariant of Execution, and the safety properties of a session *)
(* and its refinement of Session follow from it: for every kind of session, *)
(* number of messages and recipients, every capacity and any failures.      *)
(***************************************************************************)
EXTENDS ExecutionProofs

-----------------------------------------------------------------------------
(* What no step undoes                                                     *)

\* Stopping and the two kinds of error are never taken back.
LEMMA Latches ==
  ASSUME TypeOK, [Next]_vars
  PROVE  /\ job' = job
         /\ stopping => stopping'
         /\ groupErr # "nil" => groupErr' = groupErr
         /\ gctx # "nil" => gctx' = gctx
<1> USE DEF TypeOK, sessionVars, inVars, partyVars, outVars, runVars, WorkerReturns
<1>1. CASE Environment \/ Party \/ Starter
  BY <1>1 DEF Environment, CallerDone, PropagateCtx, Tick, Party, PartySends,
     PartyFinishes, PartyCloses, Starter, StartReturns
<1>2. CASE WatchdogReturns \/ ResultWorker
  BY <1>2 DEF WatchdogReturns, ResultWorker, ResultTakes, ResultEmits, ResultStops,
     ResultUnchanged, EmitTo
<1>3. CASE RecvLoop
  BY <1>3 DEF RecvLoop, LoopCanceled, LoopReceives, LoopFails, LoopReturns, InUnchanged
<1>4. CASE RecvWorker
  BY <1>4 DEF RecvWorker, RecvSelects, RecvEmits, RecvStops, RecvJoins, InUnchanged, EmitTo
<1>5. CASE Main
  BY <1>5 DEF Main, MainCtxDone, MainWorkersDone, MainEvent, MainStops, MainCancels,
     MainReturns, MainUpdated, RunUnchanged
<1>6. CASE Pump
  BY <1>6 DEF Pump, PumpStops, PumpTakesMessage, PumpTakesKeyShare, PumpTakesSignature,
     PumpSeesOutClosed, PumpDrained, PumpForwards, PumpSends, PumpClassifies, PumpEmits,
     PumpSendFails, PumpGoes, PumpUnchanged, EmitTo
<1>7. CASE UNCHANGED vars
  BY <1>7 DEF vars
<1> QED
  BY <1>1, <1>2, <1>3, <1>4, <1>5, <1>6, <1>7 DEF Next, Returned

\* A goroutine that has returned never runs again.
LEMMA DoneStays ==
  ASSUME TypeOK, [Next]_vars, NEW g \in Goroutines, pc[g] = "done"
  PROVE  pc'[g] = "done"
<1> USE DEF TypeOK, sessionVars, inVars, partyVars, outVars, runVars, WorkerReturns
<1>1. CASE Environment \/ Party \/ Starter
  BY <1>1 DEF Environment, CallerDone, PropagateCtx, Tick, Party, PartySends,
     PartyFinishes, PartyCloses, Starter, StartReturns
<1>2. CASE WatchdogReturns \/ ResultWorker
  BY <1>2 DEF WatchdogReturns, ResultWorker, ResultTakes, ResultEmits, ResultStops,
     ResultUnchanged, EmitTo
<1>3. CASE RecvLoop
  BY <1>3 DEF RecvLoop, LoopCanceled, LoopReceives, LoopFails, LoopReturns, InUnchanged
<1>4. CASE RecvWorker
  BY <1>4 DEF RecvWorker, RecvSelects, RecvEmits, RecvStops, RecvJoins, InUnchanged, EmitTo
<1>5. CASE Main
  BY <1>5 DEF Main, MainCtxDone, MainWorkersDone, MainEvent, MainStops, MainCancels,
     MainReturns, MainUpdated, RunUnchanged
<1>6. CASE Pump
  BY <1>6 DEF Pump, PumpStops, PumpTakesMessage, PumpTakesKeyShare, PumpTakesSignature,
     PumpSeesOutClosed, PumpDrained, PumpForwards, PumpSends, PumpClassifies, PumpEmits,
     PumpSendFails, PumpGoes, PumpUnchanged, PumpReady, EmitTo
<1>7. CASE UNCHANGED vars
  BY <1>7 DEF vars
<1> QED
  BY <1>1, <1>2, <1>3, <1>4, <1>5, <1>6, <1>7 DEF Next, Returned

-----------------------------------------------------------------------------
(* QueueInv                                                                *)

\* The party appends the next message, the pump takes the first one.
LEMMA QueueStep ==
  ASSUME TypeOK, QueueInv, [Next]_vars
  PROVE  QueueInv'
<1> USE DEF TypeOK, QueueInv, Taken, Goroutines, Workers
<1> USE JobBounds
<1>1. CASE ~Pump /\ ~Party
  BY <1>1, PumpFrame, OutFrame DEF outVars
<1>2. CASE PartySends
  <2>1. /\ produced' = produced + 1 /\ outCh' = Append(outCh, produced + 1)
        /\ UNCHANGED <<pc, cur>>
    BY <1>2 DEF PartySends, outVars
  <2>2. /\ Len(outCh') = Len(outCh) + 1
        /\ \A k \in 1..Len(outCh) : outCh'[k] = outCh[k]
        /\ outCh'[Len(outCh) + 1] = produced + 1
    BY <2>1
  <2>3. Taken' = Taken /\ Len(outCh') <= produced'
    BY <2>1, <2>2
  <2>4. ASSUME NEW k \in 1..Len(outCh') PROVE outCh'[k] = Taken' + k
    BY <2>1, <2>2, <2>3
  <2> QED
    BY <2>1, <2>3, <2>4
<1>3. CASE PartyFinishes \/ PartyCloses
  BY <1>3 DEF PartyFinishes, PartyCloses, outVars
<1>4. CASE PumpTakesMessage
  <2>1. /\ outCh # <<>> /\ outCh' = Tail(outCh) /\ cur' = Head(outCh)
        /\ produced' = produced /\ pc' = [pc EXCEPT !["pump"] = "forward"]
    BY <1>4 DEF PumpTakesMessage, PumpGoes
  <2>2. /\ Len(outCh') = Len(outCh) - 1 /\ Len(outCh) > 0
        /\ \A k \in 1..Len(outCh') : outCh'[k] = outCh[k + 1]
        /\ cur' = outCh[1]
    BY <2>1
  <2>3. Taken' = Taken + 1 /\ cur' = Taken + 1 /\ Taken >= 0
    BY <2>1, <2>2
  <2>4. ASSUME NEW k \in 1..Len(outCh') PROVE outCh'[k] = Taken' + k
    BY <2>1, <2>2, <2>3
  <2> QED
    BY <2>1, <2>2, <2>3, <2>4
<1>5. CASE Pump /\ ~PumpTakesMessage
  <2>1. UNCHANGED <<outCh, produced>>
    BY <1>5 DEF Pump, PumpStops, PumpTakesKeyShare, PumpTakesSignature,
       PumpSeesOutClosed, PumpDrained, PumpForwards, PumpSends, PumpClassifies, PumpEmits,
       PumpSendFails, partyVars
  <2>2. /\ pc'["pump"] \in {"forward", "send", "classify"} =>
             cur' = cur /\ pc["pump"] \in {"forward", "send", "classify"}
        /\ pc'["pump"] \notin {"forward", "send", "classify"} =>
             cur' = 0 \/ (cur' = cur /\ pc["pump"] \notin {"forward", "send", "classify"})
    <3> USE DEF outVars, PumpGoes, PumpReady, WorkerReturns, EmitTo
    <3>1. CASE PumpStops \/ PumpTakesKeyShare \/ PumpTakesSignature
      BY <3>1 DEF PumpStops, PumpTakesKeyShare, PumpTakesSignature
    <3>2. CASE PumpSeesOutClosed \/ PumpDrained \/ PumpEmits
      BY <3>2 DEF PumpSeesOutClosed, PumpDrained, PumpEmits
    <3>3. CASE PumpForwards
      BY <3>3 DEF PumpForwards
    <3>4. CASE PumpSends
      <4>1. /\ pc["pump"] = "send"
            /\ \/ pc' = [pc EXCEPT !["pump"] = "forward"] /\ cur' = cur
               \/ pc' = [pc EXCEPT !["pump"] = "select"] /\ cur' = 0
        BY <3>4 DEF PumpSends
      <4>2. \/ pc'["pump"] = "forward" /\ cur' = cur
            \/ pc'["pump"] = "select" /\ cur' = 0
        BY <4>1
      <4> QED
        BY <4>1, <4>2
    <3>5. CASE PumpClassifies
      <4>1. /\ cur' = 0
            /\ \/ pc' = [pc EXCEPT !["pump"] = "select"]
               \/ pc' = [pc EXCEPT !["pump"] = "done"]
        BY <3>5 DEF PumpClassifies
      <4>2. pc'["pump"] \in {"select", "done"}
        BY <4>1
      <4> QED
        BY <4>1, <4>2
    <3>6. CASE \E err \in Errors : PumpSendFails(err)
      BY <3>6 DEF PumpSendFails
    <3> QED
      BY <1>5, <3>1, <3>2, <3>3, <3>4, <3>5, <3>6 DEF Pump
  <2> QED
    BY <2>1, <2>2
<1> QED
  BY <1>1, <1>2, <1>3, <1>4, <1>5 DEF Party

-----------------------------------------------------------------------------
(* DeliveredInv                                                            *)

\* Steps of the pump other than taking a message, delivering a frame and
\* settling a failed send leave the current message and the frames alone.
LEMMA PumpPlainSteps ==
  ASSUME TypeOK, Pump, ~PumpTakesMessage, ~PumpSends, ~PumpClassifies
  PROVE  /\ pc["pump"] # "done"
         /\ UNCHANGED <<cur, delivered, late, outCh, produced>>
<1> USE DEF PumpReady, partyVars, outVars
<1>1. CASE PumpStops \/ PumpTakesKeyShare \/ PumpTakesSignature
  BY <1>1 DEF PumpStops, PumpTakesKeyShare, PumpTakesSignature
<1>2. CASE PumpSeesOutClosed \/ PumpDrained \/ PumpEmits
  BY <1>2 DEF PumpSeesOutClosed, PumpDrained, PumpEmits
<1>3. CASE PumpForwards \/ \E err \in Errors : PumpSendFails(err)
  BY <1>3 DEF PumpForwards, PumpSendFails
<1> QED
  BY <1>1, <1>2, <1>3 DEF Pump

\* The pump starts a message only when it has left the one before it.
LEMMA DeliveredStep ==
  ASSUME TypeOK, QueueInv, DeliveredInv, [Next]_vars
  PROVE  DeliveredInv'
<1>1. /\ produced \in Nat /\ Len(outCh) \in Nat /\ Len(outCh) <= produced
      /\ Taken \in Nat /\ outCh \in Seq(Messages)
      /\ cur \in Nat /\ delivered \in [Messages -> Nat]
      /\ cur # 0 => cur \in Messages /\ cur = Taken
  BY JobBounds DEF TypeOK, QueueInv, Taken, Messages
<1>2. \A i \in Messages : i \in Nat /\ i > 0 /\ Recipients[i] \in Nat /\ Recipients[i] > 0
  BY RecipientsAssumption DEF Messages
<1>3. "pump" \in DOMAIN pc
  BY DEF TypeOK, Goroutines, Workers
<1>4. CASE ~Pump /\ ~Party
  BY <1>4, PumpFrame, OutFrame, Latches DEF outVars, DeliveredInv, Taken
<1>5. CASE Party
  <2>1. Taken' = Taken
    BY <1>1, <1>5 DEF Taken, Party, PartySends, PartyFinishes, PartyCloses
  <2>2. UNCHANGED <<pc, cur, delivered, stopping>>
    BY <1>5 DEF Party, PartySends, PartyFinishes, PartyCloses, outVars, sessionVars
  <2> QED
    BY <2>1, <2>2 DEF DeliveredInv
<1>6. CASE PumpTakesMessage
  <2>1. /\ outCh # <<>> /\ outCh' = Tail(outCh) /\ cur' = Head(outCh)
        /\ produced' = produced /\ delivered' = delivered /\ stopping' = stopping
        /\ pc["pump"] = "select"
    BY <1>6 DEF PumpTakesMessage, PumpReady, PumpUnchanged
  <2>2. Len(outCh') = Len(outCh) - 1 /\ Len(outCh) > 0 /\ cur' = outCh[1]
    BY <1>1, <2>1
  <2>3. Taken' = Taken + 1
    BY <1>1, <2>1, <2>2 DEF Taken
  <2>4. cur' = Taken + 1
    BY <1>1, <2>2 DEF QueueInv
  <2>5. cur = 0
    BY <2>1 DEF QueueInv
  <2>6. SUFFICES ASSUME NEW i \in Messages
                 PROVE  /\ i > Taken' => delivered'[i] = 0
                        /\ i = cur' => delivered'[i] < Recipients[i]
                        /\ delivered'[i] <= Recipients[i]
                        /\ i <= Taken' /\ i # cur' => delivered'[i] = Recipients[i] \/ stopping'
    BY DEF DeliveredInv
  <2>7. /\ i > Taken => delivered[i] = 0
        /\ delivered[i] <= Recipients[i]
        /\ i <= Taken => delivered[i] = Recipients[i] \/ stopping
    BY <1>2, <2>1, <2>5 DEF DeliveredInv
  <2> QED
    BY <1>1, <1>2, <2>1, <2>3, <2>4, <2>7
<1>7. CASE PumpSends
  <2>1. /\ delivered' = [delivered EXCEPT ![cur] = delivered[cur] + 1]
        /\ UNCHANGED <<outCh, produced, stopping>>
        /\ \/ delivered[cur] + 1 < Recipients[cur] /\ cur' = cur
           \/ ~(delivered[cur] + 1 < Recipients[cur]) /\ cur' = 0
        /\ pc["pump"] = "send"
    BY <1>7 DEF PumpSends, partyVars, PumpUnchanged
  <2>2. Taken' = Taken /\ cur = Taken /\ cur \in Messages
    BY <1>1, <2>1 DEF QueueInv, Taken
  <2>3. /\ delivered[cur] \in Nat /\ Recipients[cur] \in Nat
        /\ delivered[cur] < Recipients[cur]
    BY <1>1, <1>2, <2>2 DEF DeliveredInv
  <2>4. SUFFICES ASSUME NEW i \in Messages
                 PROVE  /\ i > Taken' => delivered'[i] = 0
                        /\ i = cur' => delivered'[i] < Recipients[i]
                        /\ delivered'[i] <= Recipients[i]
                        /\ i <= Taken' /\ i # cur' => delivered'[i] = Recipients[i] \/ stopping'
    BY DEF DeliveredInv
  <2>5. CASE i = cur
    <3>1. delivered'[i] = delivered[cur] + 1
      BY <1>1, <2>1, <2>5
    <3> QED
      BY <1>2, <2>1, <2>2, <2>3, <2>5, <3>1
  <2>6. CASE i # cur
    <3>1. delivered'[i] = delivered[i]
      BY <1>1, <2>1, <2>6
    <3>2. /\ i > Taken => delivered[i] = 0
          /\ delivered[i] <= Recipients[i]
          /\ i <= Taken => delivered[i] = Recipients[i] \/ stopping
      BY <2>1, <2>6 DEF DeliveredInv
    <3> QED
      BY <1>2, <2>1, <2>2, <2>6, <3>1, <3>2
  <2> QED
    BY <2>5, <2>6
<1>8. CASE PumpClassifies
  <2>1. /\ UNCHANGED <<outCh, produced, stopping, delivered>> /\ cur' = 0
        /\ pc["pump"] = "classify"
        /\ stopping \/ pc' = [pc EXCEPT !["pump"] = "done"]
    BY <1>8 DEF PumpClassifies, OwnerCanceled, WorkerReturns, partyVars, PumpUnchanged
  <2>2. Taken' = Taken /\ cur = Taken /\ (stopping \/ pc'["pump"] = "done")
    BY <1>3, <2>1 DEF QueueInv, Taken
  <2> QED
    BY <1>2, <2>1, <2>2 DEF DeliveredInv
<1>9. CASE Pump /\ ~PumpTakesMessage /\ ~PumpSends /\ ~PumpClassifies
  BY <1>9, PumpPlainSteps, Latches DEF DeliveredInv, Taken
<1> QED
  BY <1>4, <1>5, <1>6, <1>7, <1>8, <1>9

-----------------------------------------------------------------------------
(* ResultInv                                                               *)

\* A message left behind by a pump at its select has reached everyone, so once
\* the queue is empty all that the party produced has.
LEMMA DrainedMeansSent ==
  ASSUME TypeOK, QueueInv, DeliveredInv, pc["pump"] = "select", outCh = <<>>,
         produced = job.msgs
  PROVE  AllSent \/ stopping
<1>1. Taken = job.msgs /\ job.msgs \in Nat /\ job.msgs <= Len(Recipients) /\ cur = 0
  BY JobBounds DEF TypeOK, QueueInv, Taken
<1>2. ASSUME NEW i \in 1..job.msgs PROVE delivered[i] = Recipients[i] \/ stopping
  <2>1. i \in Messages /\ i <= Taken /\ i # cur
    BY <1>1, JobBounds DEF Messages
  <2> QED
    BY <2>1 DEF DeliveredInv
<1> QED
  BY <1>2 DEF AllSent

\* Who changes the state of the result: the party, the pump, the result worker.
LEMMA ResultFrame ==
  ASSUME TypeOK, [Next]_vars, ~Pump, ~Party, ~ResultWorker
  PROVE  pc'["result"] = pc["result"] /\ endCh' = endCh
<1> USE DEF TypeOK, sessionVars, partyVars, runVars, Goroutines, Workers, WorkerReturns
<1>1. CASE Environment \/ Starter \/ WatchdogReturns
  BY <1>1 DEF Environment, CallerDone, PropagateCtx, Tick, Starter, StartReturns,
     WatchdogReturns
<1>2. CASE RecvLoop
  BY <1>2 DEF RecvLoop, LoopCanceled, LoopReceives, LoopFails, LoopReturns, InUnchanged
<1>3. CASE RecvWorker
  BY <1>3 DEF RecvWorker, RecvSelects, RecvEmits, RecvStops, RecvJoins, InUnchanged, EmitTo
<1>4. CASE Main
  BY <1>4 DEF Main, MainCtxDone, MainWorkersDone, MainEvent, MainStops, MainCancels,
     MainReturns, MainUpdated, RunUnchanged
<1>5. CASE UNCHANGED vars
  BY <1>5 DEF vars
<1> QED
  BY <1>1, <1>2, <1>3, <1>4, <1>5 DEF Next, Returned

\* A result follows the last message and is taken once.
LEMMA ResultStep ==
  ASSUME TypeOK, QueueInv, DeliveredInv, ResultInv, [Next]_vars
  PROVE  ResultInv'
<1>1. job' = job /\ (stopping => stopping') /\ "pump" \in DOMAIN pc /\ "result" \in DOMAIN pc
  BY Latches DEF TypeOK, Goroutines, Workers
<1>2. CASE ~Pump /\ ~Party /\ ~ResultWorker
  BY <1>1, <1>2, ResultFrame, PumpFrame, OutFrame DEF ResultInv, AllSent, outVars
<1>3. CASE PartySends
  <2>1. endCh \notin {"full", "taken"} /\ UNCHANGED <<endCh, draining, pc>>
    BY <1>3, JobBounds DEF PartySends, ResultInv, TypeOK, outVars
  <2> QED
    BY <2>1 DEF ResultInv
<1>4. CASE PartyFinishes
  BY <1>1, <1>4 DEF PartyFinishes, ResultInv, outVars
<1>5. CASE PartyCloses
  BY <1>1, <1>5 DEF PartyCloses, ResultInv, AllSent, outVars
<1>6. CASE ResultWorker
  <2>1. UNCHANGED <<produced, draining, delivered>> /\ pc'["pump"] = pc["pump"]
    BY <1>1, <1>6 DEF ResultWorker, ResultTakes, ResultEmits, ResultStops, ResultUnchanged,
       outVars, WorkerReturns, EmitTo
  <2>2. CASE ResultTakes
    <3>1. \/ endCh' = endCh /\ pc'["result"] = "done"
          \/ /\ endCh = "full" /\ endCh' = "taken"
             /\ \/ job.kind = "sign" /\ pc'["result"] = "handoff"
                \/ job.kind = "dkgEdDSA" /\ pc'["result"] = "emit"
      BY <1>1, <2>2, JobsAssumption DEF ResultTakes, WorkerReturns, TypeOK, AllKinds
    <3> QED
      BY <1>1, <2>1, <3>1 DEF ResultInv, AllSent
  <2>3. CASE ResultEmits \/ ResultStops
    <3>1. endCh' = endCh /\ pc'["result"] = "done"
      BY <1>1, <2>3 DEF ResultEmits, ResultStops, WorkerReturns, EmitTo
    <3> QED
      BY <1>1, <2>1, <3>1 DEF ResultInv, AllSent
  <2> QED
    BY <1>6, <2>2, <2>3 DEF ResultWorker
<1>7. CASE PumpTakesKeyShare
  <2>1. /\ UNCHANGED <<produced, delivered>> /\ pc'["result"] = pc["result"]
        /\ job.kind = "dkgECDSA" /\ pc'["pump"] # "emit"
        /\ \/ endCh = "full" /\ endCh' = "taken" /\ draining' = TRUE
           \/ UNCHANGED <<endCh, draining>>
    BY <1>1, <1>7 DEF PumpTakesKeyShare, PumpGoes, WorkerReturns
  <2> QED
    BY <1>1, <2>1 DEF ResultInv
<1>8. CASE PumpTakesSignature
  <2>1. /\ UNCHANGED <<produced, endCh>> /\ pc["result"] = "handoff"
        /\ pc'["result"] = "done" /\ pc'["pump"] = "select"
    BY <1>1, <1>8 DEF PumpTakesSignature, PumpReady, partyVars
  <2> QED
    BY <1>1, <2>1 DEF ResultInv
<1>9. CASE PumpSeesOutClosed
  <2>1. /\ UNCHANGED <<produced, delivered, draining, stopping>> /\ pc'["result"] = pc["result"]
        /\ pc["pump"] = "select" /\ outCh = <<>>
        /\ \/ /\ job.kind = "dkgECDSA" /\ endCh = "full" /\ endCh' = "taken"
              /\ pc'["pump"] = "emit"
           \/ endCh' = endCh /\ pc'["pump"] = "done"
    BY <1>1, <1>9 DEF PumpSeesOutClosed, PumpGoes, PumpReady, WorkerReturns, PumpUnchanged,
       outVars
  <2>2. endCh = "full" => AllSent \/ stopping
    BY <2>1, DrainedMeansSent DEF ResultInv
  <2> QED
    BY <1>1, <2>1, <2>2 DEF ResultInv, AllSent
<1>10. CASE PumpDrained
  <2>1. /\ UNCHANGED <<produced, delivered, draining, stopping, endCh>>
        /\ pc'["result"] = pc["result"] /\ pc["pump"] = "select" /\ outCh = <<>>
        /\ pc'["pump"] = "emit" /\ draining
    BY <1>1, <1>10 DEF PumpDrained, PumpGoes, PumpReady, PumpUnchanged, outVars, partyVars
  <2>2. AllSent \/ stopping
    BY <2>1, DrainedMeansSent DEF ResultInv
  <2> QED
    BY <1>1, <2>1, <2>2 DEF ResultInv, AllSent
<1>11. CASE PumpStops \/ PumpTakesMessage \/ PumpForwards \/ PumpSends \/ PumpClassifies
            \/ PumpEmits \/ \E err \in Errors : PumpSendFails(err)
  <2>1. UNCHANGED <<produced, draining, endCh>>
    BY <1>11 DEF PumpStops, PumpTakesMessage, PumpForwards, PumpSends, PumpClassifies,
       PumpEmits, PumpSendFails, partyVars, outVars
  <2>2. pc'["pump"] # "emit" /\ pc'["result"] = pc["result"]
    BY <1>1, <1>11 DEF PumpStops, PumpTakesMessage, PumpForwards, PumpSends, PumpClassifies,
       PumpEmits, PumpSendFails, PumpGoes, WorkerReturns, EmitTo
  <2> QED
    BY <1>1, <2>1, <2>2 DEF ResultInv
<1> QED
  BY <1>2, <1>3, <1>4, <1>5, <1>6, <1>7, <1>8, <1>9, <1>10, <1>11 DEF Party, Pump

-----------------------------------------------------------------------------
(* EventInv                                                                *)

\* Nothing is produced behind the last message and nothing is sent by a pump
\* that has returned.
LEMMA SentStays ==
  ASSUME TypeOK, [Next]_vars
  PROVE  /\ produced = job.msgs => produced' = job'.msgs
         /\ pc["pump"] = "done" => pc'["pump"] = "done" /\ delivered' = delivered
<1>1. job' = job
  BY Latches
<1>2. ASSUME produced = job.msgs PROVE produced' = produced
  <2>1. CASE Pump
    BY <2>1 DEF Pump, PumpStops, PumpTakesMessage, PumpTakesKeyShare, PumpTakesSignature,
       PumpSeesOutClosed, PumpDrained, PumpForwards, PumpSends, PumpClassifies, PumpEmits,
       PumpSendFails, partyVars
  <2>2. CASE Party
    BY <1>2, <2>2, JobBounds DEF Party, PartySends, PartyFinishes, PartyCloses, TypeOK
  <2> QED
    BY <2>1, <2>2, OutFrame
<1>3. ASSUME pc["pump"] = "done" PROVE ~Pump
  BY <1>3 DEF Pump, PumpStops, PumpTakesMessage, PumpTakesKeyShare, PumpTakesSignature,
     PumpSeesOutClosed, PumpDrained, PumpForwards, PumpSends, PumpClassifies, PumpEmits,
     PumpSendFails, PumpReady
<1> QED
  BY <1>1, <1>2, <1>3, PumpFrame DEF outVars

\* What a completion event says stays true.
LEMMA CompletionStays ==
  ASSUME TypeOK, [Next]_vars, NEW ev, CompletionEvent(ev)
  PROVE  CompletionEvent(ev)'
BY SentStays, Latches DEF CompletionEvent, AllSent

\* Only the workers' emits and Run's receive change the events, and only the
\* receive worker chooses its next event.
LEMMA EventFrame ==
  ASSUME TypeOK, [Next]_vars, ~PumpEmits, ~ResultEmits, ~RecvWorker, ~MainEvent
  PROVE  UNCHANGED <<events, recvEvent>> /\ pc'["recv"] = pc["recv"]
<1> USE DEF TypeOK, inVars, Goroutines, Workers, WorkerReturns
<1>1. CASE Environment \/ Party \/ Starter
  BY <1>1 DEF Environment, CallerDone, PropagateCtx, Tick, Party, PartySends,
     PartyFinishes, PartyCloses, Starter, StartReturns
<1>2. CASE WatchdogReturns \/ ResultWorker
  BY <1>2 DEF WatchdogReturns, ResultWorker, ResultTakes, ResultStops, ResultUnchanged
<1>3. CASE RecvLoop
  BY <1>3 DEF RecvLoop, LoopCanceled, LoopReceives, LoopFails, LoopReturns
<1>4. CASE Main
  BY <1>4 DEF Main, MainCtxDone, MainWorkersDone, MainStops, MainCancels,
     MainReturns, MainUpdated, RunUnchanged
<1>5. CASE Pump
  BY <1>5 DEF Pump, PumpStops, PumpTakesMessage, PumpTakesKeyShare, PumpTakesSignature,
     PumpSeesOutClosed, PumpDrained, PumpForwards, PumpSends, PumpClassifies,
     PumpSendFails, PumpGoes, PumpUnchanged
<1>6. CASE UNCHANGED vars
  BY <1>6 DEF vars
<1> QED
  BY <1>1, <1>2, <1>3, <1>4, <1>5, <1>6 DEF Next, Returned

\* Every completion event that is queued tells the truth.
LEMMA EventStep ==
  ASSUME TypeOK, ResultInv, EventInv, [Next]_vars
  PROVE  EventInv'
<1> DEFINE Holds(ev) == ev.typ = "protocolDone" =>
             /\ produced' = job'.msgs
             /\ job'.kind = "dkgEdDSA" => ev.val = "none"
             /\ job'.kind # "dkgEdDSA" => /\ ev.val = "result"
                                          /\ pc'["pump"] = "done"
                                          /\ AllSent' \/ stopping'
<1>1. /\ events \in Seq(Event) /\ "recv" \in DOMAIN pc /\ "pump" \in DOMAIN pc
      /\ job' = job /\ (stopping => stopping')
  BY Latches DEF TypeOK, Goroutines, Workers
<1>2. \A k \in 1..Len(events) : Holds(events[k])
  <2>1. \A k \in 1..Len(events) : CompletionEvent(events[k])
    BY DEF EventInv
  <2>2. ASSUME NEW ev, CompletionEvent(ev) PROVE Holds(ev)
    BY <2>2, CompletionStays DEF CompletionEvent
  <2> QED
    BY <2>1, <2>2
<1>3. ASSUME NEW ev, events' = Append(events, ev), Holds(ev)
      PROVE  \A k \in 1..Len(events') : Holds(events'[k])
  <2>1. ASSUME NEW k \in 1..Len(events')
        PROVE  \/ events'[k] = ev
               \/ k \in 1..Len(events) /\ events'[k] = events[k]
    BY <1>1, <1>3, <2>1
  <2> QED
    BY <1>2, <1>3, <2>1
<1>4. SUFFICES /\ pc'["recv"] = "emit" => recvEvent'.typ # "protocolDone"
               /\ \A k \in 1..Len(events') : Holds(events'[k])
  BY DEF EventInv, CompletionEvent
<1>5. CASE PumpEmits
  <2>1. /\ events' = Append(events, [typ |-> "protocolDone", val |-> "result"])
        /\ pc["pump"] = "emit" /\ pc' = [pc EXCEPT !["pump"] = "done"]
        /\ UNCHANGED <<recvEvent, produced, delivered, stopping>>
    BY <1>5 DEF PumpEmits, EmitTo, partyVars, outVars, PumpUnchanged, inVars
  <2>2. Holds([typ |-> "protocolDone", val |-> "result"])
    BY <1>1, <2>1 DEF ResultInv, AllSent
  <2>3. pc'["recv"] = pc["recv"]
    BY <1>1, <2>1
  <2> HIDE DEF Holds
  <2> QED
    BY <1>3, <2>1, <2>2, <2>3 DEF EventInv
<1>6. CASE ResultEmits
  <2>1. /\ events' = Append(events, [typ |-> "protocolDone", val |-> "none"])
        /\ pc["result"] = "emit" /\ pc' = [pc EXCEPT !["result"] = "done"]
        /\ UNCHANGED <<recvEvent, produced>>
    BY <1>6 DEF ResultEmits, EmitTo, ResultUnchanged, inVars
  <2>2. Holds([typ |-> "protocolDone", val |-> "none"])
    BY <1>1, <2>1 DEF ResultInv
  <2>3. pc'["recv"] = pc["recv"]
    BY <1>1, <2>1
  <2> HIDE DEF Holds
  <2> QED
    BY <1>3, <2>1, <2>2, <2>3 DEF EventInv
<1>7. CASE RecvEmits
  <2>1. /\ events' = Append(events, recvEvent) /\ pc["recv"] = "emit"
        /\ pc'["recv"] # "emit"
    BY <1>1, <1>7 DEF RecvEmits, EmitTo
  <2>2. Holds(recvEvent)
    BY <2>1 DEF EventInv
  <2> HIDE DEF Holds
  <2> QED
    BY <1>3, <2>1, <2>2
<1>8. CASE RecvSelects \/ RecvStops \/ RecvJoins
  <2>1. events' = events
    BY <1>8 DEF RecvSelects, RecvStops, RecvJoins
  <2>2. pc'["recv"] = "emit" => recvEvent'.typ # "protocolDone"
    BY <1>1, <1>8 DEF RecvSelects, RecvStops, RecvJoins, WorkerReturns
  <2> QED
    BY <1>2, <2>1, <2>2
<1>9. CASE MainEvent
  <2>1. events # <<>> /\ events' = Tail(events) /\ UNCHANGED <<recvEvent, pc>>
    BY <1>9 DEF MainEvent, RunUnchanged, inVars
  <2>2. \A k \in 1..Len(events') : k + 1 \in 1..Len(events) /\ events'[k] = events[k + 1]
    BY <1>1, <2>1
  <2> HIDE DEF Holds
  <2> QED
    BY <1>2, <2>1, <2>2 DEF EventInv
<1>10. CASE ~PumpEmits /\ ~ResultEmits /\ ~RecvWorker /\ ~MainEvent
  BY <1>2, <1>10, EventFrame DEF EventInv
<1> QED
  BY <1>5, <1>6, <1>7, <1>8, <1>9, <1>10 DEF RecvWorker

-----------------------------------------------------------------------------
(* DoneInv                                                                 *)

\* A terminal decision with no error is one that a completion event made.
LEMMA DoneStep ==
  ASSUME TypeOK, EventInv, DoneInv, JoinInv, [Next]_vars
  PROVE  DoneInv'
<1>1. job' = job /\ (stopping => stopping')
  BY Latches
<1>2. CASE ~Main
  <2>1. UNCHANGED <<main, pend, result, doneFlag>>
    BY <1>2, RunFrame DEF runVars
  <2> QED
    BY <1>1, <2>1, SentStays DEF DoneInv, AllSent
<1>3. CASE Main
  <2>1. UNCHANGED <<pc, produced, delivered>>
    BY <1>3 DEF Main, MainCtxDone, MainWorkersDone, MainEvent, MainStops, MainCancels,
       MainReturns, MainUpdated, RunUnchanged, partyVars, outVars
  <2>2. CASE MainCtxDone
    BY <1>1, <2>2 DEF MainCtxDone, Terminate, DoneInv, TypeOK, CtxErrors
  <2>3. CASE MainWorkersDone
    BY <1>1, <2>3 DEF MainWorkersDone, Terminate, HandleGroupResult, DoneInv
  <2>4. CASE MainStops \/ MainCancels
    BY <1>1, <2>1, <2>4 DEF MainStops, MainCancels, DoneInv, AllSent
  <2>5. CASE MainReturns
    BY <1>1, <2>1, <2>5 DEF MainReturns, HandleGroupResult, DoneInv, AllSent
  <2>6. CASE \E err \in {"nil", "failed"} : MainUpdated(err)
    BY <1>1, <2>6 DEF MainUpdated, Terminate, DoneInv
  <2>7. CASE MainEvent
    <3>1. events # <<>> /\ events \in Seq(Event) /\ main = "select" /\ ~doneFlag /\ ~result
      BY <2>7 DEF MainEvent, TypeOK, DoneInv
    <3>2. Head(events) \in Event /\ CompletionEvent(Head(events))
      BY <3>1 DEF EventInv
    <3>3. CASE Head(events).typ = "inboundFrame" /\ MainInboundFrame(Head(events).val)
      BY <3>1, <3>3 DEF MainInboundFrame, Terminate, DoneInv
    <3>4. CASE Head(events).typ = "recvError" /\ MainRecvError(Head(events).val)
      BY <3>1, <3>2, <3>4, EventNames DEF MainRecvError, Terminate, DoneInv
    <3>5. CASE Head(events).typ = "protocolDone" /\ MainProtocolDone(Head(events).val)
      <4>1. CASE ctx # "live"
        BY <3>1, <3>5, <4>1 DEF MainProtocolDone, Terminate, DoneInv, TypeOK, CtxErrors
      <4>2. CASE ctx = "live"
        <5>1. ~stopping
          BY <3>1 DEF JoinInv
        <5>2. /\ produced = job.msgs
              /\ (Head(events).val = "result") <=> job.kind # "dkgEdDSA"
              /\ job.kind # "dkgEdDSA" => pc["pump"] = "done" /\ AllSent
          BY <3>2, <3>5, <5>1 DEF CompletionEvent
        <5>3. /\ main' = "stop" /\ pend' = "nil" /\ doneFlag' = TRUE
              /\ result' = (Head(events).val = "result")
          BY <3>5, <4>2 DEF MainProtocolDone, Terminate
        <5> QED
          BY <1>1, <2>1, <5>2, <5>3 DEF DoneInv, AllSent
      <4> QED
        BY <4>1, <4>2
    <3> QED
      BY <2>7, <3>3, <3>4, <3>5 DEF MainEvent
  <2> QED
    BY <1>3, <2>2, <2>3, <2>4, <2>5, <2>6, <2>7 DEF Main
<1> QED
  BY <1>2, <1>3

-----------------------------------------------------------------------------
(* JoinInv, FaultInv, LateInv                                              *)

\* No worker runs, and none reports an error, once all of them have returned.
LEMMA JoinStep ==
  ASSUME TypeOK, JoinInv, [Next]_vars
  PROVE  JoinInv'
<1>1. /\ pc \in [Goroutines -> ControlPoints] /\ Workers \subseteq Goroutines
      /\ {"recv", "recvLoop"} \subseteq Goroutines
  BY DEF TypeOK, Goroutines, Workers
<1>2. WorkersDone => WorkersDone' /\ groupErr' = groupErr
  <2> SUFFICES ASSUME WorkersDone PROVE WorkersDone' /\ groupErr' = groupErr
    OBVIOUS
  <2>1. \A w \in Workers : pc'[w] = "done"
    BY <1>1, DoneStays DEF WorkersDone
  <2>2. /\ pc["pump"] = "done" /\ pc["watchdog"] = "done" /\ pc["recv"] = "done"
        /\ pc["result"] = "done" /\ pc["start"] = "done"
    BY DEF WorkersDone, Workers
  <2>3. ~Pump /\ ~WatchdogReturns /\ ~ResultWorker /\ ~RecvWorker /\ ~Starter
    BY <2>2 DEF Pump, PumpStops, PumpTakesMessage, PumpTakesKeyShare, PumpTakesSignature,
       PumpSeesOutClosed, PumpDrained, PumpForwards, PumpSends, PumpClassifies, PumpEmits,
       PumpSendFails, PumpReady, WatchdogReturns, ResultWorker, ResultTakes, ResultEmits,
       ResultStops, RecvWorker, RecvSelects, RecvEmits, RecvStops, RecvJoins, Starter,
       StartReturns
  <2>4. CASE Environment \/ Party
    BY <2>1, <2>4 DEF Environment, CallerDone, PropagateCtx, Tick, Party, PartySends,
       PartyFinishes, PartyCloses, sessionVars, WorkersDone
  <2>5. CASE RecvLoop
    BY <2>1, <2>5 DEF RecvLoop, LoopCanceled, LoopReceives, LoopFails, LoopReturns,
       WorkersDone
  <2>6. CASE Main
    BY <2>1, <2>6 DEF Main, MainCtxDone, MainWorkersDone, MainEvent, MainStops, MainCancels,
       MainReturns, MainUpdated, RunUnchanged, WorkersDone
  <2>7. CASE UNCHANGED vars
    BY <2>1, <2>7 DEF vars, WorkersDone
  <2> QED
    BY <2>3, <2>4, <2>5, <2>6, <2>7 DEF Next, Returned
<1>3. pc'["recv"] = "done" => pc'["recvLoop"] = "done"
  <2>1. CASE pc["recv"] = "done"
    BY <1>1, <2>1, DoneStays DEF JoinInv
  <2>2. CASE pc["recv"] # "done" /\ RecvWorker
    BY <1>1, <2>2 DEF RecvWorker, RecvSelects, RecvEmits, RecvStops, RecvJoins,
       WorkerReturns, EmitTo
  <2>3. CASE pc["recv"] # "done" /\ ~RecvWorker
    <3>1. CASE ~PumpEmits /\ ~ResultEmits /\ ~MainEvent
      BY <2>3, <3>1, EventFrame
    <3>2. CASE PumpEmits \/ ResultEmits \/ MainEvent
      BY <1>1, <2>3, <3>2 DEF PumpEmits, ResultEmits, MainEvent, RunUnchanged, EmitTo
    <3> QED
      BY <3>1, <3>2
  <2> QED
    BY <2>1, <2>2, <2>3
<1>4. CASE ~Main
  BY <1>2, <1>3, <1>4, RunFrame DEF JoinInv, Success, runVars
<1>5. CASE Main
  <2> USE DEF JoinInv, Success, RunUnchanged, Terminate
  <2>1. CASE MainCtxDone \/ MainWorkersDone \/ MainStops \/ MainCancels
    BY <1>3, <2>1 DEF MainCtxDone, MainWorkersDone, MainStops, MainCancels
  <2>2. CASE MainEvent
    BY <1>3, <2>2 DEF MainEvent, MainInboundFrame, MainRecvError, MainProtocolDone
  <2>3. CASE \E err \in {"nil", "failed"} : MainUpdated(err)
    BY <1>3, <2>3 DEF MainUpdated
  <2>4. CASE MainReturns
    BY <1>2, <1>3, <2>4 DEF MainReturns, HandleGroupResult
  <2> QED
    BY <1>5, <2>1, <2>2, <2>3, <2>4 DEF Main
<1> QED
  BY <1>4, <1>5

\* Only the pump reports a send that failed, and it reports it to the errgroup.
LEMMA FaultStep ==
  ASSUME TypeOK, FaultInv, [Next]_vars
  PROVE  FaultInv'
<1> DEFINE SendFaults == faults \cap {"sendFailed", "sendCanceled"}
<1>1. /\ groupErr # "nil" => groupErr' # "nil"
      /\ "pump" \in DOMAIN pc
  BY Latches DEF TypeOK, Goroutines, Workers
<1>2. CASE ~Pump
  <2>1. SendFaults' = SendFaults
    <3> USE DEF Inject, InjectIf
    <3>1. CASE Environment \/ Party \/ Starter
      BY <3>1 DEF Environment, CallerDone, PropagateCtx, Tick, Party, PartySends,
         PartyFinishes, PartyCloses, Starter, StartReturns
    <3>2. CASE WatchdogReturns \/ ResultWorker
      BY <3>2 DEF WatchdogReturns, ResultWorker, ResultTakes, ResultEmits, ResultStops,
         ResultUnchanged
    <3>3. CASE RecvLoop
      BY <3>3 DEF RecvLoop, LoopCanceled, LoopReceives, LoopFails
    <3>4. CASE RecvWorker
      BY <3>4 DEF RecvWorker, RecvSelects, RecvEmits, RecvStops, RecvJoins
    <3>5. CASE Main
      BY <3>5 DEF Main, MainCtxDone, MainWorkersDone, MainEvent, MainStops, MainCancels,
         MainReturns, MainUpdated
    <3>6. CASE UNCHANGED vars
      BY <3>6 DEF vars
    <3> QED
      BY <1>2, <3>1, <3>2, <3>3, <3>4, <3>5, <3>6 DEF Next, Returned
  <2>2. UNCHANGED <<sendErr, independent>> /\ pc'["pump"] = pc["pump"]
    BY <1>2, PumpFrame DEF outVars
  <2> QED
    BY <1>1, <2>1, <2>2 DEF FaultInv
<1>3. CASE PumpForwards
  BY <1>1, <1>3 DEF PumpForwards, PumpGoes, FaultInv
<1>4. CASE \E err \in Errors : PumpSendFails(err)
  BY <1>1, <1>4 DEF PumpSendFails, PumpGoes, FaultInv, Inject, TypeOK
<1>5. CASE PumpClassifies
  <2>1. /\ pc["pump"] = "classify" /\ faults' = faults
        /\ ~OwnerCanceled => groupErr' = IF groupErr = "nil" THEN sendErr ELSE groupErr
    BY <1>5 DEF PumpClassifies, WorkerReturns, PumpUnchanged
  <2> QED
    BY <1>1, <2>1 DEF FaultInv, OwnerCanceled
<1>6. CASE Pump /\ ~PumpForwards /\ ~PumpClassifies /\ ~\E err \in Errors : PumpSendFails(err)
  <2>1. faults' = faults /\ pc["pump"] # "classify"
    BY <1>6 DEF Pump, PumpStops, PumpTakesMessage, PumpTakesKeyShare, PumpTakesSignature,
       PumpSeesOutClosed, PumpDrained, PumpSends, PumpEmits, PumpReady, PumpUnchanged
  <2> QED
    BY <1>1, <2>1 DEF FaultInv
<1> QED
  BY <1>2, <1>3, <1>4, <1>5, <1>6

\* The pump starts a SendFrame only while the context lives.
LEMMA LateStep ==
  ASSUME TypeOK, LateInv, [Next]_vars
  PROVE  LateInv'
<1>1. (gctx # "nil" => gctx' # "nil") /\ "pump" \in DOMAIN pc
  BY Latches DEF TypeOK, Goroutines, Workers
<1>2. CASE ~Pump
  BY <1>1, <1>2, PumpFrame DEF outVars, LateInv
<1>3. CASE PumpSends
  <2>1. /\ pc["pump"] = "send" /\ late' = (IF gctx = "nil" THEN late ELSE late + 1)
        /\ gctx' = gctx /\ pc'["pump"] # "send"
    BY <1>1, <1>3 DEF PumpSends, PumpGoes
  <2> QED
    BY <2>1 DEF LateInv
<1>4. CASE Pump /\ ~PumpSends
  <2>1. late' = late
    BY <1>4 DEF Pump, PumpStops, PumpTakesMessage, PumpTakesKeyShare, PumpTakesSignature,
       PumpSeesOutClosed, PumpDrained, PumpForwards, PumpClassifies, PumpEmits,
       PumpSendFails, outVars
  <2>2. pc'["pump"] = "send" => pc["pump"] = "send" \/ gctx = "nil"
    <3> USE DEF PumpGoes, WorkerReturns, EmitTo, PumpReady
    <3>1. CASE PumpStops \/ PumpTakesMessage \/ PumpTakesKeyShare \/ PumpTakesSignature
      BY <1>1, <3>1 DEF PumpStops, PumpTakesMessage, PumpTakesKeyShare, PumpTakesSignature
    <3>2. CASE PumpSeesOutClosed \/ PumpDrained \/ PumpEmits
      BY <1>1, <3>2 DEF PumpSeesOutClosed, PumpDrained, PumpEmits
    <3>3. CASE PumpForwards \/ PumpClassifies
      BY <1>1, <3>3 DEF PumpForwards, PumpClassifies
    <3>4. CASE \E err \in Errors : PumpSendFails(err)
      BY <1>1, <3>4 DEF PumpSendFails
    <3> QED
      BY <1>4, <3>1, <3>2, <3>3, <3>4 DEF Pump
  <2> QED
    BY <1>1, <2>1, <2>2 DEF LateInv
<1> QED
  BY <1>2, <1>3, <1>4

-----------------------------------------------------------------------------
(* The invariant and what follows from it                                  *)

\* A session starts with nothing produced, sent, decided or failed.
LEMMA InvInit == Init => Inv
<1> SUFFICES ASSUME Init PROVE Inv
  OBVIOUS
<1>1. TypeOK
  BY TypeInit
<1>2. /\ Len(outCh) = 0 /\ produced = 0 /\ cur = 0 /\ Taken = 0
      /\ Len(events) = 0
  <2>1. outCh = <<>> /\ events = <<>> /\ produced = 0 /\ cur = 0
    BY DEF Init
  <2>2. Len(outCh) = 0 /\ Len(events) = 0
    BY <2>1
  <2>3. Taken = 0
    <3>1. Taken = produced - Len(outCh)
      BY DEF Taken
    <3> HIDE DEF Taken
    <3> QED
      BY <2>1, <2>2, <3>1
  <2> QED
    BY <2>1, <2>2, <2>3
<1>3. /\ pc["pump"] = "select" /\ pc["result"] = "select" /\ pc["recv"] = "select"
      /\ pc["recvLoop"] = "recv"
  BY DEF Init, Goroutines, Workers
<1>4. QueueInv
  BY <1>2, <1>3 DEF QueueInv
<1>5. DeliveredInv
  <2>1. ASSUME NEW i \in Messages
        PROVE  i \in Nat /\ i > 0 /\ Recipients[i] \in Nat /\ Recipients[i] > 0 /\ delivered[i] = 0
    BY RecipientsAssumption DEF Messages, Init
  <2> QED
    BY <1>2, <2>1 DEF DeliveredInv
<1>6. ResultInv /\ EventInv
  BY <1>2, <1>3 DEF Init, ResultInv, EventInv
<1>7. DoneInv /\ JoinInv
  BY <1>3 DEF Init, DoneInv, JoinInv, Success
<1>8. FaultInv /\ LateInv
  BY <1>3 DEF Init, FaultInv, LateInv
<1> QED
  BY <1>1, <1>4, <1>5, <1>6, <1>7, <1>8 DEF Inv

\* Every step of every goroutine keeps the invariant.
LEMMA InvStep == Inv /\ [Next]_vars => Inv'
<1> SUFFICES ASSUME Inv, [Next]_vars PROVE Inv'
  OBVIOUS
<1>1. TypeOK'
  BY TypeStep DEF Inv
<1>2. QueueInv' /\ DeliveredInv' /\ ResultInv'
  BY QueueStep, DeliveredStep, ResultStep DEF Inv
<1>3. EventInv' /\ DoneInv' /\ JoinInv'
  BY EventStep, DoneStep, JoinStep DEF Inv
<1>4. FaultInv' /\ LateInv'
  BY FaultStep, LateStep DEF Inv
<1> QED
  BY <1>1, <1>2, <1>3, <1>4 DEF Inv

\* The queue, the frames delivered, the events in flight and the outcome agree
\* in every reachable state of every session.
THEOREM InvCorrect == Spec => []Inv
<1> QED
  BY InvInit, InvStep, PTL DEF Spec

\* Run never returns while a worker, or the receive loop, is still running.
THEOREM CompletionBarrierCorrect == Spec => []CompletionBarrier
<1>1. Inv => CompletionBarrier
  BY DEF Inv, JoinInv, WorkersDone, CompletionBarrier, Goroutines, Workers
<1> QED
  BY <1>1, InvCorrect, PTL

\* A run that returns an error exposes no key share and no signature.
THEOREM FailureHidesResultCorrect == Spec => []FailureHidesResult
<1>1. Inv => FailureHidesResult
  BY DEF Inv, DoneInv, FailureHidesResult
<1> QED
  BY <1>1, InvCorrect, PTL

\* A successful ECDSA DKG or signing exposes its result behind all its frames.
THEOREM SuccessIsCompleteCorrect == Spec => []SuccessIsComplete
<1>1. Inv => SuccessIsComplete
  BY DEF Inv, DoneInv, SuccessIsComplete, Success, AllSent
<1> QED
  BY <1>1, InvCorrect, PTL

\* No success hides a send that failed before Run asked to stop.
THEOREM SendFailureFailsCorrect == Spec => []SendFailureFails
<1>1. Inv => SendFailureFails
  <2> SUFFICES ASSUME Inv, Success PROVE faults \cap {"sendFailed", "sendCanceled"} = {}
    BY DEF SendFailureFails
  <2>1. groupErr = "nil" /\ pc["pump"] = "done"
    BY DEF Inv, JoinInv, Success, WorkersDone, Workers
  <2> QED
    BY <2>1 DEF Inv, FaultInv
<1> QED
  BY <1>1, InvCorrect, PTL

\* No frame is sent twice, and a message is begun only behind the one before.
THEOREM DeliveryInOrderCorrect == Spec => []DeliveryInOrder
<1>1. Inv => DeliveryInOrder
  <2> SUFFICES ASSUME Inv, NEW i \in Messages
               PROVE  /\ delivered[i] <= Recipients[i]
                      /\ ~stopping /\ i > 1 /\ delivered[i] > 0 =>
                           delivered[i - 1] = Recipients[i - 1]
    BY DEF DeliveryInOrder
  <2>1. delivered[i] <= Recipients[i] /\ (i > Taken => delivered[i] = 0)
    BY DEF Inv, DeliveredInv
  <2>2. ASSUME ~stopping, i > 1, delivered[i] > 0
        PROVE  delivered[i - 1] = Recipients[i - 1]
    <3>1. i \in Int /\ Taken \in Int /\ i <= Taken /\ i - 1 \in Messages
      <4>1. i \in 1..Len(Recipients) /\ Len(Recipients) \in Nat /\ Taken \in Int
        BY JobBounds DEF Inv, TypeOK, Taken, Messages
      <4> QED
        BY <2>1, <2>2, <4>1 DEF Messages
    <3>2. i - 1 < Taken /\ i - 1 # cur
      <4>1. cur = 0 \/ cur = Taken
        BY DEF Inv, QueueInv
      <4> QED
        BY <2>2, <3>1, <4>1
    <3> QED
      BY <2>2, <3>1, <3>2 DEF Inv, DeliveredInv
  <2> QED
    BY <2>1, <2>2
<1> QED
  BY <1>1, InvCorrect, PTL

\* At most the SendFrame in flight is accepted once the context has ended.
THEOREM AtMostOneLateFrameCorrect == Spec => []AtMostOneLateFrame
<1>1. Inv => AtMostOneLateFrame
  BY DEF Inv, LateInv, AtMostOneLateFrame
<1> QED
  BY <1>1, InvCorrect, PTL

-----------------------------------------------------------------------------
(* Run implements Session                                                  *)

\* Steps other than the party producing, the transport accepting a frame and
\* Run returning are invisible to the caller.
LEMMA Invisible ==
  ASSUME TypeOK, [Next]_vars, ~PartySends, ~PumpSends, ~MainReturns
  PROVE  /\ UNCHANGED <<job, produced, delivered>>
         /\ main = "returned" <=> main' = "returned"
         /\ main = "returned" => UNCHANGED <<pend, result>>
<1>1. produced' = produced
  <2>1. CASE Pump
    BY <2>1 DEF Pump, PumpStops, PumpTakesMessage, PumpTakesKeyShare, PumpTakesSignature,
       PumpSeesOutClosed, PumpDrained, PumpForwards, PumpClassifies, PumpEmits,
       PumpSendFails, partyVars
  <2>2. CASE Party
    BY <2>2 DEF Party, PartyFinishes, PartyCloses
  <2> QED
    BY <2>1, <2>2, OutFrame
<1>2. delivered' = delivered
  <2>1. CASE Pump
    BY <2>1 DEF Pump, PumpStops, PumpTakesMessage, PumpTakesKeyShare, PumpTakesSignature,
       PumpSeesOutClosed, PumpDrained, PumpForwards, PumpClassifies, PumpEmits,
       PumpSendFails, outVars
  <2> QED
    BY <2>1, PumpFrame DEF outVars
<1>3. CASE ~Main
  BY <1>1, <1>2, <1>3, RunFrame, Latches DEF runVars
<1>4. CASE Main
  <2>1. main # "returned" /\ main' # "returned"
    BY <1>4 DEF Main, MainCtxDone, MainWorkersDone, MainEvent, MainStops, MainCancels,
       MainUpdated, MainInboundFrame, MainRecvError, MainProtocolDone, Terminate
  <2> QED
    BY <1>1, <1>2, <2>1, Latches
<1> QED
  BY <1>3, <1>4

\* The initial states of Run are initial states of Session.
LEMMA SessionInit == Init => S!Init
<1> SUFFICES ASSUME Init PROVE S!Init
  OBVIOUS
<1>1. job.msgs \in 0..Len(Recipients)
  BY JobBounds DEF Init
<1>2. DOMAIN Recipients = Messages
  BY RecipientsAssumption DEF Messages
<1>3. main = "select" /\ produced = 0 /\ delivered = [i \in Messages |-> 0]
  BY DEF Init
<1> QED
  BY <1>1, <1>2, <1>3 DEF S!Init

\* Every step of Run is a step of Session or changes nothing its caller sees.
LEMMA SessionStep ==
  ASSUME Inv, [Next]_vars
  PROVE  [S!Next]_(S!vars)
<1>1. Inv' /\ TypeOK /\ TypeOK' /\ job' = job
  BY InvStep, Latches DEF Inv
<1>2. main = "returned" => pc["pump"] = "done" /\ pc["start"] = "done"
  BY DEF Inv, JoinInv, WorkersDone, Workers
<1>3. CASE PartySends
  <2>1. /\ main # "returned" /\ produced < job.msgs /\ produced' = produced + 1
        /\ UNCHANGED <<main, pend, result, delivered>>
    BY <1>2, <1>3 DEF PartySends, PartyRuns, runVars, outVars
  <2>2. S!Produce
    BY <1>1, <2>1 DEF S!Produce
  <2> QED
    BY <2>2 DEF S!Next
<1>4. CASE PumpSends
  <2>1. /\ main # "returned" /\ pc["pump"] = "send"
        /\ delivered' = [delivered EXCEPT ![cur] = delivered[cur] + 1]
        /\ UNCHANGED <<main, pend, result, produced>>
    BY <1>2, <1>4 DEF PumpSends, PumpUnchanged, runVars, partyVars
  <2>2. cur = Taken /\ cur # 0 /\ cur \in Messages
    BY <1>1, <2>1 DEF Inv, QueueInv, TypeOK, Messages
  <2>3. cur <= produced
    BY <1>1, <2>2, JobBounds DEF Inv, Taken, TypeOK
  <2>4. delivered[cur] < Recipients[cur]
    BY <2>2 DEF Inv, DeliveredInv
  <2>5. cur \in DOMAIN Recipients
    BY <2>2, RecipientsAssumption DEF Messages
  <2>6. S!Deliver(cur)
    BY <1>1, <2>1, <2>3, <2>4 DEF S!Deliver
  <2> QED
    BY <2>5, <2>6 DEF S!Next
<1>5. CASE MainReturns
  <2>1. /\ main = "wait" /\ main' = "returned" /\ UNCHANGED <<produced, delivered>>
        /\ \/ pend = "nil" /\ groupErr # "nil" /\ pend' # "nil"
           \/ UNCHANGED <<result, pend>>
    BY <1>5 DEF MainReturns, HandleGroupResult, RunUnchanged, partyVars, outVars
  <2>2. CASE pend' = "nil"
    <3>1. pend = "nil" /\ result' = result
      BY <2>1, <2>2
    <3>2. doneFlag
      BY <2>1, <3>1 DEF Inv, DoneInv
    <3>3. /\ produced = job.msgs /\ (result <=> job.kind # "dkgEdDSA")
          /\ job.kind # "dkgEdDSA" => AllSent
      BY <3>2 DEF Inv, DoneInv
    <3>4. S!Succeed
      BY <1>1, <2>1, <2>2, <3>1, <3>3 DEF S!Succeed, AllSent
    <3> QED
      BY <3>4 DEF S!Next
  <2>3. CASE pend' # "nil"
    <3>1. ~result'
      BY <1>1, <2>1, <2>3 DEF Inv, DoneInv
    <3>2. S!Fail
      BY <1>1, <2>1, <2>3, <3>1 DEF S!Fail
    <3> QED
      BY <3>2 DEF S!Next
  <2> QED
    BY <2>2, <2>3
<1>6. CASE ~PartySends /\ ~PumpSends /\ ~MainReturns
  <2>1. /\ UNCHANGED <<job, produced, delivered>>
        /\ main = "returned" <=> main' = "returned"
        /\ main = "returned" => UNCHANGED <<pend, result>>
    BY <1>1, <1>6, Invisible
  <2> QED
    BY <2>1 DEF S!vars
<1> QED
  BY <1>3, <1>4, <1>5, <1>6

\* Run implements Session: it delivers what the party produces, returns once,
\* exposes a result only in a success and, where the protocol promises it, only
\* behind all its frames; after that the caller sees no further change.
THEOREM RunImplementsSession == Spec => ImplementsSession
<1>1. Inv /\ [Next]_vars => [S!Next]_(S!vars)
  BY SessionStep
<1> QED
  BY <1>1, SessionInit, InvCorrect, PTL DEF Spec, ImplementsSession, S!Spec
=============================================================================
