--------------------------- MODULE ExecutionProofs ---------------------------
(***************************************************************************)
(* Proofs about Execution, for every kind of session, number of messages   *)
(* and recipients, every capacity and every number of injected failures.   *)
(***************************************************************************)
EXTENDS ExecutionInv, TLAPS

\* The finite sets of names, as the provers need them.
LEMMA Names ==
  /\ {"select", "forward", "send", "classify", "emit", "handoff", "join", "recv",
      "running", "done"} \subseteq ControlPoints
  /\ {"select", "update", "stop", "cancel", "wait", "returned"} \subseteq RunPoints
  /\ {"empty", "full", "taken", "closed"} \subseteq EndStates
  /\ CtxErrors \subseteq Errors \ {"nil"}
  /\ {"nil", "canceled", "deadline", "stalled", "failed"} \subseteq Errors
  /\ "canceled" \in CtxErrors
  /\ {"caller", "start", "update", "frame", "sendFailed", "sendCanceled",
      "lateCancel", "recvFailed", "recvCanceled", "closed"} \subseteq FaultKinds
BY DEF ControlPoints, RunPoints, EndStates, CtxErrors, Errors, FaultKinds

LEMMA EventNames ==
  /\ NoEvent \in Event
  /\ \A v \in {"result", "none"} : [typ |-> "protocolDone", val |-> v] \in Event
  /\ \A f \in FrameKinds : [typ |-> "inboundFrame", val |-> f] \in Event
  /\ \A e \in Errors \ {"nil"} : [typ |-> "recvError", val |-> e] \in Event
  /\ \A ev \in Event :
       /\ ev.typ = "inboundFrame" => ev.val \in FrameKinds
       /\ ev.typ = "recvError" => ev.val \in Errors \ {"nil"}
       /\ ev.typ = "protocolDone" => ev.val \in {"result", "none"}
BY DEF Event, NoEvent

\* What the assumptions say of the job of a session.
LEMMA JobBounds ==
  /\ Len(Recipients) \in Nat
  /\ \A j \in Jobs : j.msgs \in Nat /\ j.msgs <= Len(Recipients) /\ j.frames \in Nat
<1>1. Len(Recipients) \in Nat
  BY RecipientsAssumption
<1> QED
  BY <1>1, JobsAssumption

\* The initial state has the types of TypeOK.
LEMMA TypeInit == Init => TypeOK
<1> USE JobBounds, CapsAssumption, BoundsAssumption
<1> SUFFICES ASSUME Init PROVE TypeOK
  OBVIOUS
<1>1. events \in Seq(Event) /\ Len(events) <= EventCap
  BY DEF Init, EventCap
<1>2. inbound \in Seq(FrameKinds) /\ Len(inbound) <= InboundQueueCap
  BY DEF Init
<1>3. outCh \in Seq(Messages) /\ Len(outCh) <= OutCap
  BY DEF Init
<1>4. pc \in [Goroutines -> ControlPoints]
  BY Names DEF Init
<1>5. delivered \in [Messages -> Nat]
  BY DEF Init
<1>6. /\ job \in Jobs /\ ctx = "live" /\ gctx = "nil" /\ groupErr \in Errors
      /\ main \in RunPoints /\ pend \in Errors /\ recvErrCh \in Errors
      /\ recvEvent \in Event /\ endCh \in EndStates /\ sendErr \in Errors
  BY Names, EventNames DEF Init
<1>7. /\ produced \in 0..job.msgs /\ cur \in 0..Len(Recipients) /\ late \in Nat
      /\ idle \in 0..StallFail /\ received \in 0..job.frames /\ faults \subseteq FaultKinds
  BY DEF Init
<1>8. /\ stopping \in BOOLEAN /\ outClosed \in BOOLEAN /\ draining \in BOOLEAN
      /\ independent \in BOOLEAN /\ result \in BOOLEAN /\ doneFlag \in BOOLEAN
  BY DEF Init
<1> QED
  BY <1>1, <1>2, <1>3, <1>4, <1>5, <1>6, <1>7, <1>8 DEF TypeOK

\* Every step keeps the types, and with them the channels within capacity.
LEMMA TypeStep == TypeOK /\ [Next]_vars => TypeOK'
<1> SUFFICES ASSUME TypeOK, [Next]_vars PROVE TypeOK'
  OBVIOUS
<1> USE Names, JobBounds, CapsAssumption, BoundsAssumption
<1> USE DEF TypeOK, sessionVars, inVars, partyVars, outVars, runVars,
            Inject, InjectIf,
            WorkerReturns, StopError, PumpGoes, PumpUnchanged, PumpReady
<1>1. ASSUME NEW err \in CtxErrors, CallerDone(err) PROVE TypeOK'
  BY <1>1 DEF CallerDone
<1>2. CASE PropagateCtx
  BY <1>2 DEF PropagateCtx
<1>3. CASE Tick
  BY <1>3 DEF Tick
<1>4. CASE PartySends
  <2>1. /\ produced + 1 \in Messages
        /\ produced' = produced + 1 /\ outCh' = Append(outCh, produced + 1)
        /\ Len(outCh) < OutCap
    BY <1>4 DEF PartySends, Messages
  <2>2. produced' \in 0..job.msgs
    BY <1>4 DEF PartySends
  <2>3. outCh' \in Seq(Messages) /\ Len(outCh') <= OutCap
    BY <2>1
  <2> QED
    BY <1>4, <2>2, <2>3 DEF PartySends
<1>5. CASE PartyFinishes
  BY <1>5 DEF PartyFinishes
<1>6. CASE PartyCloses
  <2>1. faults' \subseteq FaultKinds
    BY <1>6 DEF PartyCloses
  <2>2. endCh' \in EndStates /\ outClosed' \in BOOLEAN
    BY <1>6 DEF PartyCloses
  <2> QED
    BY <1>6, <2>1, <2>2 DEF PartyCloses
<1>7. ASSUME NEW err \in {"nil", "failed"}, StartReturns(err) PROVE TypeOK'
  BY <1>7 DEF StartReturns
<1>8. CASE PumpStops
  BY <1>8 DEF PumpStops
<1>9. CASE PumpTakesMessage
  <2>1. cur' \in 0..Len(Recipients) /\ outCh' \in Seq(Messages) /\ Len(outCh') <= OutCap
    <3>1. /\ outCh \in Seq(Messages) /\ outCh # <<>> /\ Len(outCh) <= OutCap
          /\ outCh' = Tail(outCh) /\ cur' = Head(outCh)
      BY <1>9 DEF PumpTakesMessage
    <3>2. Head(outCh) \in Messages /\ Tail(outCh) \in Seq(Messages) /\ Len(Tail(outCh)) <= OutCap
      BY <3>1
    <3> QED
      BY <3>1, <3>2 DEF Messages
  <2> QED
    BY <1>9, <2>1 DEF PumpTakesMessage
<1>10. CASE PumpTakesKeyShare
  <2>1. pc' \in [Goroutines -> ControlPoints]
    BY <1>10 DEF PumpTakesKeyShare
  <2> QED
    BY <1>10, <2>1 DEF PumpTakesKeyShare
<1>11. CASE PumpTakesSignature
  BY <1>11 DEF PumpTakesSignature
<1>12. CASE PumpSeesOutClosed
  <2>1. pc' \in [Goroutines -> ControlPoints]
    BY <1>12 DEF PumpSeesOutClosed
  <2> QED
    BY <1>12, <2>1 DEF PumpSeesOutClosed
<1>13. CASE PumpDrained
  BY <1>13 DEF PumpDrained
<1>14. CASE PumpForwards
  <2>1. pc' \in [Goroutines -> ControlPoints]
    BY <1>14 DEF PumpForwards
  <2> QED
    BY <1>14, <2>1 DEF PumpForwards
<1>15. CASE PumpSends
  <2>1. delivered' = [delivered EXCEPT ![cur] = delivered[cur] + 1]
    BY <1>15 DEF PumpSends
  <2>2. delivered' \in [Messages -> Nat]
    <3>1. CASE cur \in Messages
      <4>1. delivered[cur] + 1 \in Nat
        BY <3>1
      <4> QED
        BY <2>1, <4>1
    <3>2. CASE cur \notin Messages
      BY <2>1, <3>2
    <3> QED
      BY <3>1, <3>2
  <2> QED
    <3>1. idle' \in 0..StallFail /\ late' \in Nat
      BY <1>15 DEF PumpSends
    <3>2. pc' \in [Goroutines -> ControlPoints]
      BY <1>15 DEF PumpSends
    <3> QED
      BY <1>15, <2>2, <3>1, <3>2 DEF PumpSends
<1>16. CASE PumpClassifies
  <2>1. gctx' \in {"nil"} \cup CtxErrors
    BY <1>16 DEF PumpClassifies
  <2>2. groupErr' \in Errors
    BY <1>16 DEF PumpClassifies
  <2>3. pc' \in [Goroutines -> ControlPoints]
    BY <1>16 DEF PumpClassifies
  <2>4. cur' \in 0..Len(Recipients) /\ sendErr' \in Errors 
    BY <1>16 DEF PumpClassifies
  <2>5. independent' \in BOOLEAN
    BY <1>16 DEF PumpClassifies
  <2>6. UNCHANGED <<job, ctx, stopping, runVars, inVars, faults, events, partyVars, draining, delivered, late, idle>>
    BY <1>16 DEF PumpClassifies
  <2> QED
    BY <2>1, <2>2, <2>3, <2>4, <2>5, <2>6
<1>17. CASE PumpEmits
  <2>1. events' \in Seq(Event) /\ Len(events') <= EventCap
    BY <1>17, EventNames DEF PumpEmits, EmitTo, EventCap
  <2> QED
    BY <1>17, <2>1 DEF PumpEmits, EmitTo, EventCap
<1>18. ASSUME NEW err \in Errors, PumpSendFails(err) PROVE TypeOK'
  BY <1>18 DEF PumpSendFails
<1>19. CASE WatchdogReturns
  BY <1>19 DEF WatchdogReturns
<1>20. CASE ResultTakes
  <2>1. pc' \in [Goroutines -> ControlPoints]
    BY <1>20 DEF ResultTakes, ResultUnchanged
  <2> QED
    BY <1>20, <2>1 DEF ResultTakes, ResultUnchanged
<1>21. CASE ResultEmits
  <2>1. events' \in Seq(Event) /\ Len(events') <= EventCap
    BY <1>21, EventNames DEF ResultEmits, ResultUnchanged, EmitTo, EventCap
  <2> QED
    BY <1>21, <2>1 DEF ResultEmits, ResultUnchanged, EmitTo, EventCap
<1>22. CASE ResultStops
  BY <1>22 DEF ResultStops, ResultUnchanged
<1>23. CASE LoopCanceled
  BY <1>23 DEF LoopCanceled, LoopReturns, InUnchanged
<1>24. CASE RecvSelects
  <2>1. CASE UNCHANGED <<inbound, recvErrCh, recvEvent>> /\ pc' = [pc EXCEPT !["recv"] = "join"]
    BY <1>24, <2>1 DEF RecvSelects, InUnchanged
  <2>2. CASE /\ inbound # <<>> /\ inbound' = Tail(inbound) /\ UNCHANGED recvErrCh
             /\ recvEvent' = [typ |-> "inboundFrame", val |-> Head(inbound)]
             /\ pc' = [pc EXCEPT !["recv"] = "emit"]
    <3>1. Head(inbound) \in FrameKinds /\ inbound' \in Seq(FrameKinds)
          /\ Len(inbound') <= InboundQueueCap
      BY <2>2
    <3> QED
      BY <1>24, <2>2, <3>1, EventNames DEF RecvSelects, InUnchanged
  <2>3. CASE /\ recvErrCh # "nil" /\ recvErrCh' = "nil" /\ UNCHANGED inbound
             /\ recvEvent' = [typ |-> "recvError", val |-> recvErrCh]
             /\ pc' = [pc EXCEPT !["recv"] = "emit"]
    BY <1>24, <2>3, EventNames DEF RecvSelects, InUnchanged
  <2> QED
    BY <1>24, <2>1, <2>2, <2>3 DEF RecvSelects
<1>25. CASE RecvEmits
  <2>1. events' \in Seq(Event) /\ Len(events') <= EventCap
    BY <1>25, EventNames DEF RecvEmits, EmitTo, EventCap
  <2> QED
    BY <1>25, <2>1, EventNames DEF RecvEmits, InUnchanged, EmitTo
<1>26. CASE RecvStops
  BY <1>26, EventNames DEF RecvStops, InUnchanged
<1>27. CASE RecvJoins
  BY <1>27 DEF RecvJoins, InUnchanged
<1>28. ASSUME NEW f \in FrameKinds, LoopReceives(f) PROVE TypeOK'
  <2>1. CASE \E e \in Errors : LoopReturns(e)
    <3>1. /\ recvErrCh' \in Errors /\ pc' \in [Goroutines -> ControlPoints]
          /\ UNCHANGED <<gctx, groupErr, events, inbound, recvEvent>>
      BY <2>1 DEF LoopReturns
    <3>2. received' \in 0..job.frames /\ job' = job /\ faults' \subseteq FaultKinds
      <4>1. /\ job' = job /\ received \in 0..job.frames /\ job.frames \in Nat
            /\ received' = IF received < job.frames THEN received + 1 ELSE received
        BY <1>28 DEF LoopReceives, InUnchanged
      <4>2. faults' \subseteq FaultKinds
        BY <1>28 DEF LoopReceives
      <4> QED
        BY <4>1, <4>2
    <3>3. InUnchanged
      BY <1>28 DEF LoopReceives
    <3> QED
      BY <3>1, <3>2, <3>3 DEF InUnchanged
  <2>2. CASE /\ Len(inbound) < InboundQueueCap /\ inbound' = Append(inbound, f)
             /\ UNCHANGED <<pc, gctx, groupErr, events, recvErrCh, recvEvent>>
    <3>1. inbound' \in Seq(FrameKinds) /\ Len(inbound') <= InboundQueueCap
      BY <1>28, <2>2
    <3> QED
      BY <1>28, <2>2, <3>1 DEF LoopReceives, InUnchanged
  <2> QED
    BY <1>28, <2>1, <2>2 DEF LoopReceives
<1>29. ASSUME NEW err \in Errors, LoopFails(err) PROVE TypeOK'
  <2>1. recvErrCh' \in Errors
    BY <1>29 DEF LoopFails, LoopReturns, InUnchanged
  <2> QED
    BY <1>29, <2>1 DEF LoopFails, LoopReturns, InUnchanged
<1>30. CASE MainCtxDone
  BY <1>30 DEF MainCtxDone, Terminate, RunUnchanged
<1>31. CASE MainWorkersDone
  BY <1>31 DEF MainWorkersDone, Terminate, RunUnchanged, HandleGroupResult
<1>32. CASE MainEvent
  <2>1. events' \in Seq(Event) /\ Len(events') <= EventCap /\ Head(events) \in Event
    BY <1>32 DEF MainEvent, EventCap
  <2>2. CASE Head(events).typ = "inboundFrame" /\ MainInboundFrame(Head(events).val)
    BY <1>32, <2>1, <2>2 DEF MainEvent, MainInboundFrame, Terminate, RunUnchanged
  <2>3. CASE Head(events).typ = "recvError" /\ MainRecvError(Head(events).val)
    BY <1>32, <2>1, <2>3, EventNames DEF MainEvent, MainRecvError, Terminate, RunUnchanged
  <2>4. CASE Head(events).typ = "protocolDone" /\ MainProtocolDone(Head(events).val)
    BY <1>32, <2>1, <2>4 DEF MainEvent, MainProtocolDone, Terminate, RunUnchanged
  <2> QED
    BY <1>32, <2>2, <2>3, <2>4 DEF MainEvent
<1>33. CASE MainStops
  BY <1>33 DEF MainStops, RunUnchanged
<1>34. CASE MainCancels
  BY <1>34 DEF MainCancels, RunUnchanged
<1>35. CASE MainReturns
  BY <1>35 DEF MainReturns, RunUnchanged, HandleGroupResult
<1>36. ASSUME NEW err \in {"nil", "failed"}, MainUpdated(err) PROVE TypeOK'
  BY <1>36 DEF MainUpdated, Terminate, RunUnchanged
<1>37. CASE UNCHANGED vars
  BY <1>37 DEF vars
<1> QED
  BY <1>1, <1>2, <1>3, <1>4, <1>5, <1>6, <1>7, <1>8, <1>9, <1>10, <1>11, <1>12,
     <1>13, <1>14, <1>15, <1>16, <1>17, <1>18, <1>19, <1>20, <1>21, <1>22,
     <1>23, <1>24, <1>25, <1>26, <1>27, <1>28, <1>29, <1>30, <1>31, <1>32,
     <1>33, <1>34, <1>35, <1>36, <1>37
  DEF Next, Environment, Party, Starter, Pump, ResultWorker, RecvLoop, RecvWorker,
      Main, Returned

\* Every reachable state has the types, and the queues stay within the
\* capacities they are made with.
THEOREM TypeCorrect == Spec => []TypeOK
<1> QED
  BY TypeInit, TypeStep, PTL DEF Spec

-----------------------------------------------------------------------------
(* What a step of one goroutine leaves alone, and what no step undoes.      *)

\* Only the pump changes its control point, its locals and what it delivered.
LEMMA PumpFrame ==
  ASSUME TypeOK, [Next]_vars, ~Pump
  PROVE  pc'["pump"] = pc["pump"] /\ UNCHANGED <<job, outVars>>
<1> USE DEF TypeOK, sessionVars, inVars, partyVars, outVars, runVars, Goroutines,
            Workers, WorkerReturns
<1>1. CASE Environment \/ Party \/ Starter
  BY <1>1 DEF Environment, CallerDone, PropagateCtx, Tick, Party, PartySends,
     PartyFinishes, PartyCloses, Starter, StartReturns
<1>2. CASE WatchdogReturns \/ ResultWorker
  BY <1>2 DEF WatchdogReturns, ResultWorker, ResultTakes, ResultEmits, ResultStops,
     ResultUnchanged, EmitTo
<1>3. CASE RecvLoop
  BY <1>3 DEF RecvLoop, LoopCanceled, LoopReceives, LoopFails, LoopReturns, InUnchanged
<1>4. CASE RecvWorker
  BY <1>4 DEF RecvWorker, RecvSelects, RecvEmits, RecvStops, RecvJoins, InUnchanged, EmitTo
<1>5. CASE Main
  BY <1>5 DEF Main, MainCtxDone, MainWorkersDone, MainEvent, MainStops, MainCancels,
     MainReturns, MainUpdated, RunUnchanged
<1>6. CASE UNCHANGED vars
  BY <1>6 DEF vars
<1> QED
  BY <1>1, <1>2, <1>3, <1>4, <1>5, <1>6 DEF Next, Returned

\* Only the party and the pump touch outCh.
LEMMA OutFrame ==
  ASSUME [Next]_vars, ~Pump, ~Party
  PROVE  UNCHANGED <<outCh, produced>>
<1> USE DEF partyVars
<1>1. CASE Environment \/ Starter
  BY <1>1 DEF Environment, CallerDone, PropagateCtx, Tick, Starter, StartReturns
<1>2. CASE WatchdogReturns \/ ResultWorker
  BY <1>2 DEF WatchdogReturns, ResultWorker, ResultTakes, ResultEmits, ResultStops,
     ResultUnchanged
<1>3. CASE RecvLoop
  BY <1>3 DEF RecvLoop, LoopCanceled, LoopReceives, LoopFails, InUnchanged
<1>4. CASE RecvWorker
  BY <1>4 DEF RecvWorker, RecvSelects, RecvEmits, RecvStops, RecvJoins, InUnchanged
<1>5. CASE Main
  BY <1>5 DEF Main, MainCtxDone, MainWorkersDone, MainEvent, MainStops, MainCancels,
     MainReturns, MainUpdated
<1>6. CASE UNCHANGED vars
  BY <1>6 DEF vars
<1> QED
  BY <1>1, <1>2, <1>3, <1>4, <1>5, <1>6 DEF Next, Returned

\* Only Run moves its control point, decides the outcome and sets stopping.
LEMMA RunFrame ==
  ASSUME [Next]_vars, ~Main
  PROVE  UNCHANGED <<job, runVars, stopping>>
<1> USE DEF sessionVars, runVars, PumpUnchanged
<1>1. CASE Environment \/ Party \/ Starter
  BY <1>1 DEF Environment, CallerDone, PropagateCtx, Tick, Party, PartySends,
     PartyFinishes, PartyCloses, Starter, StartReturns
<1>2. CASE WatchdogReturns \/ ResultWorker
  BY <1>2 DEF WatchdogReturns, ResultWorker, ResultTakes, ResultEmits, ResultStops,
     ResultUnchanged
<1>3. CASE RecvLoop
  BY <1>3 DEF RecvLoop, LoopCanceled, LoopReceives, LoopFails, InUnchanged
<1>4. CASE RecvWorker
  BY <1>4 DEF RecvWorker, RecvSelects, RecvEmits, RecvStops, RecvJoins, InUnchanged
<1>5. CASE Pump
  BY <1>5 DEF Pump, PumpStops, PumpTakesMessage, PumpTakesKeyShare, PumpTakesSignature,
     PumpSeesOutClosed, PumpDrained, PumpForwards, PumpSends, PumpClassifies, PumpEmits,
     PumpSendFails
<1>6. CASE UNCHANGED vars
  BY <1>6 DEF vars
<1> QED
  BY <1>1, <1>2, <1>3, <1>4, <1>5, <1>6 DEF Next, Returned
=============================================================================
