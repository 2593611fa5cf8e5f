------------------------------ MODULE Execution ------------------------------
(***************************************************************************)
(* One protocol session: internal/tssbnb/execution.  Run starts an         *)
(* errgroup of five workers (outbound pump, watchdog, receive worker with  *)
(* its receive loop, result worker, party.Start), reads their events and   *)
(* returns only after all of them have stopped.                            *)
(*                                                                         *)
(* tss-lib's party, the transport and the caller's context are external:   *)
(* they appear as nondeterministic actions constrained by how the code     *)
(* uses them.  An error is the name of its class, "nil" is no error.       *)
(***************************************************************************)
EXTENDS Integers, Sequences, FiniteSets

CONSTANTS
  Jobs,             \* the sessions explored: a protocol, the number of messages
                    \* the party produces, a bound on the frames delivered to it
  Recipients,       \* Recipients[i]: SendFrame calls that message i needs
  OutCap,           \* capacity of outCh, len(parties) * 8 in flow
  InboundQueueCap,  \* capacity of inboundCh (cfg.InboundQueueCap)
  EventSlack,       \* Events holds InboundQueueCap + EventSlack, 8 in Run
  StallFail,        \* clock ticks without progress that fail the session
  EndlessReplays,   \* may the transport deliver ignored frames beyond that bound
  MaxFaults         \* bound: kinds of failure the environment injects

AllKinds == {"dkgECDSA", "dkgEdDSA", "sign"}
Messages == 1..Len(Recipients)

ASSUME RecipientsAssumption == Recipients \in Seq(Nat \ {0})
ASSUME JobsAssumption ==
  Jobs \subseteq [kind : AllKinds, msgs : 0..Len(Recipients), frames : Nat]
ASSUME CapsAssumption == /\ OutCap \in Nat
                         /\ InboundQueueCap \in Nat \ {0}
                         /\ EventSlack \in Nat
ASSUME BoundsAssumption == /\ StallFail \in Nat \ {0}
                           /\ EndlessReplays \in BOOLEAN
                           /\ MaxFaults \in Nat
\* The party's Start and Update run in goroutines that Run joins: a full outCh
\* whose pump has stopped would block them for ever.  An ECDSA keygen produces
\* n + 2 messages, a signing 2n + 6, against the 8n places of outCh.
ASSUME OutCapAssumption == Len(Recipients) <= OutCap

EventCap == InboundQueueCap + EventSlack

VARIABLES
  job,        \* what this session runs: a member of Jobs
  ctx,        \* the caller's context: "live", "canceled" or "deadline"
  gctx,       \* rt.Ctx.Err()
  stopping,   \* rt.stopping
  groupErr,   \* first error of the errgroup
  pc,         \* control point of each goroutine but Run's
  main,       \* control point of Run
  pend,       \* the error Run is about to return
  events,     \* rt.Events
  inbound,    \* inboundCh; closed when the receive loop is done
  recvErrCh,  \* recvErrCh, capacity 1: "nil" is empty
  recvEvent,  \* the event the receive worker is about to emit, or NoEvent
  outCh,      \* the party's queue of outbound messages
  outClosed,  \* outCh has been closed
  endCh,      \* the party's result channel, capacity 1
  produced,   \* messages the party has produced so far
  draining,   \* the pump is in drainOutbound: it holds the result
  cur,        \* the message the pump forwards, 0 if none
  sendErr,    \* the error of that message's forwardOutgoing
  independent,\* independentCancellation of its tracked transport
  delivered,  \* delivered[i]: frames of message i the transport accepted
  result,     \* the session's key share or signature is exposed
  doneFlag,   \* protocolDoneFlag
  idle,       \* ticks since lastProgressNanos, up to StallFail
  late,       \* history: frames accepted since the session's context ended
  received,   \* frames taken from the transport, up to job.frames
  faults      \* history: the failures the environment has injected

sessionVars == <<ctx, gctx, stopping, groupErr>>
inVars      == <<inbound, recvErrCh, recvEvent, received>>
partyVars   == <<outCh, outClosed, endCh, produced>>
outVars     == <<draining, cur, sendErr, independent, delivered, late>>
runVars     == <<main, pend, result, doneFlag>>
vars == <<job, ctx, gctx, stopping, groupErr, pc, main, pend, events, inbound,
          recvErrCh, recvEvent, outCh, outClosed, endCh, produced,
          draining, cur, sendErr, independent, delivered, late, result, doneFlag, idle, received, faults>>

Workers == {"pump", "watchdog", "recv", "result", "start"}
Goroutines == Workers \cup {"recvLoop"}
ControlPoints == {"select", "forward", "send", "classify", "emit", "handoff",
                  "join", "recv", "running", "done"}
RunPoints == {"select", "update", "stop", "cancel", "wait", "returned"}
EndStates == {"empty", "full", "taken", "closed"}

\* Run tells cancellation from every other error; the caller tells the
\* deadline and the stall from the rest, which is "failed" here.
CtxErrors == {"canceled", "deadline"}
Errors == {"nil", "canceled", "deadline", "stalled", "failed"}

\* What a frame turns out to be: of this session and new; of another session
\* or a duplicate; one that validation or parsing refuses; one too large.
FrameKinds == {"valid", "ignored", "rejected", "oversized"}
NoEvent == [typ |-> "none", val |-> "none"]
Event == {NoEvent}
           \cup [typ : {"inboundFrame"}, val : FrameKinds]
           \cup [typ : {"recvError"}, val : Errors \ {"nil"}]
           \cup [typ : {"protocolDone"}, val : {"result", "none"}]

\* "lateCancel" is a transport that cancels of its own accord after Run has
\* set stopping; "frame" is an inbound frame that is refused; "closed" is a
\* party that closes a channel, which tss-lib does not but the code handles.
FaultKinds == {"caller", "start", "update", "frame", "sendFailed", "closed",
               "sendCanceled", "lateCancel", "recvFailed", "recvCanceled"}
Inject(f) == faults' = faults \cup {f} /\ Cardinality(faults') <= MaxFaults
InjectIf(c, f) == IF c THEN Inject(f) ELSE UNCHANGED faults

WorkersDone == \A w \in Workers : pc[w] = "done"

Init ==
  /\ job \in Jobs
  /\ ctx = "live" /\ gctx = "nil" /\ stopping = FALSE /\ groupErr = "nil"
  /\ pc = [g \in Goroutines |-> IF g = "recvLoop" THEN "recv"
                                ELSE IF g = "start" THEN "running" ELSE "select"]
  /\ main = "select" /\ pend = "nil"
  /\ events = <<>> /\ inbound = <<>> /\ recvErrCh = "nil"
  /\ recvEvent = NoEvent
  /\ outCh = <<>> /\ outClosed = FALSE /\ endCh = "empty" /\ produced = 0
  /\ draining = FALSE /\ cur = 0 /\ sendErr = "nil" /\ independent = FALSE
  /\ delivered = [i \in Messages |-> 0] /\ late = 0
  /\ result = FALSE /\ doneFlag = FALSE /\ idle = 0 /\ received = 0
  /\ faults = {}

-----------------------------------------------------------------------------
(* sessionRuntime and the errgroup                                         *)

\* errgroup.Go: the first error is kept and cancels the group's context.
WorkerReturns(w, err) ==
  /\ pc' = [pc EXCEPT ![w] = "done"]
  /\ groupErr' = IF groupErr = "nil" THEN err ELSE groupErr
  /\ gctx' = IF err # "nil" /\ gctx = "nil" THEN "canceled" ELSE gctx

StopError == IF stopping THEN "nil" ELSE gctx

\* Mutant: the events channel as an unbounded queue.
EmitToUnbounded(w, to, ev) ==
  /\ events' = Append(events, ev)
  /\ pc' = [pc EXCEPT ![w] = to]
  /\ UNCHANGED <<gctx, groupErr>>

\* rt.Emit: worker w sends ev to Run and goes on to control point to.
EmitTo(w, to, ev) ==
  /\ Len(events) < EventCap
  /\ events' = Append(events, ev)
  /\ pc' = [pc EXCEPT ![w] = to]
  /\ UNCHANGED <<gctx, groupErr>>

-----------------------------------------------------------------------------
(* The caller, the clock and the party                                     *)

CallerDone(err) ==
  /\ main # "returned" /\ ctx = "live"
  /\ ctx' = err /\ Inject("caller")
  /\ UNCHANGED <<job, gctx, stopping, groupErr, pc, runVars, events, inVars,
                 partyVars, outVars, idle>>

\* context.WithCancel passes the parent's end on to the session's context.
PropagateCtx ==
  /\ ctx # "live" /\ gctx = "nil"
  /\ gctx' = ctx
  /\ UNCHANGED <<job, ctx, stopping, groupErr, pc, runVars, events, inVars,
                 partyVars, outVars, idle, faults>>

Tick ==
  /\ main # "returned" /\ idle < StallFail
  /\ idle' = idle + 1
  /\ UNCHANGED <<job, sessionVars, pc, runVars, events, inVars, partyVars,
                 outVars, faults>>

Environment == PropagateCtx \/ Tick \/ \E err \in CtxErrors : CallerDone(err)

\* tss-lib runs Start and Update under one lock; each may produce messages.
PartyRuns == \/ pc["start"] = "running"
             \/ main = "update" /\ pc["start"] = "done"

PartySends ==
  /\ PartyRuns /\ ~outClosed
  /\ produced < job.msgs /\ Len(outCh) < OutCap
  /\ produced' = produced + 1
  /\ outCh' = Append(outCh, produced + 1)
  /\ UNCHANGED <<job, sessionVars, pc, runVars, events, inVars, outClosed,
                 endCh, outVars, idle, faults>>

\* The result follows the last message.
PartyFinishes ==
  /\ PartyRuns /\ produced = job.msgs /\ endCh = "empty"
  /\ endCh' = "full"
  /\ UNCHANGED <<job, sessionVars, pc, runVars, events, inVars, outCh,
                 outClosed, produced, outVars, idle, faults>>

PartyCloses ==
  /\ PartyRuns /\ Inject("closed")
  /\ \/ ~outClosed /\ outClosed' = TRUE /\ UNCHANGED endCh
     \/ endCh = "empty" /\ endCh' = "closed" /\ UNCHANGED outClosed
  /\ UNCHANGED <<job, sessionVars, pc, runVars, events, inVars, outCh,
                 produced, outVars, idle>>

Party == PartySends \/ PartyFinishes \/ PartyCloses

\* The fifth worker: party.Start returns.
StartReturns(err) ==
  /\ pc["start"] = "running"
  /\ WorkerReturns("start", err) /\ InjectIf(err # "nil", "start")
  /\ UNCHANGED <<job, ctx, stopping, runVars, events, inVars, partyVars,
                 outVars, idle>>

Starter == \E err \in {"nil", "failed"} : StartReturns(err)

-----------------------------------------------------------------------------
(* runOutboundPump, drainOutbound, forwardProtocolMessage                  *)

PumpUnchanged == UNCHANGED <<job, ctx, stopping, runVars, inVars, faults>>
PumpGoes(to) == /\ pc' = [pc EXCEPT !["pump"] = to]
                /\ UNCHANGED <<gctx, groupErr>>

\* The context has ended: at the head of either loop, in either select, or
\* while emitting the result.  The test of ctx.Err() and the select after it
\* are one step here: an end that falls between the two is met by the next test.
PumpStops ==
  /\ pc["pump"] \in {"select", "emit"} /\ gctx # "nil"
  /\ WorkerReturns("pump", StopError)
  /\ UNCHANGED <<events, partyVars, outVars, idle>> /\ PumpUnchanged

PumpReady == pc["pump"] = "select" /\ gctx = "nil"

PumpTakesMessage ==
  /\ PumpReady /\ outCh # <<>>
  /\ cur' = Head(outCh)
  /\ outCh' = Tail(outCh)
  /\ PumpGoes("forward")
  /\ UNCHANGED <<events, outClosed, endCh, produced, draining, sendErr,
                 independent, delivered, late, idle>>
  /\ PumpUnchanged

\* data, ok := <-dkgECDSAEndCh
PumpTakesKeyShare ==
  /\ PumpReady /\ ~draining /\ job.kind = "dkgECDSA"
  /\ \/ /\ endCh = "full" /\ endCh' = "taken" /\ draining' = TRUE
        /\ PumpGoes("select")
     \/ /\ endCh = "closed" /\ WorkerReturns("pump", "failed")
        /\ UNCHANGED <<endCh, draining>>
  /\ UNCHANGED <<events, outCh, outClosed, produced, cur, sendErr, independent,
                 delivered, late, idle>>
  /\ PumpUnchanged

\* sig := <-rt.signResult, an unbuffered channel: the result worker's send
\* and the pump's receive are one step.
PumpTakesSignature ==
  /\ PumpReady /\ ~draining /\ pc["result"] = "handoff"
  /\ draining' = TRUE
  /\ pc' = [pc EXCEPT !["result"] = "done"]
  /\ UNCHANGED <<gctx, groupErr, events, partyVars, cur, sendErr, independent,
                 delivered, late, idle>>
  /\ PumpUnchanged

\* Mutant: a signing's pump also ends on a closed outCh.
PumpEndsOnClosedOut ==
  /\ PumpReady /\ ~draining /\ outClosed /\ outCh = <<>>
  /\ WorkerReturns("pump", "nil")
  /\ UNCHANGED <<events, partyVars, outVars, idle>> /\ PumpUnchanged

\* outCh is closed and empty while the pump still waits for the result: the
\* pump of a signing forgets outCh and waits on, that of a DKG looks once for
\* the ECDSA result and ends.
PumpSeesOutClosed ==
  /\ PumpReady /\ ~draining /\ outClosed /\ outCh = <<>> /\ job.kind # "sign"
  /\ \/ /\ job.kind = "dkgECDSA" /\ endCh = "full" /\ endCh' = "taken"
        /\ PumpGoes("emit")
     \/ /\ job.kind = "dkgECDSA" /\ endCh = "closed"
        /\ WorkerReturns("pump", "failed") /\ UNCHANGED endCh
     \/ /\ job.kind = "dkgEdDSA" \/ endCh \in {"empty", "taken"}
        /\ WorkerReturns("pump", "nil") /\ UNCHANGED endCh
  /\ UNCHANGED <<events, outCh, outClosed, produced, outVars, idle>>
  /\ PumpUnchanged

\* Mutant: the result is published over the messages still queued.
PumpSkipsDrain ==
  /\ PumpReady /\ draining
  /\ PumpGoes("emit")
  /\ UNCHANGED <<events, partyVars, outVars, idle>> /\ PumpUnchanged

\* drainOutbound has nothing more to send (outCh closed, or the default case).
PumpDrained ==
  /\ PumpReady /\ draining /\ outCh = <<>>
  /\ PumpGoes("emit")
  /\ UNCHANGED <<events, partyVars, outVars, idle>> /\ PumpUnchanged

\* Mutant: the context is not tested before each frame.
PumpForwardsUnchecked ==
  /\ pc["pump"] = "forward"
  /\ PumpGoes("send")
  /\ UNCHANGED <<events, partyVars, outVars, idle>> /\ PumpUnchanged

\* forwardOutgoing and sendFrame up to the call of SendFrame: the context is
\* tested before encoding and again before every frame; a message that cannot
\* be encoded or is too large fails before its first frame.
PumpForwards ==
  /\ pc["pump"] = "forward"
  /\ \/ /\ gctx # "nil" /\ PumpGoes("classify") /\ sendErr' = gctx
        /\ UNCHANGED faults
     \/ /\ gctx = "nil" /\ PumpGoes("send") /\ UNCHANGED <<sendErr, faults>>
     \/ /\ gctx = "nil" /\ delivered[cur] = 0 /\ PumpGoes("classify")
        /\ sendErr' = "failed" /\ Inject("sendFailed")
  /\ UNCHANGED <<job, ctx, stopping, runVars, events, inVars, partyVars,
                 draining, cur, independent, delivered, late, idle>>

\* SendFrame accepts the frame; the next recipient of the same message, or the
\* head of the loop, follows.
PumpSends ==
  /\ pc["pump"] = "send"
  /\ delivered' = [delivered EXCEPT ![cur] = @ + 1]
  /\ late' = IF gctx = "nil" THEN late ELSE late + 1
  /\ idle' = 0
  /\ IF delivered[cur] + 1 < Recipients[cur]
     THEN PumpGoes("forward") /\ UNCHANGED cur
     ELSE PumpGoes("select") /\ cur' = 0
  /\ UNCHANGED <<events, partyVars, draining, sendErr, independent>>
  /\ PumpUnchanged

\* SendFrame fails: with the session's context error once that is set, or of
\* the transport's own accord.  cancellationProvenanceTransport records a
\* cancellation that arrives before Run is stopping.
PumpSendFails(err) ==
  /\ pc["pump"] = "send" /\ err # "nil"
  /\ \/ err = gctx /\ UNCHANGED faults
     \/ err = "failed" /\ Inject("sendFailed")
     \/ err = "canceled" /\ gctx = "nil"
        /\ Inject(IF stopping THEN "lateCancel" ELSE "sendCanceled")
  /\ sendErr' = err
  /\ independent' = (err = "canceled" /\ ~stopping)
  /\ PumpGoes("classify")
  /\ UNCHANGED <<job, ctx, stopping, runVars, events, inVars, partyVars,
                 draining, cur, delivered, late, idle>>

\* Mutants: a cancellation counts as Run's own without looking at its
\* provenance, or without looking at Run either.
OwnerCanceledUntracked == sendErr = "canceled" /\ stopping
AnyCanceled == sendErr = "canceled"

\* forwardProtocolMessage: only the cancellation Run itself asked for is no error.
OwnerCanceled == sendErr = "canceled" /\ ~independent /\ stopping

PumpClassifies ==
  /\ pc["pump"] = "classify"
  /\ IF OwnerCanceled THEN PumpGoes("select") ELSE WorkerReturns("pump", sendErr)
  /\ cur' = 0 /\ sendErr' = "nil" /\ independent' = FALSE
  /\ UNCHANGED <<events, partyVars, draining, delivered, late, idle>>
  /\ PumpUnchanged

PumpEmits ==
  /\ pc["pump"] = "emit"
  /\ EmitTo("pump", "done", [typ |-> "protocolDone", val |-> "result"])
  /\ UNCHANGED <<partyVars, outVars, idle>> /\ PumpUnchanged

Pump == \/ PumpStops \/ PumpTakesMessage \/ PumpTakesKeyShare
        \/ PumpTakesSignature \/ PumpSeesOutClosed \/ PumpDrained
        \/ PumpForwards \/ PumpSends \/ PumpClassifies \/ PumpEmits
        \/ \E err \in Errors : PumpSendFails(err)

-----------------------------------------------------------------------------
(* runWatchdog                                                             *)

\* Mutant: a stall is only logged.
WatchdogOnlyWarns ==
  /\ pc["watchdog"] = "select"
  /\ gctx # "nil" /\ WorkerReturns("watchdog", "nil")
  /\ UNCHANGED <<job, ctx, stopping, runVars, events, inVars, partyVars,
                 outVars, idle, faults>>

\* A tick that finds the session idle for StallFail fails it, also when the
\* context is done: select picks either ready case.  Shorter idle times only log.
WatchdogReturns ==
  /\ pc["watchdog"] = "select"
  /\ \/ gctx # "nil" /\ WorkerReturns("watchdog", "nil")
     \/ idle >= StallFail /\ WorkerReturns("watchdog", "stalled")
  /\ UNCHANGED <<job, ctx, stopping, runVars, events, inVars, partyVars,
                 outVars, idle, faults>>

-----------------------------------------------------------------------------
(* runProtocolResultWorker                                                 *)

ResultUnchanged == UNCHANGED <<job, ctx, stopping, runVars, inVars, outCh,
                               outClosed, produced, outVars, idle, faults>>

\* reflect.Select over ctx.Done() and the result channel of the kinds whose
\* result does not go to the pump directly.
ResultTakes ==
  /\ pc["result"] = "select"
  /\ \/ /\ gctx # "nil" /\ WorkerReturns("result", "nil") /\ UNCHANGED endCh
     \/ /\ job.kind # "dkgECDSA" /\ endCh = "full" /\ endCh' = "taken"
        /\ pc' = [pc EXCEPT !["result"] =
                    IF job.kind = "sign" THEN "handoff" ELSE "emit"]
        /\ UNCHANGED <<gctx, groupErr>>
     \/ /\ job.kind # "dkgECDSA" /\ endCh = "closed"
        /\ WorkerReturns("result", "failed") /\ UNCHANGED endCh
  /\ UNCHANGED events /\ ResultUnchanged

\* The EdDSA result is not drained behind: it goes straight to Run.
ResultEmits ==
  /\ pc["result"] = "emit"
  /\ EmitTo("result", "done", [typ |-> "protocolDone", val |-> "none"])
  /\ UNCHANGED endCh /\ ResultUnchanged

\* Mutant: the handoff of a signature does not watch the context.
ResultHandsOffBlindly ==
  /\ pc["result"] = "emit" /\ gctx # "nil"
  /\ WorkerReturns("result", "nil")
  /\ UNCHANGED <<events, endCh>> /\ ResultUnchanged

ResultStops ==
  /\ pc["result"] \in {"handoff", "emit"} /\ gctx # "nil"
  /\ WorkerReturns("result", "nil")
  /\ UNCHANGED <<events, endCh>> /\ ResultUnchanged

ResultWorker == ResultTakes \/ ResultEmits \/ ResultStops

-----------------------------------------------------------------------------
(* runRecvWorker and RecvLoop                                              *)

InUnchanged == UNCHANGED <<job, ctx, stopping, runVars, partyVars, outVars,
                           idle>>

\* RecvLoop leaves an error in recvErrCh, if there is room, and closes inboundCh.
LoopReturns(err) ==
  /\ recvErrCh' = IF recvErrCh = "nil" THEN err ELSE recvErrCh
  /\ pc' = [pc EXCEPT !["recvLoop"] = "done"]
  /\ UNCHANGED <<gctx, groupErr, events, inbound, recvEvent>>

\* RecvFrame returns a frame; select queues it, or prefers the context's end,
\* and a full queue fails the session.
LoopReceives(f) ==
  /\ pc["recvLoop"] = "recv"
  /\ ~(EndlessReplays /\ f = "ignored") => received < job.frames
  /\ received' = IF received < job.frames THEN received + 1 ELSE received
  /\ \/ f = "oversized" /\ LoopReturns("failed")
     \/ f # "oversized" /\ gctx # "nil" /\ LoopReturns(gctx)
     \/ /\ f # "oversized" /\ Len(inbound) < InboundQueueCap
        /\ inbound' = Append(inbound, f)
        /\ UNCHANGED <<pc, gctx, groupErr, events, recvErrCh, recvEvent>>
     \/ /\ f # "oversized" /\ gctx = "nil" /\ Len(inbound) >= InboundQueueCap
        /\ LoopReturns("failed")
  /\ InjectIf(f \in {"rejected", "oversized"}, "frame")
  /\ InUnchanged

\* RecvFrame returns the context's error once there is one.
LoopCanceled ==
  /\ pc["recvLoop"] = "recv" /\ gctx # "nil"
  /\ LoopReturns(gctx)
  /\ UNCHANGED <<received, faults>> /\ InUnchanged

\* RecvFrame fails of the transport's own accord.
LoopFails(err) ==
  /\ pc["recvLoop"] = "recv"
  /\ \/ err = "failed" /\ Inject("recvFailed")
     \/ err = "canceled" /\ gctx = "nil" /\ Inject("recvCanceled")
  /\ LoopReturns(err)
  /\ UNCHANGED received /\ InUnchanged

RecvLoop == \/ LoopCanceled
            \/ \E f \in FrameKinds : LoopReceives(f)
            \/ \E err \in Errors : LoopFails(err)

\* The select of the receive worker; a closed inboundCh also ends it.
RecvSelects ==
  /\ pc["recv"] = "select"
  /\ \/ /\ gctx # "nil" \/ (pc["recvLoop"] = "done" /\ inbound = <<>>)
        /\ pc' = [pc EXCEPT !["recv"] = "join"]
        /\ UNCHANGED <<inbound, recvErrCh, recvEvent>>
     \/ /\ inbound # <<>>
        /\ recvEvent' = [typ |-> "inboundFrame", val |-> Head(inbound)]
        /\ inbound' = Tail(inbound)
        /\ pc' = [pc EXCEPT !["recv"] = "emit"]
        /\ UNCHANGED recvErrCh
     \/ /\ recvErrCh # "nil"
        /\ recvEvent' = [typ |-> "recvError", val |-> recvErrCh]
        /\ recvErrCh' = "nil"
        /\ pc' = [pc EXCEPT !["recv"] = "emit"]
        /\ UNCHANGED inbound
  /\ UNCHANGED <<gctx, groupErr, events, received>> /\ UNCHANGED faults /\ InUnchanged

RecvEmits ==
  /\ pc["recv"] = "emit"
  /\ EmitTo("recv", IF recvEvent.typ = "recvError" THEN "join" ELSE "select",
            recvEvent)
  /\ recvEvent' = NoEvent
  /\ UNCHANGED <<inbound, recvErrCh, received>> /\ UNCHANGED faults /\ InUnchanged

RecvStops ==
  /\ pc["recv"] = "emit" /\ gctx # "nil"
  /\ pc' = [pc EXCEPT !["recv"] = "join"]
  /\ recvEvent' = NoEvent
  /\ UNCHANGED <<gctx, groupErr, events, inbound, recvErrCh, received>>
  /\ UNCHANGED faults /\ InUnchanged

\* Mutant: the receive worker does not wait for its receive loop.
RecvReturnsUnjoined ==
  /\ pc["recv"] = "join"
  /\ WorkerReturns("recv", "nil")
  /\ UNCHANGED <<events, inVars>> /\ UNCHANGED faults /\ InUnchanged

\* The deferred <-recvLoopDone.
RecvJoins ==
  /\ pc["recv"] = "join" /\ pc["recvLoop"] = "done"
  /\ WorkerReturns("recv", "nil")
  /\ UNCHANGED <<events, inVars>> /\ UNCHANGED faults /\ InUnchanged

RecvWorker == RecvSelects \/ RecvEmits \/ RecvStops \/ RecvJoins

-----------------------------------------------------------------------------
(* Run: the select loop, handleEvent, StopAndWait, finishTerminalEvent     *)

RunUnchanged == UNCHANGED <<job, ctx, pc, inVars, outVars, groupErr>>

\* A terminal decision: Run stops the workers and will return err.
Terminate(err) == main' = "stop" /\ pend' = err

HandleGroupResult(err, done) ==
  IF err = "nil" THEN (IF done THEN "nil" ELSE "failed")
  ELSE IF err = "canceled" /\ done THEN "nil" ELSE err

MainCtxDone ==
  /\ main = "select" /\ ctx # "live"
  /\ Terminate(ctx)
  /\ UNCHANGED <<gctx, stopping, events, partyVars, result, doneFlag, idle>>
  /\ UNCHANGED faults /\ RunUnchanged

MainWorkersDone ==
  /\ main = "select" /\ WorkersDone
  /\ Terminate(HandleGroupResult(groupErr, doneFlag))
  /\ UNCHANGED <<gctx, stopping, events, partyVars, result, doneFlag, idle>>
  /\ UNCHANGED faults /\ RunUnchanged

\* handleEvent of an inbound frame: progress is marked before the frame is
\* looked at; a new frame of this session goes to party.Update.
MainInboundFrame(f) ==
  /\ idle' = 0
  /\ \/ f = "valid" /\ main' = "update" /\ UNCHANGED pend
     \/ f = "ignored" /\ UNCHANGED <<main, pend>>
     \/ f = "rejected" /\ Terminate("failed")
  /\ UNCHANGED <<result, doneFlag>>

MainRecvError(err) ==
  /\ Terminate(IF err = "canceled" /\ doneFlag THEN "nil" ELSE err)
  /\ UNCHANGED <<result, doneFlag, idle>>

MainProtocolDone(val) ==
  /\ \/ ctx # "live" /\ Terminate(ctx) /\ UNCHANGED <<result, doneFlag>>
     \/ /\ ctx = "live" /\ Terminate("nil")
        /\ result' = (val = "result") /\ doneFlag' = TRUE
  /\ UNCHANGED idle

MainEvent ==
  /\ main = "select" /\ events # <<>>
  /\ events' = Tail(events)
  /\ \/ Head(events).typ = "inboundFrame" /\ MainInboundFrame(Head(events).val)
     \/ Head(events).typ = "recvError" /\ MainRecvError(Head(events).val)
     \/ Head(events).typ = "protocolDone" /\ MainProtocolDone(Head(events).val)
  /\ UNCHANGED <<gctx, stopping, partyVars>> /\ UNCHANGED faults /\ RunUnchanged

\* party.Update returns, fails, or panics into Run's deferred recover.
MainUpdated(err) ==
  /\ main = "update"
  /\ \/ err = "nil" /\ main' = "select" /\ idle' = 0 /\ UNCHANGED pend
     \/ err # "nil" /\ Terminate(err) /\ UNCHANGED idle
  /\ UNCHANGED <<gctx, stopping, events, partyVars, result, doneFlag>>
  /\ InjectIf(err # "nil", "update") /\ RunUnchanged

\* Stop: the flag first, then the cancellation.
MainStops ==
  /\ main = "stop" /\ main' = "cancel" /\ stopping' = TRUE
  /\ UNCHANGED <<gctx, events, partyVars, pend, result, doneFlag, idle>>
  /\ UNCHANGED faults /\ RunUnchanged

MainCancels ==
  /\ main = "cancel" /\ main' = "wait"
  /\ gctx' = IF gctx = "nil" THEN "canceled" ELSE gctx
  /\ UNCHANGED <<stopping, events, partyVars, pend, result, doneFlag, idle>>
  /\ UNCHANGED faults /\ RunUnchanged

\* Mutant: the result outlives a worker's error.
MainReturnsResult ==
  /\ main = "wait" /\ WorkersDone /\ main' = "returned"
  /\ pend' = IF pend = "nil" THEN groupErr ELSE pend
  /\ UNCHANGED <<result, doneFlag>>
  /\ UNCHANGED <<gctx, stopping, events, partyVars, idle>> /\ UNCHANGED faults /\ RunUnchanged

\* Wait, then finishTerminalEvent: a worker's error withdraws the result.
MainReturns ==
  /\ main = "wait" /\ WorkersDone /\ main' = "returned"
  /\ IF pend = "nil" /\ groupErr # "nil"
     THEN /\ result' = FALSE /\ doneFlag' = FALSE
          /\ pend' = HandleGroupResult(groupErr, FALSE)
     ELSE UNCHANGED <<result, doneFlag, pend>>
  /\ UNCHANGED <<gctx, stopping, events, partyVars, idle>> /\ UNCHANGED faults /\ RunUnchanged

Main == \/ MainCtxDone \/ MainWorkersDone \/ MainEvent
        \/ MainStops \/ MainCancels \/ MainReturns
        \/ \E err \in {"nil", "failed"} : MainUpdated(err)

\* Run has returned: nothing of the session is left to take a step.
Returned == main = "returned" /\ UNCHANGED vars

Next == \/ Environment \/ Party \/ Starter \/ Pump \/ WatchdogReturns
        \/ ResultWorker \/ RecvLoop \/ RecvWorker \/ Main \/ Returned

Spec == Init /\ [][Next]_vars

\* The Go scheduler runs every goroutine that can take a step; SendFrame,
\* party.Start and party.Update return; RecvFrame honours its context.
\* Nothing makes the caller cancel, a peer's frame arrive or the clock run.
Progress ==
  /\ WF_vars(PropagateCtx) /\ WF_vars(Starter) /\ WF_vars(Pump)
  /\ WF_vars(WatchdogReturns) /\ WF_vars(ResultWorker)
  /\ WF_vars(LoopCanceled) /\ WF_vars(RecvWorker) /\ WF_vars(Main)

FairSpec == Spec /\ Progress

-----------------------------------------------------------------------------
(* Properties                                                              *)

Success == main = "returned" /\ pend = "nil"

\* Every variable keeps its type: the channels never exceed the capacity they
\* are made with.
TypeOK ==
  /\ job \in Jobs
  /\ ctx \in {"live"} \cup CtxErrors
  /\ gctx \in {"nil"} \cup CtxErrors
  /\ stopping \in BOOLEAN
  /\ groupErr \in Errors
  /\ pc \in [Goroutines -> ControlPoints]
  /\ main \in RunPoints
  /\ pend \in Errors
  /\ events \in Seq(Event) /\ Len(events) <= EventCap
  /\ inbound \in Seq(FrameKinds) /\ Len(inbound) <= InboundQueueCap
  /\ recvErrCh \in Errors
  /\ recvEvent \in Event
  /\ outCh \in Seq(Messages) /\ Len(outCh) <= OutCap
  /\ outClosed \in BOOLEAN
  /\ endCh \in EndStates
  /\ produced \in 0..job.msgs
  /\ draining \in BOOLEAN /\ cur \in 0..Len(Recipients)
  /\ sendErr \in Errors /\ independent \in BOOLEAN
  /\ delivered \in [Messages -> Nat]
  /\ late \in Nat
  /\ result \in BOOLEAN /\ doneFlag \in BOOLEAN
  /\ idle \in 0..StallFail
  /\ received \in 0..job.frames
  /\ faults \subseteq FaultKinds

\* README.md:207-212: on success, failure or cancellation Run returns only
\* after every worker, and the receive loop behind the receive worker, has
\* stopped.
CompletionBarrier ==
  main = "returned" => \A g \in Goroutines : pc[g] = "done"

\* A run that returns an error exposes neither key share nor signature, in
\* whatever order the result, the worker failure and the cancellation came.
FailureHidesResult == main = "returned" /\ pend # "nil" => ~result

\* A run of ECDSA DKG or signing that succeeds exposes its result, and the
\* transport has accepted every frame of every message the party produced.
SuccessIsComplete ==
  Success /\ job.kind # "dkgEdDSA" =>
    /\ result
    /\ \A i \in 1..produced : delivered[i] = Recipients[i]

\* A send that failed for any reason but Run's own stop is never papered over:
\* the run does not succeed, even when the failure comes after the result.
SendFailureFails ==
  Success => faults \cap {"sendFailed", "sendCanceled"} = {}

\* No frame is sent twice, and until Run decides to stop the messages leave in
\* the order the party produced them: one is begun only when the one before it
\* has reached all its recipients.  (While Run is between setting stopping and
\* cancelling, a transport that cancels of its own accord can open a gap.)
DeliveryInOrder ==
  \A i \in Messages :
    /\ delivered[i] <= Recipients[i]
    /\ ~stopping /\ i > 1 /\ delivered[i] > 0 => delivered[i - 1] = Recipients[i - 1]

\* Once the session's context has ended, at most the one SendFrame call already
\* in flight is accepted: neither the remaining recipients of its message nor a
\* queued message follow.
AtMostOneLateFrame == late <= 1

\* Run returns if only the clock runs on: the watchdog ends a session whose
\* peers fall silent (watchdog.go:25-72).
Termination == WF_vars(Tick) => <>(main = "returned")

\* Run returns once the caller's context is done, whatever the clock does: no
\* worker is left in a send, a handoff or a receive (runtime.go StopAndWait).
CancellationReturns == ctx # "live" ~> main = "returned"

\* A result the party publishes reaches the caller of Run, whatever happens to
\* outCh afterwards, unless the environment fails or the session stalls.  (The
\* pump of an ECDSA DKG that has seen outCh closed no longer waits for one.)
ResultReachesCaller ==
  endCh = "full" /\ (job.kind = "dkgECDSA" => ~outClosed)
    ~> Success \/ faults \ {"closed"} # {} \/ groupErr = "stalled"

\* execution_test.go:1219-1297: a failed send is the error Run returns, when
\* nothing else went wrong: the caller has not canceled, the errgroup's first
\* error is the send's, and no stall, cancellation or other failure came first.
ErrorProvenance ==
  main = "returned" /\ ctx = "live" /\ faults = {"sendFailed"} /\ groupErr = "failed"
    => pend = "failed"

\* outbound.go:77: frames already produced are sent before the result is
\* published; here for EdDSA DKG.
EdDSADrained ==
  Success /\ job.kind = "dkgEdDSA" =>
    \A i \in 1..produced : delivered[i] = Recipients[i]

\* RecvLoop's errors are terminal for the session (inbound.go:52-86, "recv loop
\* stopped before protocol end"): the receive worker does not leave a live
\* session with the error still in recvErrCh.
RecvErrorReported ==
  pc["recv"] = "done" /\ gctx = "nil" => recvErrCh = "nil"

\* What the caller of Run sees of the state above.
S == INSTANCE Session WITH
       total <- job.msgs,
       lossless <- job.kind # "dkgEdDSA",
       status <- IF main # "returned" THEN "running"
                 ELSE IF pend = "nil" THEN "succeeded" ELSE "failed",
       exposed <- main = "returned" /\ result

\* Run implements the session its callers rely on.
ImplementsSession == S!Spec
=============================================================================
