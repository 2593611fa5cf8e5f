---------------------------- MODULE ExecutionInv ----------------------------
(***************************************************************************)
(* The inductive invariant behind the safety properties of Execution: what *)
(* relates the party's queue, the pump's place in it, the frames delivered, *)
(* the events in flight and the outcome Run has settled on.                *)
(***************************************************************************)
EXTENDS Execution

\* Messages the pump has taken from outCh.
Taken == produced - Len(outCh)
AllSent == \A i \in 1..job.msgs : delivered[i] = Recipients[i]

\* outCh holds the latest messages in order; the pump works on the last taken.
QueueInv ==
  /\ Len(outCh) <= produced
  /\ \A k \in 1..Len(outCh) : outCh[k] = Taken + k
  /\ pc["pump"] \in {"forward", "send", "classify"} =>
       cur # 0 /\ cur = Taken
  /\ pc["pump"] \notin {"forward", "send", "classify"} => cur = 0

\* A message the pump has left behind is complete, unless Run is stopping or
\* the pump gave up on that very message.
DeliveredInv ==
  \A i \in Messages :
    /\ i > Taken => delivered[i] = 0
    /\ i = cur => delivered[i] < Recipients[i]
    /\ delivered[i] <= Recipients[i]
    /\ i <= Taken /\ i # cur =>
         \/ delivered[i] = Recipients[i]
         \/ stopping
         \/ i = Taken /\ pc["pump"] = "done"

\* The party's result follows its last message, and only an EdDSA result
\* reaches Run without passing the pump.
ResultInv ==
  /\ endCh \in {"full", "taken"} => produced = job.msgs
  /\ draining => endCh = "taken" /\ job.kind # "dkgEdDSA"
  /\ pc["result"] = "handoff" => endCh = "taken" /\ job.kind = "sign"
  /\ pc["result"] = "emit" => endCh = "taken" /\ job.kind = "dkgEdDSA"
  /\ pc["pump"] = "emit" => /\ endCh = "taken" /\ job.kind # "dkgEdDSA"
                            /\ AllSent \/ stopping

\* What a completion event carries and has behind it.
CompletionEvent(ev) ==
  ev.typ = "protocolDone" =>
    /\ produced = job.msgs
    /\ job.kind = "dkgEdDSA" => ev.val = "none"
    /\ job.kind # "dkgEdDSA" => /\ ev.val = "result"
                                /\ pc["pump"] = "done"
                                /\ AllSent \/ stopping

\* A completion event still queued, and below one that Run has accepted.
EventInv ==
  /\ pc["recv"] = "emit" => recvEvent.typ # "protocolDone"
  /\ \A k \in 1..Len(events) : CompletionEvent(events[k])

DoneInv ==
  /\ result => doneFlag
  /\ doneFlag <=> main \in {"stop", "cancel", "wait", "returned"} /\ pend = "nil"
  /\ doneFlag => /\ produced = job.msgs
                 /\ result <=> job.kind # "dkgEdDSA"
                 /\ job.kind # "dkgEdDSA" => pc["pump"] = "done" /\ AllSent

\* Stopping, joining and the errgroup's error.
JoinInv ==
  /\ stopping <=> main \in {"cancel", "wait", "returned"}
  /\ main = "returned" => WorkersDone
  /\ pc["recv"] = "done" => pc["recvLoop"] = "done"
  /\ Success => groupErr = "nil"

\* A failed send is on its way to the errgroup or has reached it.
FaultInv ==
  faults \cap {"sendFailed", "sendCanceled"} # {} =>
    \/ groupErr # "nil"
    \/ pc["pump"] = "classify" /\ sendErr # "nil"
       /\ (sendErr # "canceled" \/ independent)

LateInv ==
  /\ late <= 1
  /\ gctx = "nil" \/ pc["pump"] = "send" => late = 0

\* The invariant of every run of Execution; the properties follow from it.
Inv == /\ TypeOK /\ QueueInv /\ DeliveredInv /\ ResultInv /\ EventInv
       /\ DoneInv /\ JoinInv /\ FaultInv /\ LateInv
=============================================================================
