---------------------------- MODULE MCExecution ----------------------------
(* Small sessions for TLC: protocol, messages produced, frames delivered,   *)
(* and how many frames each message of the party needs.                     *)
EXTENDS ExecutionInv

\* A broadcast, then a message to two peers.
BroadcastThenTwo == <<1, 2>>
\* One broadcast.
OneBroadcast == <<1>>

Job(kinds, msgs, frames) == [kind : kinds, msgs : {msgs}, frames : {frames}]

\* The outbound half in full with a silent network, and the inbound half in
\* full with a party that has nothing but its result to publish.
OutboundAndInbound == Job(AllKinds, 2, 0) \cup Job({"dkgEdDSA"}, 0, 2)

OneMessageECDSA == Job({"dkgECDSA", "sign"}, 1, 0)
OneMessageEdDSA == Job({"dkgEdDSA"}, 1, 0)
OneMessageSign == Job({"sign"}, 1, 0)
OneMessageOneFrame == Job({"sign"}, 1, 1)
=============================================================================
