------------------------------- MODULE Session -------------------------------
(***************************************************************************)
(* What one call of ProtocolExecution.Run promises its caller (README.md,   *)
(* "Responsibility boundary"): while it runs it hands the party's messages  *)
(* to the transport; it returns once; a success exposes the result behind   *)
(* all the frames, a failure exposes nothing; afterwards nothing happens.   *)
(***************************************************************************)
EXTENDS Integers, Sequences

CONSTANT Recipients   \* Recipients[i]: frames message i consists of

VARIABLES
  total,       \* messages the local party produces before its result
  lossless,    \* does the session promise delivery before success
  status,      \* "running", "succeeded" or "failed"
  exposed,     \* the caller can read a key share or a signature
  produced,    \* messages produced so far
  delivered    \* delivered[i]: frames of message i the transport accepted

vars == <<total, lossless, status, exposed, produced, delivered>>

Init == /\ total \in 0..Len(Recipients) /\ lossless \in BOOLEAN
        /\ status = "running" /\ exposed = FALSE
        /\ produced = 0 /\ delivered = [i \in DOMAIN Recipients |-> 0]

Produce == /\ status = "running" /\ produced < total
           /\ produced' = produced + 1
           /\ UNCHANGED <<total, lossless, status, exposed, delivered>>

Deliver(i) == /\ status = "running"
              /\ i <= produced /\ delivered[i] < Recipients[i]
              /\ delivered' = [delivered EXCEPT ![i] = @ + 1]
              /\ UNCHANGED <<total, lossless, status, exposed, produced>>

\* The result follows the last message, so a success has produced them all.
Succeed == /\ status = "running" /\ produced = total
           /\ lossless => \A i \in 1..total : delivered[i] = Recipients[i]
           /\ status' = "succeeded" /\ exposed' = lossless
           /\ UNCHANGED <<total, lossless, produced, delivered>>

Fail == /\ status = "running"
        /\ status' = "failed"
        /\ UNCHANGED <<total, lossless, exposed, produced, delivered>>

Next == Produce \/ (\E i \in DOMAIN Recipients : Deliver(i)) \/ Succeed \/ Fail

Spec == Init /\ [][Next]_vars
=============================================================================
