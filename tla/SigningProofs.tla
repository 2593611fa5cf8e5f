--------------------------- MODULE SigningProofs ---------------------------
(***************************************************************************)
(* The invariant behind the properties of the signing sessions is kept by  *)
(* every step, for every set of parties, calls and requests.  From it, and *)
(* from what module DerivationProofs says of normalising and hashing, the  *)
(* properties that the run SigningSessions checks on a small instance      *)
(* follow in general.                                                      *)
(***************************************************************************)
EXTENDS Signing, DerivationProofs, WellFoundedInduction

-----------------------------------------------------------------------------
(* Requests                                                                *)

\* What an accepted request is made of.
LEMMA RequestFacts ==
  ASSUME NEW c \in Calls, NEW r \in Requests[c], ValidRequest(r)
  PROVE  /\ r.Context[1] \in Contexts
         /\ r.Algorithm \in Texts /\ r.Curve \in Texts /\ r.Chain \in Texts
         /\ r.KeyID \in Ids /\ r.SessionID \in Names
         /\ r.KeyID \in Names /\ TrimSpace(r.KeyID) \in Names
<1>1. r \in SignRequests
  BY RequestsAssumption
<1>2. r.Context \in Seq(Contexts) /\ r.Context # <<>>
  BY <1>1 DEF SignRequests, ValidRequest
<1>3. r.Context[1] \in Contexts
  BY <1>2
<1>4. r.SessionID # Blank /\ TrimSpace(r.KeyID) # Blank
  BY DEF ValidRequest, ValidateSign, IsValidSessionDescriptor
<1> QED
  BY <1>1, <1>3, <1>4, RequestsAssumption DEF SignRequests

\* A request for an ECDSA session has an ECDSA context.
LEMMA SessionAlgorithm ==
  ASSUME NEW c \in Calls, NEW r \in Requests[c], ValidRequest(r), IsECDSA(r.Algorithm)
  PROVE  NormalizeContext(r.Context[1]).Algorithm = Plain("ecdsa")
<1> DEFINE n == NormalizeContext(r.Context[1])
           s == [n EXCEPT !.Algorithm = r.Algorithm, !.Curve = r.Curve, !.Chain = r.Chain]
<1>1. r.Context[1] \in Contexts /\ r.Algorithm \in Texts /\ r.Curve \in Texts /\ r.Chain \in Texts
  BY RequestFacts
<1>2. n \in Contexts /\ NormalizeContext(n) = n
  BY <1>1, NormalFields, NormalizeOnce
<1>3. NormalizeContext(n).Algorithm = NormalizeTexts(s).Algorithm
  BY DEF ValidRequest, validateDerivationContextForSession, MatchesSession
<1> HIDE DEF n
<1>4. s \in Contexts /\ s.Algorithm = r.Algorithm
  BY <1>1, <1>2 DEF Contexts
<1> HIDE DEF s
<1>5. NormalizeTexts(s).Algorithm = Plain(AlgName(s))
  BY <1>4, NormalTexts
<1>6. TrimLower(r.Algorithm) = Plain(SaysName(r.Algorithm))
  BY <1>1, LowerFacts
<1>7. SaysName(r.Algorithm) \in {"", "ecdsa"}
  <2>1. TrimLower(r.Algorithm) \in {Plain(""), Plain("ecdsa")}
    BY DEF IsECDSA, Blank
  <2>2. \A x, y : Plain(x) = Plain(y) <=> x = y
    BY DEF Plain
  <2> QED
    BY <1>6, <2>1, <2>2
<1>8. AlgName(s) = "ecdsa"
  BY <1>4, <1>7 DEF AlgName
<1> QED
  BY <1>2, <1>3, <1>5, <1>8 DEF n

\* What an accepted call is about, traced back to its request.
LEMMA Traced ==
  ASSUME InputInv, NEW c \in Calls, Accepted(c)
  PROVE  \E r \in Requests[c] :
           /\ ValidRequest(r) /\ ValidHashInput(NormalizeContext(r.Context[1]))
           /\ input[c] = <<SignInput(r)>> /\ In(c) = SignInput(r)
           /\ said[c] = Meaning(r.Context[1])
<1>1. <<input[c], said[c]>> \in AcceptedInputs[c]
  BY DEF InputInv
<1>2. PICK r \in Requests[c] :
        /\ ValidRequest(r) /\ ValidHashInput(NormalizeContext(r.Context[1]))
        /\ <<input[c], said[c]>> = << <<SignInput(r)>>, Meaning(r.Context[1])>>
  BY <1>1 DEF AcceptedInputs
<1>3. input[c] = <<SignInput(r)>> /\ said[c] = Meaning(r.Context[1])
  BY <1>2
<1>4. In(c) = SignInput(r)
  BY <1>3 DEF In
<1> QED
  BY <1>2, <1>3, <1>4

\* The fields of a call's input.
LEMMA InputFields ==
  ASSUME NEW r
  PROVE  LET i == SignInput(r) IN
         /\ i.SessionID = r.SessionID /\ i.KeyID = r.KeyID /\ i.Parties = r.Parties
         /\ i.Digest = r.Digest /\ i.Algorithm = r.Algorithm
         /\ i.DerivationContext = NormalizeContext(r.Context[1])
         /\ i.DerivationContextHash = HashV1(NormalizeContext(r.Context[1]))
BY DEF SignInput

\* The names of an accepted call are in the table, and the key it signs with is
\* the one its request asks for.
LEMMA InputFacts ==
  ASSUME InputInv, NEW c \in Calls, Accepted(c)
  PROVE  /\ In(c).SessionID \in Names /\ In(c).KeyID \in Names
         /\ In(c).KeyID \in Ids /\ TrimSpace(In(c).KeyID) \in Names
         /\ PartyInputs(c).key = RequestedKey(c)
         /\ PartyInputs(c).num = In(c).Digest.num
<1>1. PICK r \in Requests[c] :
        ValidRequest(r) /\ In(c) = SignInput(r) /\ said[c] = Meaning(r.Context[1])
  BY Traced
<1>2. /\ In(c).SessionID = r.SessionID /\ In(c).KeyID = r.KeyID
      /\ In(c).DerivationContext = NormalizeContext(r.Context[1])
  BY <1>1, InputFields
<1>3. r.Context[1] \in Contexts
  BY <1>1, RequestFacts
<1>4. said[c].child = Indices(r.Context[1].ChildPath)
  BY <1>1, MeaningChild
<1>5. RequestedKey(c) = DeriveECDSAChildKey(Loaded(c).pub, Loaded(c).chainCode, In(c).DerivationContext)
  BY <1>2, <1>3, <1>4, DerivesRequested DEF RequestedKey
<1> QED
  BY <1>1, <1>2, <1>5, RequestFacts DEF PartyInputs

-----------------------------------------------------------------------------
(* The type invariant and where a call stands                              *)

\* What a call goes to, and what it fails with, moves that call only.
LEMMA MoveFacts ==
  ASSUME TypeOK, NEW c \in Calls
  PROVE  /\ \A to \in Points : Goes(c, to) =>
              /\ pc' \in [Calls -> Points] /\ pc'[c] = to /\ err' = err
              /\ \A d \in Calls \ {c} : pc'[d] = pc[d]
         /\ \A e \in Errors : Fails(c, e) =>
              /\ pc' \in [Calls -> Points] /\ err' \in [Calls -> Errors]
              /\ pc'[c] = "returned" /\ err'[c] = e
              /\ \A d \in Calls \ {c} : pc'[d] = pc[d] /\ err'[d] = err[d]
<1>1. pc \in [Calls -> Points] /\ err \in [Calls -> Errors] /\ "returned" \in Points
  BY DEF TypeOK, Points
<1> QED
  BY <1>1 DEF Goes, Fails

\* An accepted call keeps its input, and what it says, for good.
LEMMA InputStays ==
  ASSUME TypeOK, ControlInv, [Next]_vars, NEW c \in Calls, Accepted(c)
  PROVE  input'[c] = input[c] /\ said'[c] = said[c] /\ Accepted(c)' /\ In(c)' = In(c)
<1>1. pc[c] # "idle"
  BY DEF ControlInv
<1>2. input'[c] = input[c] /\ said'[c] = said[c]
  <2>1. CASE UNCHANGED vars
    BY <2>1 DEF vars
  <2>2. ASSUME NEW d \in Calls, RunSignSession(d)
        PROVE  input'[c] = input[c] /\ said'[c] = said[c]
    <3>1. d # c
      BY <1>1, <2>2 DEF RunSignSession
    <3> QED
      BY <2>2, <3>1 DEF RunSignSession, TypeOK
  <2>3. ASSUME NEW d \in Calls,
               \/ prepareDerivedECDSASignJob(d) \/ SendFrame(d) \/ RunFails(d)
               \/ \E e \in Calls : RecvFrame(d, e)
               \/ StoreUnderSession(d) \/ StoreUnderKey(d) \/ Export(d)
        PROVE  input'[c] = input[c] /\ said'[c] = said[c]
    BY <2>3 DEF prepareDerivedECDSASignJob, SendFrame, RunFails, RecvFrame, StoreUnderSession,
                StoreUnderKey, Export
  <2> QED
    BY <2>1, <2>2, <2>3 DEF Next, Finished
<1> QED
  BY <1>2 DEF Accepted, In

\* Only the facade writes an input, and only that of the call it accepts.
LEMMA InputStep ==
  ASSUME TypeOK, Next
  PROVE  \/ UNCHANGED <<input, said>>
         \/ \E c \in Calls : \E r \in Requests[c] :
              /\ pc[c] = "idle" /\ pc' = [pc EXCEPT ![c] = "accepted"] /\ err' = err
              /\ ValidRequest(r) /\ ValidHashInput(NormalizeContext(r.Context[1]))
              /\ input' = [input EXCEPT ![c] = <<SignInput(r)>>]
              /\ said' = [said EXCEPT ![c] = Meaning(r.Context[1])]
              /\ UNCHANGED <<heard, net, sigs>>
<1>1. ASSUME NEW c \in Calls, RunSignSession(c)
      PROVE  \/ UNCHANGED <<input, said>>
             \/ \E r \in Requests[c] :
                  /\ pc[c] = "idle" /\ pc' = [pc EXCEPT ![c] = "accepted"] /\ err' = err
                  /\ ValidRequest(r) /\ ValidHashInput(NormalizeContext(r.Context[1]))
                  /\ input' = [input EXCEPT ![c] = <<SignInput(r)>>]
                  /\ said' = [said EXCEPT ![c] = Meaning(r.Context[1])]
                  /\ UNCHANGED <<heard, net, sigs>>
  BY <1>1, Zenon DEF RunSignSession, Goes
<1>2. ASSUME NEW c \in Calls,
             \/ prepareDerivedECDSASignJob(c) \/ SendFrame(c) \/ RunFails(c)
             \/ \E d \in Calls : RecvFrame(c, d)
             \/ StoreUnderSession(c) \/ StoreUnderKey(c) \/ Export(c)
      PROVE  UNCHANGED <<input, said>>
  BY <1>2 DEF prepareDerivedECDSASignJob, SendFrame, RunFails, RecvFrame, StoreUnderSession,
              StoreUnderKey, Export
<1> QED
  BY <1>1, <1>2 DEF Next, Finished, vars

\* Every step moves at most one call, along its program.
LEMMA PcStep ==
  ASSUME TypeOK, Next
  PROVE  \/ UNCHANGED <<pc, err>>
         \/ \E c \in Calls, to \in Points : Goes(c, to) /\ pc[c] # "returned"
         \/ \E c \in Calls, e \in Errors : Fails(c, e) /\ pc[c] # "returned"
<1> USE DEF Points, Errors
<1>1. ASSUME NEW c \in Calls, RunSignSession(c)
      PROVE  \/ \E to \in Points : Goes(c, to) /\ pc[c] # "returned"
             \/ \E e \in Errors : Fails(c, e) /\ pc[c] # "returned"
  BY <1>1 DEF RunSignSession
<1>2. ASSUME NEW c \in Calls, prepareDerivedECDSASignJob(c)
      PROVE  \/ \E to \in Points : Goes(c, to) /\ pc[c] # "returned"
             \/ \E e \in Errors : Fails(c, e) /\ pc[c] # "returned"
  BY <1>2 DEF prepareDerivedECDSASignJob
<1>3. ASSUME NEW c \in Calls, SendFrame(c)
      PROVE  UNCHANGED <<pc, err>>
  BY <1>3 DEF SendFrame
<1>4. ASSUME NEW c \in Calls, NEW d \in Calls, RecvFrame(c, d)
      PROVE  UNCHANGED <<pc, err>> \/ (Fails(c, "frame") /\ pc[c] # "returned")
  BY <1>4 DEF RecvFrame
<1>5. ASSUME NEW c \in Calls, RunFails(c)
      PROVE  Fails(c, "failed") /\ pc[c] # "returned"
  BY <1>5 DEF RunFails
<1>6. ASSUME NEW c \in Calls, StoreUnderSession(c)
      PROVE  Goes(c, "sessionStored") /\ pc[c] # "returned"
  BY <1>6 DEF StoreUnderSession
<1>7. ASSUME NEW c \in Calls, StoreUnderKey(c)
      PROVE  Goes(c, "keyStored") /\ pc[c] # "returned"
  BY <1>7 DEF StoreUnderKey
<1>8. ASSUME NEW c \in Calls, Export(c)
      PROVE  \/ Goes(c, "returned") /\ pc[c] # "returned"
             \/ Fails(c, "failed") /\ pc[c] # "returned"
  BY <1>8 DEF Export
<1> QED
  BY <1>1, <1>2, <1>3, <1>4, <1>5, <1>6, <1>7, <1>8 DEF Next, Finished, vars

\* The table keeps its shape, and an entry is written by one call at a time.
LEMMA TableStep ==
  ASSUME TypeOK, Next
  PROVE  \/ UNCHANGED sigs
         \/ \E c \in Calls : /\ pc[c] = "running" /\ PartyEnds(c)
                             /\ setECDSASignature(c, In(c).SessionID)
                             /\ Goes(c, "sessionStored") /\ UNCHANGED <<input, said, heard, net>>
         \/ \E c \in Calls : /\ pc[c] = "sessionStored" /\ setECDSASignature(c, In(c).KeyID)
                             /\ Goes(c, "keyStored") /\ UNCHANGED <<input, said, heard, net>>
<1>1. ASSUME NEW c \in Calls,
             \/ RunSignSession(c) \/ prepareDerivedECDSASignJob(c) \/ SendFrame(c)
             \/ RunFails(c) \/ (\E d \in Calls : RecvFrame(c, d)) \/ Export(c)
      PROVE  UNCHANGED sigs
  BY <1>1 DEF RunSignSession, prepareDerivedECDSASignJob, SendFrame, RunFails, RecvFrame, Export
<1>2. ASSUME NEW c \in Calls, StoreUnderSession(c)
      PROVE  /\ pc[c] = "running" /\ PartyEnds(c)
             /\ setECDSASignature(c, In(c).SessionID)
             /\ Goes(c, "sessionStored") /\ UNCHANGED <<input, said, heard, net>>
  BY <1>2 DEF StoreUnderSession
<1>3. ASSUME NEW c \in Calls, StoreUnderKey(c)
      PROVE  /\ pc[c] = "sessionStored" /\ setECDSASignature(c, In(c).KeyID)
             /\ Goes(c, "keyStored") /\ UNCHANGED <<input, said, heard, net>>
  BY <1>3 DEF StoreUnderKey
<1> QED
  BY <1>1, <1>2, <1>3 DEF Next, Finished, vars

LEMMA TypeStep ==
  ASSUME TypeOK, ControlInv, InputInv, Next
  PROVE  TypeOK'
<1>1. DOMAIN input' = Calls /\ DOMAIN said' = Calls
  BY InputStep DEF TypeOK
<1>2. \A c \in Calls : \/ input'[c] = <<>>
                       \/ Len(input'[c]) = 1 /\ NamesOf(c)' \subseteq Names
  <2> SUFFICES ASSUME NEW c \in Calls
               PROVE  input'[c] = <<>> \/ (Len(input'[c]) = 1 /\ NamesOf(c)' \subseteq Names)
    OBVIOUS
  <2>1. CASE input'[c] = input[c]
    BY <2>1 DEF TypeOK, NamesOf, In
  <2>2. ASSUME NEW r \in Requests[c], ValidRequest(r), input'[c] = <<SignInput(r)>>
        PROVE  Len(input'[c]) = 1 /\ NamesOf(c)' \subseteq Names
    <3>1. In(c)' = SignInput(r) /\ Len(input'[c]) = 1
      BY <2>2 DEF In
    <3>2. NamesOf(c)' = {r.SessionID, r.KeyID}
      BY <3>1, InputFields DEF NamesOf
    <3> QED
      BY <2>2, <3>1, <3>2, RequestFacts
  <2> QED
    BY <2>1, <2>2, InputStep DEF TypeOK
<1>3. pc' \in [Calls -> Points] /\ err' \in [Calls -> Errors]
  BY PcStep, MoveFacts DEF TypeOK
<1>4. heard' \in [Calls -> SUBSET Calls] /\ net' \subseteq Calls
  <2>1. ASSUME NEW c \in Calls, NEW d \in Calls, RecvFrame(c, d)
        PROVE  heard' \in [Calls -> SUBSET Calls] /\ net' \subseteq Calls
    BY <2>1 DEF TypeOK, RecvFrame
  <2>2. ASSUME NEW c \in Calls, SendFrame(c)
        PROVE  heard' \in [Calls -> SUBSET Calls] /\ net' \subseteq Calls
    BY <2>2 DEF TypeOK, SendFrame
  <2>3. ASSUME NEW c \in Calls,
               \/ RunSignSession(c) \/ prepareDerivedECDSASignJob(c) \/ RunFails(c)
               \/ StoreUnderSession(c) \/ StoreUnderKey(c) \/ Export(c)
        PROVE  UNCHANGED <<heard, net>>
    BY <2>3 DEF RunSignSession, prepareDerivedECDSASignJob, RunFails, StoreUnderSession,
                StoreUnderKey, Export
  <2> QED
    BY <2>1, <2>2, <2>3 DEF TypeOK, Next, Finished, vars
<1>5. DOMAIN sigs' = Parties /\ \A p \in Parties : DOMAIN sigs'[p] = Names
  BY TableStep DEF TypeOK, setECDSASignature
<1> QED
  BY <1>1, <1>2, <1>3, <1>4, <1>5 DEF TypeOK

LEMMA ControlStep ==
  ASSUME TypeOK, ControlInv, Next
  PROVE  ControlInv'
<1> SUFFICES ASSUME NEW c \in Calls
             PROVE  /\ err'[c] # "nil" => pc'[c] = "returned"
                    /\ Accepted(c)' <=> (pc'[c] # "idle" /\ err'[c] # "request")
  BY DEF ControlInv
<1> DEFINE P == /\ err'[c] # "nil" => pc'[c] = "returned"
                /\ input'[c] # <<>> <=> (pc'[c] # "idle" /\ err'[c] # "request")
<1>1. /\ err[c] # "nil" => pc[c] = "returned"
      /\ input[c] # <<>> <=> (pc[c] # "idle" /\ err[c] # "request")
  BY DEF ControlInv, Accepted
<1>2. ASSUME NEW d \in Calls, RunSignSession(d)
      PROVE  P
  <2>1. "accepted" \in Points /\ "request" \in Errors
    BY DEF Points, Errors
  <2>2. PICK r \in Requests[d] :
          \/ Goes(d, "accepted") /\ input' = [input EXCEPT ![d] = <<SignInput(r)>>]
          \/ Fails(d, "request") /\ input' = input
    BY <1>2 DEF RunSignSession
  <2>3. pc[d] = "idle" /\ (d = c => err[d] = "nil" /\ input[d] = <<>>)
    BY <1>1, <1>2 DEF RunSignSession
  <2>4. \A x : <<x>> # <<>>
    OBVIOUS
  <2>5. CASE Goes(d, "accepted") /\ input' = [input EXCEPT ![d] = <<SignInput(r)>>]
    BY <1>1, <2>1, <2>3, <2>4, <2>5, MoveFacts DEF TypeOK
  <2>6. CASE Fails(d, "request") /\ input' = input
    BY <1>1, <2>1, <2>3, <2>6, MoveFacts DEF TypeOK
  <2> QED
    BY <2>2, <2>5, <2>6
<1>3. ASSUME NEW d \in Calls,
             \/ prepareDerivedECDSASignJob(d) \/ SendFrame(d) \/ RunFails(d)
             \/ \E e \in Calls : RecvFrame(d, e)
             \/ StoreUnderSession(d) \/ StoreUnderKey(d) \/ Export(d)
      PROVE  P
  <2>1. input' = input /\ pc[d] \notin {"idle", "returned"}
    <3>1. CASE prepareDerivedECDSASignJob(d)
      BY <3>1 DEF prepareDerivedECDSASignJob
    <3>2. CASE SendFrame(d) \/ RunFails(d) \/ \E e \in Calls : RecvFrame(d, e)
      BY <3>2 DEF SendFrame, RunFails, RecvFrame
    <3>3. CASE StoreUnderSession(d) \/ StoreUnderKey(d) \/ Export(d)
      BY <3>3 DEF StoreUnderSession, StoreUnderKey, Export
    <3> QED
      BY <1>3, <3>1, <3>2, <3>3
  <2>2. \/ UNCHANGED <<pc, err>>
        \/ \E to \in Points \ {"idle"} : Goes(d, to)
        \/ \E e \in Errors \ {"request"} : Fails(d, e)
    <3> USE DEF Points, Errors
    <3>1. CASE prepareDerivedECDSASignJob(d)
      BY <3>1 DEF prepareDerivedECDSASignJob
    <3>2. CASE SendFrame(d) \/ RunFails(d) \/ \E e \in Calls : RecvFrame(d, e)
      BY <3>2 DEF SendFrame, RunFails, RecvFrame
    <3>3. CASE StoreUnderSession(d) \/ StoreUnderKey(d) \/ Export(d)
      BY <3>3 DEF StoreUnderSession, StoreUnderKey, Export
    <3> QED
      BY <1>3, <3>1, <3>2, <3>3
  <2>3. d = c => err[d] = "nil"
    BY <1>1, <2>1
  <2> QED
    BY <1>1, <2>1, <2>2, <2>3, MoveFacts
<1>4. ASSUME UNCHANGED vars
      PROVE  P
  <2>1. input' = input /\ pc' = pc /\ err' = err
    BY <1>4 DEF vars
  <2> QED
    BY <1>1, <2>1
<1> HIDE DEF P
<1>5. P
  BY <1>2, <1>3, <1>4 DEF Next, Finished
<1> QED
  BY <1>5 DEF Accepted, P

\* An accepted call is about one of its requests, as the facade has passed it on.
LEMMA InputInvStep ==
  ASSUME TypeOK, InputInv, Next
  PROVE  InputInv'
<1> SUFFICES ASSUME NEW c \in Calls, input'[c] # <<>>
             PROVE  <<input'[c], said'[c]>> \in AcceptedInputs[c]
  BY DEF InputInv, Accepted
<1>1. CASE input'[c] = input[c] /\ said'[c] = said[c]
  BY <1>1 DEF InputInv, Accepted
<1>2. ASSUME NEW r \in Requests[c], ValidRequest(r),
             ValidHashInput(NormalizeContext(r.Context[1])),
             input'[c] = <<SignInput(r)>>, said'[c] = Meaning(r.Context[1])
      PROVE  <<input'[c], said'[c]>> \in AcceptedInputs[c]
  BY <1>2 DEF AcceptedInputs
<1> QED
  BY <1>1, <1>2, InputStep DEF TypeOK

LEMMA HeardStep ==
  ASSUME TypeOK, ControlInv, HeardInv, Next
  PROVE  HeardInv'
<1>1. \A c \in Calls : Accepted(c) => Accepted(c)' /\ In(c)' = In(c)
  BY InputStays
<1> DEFINE Hears(c, d) == /\ Accepted(c) /\ Accepted(d) /\ SameSession(c, d)
                          /\ In(d).DerivationContextHash = In(c).DerivationContextHash
<1>2. \A c, d \in Calls : Hears(c, d) => Hears(c, d)'
  BY <1>1 DEF SameSession
<1>3. ASSUME NEW d \in net'
      PROVE  Accepted(d)'
  <2>1. d \in Calls /\ (d \in net \/ Accepted(d))
    <3>1. ASSUME NEW c \in Calls, SendFrame(c)
          PROVE  d \in Calls /\ (d \in net \/ Accepted(d))
      <4>1. net' = net \cup {c} /\ pc[c] = "running"
        BY <3>1 DEF SendFrame
      <4>2. Accepted(c)
        BY <4>1 DEF ControlInv
      <4> QED
        BY <1>3, <4>1, <4>2 DEF TypeOK
    <3>2. ASSUME NEW c \in Calls,
                 \/ RunSignSession(c) \/ prepareDerivedECDSASignJob(c) \/ RunFails(c)
                 \/ \E e \in Calls : RecvFrame(c, e)
                 \/ StoreUnderSession(c) \/ StoreUnderKey(c) \/ Export(c)
          PROVE  net' = net
      BY <3>2 DEF RunSignSession, prepareDerivedECDSASignJob, RunFails, RecvFrame,
                  StoreUnderSession, StoreUnderKey, Export
    <3> QED
      BY <1>3, <3>1, <3>2 DEF TypeOK, Next, Finished, vars
  <2> QED
    BY <1>1, <2>1 DEF HeardInv
<1>4. ASSUME NEW c \in Calls, NEW d \in heard'[c]
      PROVE  Hears(c, d)'
  <2> HIDE DEF Hears
  <2>1. d \in Calls /\ Hears(c, d)
    <3>1. \A e \in heard[c] : e \in Calls /\ Hears(c, e)
      BY DEF HeardInv, TypeOK, Hears
    <3>2. ASSUME NEW a \in Calls, NEW b \in Calls, RecvFrame(a, b)
          PROVE  d \in Calls /\ Hears(c, d)
      <4>1. heard' = heard \/ (heard' = [heard EXCEPT ![a] = @ \cup {b}] /\ MatchesHash(a, Frame(b)))
        BY <3>2 DEF RecvFrame
      <4>2. pc[a] = "running" /\ b \in net /\ Frame(b).SessionID = In(a).SessionID
        BY <3>2 DEF RecvFrame
      <4>3. Accepted(a) /\ Accepted(b) /\ SameSession(a, b)
        BY <4>2 DEF ControlInv, HeardInv, Frame, SameSession
      <4>4. MatchesHash(a, Frame(b)) => Hears(a, b)
        BY <4>3 DEF MatchesHash, Frame, Hears
      <4> QED
        BY <1>4, <3>1, <4>1, <4>4 DEF TypeOK
    <3>3. ASSUME NEW a \in Calls,
                 \/ RunSignSession(a) \/ prepareDerivedECDSASignJob(a) \/ RunFails(a)
                 \/ SendFrame(a) \/ StoreUnderSession(a) \/ StoreUnderKey(a) \/ Export(a)
          PROVE  heard' = heard
      BY <3>3 DEF RunSignSession, prepareDerivedECDSASignJob, RunFails, SendFrame,
                  StoreUnderSession, StoreUnderKey, Export
    <3> QED
      BY <1>4, <3>1, <3>2, <3>3 DEF Next, Finished, vars
  <2> QED
    BY <1>2, <2>1
<1> QED
  BY <1>3, <1>4 DEF HeardInv

\* Where call c loads its share from never changes once it is accepted.
LEMMA LoadedStays ==
  ASSUME TypeOK, ControlInv, [Next]_vars, NEW c \in Calls, Accepted(c)
  PROVE  /\ Loaded(c)' = Loaded(c) /\ RequestedKey(c)' = RequestedKey(c)
         /\ NamesOf(c)' = NamesOf(c)
BY InputStays DEF Loaded, RequestedKey, NamesOf

\* Who signs has run, and is accepted; a call that runs or has signed was loaded.
LEMMA SignedFacts ==
  ASSUME TypeOK, ControlInv, NEW c \in Calls
  PROVE  /\ Signed(c) => Accepted(c) /\ err[c] = "nil"
         /\ pc[c] = "running" => Accepted(c) /\ err[c] = "nil"
         /\ err[c] \in {"share", "hash", "child", "params", "frame"} => Accepted(c)
BY DEF TypeOK, ControlInv, Signed

\* A call comes to run when it has been prepared, signs when it stores its first
\* entry, and has then signed for good.
LEMMA SignedStep ==
  ASSUME TypeOK, ControlInv, WrittenInv, Next, NEW c \in Calls
  PROVE  /\ Signed(c)' => (Signed(c) \/ StoreUnderSession(c))
         /\ Signed(c) => Signed(c)'
         /\ pc'[c] = "running" => (pc[c] = "running" \/ prepareDerivedECDSASignJob(c))
         /\ err'[c] \in {"share", "hash", "child", "params"} =>
              (err'[c] = err[c] \/ prepareDerivedECDSASignJob(c))
         /\ err'[c] = "frame" => (err'[c] = err[c] \/ \E d \in Calls : RecvFrame(c, d))
<1> DEFINE S(p, e) == p \in {"sessionStored", "keyStored"} \/ (p = "returned" /\ e = "nil")
           G == /\ S(pc'[c], err'[c]) => (S(pc[c], err[c]) \/ StoreUnderSession(c))
                /\ S(pc[c], err[c]) => S(pc'[c], err'[c])
                /\ pc'[c] = "running" => (pc[c] = "running" \/ prepareDerivedECDSASignJob(c))
                /\ err'[c] \in {"share", "hash", "child", "params"} =>
                     (err'[c] = err[c] \/ prepareDerivedECDSASignJob(c))
                /\ err'[c] = "frame" =>
                     (err'[c] = err[c] \/ \E d \in Calls : RecvFrame(c, d))
<1>1. pc \in [Calls -> Points] /\ err \in [Calls -> Errors]
  BY DEF TypeOK
<1>2. \A d \in Calls : err[d] # "nil" => pc[d] = "returned"
  BY DEF ControlInv
<1>3. ASSUME NEW d \in Calls, RunSignSession(d)
      PROVE  G
  BY <1>1, <1>3 DEF RunSignSession, Goes, Fails
<1>4. ASSUME NEW d \in Calls, prepareDerivedECDSASignJob(d)
      PROVE  G
  <2>1. /\ pc[d] = "accepted"
        /\ \/ Goes(d, "running")
           \/ \E e \in {"share", "hash", "child", "params"} : Fails(d, e)
    BY <1>4 DEF prepareDerivedECDSASignJob
  <2> QED
    BY <1>1, <1>4, <2>1 DEF Goes, Fails
<1>5. ASSUME NEW d \in Calls, SendFrame(d)
      PROVE  G
  BY <1>5 DEF SendFrame
<1>6. ASSUME NEW d \in Calls,
             RunFails(d) \/ \E e \in Calls : RecvFrame(d, e)
      PROVE  G
  <2>1. /\ pc[d] = "running"
        /\ \/ UNCHANGED <<pc, err>> \/ Fails(d, "failed")
           \/ Fails(d, "frame") /\ \E e \in Calls : RecvFrame(d, e)
    BY <1>6 DEF RecvFrame, RunFails
  <2> QED
    BY <1>1, <2>1 DEF Fails
<1>7. ASSUME NEW d \in Calls, StoreUnderSession(d)
      PROVE  G
  BY <1>1, <1>7 DEF StoreUnderSession, Goes
<1>8. ASSUME NEW d \in Calls, StoreUnderKey(d)
      PROVE  G
  BY <1>1, <1>8 DEF StoreUnderKey, Goes
<1>9. ASSUME NEW d \in Calls, Export(d)
      PROVE  G
  <2>1. pc[d] = "keyStored" /\ err[d] = "nil" /\ Signed(d)
    BY <1>2, <1>9 DEF Export, Signed
  <2>2. Goes(d, "returned")
    BY <1>9, <2>1 DEF Export, WrittenInv, ExportECDSASignature
  <2> QED
    BY <1>1, <2>1, <2>2 DEF Goes
<1>10. ASSUME UNCHANGED vars
       PROVE  G
  BY <1>10 DEF vars
<1> HIDE DEF G
<1>11. G
  BY <1>3, <1>4, <1>5, <1>6, <1>7, <1>8, <1>9, <1>10 DEF Next, Finished
<1> QED
  BY <1>11 DEF G, Signed

\* A whole signature is not the lack of one.
LEMMA SignatureIsOne ==
  ASSUME NEW c
  PROVE  Signature(c) # NoSignature
<1>1. "key" \in DOMAIN Signature(c) /\ "key" \notin DOMAIN NoSignature
  BY DEF Signature, NoSignature
<1> QED
  BY <1>1

LEMMA WrittenStep ==
  ASSUME TypeOK, ControlInv, InputInv, WrittenInv, Next
  PROVE  WrittenInv'
<1> SUFFICES ASSUME NEW c \in Calls, Signed(c)'
             PROVE  sigs'[Owner[c]][In(c)'.SessionID] # NoSignature
  BY DEF WrittenInv
<1>1. Signed(c) \/ StoreUnderSession(c)
  BY SignedStep
<1>2. Accepted(c)
  BY <1>1, SignedFacts DEF StoreUnderSession
<1>3. In(c)' = In(c)
  BY <1>2, InputStays
<1> DEFINE o == Owner[c]
           n == In(c).SessionID
<1>4. o \in Parties /\ n \in Names
  BY <1>2, CallsAssumption, InputFacts
<1>5. DOMAIN sigs = Parties /\ \A q \in Parties : DOMAIN sigs[q] = Names
  BY DEF TypeOK
<1> HIDE DEF o, n
<1>6. ASSUME NEW d \in Calls, NEW m, setECDSASignature(d, m)
      PROVE  sigs'[o][n] # NoSignature \/ (sigs'[o][n] = sigs[o][n] /\ ~(o = Owner[d] /\ n = m))
  BY <1>4, <1>5, <1>6, SignatureIsOne DEF setECDSASignature
<1>7. CASE StoreUnderSession(c)
  <2>1. setECDSASignature(c, In(c).SessionID)
    BY <1>7 DEF StoreUnderSession
  <2>2. sigs'[o][n] # NoSignature
    BY <1>6, <2>1 DEF o, n
  <2> QED
    BY <1>3, <2>2 DEF o, n
<1>8. CASE Signed(c)
  <2>1. sigs[o][n] # NoSignature
    BY <1>8 DEF WrittenInv, o, n
  <2>2. sigs'[o][n] # NoSignature
    BY <1>6, <2>1, TableStep
  <2> QED
    BY <1>3, <2>2 DEF o, n
<1> QED
  BY <1>1, <1>7, <1>8

\* What prepareDerivedECDSASignJob has seen when it goes on or fails.
LEMMA PrepareFacts ==
  ASSUME TypeOK, ControlInv, NEW c \in Calls, prepareDerivedECDSASignJob(c)
  PROVE  LET ctx == In(c).DerivationContext
             b == Loaded(c)
             good == IsECDSA(In(c).Algorithm) /\ UnmarshalsKeyMaterial(b)
             same == ValidHashInput(ctx) /\ In(c).DerivationContextHash = HashV1(ctx)
             params == BuildsParams(In(c).Parties, In(c).LocalPartyID, Len(In(c).Parties),
                                    Blank, Plain("ecdsa"))
         IN /\ Accepted(c)
            /\ pc'[c] = "running" => good /\ same /\ DerivesChild(b.pub, b.chainCode, ctx)
            /\ err'[c] = "share" => ~good
            /\ err'[c] = "hash" => ~same
            /\ err'[c] = "child" => good /\ same /\ ~DerivesChild(b.pub, b.chainCode, ctx)
            /\ err'[c] = "params" => ~params
<1> DEFINE ctx == In(c).DerivationContext
           b == Loaded(c)
           ecdsa == IsECDSA(In(c).Algorithm)
           loads == UnmarshalsKeyMaterial(b)
           same == ValidHashInput(ctx) /\ In(c).DerivationContextHash = HashV1(ctx)
           child == DerivesChild(b.pub, b.chainCode, ctx)
           params == BuildsParams(In(c).Parties, In(c).LocalPartyID, Len(In(c).Parties),
                                  Blank, Plain("ecdsa"))
<1>1. pc[c] = "accepted" /\ err[c] = "nil" /\ Accepted(c)
  BY DEF prepareDerivedECDSASignJob, ControlInv
<1>2. \/ ~ecdsa /\ Fails(c, "share")
      \/ /\ ecdsa
         /\ IF ~loads THEN Fails(c, "share")
            ELSE IF ~ValidHashInput(ctx) \/ In(c).DerivationContextHash # HashV1(ctx)
                 THEN Fails(c, "hash")
            ELSE IF ~child THEN Fails(c, "child")
            ELSE IF ~params THEN Fails(c, "params")
            ELSE Goes(c, "running")
  BY Zenon DEF prepareDerivedECDSASignJob
<1>3. /\ \A e \in {"share", "hash", "child", "params"} :
           Fails(c, e) => pc'[c] = "returned" /\ err'[c] = e
      /\ Goes(c, "running") => pc'[c] = "running" /\ err'[c] = "nil"
  BY <1>1, MoveFacts DEF Points, Errors
<1> HIDE DEF ctx, ecdsa, loads, child, params
<1>4. /\ pc'[c] = "running" => ecdsa /\ loads /\ same /\ child
      /\ err'[c] = "share" => ~(ecdsa /\ loads)
      /\ err'[c] = "hash" => ~same
      /\ err'[c] = "child" => ecdsa /\ loads /\ same /\ ~child
      /\ err'[c] = "params" => ~params
  BY <1>2, <1>3
<1> QED
  BY <1>1, <1>4 DEF ctx, ecdsa, loads, child, params

LEMMA LoadStep ==
  ASSUME TypeOK, ControlInv, InputInv, LoadInv, WrittenInv, Next
  PROVE  LoadInv'
<1> SUFFICES ASSUME NEW c \in Calls
             PROVE  /\ err'[c] = "share" => (~IsECDSA(In(c)'.Algorithm)
                                               \/ ~UnmarshalsKeyMaterial(Loaded(c)'))
                    /\ (pc'[c] = "running" \/ Signed(c)') => UnmarshalsKeyMaterial(Loaded(c)')
  BY DEF LoadInv
<1>1. Accepted(c) => In(c)' = In(c) /\ Loaded(c)' = Loaded(c)
  BY InputStays, LoadedStays
<1>2. ASSUME err'[c] = "share"
      PROVE  Accepted(c) /\ (~IsECDSA(In(c).Algorithm) \/ ~UnmarshalsKeyMaterial(Loaded(c)))
  <2>1. CASE err[c] = "share"
    BY <2>1, SignedFacts DEF LoadInv
  <2>2. CASE err[c] # "share"
    <3>1. prepareDerivedECDSASignJob(c)
      BY <1>2, <2>2, SignedStep
    <3> QED
      BY <1>2, <3>1, PrepareFacts
  <2> QED
    BY <2>1, <2>2
<1>3. ASSUME pc'[c] = "running" \/ Signed(c)'
      PROVE  Accepted(c) /\ UnmarshalsKeyMaterial(Loaded(c))
  <2>1. \/ pc[c] = "running" \/ Signed(c) \/ StoreUnderSession(c)
        \/ (prepareDerivedECDSASignJob(c) /\ pc'[c] = "running")
    BY <1>3, SignedStep
  <2>2. CASE pc[c] = "running" \/ Signed(c) \/ StoreUnderSession(c)
    BY <2>2, SignedFacts DEF LoadInv, StoreUnderSession
  <2>3. CASE prepareDerivedECDSASignJob(c) /\ pc'[c] = "running"
    BY <2>3, PrepareFacts
  <2> QED
    BY <2>1, <2>2, <2>3
<1> QED
  BY <1>1, <1>2, <1>3

-----------------------------------------------------------------------------
(* The invariant                                                           *)

LEMMA SignInit == Init => SignInv
<1> SUFFICES ASSUME Init PROVE SignInv
  OBVIOUS
<1>1. TypeOK
  BY DEF Init, TypeOK, Points, Errors
<1>2. \A c \in Calls : ~Accepted(c) /\ pc[c] = "idle" /\ err[c] = "nil" /\ heard[c] = {}
  BY DEF Init, Accepted
<1>3. \A c \in Calls : ~Signed(c)
  BY <1>2 DEF Signed
<1>4. ControlInv /\ InputInv
  BY <1>2 DEF ControlInv, InputInv
<1>5. HeardInv
  BY <1>2 DEF HeardInv, Init
<1>6. LoadInv /\ WrittenInv
  BY <1>2, <1>3 DEF LoadInv, WrittenInv
<1> QED
  BY <1>1, <1>4, <1>5, <1>6 DEF SignInv

LEMMA SignStep == SignInv /\ [Next]_vars => SignInv'
<1>1. ASSUME SignInv, Next PROVE SignInv'
  BY <1>1, TypeStep, ControlStep, InputInvStep, HeardStep, LoadStep, WrittenStep DEF SignInv
<1>2. ASSUME SignInv, UNCHANGED vars PROVE SignInv'
  <2>1. /\ input' = input /\ said' = said /\ pc' = pc /\ err' = err /\ heard' = heard
        /\ net' = net /\ sigs' = sigs
    BY <1>2 DEF vars
  <2>2. TypeOK' /\ ControlInv' /\ InputInv'
    BY <1>2, <2>1 DEF SignInv, TypeOK, ControlInv, InputInv, Accepted, NamesOf, In
  <2>3. HeardInv' /\ LoadInv' /\ WrittenInv'
    BY <1>2, <2>1 DEF SignInv, HeardInv, LoadInv, WrittenInv, Accepted, SameSession, Signed,
                      Loaded, In
  <2> QED
    BY <2>2, <2>3 DEF SignInv
<1> QED
  BY <1>1, <1>2

\* At every step of every call the type invariant holds, an accepted call is
\* about one of its requests, has heard only calls that commit to what it
\* commits to, runs with a share that decodes and has left its entry if it has
\* signed (facade to table: tss/service.go to runner/bnb_runner.go).
THEOREM SignInvCorrect == Spec => []SignInv
<1> QED
  BY SignInit, SignStep, PTL DEF Spec

-----------------------------------------------------------------------------
(* The properties                                                          *)

\* Two accepted calls have the same commitment exactly if they say the same.
LEMMA SameHashSays ==
  ASSUME InputInv, NEW c \in Calls, NEW d \in Calls, Accepted(c), Accepted(d)
  PROVE  In(c).DerivationContextHash = In(d).DerivationContextHash <=> said[c] = said[d]
<1>1. PICK r \in Requests[c] :
        /\ ValidRequest(r) /\ ValidHashInput(NormalizeContext(r.Context[1]))
        /\ In(c) = SignInput(r) /\ said[c] = Meaning(r.Context[1])
  BY Traced
<1>2. PICK q \in Requests[d] :
        /\ ValidRequest(q) /\ ValidHashInput(NormalizeContext(q.Context[1]))
        /\ In(d) = SignInput(q) /\ said[d] = Meaning(q.Context[1])
  BY Traced
<1>3. r.Context[1] \in Contexts /\ q.Context[1] \in Contexts
  BY <1>1, <1>2, RequestFacts
<1>4. HashV1(NormalizeContext(r.Context[1])) = HashV1(NormalizeContext(q.Context[1]))
        <=> Meaning(r.Context[1]) = Meaning(q.Context[1])
  BY <1>1, <1>2, <1>3, HashSays
<1> QED
  BY <1>1, <1>2, <1>4, InputFields

\* The commitment is the same exactly if the requests say the same (hash.go).
THEOREM HashMeansSameCorrect == Spec => []HashMeansSame
<1>1. SignInv => HashMeansSame
  BY SameHashSays DEF SignInv, ControlInv, HashMeansSame
<1> QED
  BY <1>1, SignInvCorrect, PTL

\* What is wrong with a call stays wrong: frames stay around and inputs stay.
LEMMA WrongStays ==
  ASSUME SignInv, [Next]_vars, NEW c \in Calls, Accepted(c)
  PROVE  /\ NoShare(c) => NoShare(c)'
         /\ NoChild(c) => NoChild(c)'
         /\ NoPlace(c) => NoPlace(c)'
         /\ Disputed(c) => Disputed(c)'
<1>1. TypeOK /\ ControlInv /\ \A d \in net : d \in Calls /\ Accepted(d)
  BY DEF SignInv, HeardInv, TypeOK
<1>2. ASSUME NEW d \in Calls, Accepted(d)
      PROVE  /\ In(d)' = In(d) /\ said'[d] = said[d] /\ Loaded(d)' = Loaded(d)
             /\ RequestedKey(d)' = RequestedKey(d)
  BY <1>1, <1>2, InputStays, LoadedStays
<1>3. NoShare(c) => NoShare(c)'
  BY <1>2 DEF NoShare
<1>4. NoChild(c) => NoChild(c)'
  BY <1>2 DEF NoChild
<1>5. NoPlace(c) => NoPlace(c)'
  BY <1>2 DEF NoPlace
<1>6. net \subseteq net'
  BY DEF Next, Finished, vars, RunSignSession, prepareDerivedECDSASignJob, SendFrame, RunFails,
         RecvFrame, StoreUnderSession, StoreUnderKey, Export
<1>7. ASSUME NEW d \in net, Owner[d] # Owner[c], SameSession(c, d),
             said[d] # said[c] \/ Owner[d] \notin Signers(c)
      PROVE  Disputed(c)'
  <2>1. In(c)' = In(c) /\ said'[c] = said[c] /\ In(d)' = In(d) /\ said'[d] = said[d]
    BY <1>1, <1>2
  <2>2. SameSession(c, d)' /\ (said'[d] # said'[c] \/ Owner[d] \notin Signers(c)')
    BY <1>7, <2>1 DEF SameSession, Signers
  <2>3. d \in net' /\ Owner[d] # Owner[c]
    BY <1>6, <1>7
  <2> QED
    BY <2>2, <2>3 DEF Disputed
<1>8. Disputed(c) => Disputed(c)'
  <2>1. SUFFICES ASSUME Disputed(c) PROVE Disputed(c)'
    OBVIOUS
  <2>2. PICK d \in net : /\ Owner[d] # Owner[c] /\ SameSession(c, d)
                         /\ (said[d] # said[c] \/ Owner[d] \notin Signers(c))
    BY <2>1 DEF Disputed
  <2> QED
    BY <2>2, <1>7
<1> QED
  BY <1>3, <1>4, <1>5, <1>8

\* What prepareDerivedECDSASignJob refuses an accepted call for is wrong with the
\* call: the hash is always right, and the child derives when its key is there
\* and is the one the caller expects (sign.go).
LEMMA PrepareRefuses ==
  ASSUME SignInv, NEW c \in Calls, prepareDerivedECDSASignJob(c)
  PROVE  /\ err'[c] # "hash"
         /\ err'[c] = "share" => NoShare(c)
         /\ err'[c] = "child" => NoChild(c)
         /\ err'[c] = "params" => NoPlace(c)
<1> DEFINE ctx == In(c).DerivationContext
<1>1. TypeOK /\ ControlInv /\ InputInv
  BY DEF SignInv
<1>2. PICK r \in Requests[c] :
        /\ ValidRequest(r) /\ ValidHashInput(NormalizeContext(r.Context[1]))
        /\ In(c) = SignInput(r) /\ said[c] = Meaning(r.Context[1])
  BY <1>1, PrepareFacts, Traced
<1> DEFINE x == r.Context[1]
           n == NormalizeContext(x)
<1>3. x \in Contexts /\ NormalizeContext(n) = n
  BY <1>2, RequestFacts, NormalizeOnce
<1>4. /\ ctx = n /\ In(c).DerivationContextHash = HashV1(n) /\ ValidHashInput(n)
      /\ In(c).Algorithm = r.Algorithm /\ In(c).Parties = r.Parties
  BY <1>2, InputFields
<1>5. err'[c] # "hash"
  BY <1>1, <1>4, PrepareFacts
<1>6. err'[c] = "share" => NoShare(c)
  BY <1>1, PrepareFacts DEF NoShare
<1>7. ASSUME err'[c] = "child", Loaded(c).pub # NoPub
      PROVE  ctx.DerivedPublicKey \notin {NoKey, RequestedKey(c)}
  <2>1. IsECDSA(r.Algorithm) /\ ~DerivesChild(Loaded(c).pub, Loaded(c).chainCode, n)
    BY <1>1, <1>4, <1>7, PrepareFacts
  <2>2. n.Algorithm = Plain("ecdsa")
    BY <1>2, <2>1, SessionAlgorithm
  <2>3. ValidContext(n)
    BY <1>4 DEF ValidHashInput
  <2>4. RequestedKey(c) = ChildKey(Loaded(c).pub, Loaded(c).chainCode, Indices(x.ChildPath))
    BY <1>2, MeaningChild DEF RequestedKey
  <2> HIDE DEF x
  <2> QED
    BY <1>3, <1>4, <1>7, <2>1, <2>2, <2>3, <2>4, DerivesUnlessUnexpected
<1>8. ASSUME err'[c] = "params"
      PROVE  NoPlace(c)
  <2>1. ~BuildsParams(In(c).Parties, In(c).LocalPartyID, Len(In(c).Parties),
                      Blank, Plain("ecdsa"))
    BY <1>1, <1>8, PrepareFacts
  <2>2. SelectsCurve(Blank, Plain("ecdsa"))
    BY DEF SelectsCurve, Blank, Plain, TrimLower
  <2>3. In(c).Parties \in Seq(STRING)
    BY <1>4, RequestsAssumption DEF SignRequests
  <2>4. Len(In(c).Parties) \in Nat
    BY <2>3
  <2> QED
    BY <2>1, <2>2, <2>4 DEF BuildsParams, NoPlace
<1> QED
  BY <1>5, <1>6, <1>7, <1>8 DEF NoChild

\* A frame that fails a run is of another party's call of the session, which says
\* something else or is of no signer (inbound.go handleIncoming).
LEMMA FrameRefuses ==
  ASSUME SignInv, NEW c \in Calls, NEW d \in Calls, RecvFrame(c, d), err'[c] = "frame"
  PROVE  Disputed(c)
<1>1. /\ pc[c] = "running" /\ d \in net /\ Owner[d] # Owner[c]
      /\ In(d).SessionID = In(c).SessionID
  BY DEF RecvFrame, Frame
<1>2. err[c] = "nil" /\ Accepted(c) /\ Accepted(d)
  BY <1>1 DEF SignInv, ControlInv, HeardInv
<1>3. In(d).DerivationContextHash # In(c).DerivationContextHash \/ Owner[d] \notin Signers(c)
  BY <1>2 DEF RecvFrame, MatchesHash, Frame
<1>4. In(d).DerivationContextHash # In(c).DerivationContextHash => said[d] # said[c]
  BY <1>2, SameHashSays DEF SignInv
<1> QED
  BY <1>1, <1>3, <1>4 DEF Disputed, SameSession

\* An accepted call fails for want of a share, of a child key, of a place among
\* the parties, or over a frame of a call that says something else; the context
\* the facade has accepted is never refused (sign.go prepareDerivedECDSASignJob,
\* inbound.go handleIncoming).
THEOREM FacadeDecidesCorrect == Spec => []FacadeDecides
<1>1. Init => FacadeDecides
  BY DEF Init, FacadeDecides
<1>2. SignInv /\ FacadeDecides /\ [Next]_vars => FacadeDecides'
  <2> SUFFICES ASSUME SignInv, FacadeDecides, [Next]_vars, NEW c \in Calls
               PROVE  /\ err'[c] # "hash"
                      /\ err'[c] = "share" => NoShare(c)'
                      /\ err'[c] = "child" => NoChild(c)'
                      /\ err'[c] = "params" => NoPlace(c)'
                      /\ err'[c] = "frame" => Disputed(c)'
    BY DEF FacadeDecides
  <2>1. TypeOK /\ ControlInv /\ WrittenInv
    BY DEF SignInv
  <2>2. /\ err[c] # "hash"
        /\ err[c] = "share" => NoShare(c)
        /\ err[c] = "child" => NoChild(c)
        /\ err[c] = "params" => NoPlace(c)
        /\ err[c] = "frame" => Disputed(c)
    BY DEF FacadeDecides
  <2>3. CASE err'[c] = err[c]
    BY <2>1, <2>2, <2>3, SignedFacts, WrongStays
  <2>4. CASE prepareDerivedECDSASignJob(c)
    <3>1. Accepted(c)
      BY <2>1, <2>4, PrepareFacts
    <3>2. err'[c] # "frame"
      BY <2>1, <2>4, MoveFacts DEF prepareDerivedECDSASignJob, ControlInv, Points, Errors
    <3> QED
      BY <2>4, <3>1, <3>2, PrepareRefuses, WrongStays
  <2>5. ASSUME NEW d \in Calls, RecvFrame(c, d), err'[c] = "frame"
        PROVE  Disputed(c)'
    <3>1. Accepted(c)
      BY <2>1, <2>5 DEF RecvFrame, ControlInv
    <3> QED
      BY <2>5, <3>1, FrameRefuses, WrongStays
  <2>6. \/ err'[c] = err[c] \/ prepareDerivedECDSASignJob(c)
        \/ err'[c] = "frame" /\ \E d \in Calls : RecvFrame(c, d)
        \/ err'[c] \notin {"share", "hash", "child", "params", "frame"}
    BY <2>1, SignedStep DEF vars
  <2> QED
    BY <2>3, <2>4, <2>5, <2>6
<1> QED
  BY <1>1, <1>2, SignInvCorrect, PTL DEF Spec

\* Every entry of a table is the whole signature of one call of that service
\* which goes by its name (bnb_runner.go setECDSASignature).
THEOREM EntriesBelongCorrect == Spec => []EntriesBelong
<1>1. Init => EntriesBelong
  BY DEF Init, EntriesBelong
<1>2. SignInv /\ EntriesBelong /\ [Next]_vars => EntriesBelong'
  <2> DEFINE Belongs(p, n, c) ==
               /\ Owner[c] = p /\ Signed(c) /\ n \in NamesOf(c)
               /\ sigs[p][n] = [by |-> c, key |-> RequestedKey(c), M |-> In(c).Digest]
             Written(p, n, c) ==
               /\ Owner[c] = p /\ n \in NamesOf(c) /\ Accepted(c) /\ sigs'[p][n] = Signature(c)
  <2> SUFFICES ASSUME SignInv, EntriesBelong, [Next]_vars,
                      NEW p \in Parties, NEW n \in Names, sigs'[p][n] # NoSignature
               PROVE  \E c \in Calls : Belongs(p, n, c)'
    BY DEF EntriesBelong
  <2>1. TypeOK /\ ControlInv /\ InputInv /\ WrittenInv
    BY DEF SignInv
  <2>2. ASSUME NEW c \in Calls, Accepted(c)
        PROVE  NamesOf(c)' = NamesOf(c) /\ RequestedKey(c)' = RequestedKey(c) /\ In(c)' = In(c)
    BY <2>1, <2>2, InputStays, LoadedStays
  <2>3. ASSUME sigs'[p][n] = sigs[p][n]
        PROVE  \E c \in Calls : Belongs(p, n, c)'
    <3>1. PICK c \in Calls : Belongs(p, n, c)
      BY <2>3 DEF EntriesBelong
    <3>2. Accepted(c)
      BY <2>1, <3>1, SignedFacts
    <3>3. Signed(c)'
      <4>1. CASE Next
        BY <2>1, <3>1, <4>1, SignedStep
      <4>2. CASE UNCHANGED vars
        BY <3>1, <4>2 DEF vars, Signed
      <4> QED
        BY <4>1, <4>2
    <3>4. /\ Owner[c] = p /\ n \in NamesOf(c)'
          /\ sigs'[p][n] = [by |-> c, key |-> RequestedKey(c)', M |-> In(c)'.Digest]
      BY <2>2, <2>3, <3>1, <3>2
    <3> QED
      BY <3>3, <3>4
  <2>4. ASSUME NEW c \in Calls, Written(p, n, c), Signed(c)'
        PROVE  Belongs(p, n, c)'
    <3>1. Signature(c) = [by |-> c, key |-> RequestedKey(c), M |-> In(c).Digest]
      BY <2>1, <2>4, InputFacts DEF Signature
    <3>2. sigs'[p][n] = [by |-> c, key |-> RequestedKey(c)', M |-> In(c)'.Digest]
      BY <2>2, <2>4, <3>1
    <3> QED
      BY <2>2, <2>4, <3>2
  <2>5. \/ sigs'[p][n] = sigs[p][n]
        \/ \E c \in Calls : Written(p, n, c) /\ Signed(c)'
    <3>1. DOMAIN sigs = Parties /\ \A q \in Parties : DOMAIN sigs[q] = Names
      BY <2>1 DEF TypeOK
    <3>2. ASSUME NEW c \in Calls, NEW m, setECDSASignature(c, m), m \in NamesOf(c),
                 Accepted(c), Signed(c)'
          PROVE  sigs'[p][n] = sigs[p][n] \/ (Written(p, n, c) /\ Signed(c)')
      BY <3>1, <3>2 DEF setECDSASignature
    <3>3. ASSUME NEW c \in Calls, pc[c] \in {"running", "sessionStored"},
                 Goes(c, "sessionStored") \/ Goes(c, "keyStored")
          PROVE  Accepted(c) /\ Signed(c)'
      <4>1. Accepted(c)
        BY <2>1, <3>3 DEF ControlInv
      <4>2. pc'[c] \in {"sessionStored", "keyStored"}
        BY <2>1, <3>3, MoveFacts DEF Points
      <4> QED
        BY <4>1, <4>2 DEF Signed
    <3>4. CASE UNCHANGED sigs
      BY <3>4
    <3>5. ASSUME NEW c \in Calls, pc[c] = "running",
                 setECDSASignature(c, In(c).SessionID), Goes(c, "sessionStored")
          PROVE  sigs'[p][n] = sigs[p][n] \/ (Written(p, n, c) /\ Signed(c)')
      BY <3>2, <3>3, <3>5 DEF NamesOf
    <3>6. ASSUME NEW c \in Calls, pc[c] = "sessionStored",
                 setECDSASignature(c, In(c).KeyID), Goes(c, "keyStored")
          PROVE  sigs'[p][n] = sigs[p][n] \/ (Written(p, n, c) /\ Signed(c)')
      BY <3>2, <3>3, <3>6 DEF NamesOf
    <3> HIDE DEF Written
    <3> QED
      BY <2>1, <3>4, <3>5, <3>6, TableStep DEF vars
  <2> HIDE DEF Belongs, Written
  <2> QED
    BY <2>3, <2>4, <2>5
<1> QED
  BY <1>1, <1>2, SignInvCorrect, PTL DEF Spec

\* The signature exported under a session id is that session's own, unless
\* another call of the service uses the name (bnb_runner.go ExportECDSASignature).
THEOREM OwnSignatureCorrect == Spec => []OwnSignature
<1>1. SignInv /\ EntriesBelong => OwnSignature
  <2> SUFFICES ASSUME SignInv, EntriesBelong, NEW c \in Calls,
                      pc[c] = "returned", err[c] = "nil",
                      \A d \in Calls \ {c} : Owner[d] = Owner[c] /\ Accepted(d) =>
                        In(c).SessionID \notin NamesOf(d)
               PROVE  LET sig == sigs[Owner[c]][In(c).SessionID]
                      IN sig.by = c /\ sig.M = In(c).Digest /\ sig.key = RequestedKey(c)
    BY DEF OwnSignature, ExportECDSASignature
  <2>1. TypeOK /\ ControlInv /\ InputInv /\ WrittenInv
    BY DEF SignInv
  <2>2. Signed(c) /\ Accepted(c)
    BY <2>1, SignedFacts DEF Signed
  <2>3. Owner[c] \in Parties /\ In(c).SessionID \in Names
    BY <2>1, <2>2, InputFacts, CallsAssumption
  <2>4. PICK d \in Calls :
          /\ Owner[d] = Owner[c] /\ Signed(d) /\ In(c).SessionID \in NamesOf(d)
          /\ sigs[Owner[c]][In(c).SessionID]
               = [by |-> d, key |-> RequestedKey(d), M |-> In(d).Digest]
    BY <2>1, <2>2, <2>3 DEF EntriesBelong, WrittenInv
  <2>5. d = c
    BY <2>1, <2>4, SignedFacts
  <2> QED
    BY <2>4, <2>5
<1> QED
  BY <1>1, SignInvCorrect, EntriesBelongCorrect, PTL

\* A signature exists only if every signer of its session said the same and asked
\* for the same key and number (inbound.go validateDerivationContextHash).
THEOREM CommitmentsAgreeCorrect == Spec => []CommitmentsAgree
<1> DEFINE Agrees(c, d) ==
             /\ Accepted(d) /\ SameSession(c, d) /\ said[d] = said[c]
             /\ RequestedKey(d) = RequestedKey(c) /\ In(d).Digest.num = In(c).Digest.num
<1>1. Init => CommitmentsAgree
  BY DEF Init, CommitmentsAgree, Signed
<1>2. SignInv /\ CommitmentsAgree /\ [Next]_vars => CommitmentsAgree'
  <2> SUFFICES ASSUME SignInv, CommitmentsAgree, [Next]_vars, NEW c \in Calls, Signed(c)',
                      NEW i \in DOMAIN In(c)'.Parties
               PROVE  \E d \in Calls : Owner[d] = In(c)'.Parties[i] /\ Agrees(c, d)'
    BY DEF CommitmentsAgree
  <2>1. TypeOK /\ ControlInv /\ InputInv /\ HeardInv /\ WrittenInv
    BY DEF SignInv
  <2>2. Signed(c) \/ StoreUnderSession(c)
    <3>1. CASE Next
      BY <2>1, <3>1, SignedStep
    <3>2. CASE UNCHANGED vars
      BY <3>2 DEF vars, Signed
    <3> QED
      BY <3>1, <3>2
  <2>3. Accepted(c)
    BY <2>1, <2>2, SignedFacts DEF StoreUnderSession
  <2>4. ASSUME NEW d \in Calls, Accepted(d)
        PROVE  /\ Accepted(d)' /\ In(d)' = In(d) /\ said'[d] = said[d]
               /\ RequestedKey(d)' = RequestedKey(d)
    BY <2>1, <2>4, InputStays, LoadedStays
  <2>5. \E d \in Calls : Owner[d] = In(c).Parties[i] /\ Agrees(c, d)
    <3>1. i \in DOMAIN In(c).Parties /\ In(c).Parties[i] \in Signers(c)
      BY <2>3, <2>4 DEF Signers
    <3>2. CASE Signed(c)
      BY <3>1, <3>2 DEF CommitmentsAgree
    <3>3. CASE StoreUnderSession(c) /\ In(c).Parties[i] = Owner[c]
      BY <2>3, <3>3 DEF SameSession
    <3>4. CASE StoreUnderSession(c) /\ In(c).Parties[i] # Owner[c]
      <4>1. PICK d \in heard[c] : Owner[d] = In(c).Parties[i] /\ PartyInputs(d) = PartyInputs(c)
        BY <3>1, <3>4 DEF StoreUnderSession, PartyEnds
      <4>2. /\ d \in Calls /\ Accepted(d) /\ SameSession(c, d)
            /\ In(d).DerivationContextHash = In(c).DerivationContextHash
        BY <2>1 DEF HeardInv, TypeOK
      <4>3. said[d] = said[c]
        BY <2>1, <2>3, <4>2, SameHashSays
      <4>4. RequestedKey(d) = RequestedKey(c) /\ In(d).Digest.num = In(c).Digest.num
        BY <2>1, <2>3, <4>1, <4>2, InputFacts
      <4> QED
        BY <4>1, <4>2, <4>3, <4>4
    <3> QED
      BY <2>2, <3>2, <3>3, <3>4
  <2>6. PICK d \in Calls : Owner[d] = In(c).Parties[i] /\ Agrees(c, d)
    BY <2>5
  <2> QED
    BY <2>3, <2>4, <2>6 DEF SameSession
<1> QED
  BY <1>1, <1>2, SignInvCorrect, PTL DEF Spec

-----------------------------------------------------------------------------
(* The share a call loads                                                  *)

\* A set of positions that is not empty has a last one.
LEMMA MaxIsOne ==
  ASSUME NEW n \in Nat, NEW S \in SUBSET (1..n), S # {}
  PROVE  Max(S) \in S
<1> DEFINE R == {ss \in Nat \X Nat : ss[1] < ss[2]}
           T == {n - i : i \in S}
<1>1. IsWellFoundedOn(R, Nat)
  <2>1. OpToRel(<, Nat) = R
    BY DEF OpToRel
  <2> QED
    BY <2>1, NatLessThanWellFounded
<1>2. T \subseteq Nat /\ T # {}
  <2> HIDE DEF R
  <2>1. ASSUME NEW i \in S
        PROVE  n - i \in Nat /\ n - i \in T
    <3>1. i \in Int /\ 1 <= i /\ i <= n
      OBVIOUS
    <3> QED
      BY <3>1
  <2>2. \A t \in T : \E i \in S : t = n - i
    OBVIOUS
  <2> QED
    BY <2>1, <2>2
<1>3. PICK t \in T : \A u \in T : <<u, t>> \notin R
  <2> HIDE DEF R, T
  <2> QED
    BY <1>1, <1>2, WFMin
<1>4. \E i \in S : t = n - i
  <2> HIDE DEF R
  <2> QED
    OBVIOUS
<1> PICK m \in S : t = n - m
  BY <1>4
<1>5. ASSUME NEW i \in S
      PROVE  m >= i
  <2>1. n - i \in Nat /\ n - m \in Nat /\ <<n - i, n - m>> \notin R
    BY <1>3
  <2>2. ~(n - i < n - m)
    BY <2>1
  <2> QED
    BY <2>2
<1> QED
  BY <1>5 DEF Max

\* The DKG calls that save a share under the name of a key id, and those that
\* make a key with this id, are the same.
LEMMA SavesAreKeyDKGs ==
  ASSUME NEW p \in Parties, NEW k \in Names, TrimSpace(k) # Blank
  PROVE  Saves(p, TrimSpace(k)) = KeyDKGs[p][k.text]
<1>1. \A x \in Ids : TrimSpace(x) = Plain(x.text)
  BY DEF Ids, Texts, TrimSpace, Plain
<1>2. \A x, y : Plain(x) = Plain(y) <=> x = y
  BY DEF Plain
<1>3. k \in Ids
  BY KeyMaterialAssumption
<1>4. ASSUME NEW i \in DOMAIN DKGs[p]
      PROVE  LET r == DKGs[p][i] IN
             (Persists(r) /\ resolveDKGOutputKeyID(r) = TrimSpace(k)) <=>
               /\ ValidDKGRequest(r) /\ IsECDSA(r.Algorithm) /\ r.KeyID.text = k.text
               /\ BuildsParams(r.Parties, r.LocalPartyID, r.Threshold, r.Curve, r.Algorithm)
  <2> DEFINE r == DKGs[p][i]
  <2>1. r.KeyID \in Ids
    <3>1. DKGs[p] \in Seq(DKGRequests)
      BY KeyMaterialAssumption
    <3>2. r \in DKGRequests
      BY <3>1
    <3> QED
      BY <3>2 DEF DKGRequests
  <2> HIDE DEF r
  <2>2. TrimSpace(r.KeyID) = TrimSpace(k) <=> r.KeyID.text = k.text
    BY <1>1, <1>2, <1>3, <2>1
  <2>3. ASSUME Persists(r)
        PROVE  /\ ValidDKGRequest(r) /\ IsECDSA(r.Algorithm)
               /\ resolveDKGOutputKeyID(r) = TrimSpace(r.KeyID)
               /\ BuildsParams(r.Parties, r.LocalPartyID, r.Threshold, r.Curve, r.Algorithm)
    BY <2>3 DEF Persists, resolveDKGOutputKeyID
  <2>4. ASSUME ValidDKGRequest(r), IsECDSA(r.Algorithm),
               BuildsParams(r.Parties, r.LocalPartyID, r.Threshold, r.Curve, r.Algorithm)
        PROVE  Persists(r) /\ resolveDKGOutputKeyID(r) = TrimSpace(r.KeyID)
    <3>1. TrimSpace(r.KeyID) # Blank /\ ValidDKGMaterial(r)
      BY <2>4 DEF ValidDKGRequest
    <3>2. TrimLower(r.DerivationScheme) = Plain("bip32_secp256k1") /\ r.ChainCode.text \in ChainCodes
      BY <2>4, <3>1 DEF ValidDKGMaterial, ParsesChainCode
    <3>3. validateKeyMaterialMeta(Blob(r))
      BY <3>2 DEF validateKeyMaterialMeta, Blob, Plain
    <3> QED
      BY <2>4, <3>1, <3>3 DEF Persists, resolveDKGOutputKeyID
  <2> QED
    BY <2>2, <2>3, <2>4 DEF r
<1>5. KeyDKGs[p][k.text] =
        {i \in DOMAIN DKGs[p] :
           LET r == DKGs[p][i]
           IN /\ ValidDKGRequest(r) /\ IsECDSA(r.Algorithm) /\ r.KeyID.text = k.text
              /\ BuildsParams(r.Parties, r.LocalPartyID, r.Threshold, r.Curve, r.Algorithm)}
  BY DEF KeyDKGs
<1> QED
  BY <1>4, <1>5 DEF Saves

\* What a call finds under a key id: nothing that decodes, or the share of the
\* latest DKG call of that key.
LEMMA LoadsLatest ==
  ASSUME NEW p \in Parties, NEW k \in Names, TrimSpace(k) # Blank, TrimSpace(k) \in Names,
         Imported[p][TrimSpace(k)] = NoBlob
  PROVE  LET b == LoadShare(p, TrimSpace(k))
             mine == KeyDKGs[p][k.text]
         IN /\ mine = {} => ~UnmarshalsKeyMaterial(b)
            /\ mine # {} => /\ UnmarshalsKeyMaterial(b)
                            /\ b.pub = DKGs[p][Max(mine)].SessionID.text
<1> DEFINE b == LoadShare(p, TrimSpace(k))
           mine == KeyDKGs[p][k.text]
<1>1. Saves(p, TrimSpace(k)) = mine
  BY SavesAreKeyDKGs
<1>2. b = IF mine = {} THEN NoBlob ELSE Blob(DKGs[p][Max(mine)])
  BY <1>1 DEF LoadShare, Store
<1>3. ~UnmarshalsKeyMaterial(NoBlob)
  BY DEF UnmarshalsKeyMaterial, NoBlob, CodecVersion
<1>4. ASSUME mine # {}
      PROVE  UnmarshalsKeyMaterial(Blob(DKGs[p][Max(mine)]))
  <2>1. DKGs[p] \in Seq(DKGRequests)
    BY KeyMaterialAssumption
  <2>2. mine \subseteq 1..Len(DKGs[p]) /\ Len(DKGs[p]) \in Nat
    BY <1>1, <2>1 DEF Saves
  <2>3. Max(mine) \in mine
    BY <1>4, <2>2, MaxIsOne
  <2>4. Persists(DKGs[p][Max(mine)])
    BY <1>1, <2>3 DEF Saves
  <2>5. validateKeyMaterialMeta(Blob(DKGs[p][Max(mine)]))
    BY <2>4 DEF Persists
  <2>6. Blob(DKGs[p][Max(mine)]).version = CodecVersion
    BY DEF Blob
  <2> QED
    BY <2>5, <2>6 DEF UnmarshalsKeyMaterial
<1>5. \A r : Blob(r).pub = r.SessionID.text
  BY DEF Blob
<1> HIDE DEF b, mine
<1> QED
  BY <1>2, <1>3, <1>4, <1>5 DEF b, mine

\* Once a DKG call has made a key, no signing call fails for want of its share,
\* and none runs with another key than the latest (runtime/share_runtime.go).
THEOREM DKGKeysSignCorrect == Spec => []DKGKeysSign
<1>1. SignInv => DKGKeysSign
  <2> SUFFICES ASSUME SignInv, NEW c \in Calls, Accepted(c),
                      Imported[Owner[c]][Plain(In(c).KeyID.text)] = NoBlob
               PROVE  LET mine == KeyDKGs[Owner[c]][In(c).KeyID.text]
                      IN /\ (err[c] = "share" /\ IsECDSA(In(c).Algorithm)) => mine = {}
                         /\ (pc[c] = "running" \/ Signed(c)) =>
                              /\ mine # {}
                              /\ Loaded(c).pub = DKGs[Owner[c]][Max(mine)].SessionID.text
    BY DEF DKGKeysSign
  <2> DEFINE k == In(c).KeyID
             mine == KeyDKGs[Owner[c]][k.text]
  <2>1. InputInv /\ LoadInv
    BY DEF SignInv
  <2>2. k \in Names /\ k \in Ids /\ TrimSpace(k) \in Names /\ Owner[c] \in Parties
    BY <2>1, InputFacts, CallsAssumption
  <2>3. TrimSpace(k) = Plain(k.text)
    BY <2>2 DEF Ids, Texts, TrimSpace, Plain
  <2>4. TrimSpace(k) # Blank
    <3>1. PICK r \in Requests[c] : ValidRequest(r) /\ In(c) = SignInput(r)
      BY <2>1, Traced
    <3> QED
      BY <3>1, InputFields DEF ValidRequest, ValidateSign
  <2>5. /\ mine = {} => ~UnmarshalsKeyMaterial(Loaded(c))
        /\ mine # {} => /\ UnmarshalsKeyMaterial(Loaded(c))
                        /\ Loaded(c).pub = DKGs[Owner[c]][Max(mine)].SessionID.text
    BY <2>2, <2>3, <2>4, LoadsLatest DEF Loaded
  <2> HIDE DEF mine
  <2>6. /\ (err[c] = "share" /\ IsECDSA(In(c).Algorithm)) => ~UnmarshalsKeyMaterial(Loaded(c))
        /\ (pc[c] = "running" \/ Signed(c)) => UnmarshalsKeyMaterial(Loaded(c))
    BY <2>1 DEF LoadInv
  <2> QED
    BY <2>5, <2>6 DEF mine
<1> QED
  BY <1>1, SignInvCorrect, PTL
=============================================================================
