------------------------------- MODULE Signing -------------------------------
(***************************************************************************)
(* Signing sessions of several parties.  Every party has one service with  *)
(* its runner's signature table and the shares its DKG calls have saved    *)
(* (module KeyMaterial).  A call of RunSignSession validates its request   *)
(* (tss/service.go), prepares the derived share                            *)
(* (internal/tss/service/sign.go), runs the protocol                       *)
(* (internal/tssbnb/runner, flow/sign.go, execution/inbound.go), stores    *)
(* the signature and reads it back.  Calls of one service run              *)
(* concurrently and, unlike DKG calls, may share a session id.             *)
(*                                                                         *)
(* What goes on inside a session is module Execution.  Here a run sends    *)
(* one frame, which stands for all of its frames; a frame once sent stays  *)
(* around, so it arrives late, twice, out of order or never, and in        *)
(* whichever run of its session happens to listen.                         *)
(***************************************************************************)
EXTENDS KeyMaterial, FiniteSets

CONSTANTS
  Calls,      \* calls of RunSignSession
  Owner,      \* Owner[c]: the party whose service call c is made on
  Requests    \* Requests[c]: the SignSessionRequests call c may be made with

\* A digest is its leading zero bytes and the number the other bytes spell.
NoDigest == [zeros |-> 0, num |-> 0]

NoSignature == [by |-> "none"]

SignRequests ==
  [SessionID : Ids, OrgID : Texts, KeyID : Ids, Parties : Seq(STRING), Threshold : Nat,
   LocalPartyID : Texts, Algorithm : Texts, Curve : Texts, Chain : Texts,
   Digest : [zeros : Nat, num : Nat], HasTransport : BOOLEAN, Context : Seq(Contexts)]

ASSUME CallsAssumption == Owner \in [Calls -> Parties]

\* Names has every id that is not blank.
ASSUME RequestsAssumption ==
  \A c \in Calls : \A r \in Requests[c] :
    /\ r \in SignRequests
    /\ r.SessionID # Blank => r.SessionID \in Names
    /\ TrimSpace(r.KeyID) # Blank => {r.KeyID, TrimSpace(r.KeyID)} \subseteq Names

VARIABLES
  input,   \* input[c]: the SignInput of call c in a tuple; <<>> until accepted
  said,    \* history: said[c] is what c's request says, as its caller wrote it
  pc,      \* pc[c]: where call c is
  err,     \* err[c]: why call c has failed, "nil" if it has not
  heard,   \* heard[c]: calls whose frame has reached call c's tss-lib party
  net,     \* calls whose frame is on its way or has arrived
  sigs     \* sigs[p]: ecdsaSigs of p's runner

vars == <<input, said, pc, err, heard, net, sigs>>

\* Where a call is: not made; past the facade; in flow.RunSign; the session's
\* entry written; the key's entry written; returned.
Points == {"idle", "accepted", "running", "sessionStored", "keyStored", "returned"}
Errors == {"nil", "request", "share", "hash", "child", "params", "frame", "failed"}

Init ==
  /\ input = [c \in Calls |-> <<>>] /\ said = [c \in Calls |-> <<>>]
  /\ pc = [c \in Calls |-> "idle"]
  /\ err = [c \in Calls |-> "nil"]
  /\ heard = [c \in Calls |-> {}]
  /\ net = {}
  /\ sigs = [p \in Parties |-> [n \in Names |-> NoSignature]]

In(c) == input[c][1]

Goes(c, to) == pc' = [pc EXCEPT ![c] = to] /\ UNCHANGED err
Fails(c, e) == pc' = [pc EXCEPT ![c] = "returned"] /\ err' = [err EXCEPT ![c] = e]

-----------------------------------------------------------------------------
(* The facade: SignSessionRequest.Validate and RunSignSession              *)

\* Mutant: a request without a key id goes through.
ValidateSignNoKey(r) ==
  /\ IsValidSessionDescriptor(r)
  /\ TrimSpace(r.LocalPartyID) # Blank
  /\ r.Digest # NoDigest
  /\ r.HasTransport

ValidateSign(r) ==
  /\ IsValidSessionDescriptor(r)
  /\ TrimSpace(r.LocalPartyID) # Blank
  /\ TrimSpace(r.KeyID) # Blank
  /\ r.Digest # NoDigest
  /\ r.HasTransport

validateDerivationContextForSession(ctx, r) ==
  /\ ValidContext(ctx)
  /\ MatchesSession(NormalizeContext(ctx), r.Algorithm, r.Curve, r.Chain)

ValidRequest(r) ==
  /\ ValidateSign(r)
  /\ r.Context # <<>> /\ validateDerivationContextForSession(r.Context[1], r)

\* The normalised context goes on, with a hash that normalises it once more.
SignInput(r) ==
  LET normalized == NormalizeContext(r.Context[1]) IN
  [SessionID |-> r.SessionID, LocalPartyID |-> r.LocalPartyID, KeyID |-> r.KeyID,
   Parties |-> r.Parties, Digest |-> r.Digest, Algorithm |-> r.Algorithm,
   DerivationContext |-> normalized, DerivationContextHash |-> HashV1(normalized)]

RunSignSession(c) ==
  /\ pc[c] = "idle"
  /\ \E r \in Requests[c] :
       IF ValidRequest(r) /\ ValidHashInput(NormalizeContext(r.Context[1]))
       THEN /\ Goes(c, "accepted")
            /\ input' = [input EXCEPT ![c] = <<SignInput(r)>>]
            /\ said' = [said EXCEPT ![c] = Meaning(r.Context[1])]
       ELSE Fails(c, "request") /\ UNCHANGED <<input, said>>
  /\ UNCHANGED <<heard, net, sigs>>

-----------------------------------------------------------------------------
(* The service: prepareDerivedECDSASignJob; the runner and flow.RunSign    *)

\* loadECDSAKeyMaterial: NormalizeKeyID, then LoadShare.
Loaded(c) == LoadShare(Owner[c], TrimSpace(In(c).KeyID))

prepareDerivedECDSASignJob(c) ==
  LET ctx == In(c).DerivationContext
  IN /\ pc[c] = "accepted"
     /\ \/ ~IsECDSA(In(c).Algorithm) /\ Fails(c, "share")
        \/ /\ IsECDSA(In(c).Algorithm)
           /\ IF ~UnmarshalsKeyMaterial(Loaded(c)) THEN Fails(c, "share")
              ELSE IF ~ValidHashInput(ctx) \/ In(c).DerivationContextHash # HashV1(ctx)
                   THEN Fails(c, "hash")
              ELSE IF ~DerivesChild(Loaded(c).pub, Loaded(c).chainCode, ctx)
                   THEN Fails(c, "child")
              ELSE IF ~BuildsParams(In(c).Parties, In(c).LocalPartyID, Len(In(c).Parties),
                                    Blank, Plain("ecdsa"))
                   THEN Fails(c, "params")
              ELSE Goes(c, "running")
     /\ UNCHANGED <<input, said, heard, net, sigs>>

-----------------------------------------------------------------------------
(* The protocol                                                            *)

Signers(c) == {In(c).Parties[i] : i \in DOMAIN In(c).Parties}

\* What the tss-lib party of call c is built from: the derived share, the
\* digest as a number, the signers.
PartyInputs(c) ==
  [key |-> DeriveECDSAChildKey(Loaded(c).pub, Loaded(c).chainCode, In(c).DerivationContext),
   num |-> In(c).Digest.num,
   signers |-> Signers(c)]

\* The envelope; what the payload says follows from the sender's PartyInputs.
Frame(c) == [SessionID |-> In(c).SessionID, FromParty |-> Owner[c],
             DerivationContextHash |-> In(c).DerivationContextHash]

SendFrame(c) ==
  /\ pc[c] = "running" /\ c \notin net
  /\ net' = net \cup {c}
  /\ UNCHANGED <<input, said, pc, err, heard, sigs>>

\* Mutant: frames are not checked against the local commitment.
AnyHash(c, f) == TRUE

\* validateDerivationContextHash
MatchesHash(c, f) == f.DerivationContextHash = In(c).DerivationContextHash

\* handleIncoming of the frame of call d of another party, in this order:
\* another session's frame is dropped (no step), a wrong commitment fails the
\* run, a duplicate is dropped (no step), an unknown sender fails the run.
RecvFrame(c, d) ==
  LET f == Frame(d) IN
  /\ pc[c] = "running" /\ d \in net /\ f.FromParty # Owner[c]
  /\ f.SessionID = In(c).SessionID
  /\ \/ ~MatchesHash(c, f) /\ Fails(c, "frame") /\ UNCHANGED heard
     \/ /\ MatchesHash(c, f) /\ d \notin heard[c]
        /\ IF f.FromParty \in Signers(c)
           THEN heard' = [heard EXCEPT ![c] = @ \cup {d}] /\ UNCHANGED <<pc, err>>
           ELSE Fails(c, "frame") /\ UNCHANGED heard
  /\ UNCHANGED <<input, said, net, sigs>>

\* Cancellation, a stall, a transport or protocol failure.
RunFails(c) ==
  /\ pc[c] = "running"
  /\ Fails(c, "failed")
  /\ UNCHANGED <<input, said, heard, net, sigs>>

\* tss-lib ends with a signature only if every other entry of the party list
\* has taken part in this one run with the same inputs; a repeated entry never
\* speaks.
PartyEnds(c) ==
  /\ c \in net /\ Cardinality(Signers(c)) = Len(In(c).Parties)
  /\ \A p \in Signers(c) \ {Owner[c]} :
       \E d \in heard[c] : /\ Owner[d] = p /\ PartyInputs(d) = PartyInputs(c)
                           /\ \A e \in heard[c] : Owner[e] = p => e = d

\* Mutant: the digest as tss-lib returns it, without its leading zeros.
SignatureOfNumber(c) ==
  [by |-> c, key |-> PartyInputs(c).key, M |-> [zeros |-> 0, num |-> PartyInputs(c).num]]

\* deliverSignature: tss-lib's M is a number; the caller's digest is kept.
Signature(c) == [by |-> c, key |-> PartyInputs(c).key, M |-> In(c).Digest]

setECDSASignature(c, name) == sigs' = [sigs EXCEPT ![Owner[c]][name] = Signature(c)]

\* exec.Run has succeeded: OnSignature writes the session's entry first.
StoreUnderSession(c) ==
  /\ pc[c] = "running" /\ PartyEnds(c)
  /\ setECDSASignature(c, In(c).SessionID)
  /\ Goes(c, "sessionStored")
  /\ UNCHANGED <<input, said, heard, net>>

\* Mutant: the key's entry is written under the name the share was loaded by.
StoreUnderTrimmedKey(c) ==
  /\ pc[c] = "sessionStored"
  /\ setECDSASignature(c, TrimSpace(In(c).KeyID))
  /\ Goes(c, "keyStored")
  /\ UNCHANGED <<input, said, heard, net>>

\* Then the key's, under the key id as the caller wrote it.
StoreUnderKey(c) ==
  /\ pc[c] = "sessionStored"
  /\ setECDSASignature(c, In(c).KeyID)
  /\ Goes(c, "keyStored")
  /\ UNCHANGED <<input, said, heard, net>>

ExportECDSASignature(p, name) == sigs[p][name]

\* The service reads the session's entry back: any entry will do.
Export(c) ==
  /\ pc[c] = "keyStored"
  /\ IF ExportECDSASignature(Owner[c], In(c).SessionID) = NoSignature
     THEN Fails(c, "failed") ELSE Goes(c, "returned")
  /\ UNCHANGED <<input, said, heard, net, sigs>>

\* Every call has returned.
Finished == (\A c \in Calls : pc[c] = "returned") /\ UNCHANGED vars

Next ==
  \/ Finished
  \/ \E c \in Calls :
       \/ RunSignSession(c) \/ prepareDerivedECDSASignJob(c)
       \/ SendFrame(c) \/ RunFails(c)
       \/ \E d \in Calls : RecvFrame(c, d)
       \/ StoreUnderSession(c) \/ StoreUnderKey(c) \/ Export(c)

Spec == Init /\ [][Next]_vars

-----------------------------------------------------------------------------
(* Properties                                                              *)

Accepted(c) == input[c] # <<>>
Signed(c) == pc[c] \in {"sessionStored", "keyStored"} \/ (pc[c] = "returned" /\ err[c] = "nil")
SameSession(c, d) == In(c).SessionID = In(d).SessionID

\* The key a request asks for, from the request as the caller wrote it.
RequestedKey(c) == ChildKey(Loaded(c).pub, Loaded(c).chainCode, said[c].child)

\* The names under which call c may leave its signature.
NamesOf(c) == {In(c).SessionID, In(c).KeyID}

\* Every variable keeps its type; the table has entries for known names only.
TypeOK ==
  /\ DOMAIN input = Calls /\ DOMAIN said = Calls
  /\ \A c \in Calls : input[c] = <<>> \/ (Len(input[c]) = 1 /\ NamesOf(c) \subseteq Names)
  /\ pc \in [Calls -> Points] /\ err \in [Calls -> Errors]
  /\ heard \in [Calls -> SUBSET Calls] /\ net \subseteq Calls
  /\ DOMAIN sigs = Parties /\ \A p \in Parties : DOMAIN sigs[p] = Names

\* README.md:194-196, "Participants fail closed if their profile or path
\* commitments differ": a signature exists only if every signer of its session
\* made a call that says the same of profile, chain, paths, format and
\* versions, asks for the same child key and signs the same number, whatever
\* other runs of that session are about.
CommitmentsAgree ==
  \A c \in Calls : Signed(c) =>
    \A i \in DOMAIN In(c).Parties : \E d \in Calls :
      /\ Owner[d] = In(c).Parties[i] /\ Accepted(d) /\ SameSession(c, d)
      /\ said[d] = said[c]
      /\ RequestedKey(d) = RequestedKey(c)
      /\ In(d).Digest.num = In(c).Digest.num

\* hash.go: two requests commit to the same hash exactly if they say the same,
\* however they are written (case, blanks, marks, leading zeros, defaults, the
\* scheme's alias, with or without the full path).
HashMeansSame ==
  \A c, d \in Calls : pc[c] = "accepted" /\ pc[d] = "accepted" =>
    (In(c).DerivationContextHash = In(d).DerivationContextHash
       <=> said[c] = said[d])

\* What can be wrong with a call that the facade has accepted, said of the call
\* as its caller wrote it and of what its party has.
NoShare(c) == ~IsECDSA(In(c).Algorithm) \/ ~UnmarshalsKeyMaterial(Loaded(c))
NoChild(c) == \/ Loaded(c).pub = NoPub
              \/ In(c).DerivationContext.DerivedPublicKey \notin {NoKey, RequestedKey(c)}
NoPlace(c) == \/ Len(In(c).Parties) < 2
              \/ \A i \in DOMAIN In(c).Parties : Plain(In(c).Parties[i]) # In(c).LocalPartyID
Disputed(c) == \E d \in net : /\ Owner[d] # Owner[c] /\ SameSession(c, d)
                              /\ (said[d] # said[c] \/ Owner[d] \notin Signers(c))

\* The context is normalised and hashed over and over on its way from the
\* facade to tss-lib and is never refused for it: short of a failure of the run
\* itself, a call the facade has accepted fails only for want of an ECDSA share,
\* for a child key that its share does not derive or its caller does not expect,
\* for a local party that is not literally among two or more parties, or because
\* another party's call of its session says something else or is of no signer.
FacadeDecides ==
  \A c \in Calls :
    /\ err[c] # "hash"
    /\ err[c] = "share" => NoShare(c)
    /\ err[c] = "child" => NoChild(c)
    /\ err[c] = "params" => NoPlace(c)
    /\ err[c] = "frame" => Disputed(c)

\* README.md:144: after RunSignSession returns without error the signature
\* exported under its session id is its own (the very digest bytes and the
\* requested child key), unless another call of that service uses the name.
OwnSignature ==
  \A c \in Calls :
    /\ pc[c] = "returned" /\ err[c] = "nil"
    /\ \A d \in Calls \ {c} : Owner[d] = Owner[c] /\ Accepted(d) =>
         In(c).SessionID \notin NamesOf(d)
    => LET sig == ExportECDSASignature(Owner[c], In(c).SessionID)
       IN sig.by = c /\ sig.M = In(c).Digest /\ sig.key = RequestedKey(c)

\* One table, two writes per call, any number of calls at a time, nothing ever
\* removed: an entry is always the whole signature of one call of that service
\* which goes by that name and does not fail.
EntriesBelong ==
  \A p \in Parties, n \in Names : sigs[p][n] # NoSignature =>
    \E c \in Calls :
      /\ Owner[c] = p /\ Signed(c) /\ n \in NamesOf(c)
      /\ sigs[p][n] = [by |-> c, key |-> RequestedKey(c), M |-> In(c).Digest]

\* A key is found under any spelling of its id: once a DKG call of this service
\* that the facade accepts has run, no signing call fails for want of the share,
\* and none runs with a key other than that of the id's latest DKG.
DKGKeysSign ==
  \A c \in Calls : Accepted(c) /\ Imported[Owner[c]][Plain(In(c).KeyID.text)] = NoBlob =>
    LET mine == KeyDKGs[Owner[c]][In(c).KeyID.text]
    IN /\ err[c] = "share" /\ IsECDSA(In(c).Algorithm) => mine = {}
       /\ pc[c] = "running" \/ Signed(c) =>
            /\ mine # {}
            /\ Loaded(c).pub = DKGs[Owner[c]][Max(mine)].SessionID.text

-----------------------------------------------------------------------------
(* The inductive invariant behind these properties                         *)

\* A call that has failed has returned, and a call is accepted exactly if it has
\* been made and the facade has not refused it.
ControlInv ==
  \A c \in Calls :
    /\ err[c] # "nil" => pc[c] = "returned"
    /\ Accepted(c) <=> (pc[c] # "idle" /\ err[c] # "request")

\* What a call is about once the facade has accepted one of its requests.
AcceptedInputs ==
  [c \in Calls |->
     {<< <<SignInput(r)>>, Meaning(r.Context[1])>> :
        r \in {x \in Requests[c] :
                 ValidRequest(x) /\ ValidHashInput(NormalizeContext(x.Context[1]))}}]

InputInv == \A c \in Calls : Accepted(c) => <<input[c], said[c]>> \in AcceptedInputs[c]

\* Frames are of accepted calls, and those heard are of the listener's session
\* and commit to what the listener commits to.
HeardInv ==
  /\ \A d \in net : Accepted(d)
  /\ \A c \in Calls : \A d \in heard[c] :
       /\ Accepted(c) /\ Accepted(d) /\ SameSession(c, d)
       /\ In(d).DerivationContextHash = In(c).DerivationContextHash

\* A call runs with a share that decodes, and one that finds none does not run.
LoadInv ==
  \A c \in Calls :
    /\ err[c] = "share" => ~IsECDSA(In(c).Algorithm) \/ ~UnmarshalsKeyMaterial(Loaded(c))
    /\ pc[c] = "running" \/ Signed(c) => UnmarshalsKeyMaterial(Loaded(c))

\* A call that has signed has left an entry under its session id.
WrittenInv ==
  \A c \in Calls : Signed(c) => sigs[Owner[c]][In(c).SessionID] # NoSignature

\* What holds at every step of every call, from the facade to the table: the
\* type invariant, where a call stands, what it was made with, whom it has
\* heard, what it has loaded and what it has written.
SignInv ==
  /\ TypeOK /\ ControlInv /\ InputInv
  /\ HeardInv /\ LoadInv /\ WrittenInv
=============================================================================
