----------------------------- MODULE KeyMaterial -----------------------------
(***************************************************************************)
(* What a DKG call leaves behind for signing: the tests its request passes *)
(* in the facade (tss/service.go, internal/tss/requests) and again in the  *)
(* service (internal/tss/service/dkg.go), the key id and the blob it is    *)
(* saved under (internal/tss/runtime, internal/shares/codec.go), and what  *)
(* a later LoadShare and UnmarshalKeyMaterial make of it.  How the calls   *)
(* of a service interleave is module DKGService; here they have ended.     *)
(***************************************************************************)
EXTENDS Derivation, FiniteSetsExt

CONSTANTS
  Parties,     \* party ids; the service of party p serves p only
  Names,       \* session and key ids, as written
  ChainCodes,  \* the texts that are 64 lower case hexadecimal digits
  DKGs,        \* DKGs[p]: the DKGSessionRequests made on p's service, in order
  Imported     \* Imported[p][n]: a blob p's store holds under n from elsewhere

\* An id is case-sensitive and may hold any bytes: its text spells it out, and
\* only the blanks around it are set apart.
Ids == {t \in Texts : t.form \in {"plain", "padded"}}

DKGRequests ==
  [SessionID : Ids, OrgID : Texts, KeyID : Ids, Parties : Seq(STRING), Threshold : Nat,
   LocalPartyID : Texts, HasTransport : BOOLEAN, Algorithm : Texts, Curve : Texts,
   ChainCode : Texts, DerivationScheme : Texts]

ASSUME KeyMaterialAssumption ==
  /\ Names \subseteq Ids
  /\ \A p \in Parties : DKGs[p] \in Seq(DKGRequests)

CodecVersion == 2
NoBlob == [version |-> 0]

\* tssutils.IsECDSA and derivation.IsECDSAAlgorithm
IsECDSA(algorithm) == TrimLower(algorithm) \in {Blank, Plain("ecdsa")}

-----------------------------------------------------------------------------
(* The facade: DKGSessionRequest.Validate                                  *)

IsValidSessionDescriptor(r) ==
  /\ r.SessionID # Blank /\ r.OrgID # Blank
  /\ r.Parties # <<>> /\ r.Threshold # 0

ValidateDKG(r) ==
  /\ IsValidSessionDescriptor(r)
  /\ TrimSpace(r.LocalPartyID) # Blank
  /\ r.HasTransport

\* ParseChainCodeHex does not trim: blanks or capitals make it invalid.
ParsesChainCode(t) == t.form = "plain" /\ t.text \in ChainCodes

ValidDKGMaterial(r) ==
  IsECDSA(r.Algorithm) =>
    /\ TrimLower(r.DerivationScheme) = Plain("bip32_secp256k1")
    /\ ParsesChainCode(r.ChainCode)

SupportedCurve(r) ==
  \/ IsECDSA(r.Algorithm) /\ TrimLower(r.Curve) \in {Blank, Plain("secp256k1")}
  \/ TrimLower(r.Algorithm) = Plain("eddsa") /\ TrimLower(r.Curve) = Plain("ed25519")

ValidDKGRequest(r) ==
  /\ ValidateDKG(r)
  /\ SupportedCurve(r)
  /\ IsECDSA(r.Algorithm) => TrimSpace(r.KeyID) # Blank
  /\ ValidDKGMaterial(r)

-----------------------------------------------------------------------------
(* The service and the store                                               *)

\* Unlike the facade, selectCurve takes no blanks for an absent curve.
SelectsCurve(curve, algorithm) ==
  \/ /\ TrimLower(algorithm) \in {Blank, Plain("ecdsa")}
     /\ curve = Blank \/ TrimLower(curve) = Plain("secp256k1")
  \/ /\ TrimLower(algorithm) = Plain("eddsa")
     /\ curve = Blank \/ (curve.text = "ed25519" /\ curve.form \in {"plain", "upper"})

\* BuildParams: two parties or more, enough signers, the local one among them.
BuildsParams(parties, local, requiredSignerCount, curve, algorithm) ==
  /\ Len(parties) >= 2
  /\ requiredSignerCount \in 2..Len(parties)
  /\ \E i \in DOMAIN parties : Plain(parties[i]) = local
  /\ SelectsCurve(curve, algorithm)

\* Mutant: the key id is kept as the caller wrote it.
KeyIDAsWritten(r) == r.KeyID

resolveDKGOutputKeyID(r) ==
  IF TrimSpace(r.KeyID) = Blank THEN r.SessionID ELSE TrimSpace(r.KeyID)

\* PersistKeyMaterialAfterDKG: all shares of one DKG session have its public key.
Blob(r) ==
  [version |-> CodecVersion, pub |-> r.SessionID.text, chainCode |-> r.ChainCode.text,
   format |-> "uncompressed_hex", scheme |-> TrimLower(r.DerivationScheme).text]

validateKeyMaterialMeta(b) ==
  b.chainCode \in ChainCodes /\ b.format = "uncompressed_hex" /\ b.scheme = "bip32_secp256k1"

\* UnmarshalKeyMaterial: a blob that decodes, of this version, with valid metadata.
UnmarshalsKeyMaterial(b) == b.version = CodecVersion /\ validateKeyMaterialMeta(b)

\* runDKGSession saves a share: the request passes the facade, resolveDKGOutputKeyID
\* and normalizeDKGMaterial repeat its tests, the runner builds its parameters
\* and MarshalKeyMaterial accepts the metadata.
Persists(r) ==
  /\ ValidDKGRequest(r)
  /\ IsECDSA(r.Algorithm) /\ TrimSpace(r.KeyID) # Blank /\ ValidDKGMaterial(r)
  /\ BuildsParams(r.Parties, r.LocalPartyID, r.Threshold, r.Curve, r.Algorithm)
  /\ validateKeyMaterialMeta(Blob(r))

\* The share store after these calls: a later save under the same key id
\* replaces an earlier one.
Saves(p, name) ==
  {i \in DOMAIN DKGs[p] : Persists(DKGs[p][i]) /\ resolveDKGOutputKeyID(DKGs[p][i]) = name}

Store ==
  [p \in Parties |-> [name \in Names |->
     IF Imported[p][name] # NoBlob THEN Imported[p][name]
     ELSE IF Saves(p, name) = {} THEN NoBlob
     ELSE Blob(DKGs[p][Max(Saves(p, name))])]]

LoadShare(p, name) == Store[p][name]

-----------------------------------------------------------------------------
(* Reference: the keys of a party, by what its requests say                *)

\* The DKG calls of party p, for the key with this id, that the facade accepts
\* and whose parameters can be built, read off the requests as written.
KeyDKGs ==
  [p \in Parties |-> [text \in {n.text : n \in Names} |->
     {i \in DOMAIN DKGs[p] :
        LET r == DKGs[p][i]
        IN /\ ValidDKGRequest(r) /\ IsECDSA(r.Algorithm) /\ r.KeyID.text = text
           /\ BuildsParams(r.Parties, r.LocalPartyID, r.Threshold, r.Curve, r.Algorithm)}]]
=============================================================================
