------------------------------ MODULE MCSigning ------------------------------
(***************************************************************************)
(* Two parties and two calls on each of their services.  Call a1 is made   *)
(* with any request that differs from the plain one in one field; the      *)
(* others sign along in its session, retry it with another profile, or     *)
(* sign in a session of their own, one of them named like the key.         *)
(***************************************************************************)
EXTENDS Signing

MCHardenedStart == 3
MCParties == {"A", "B"}
MCCalls == {"a1", "a2", "b1", "b2"}
MCOwner == [c \in MCCalls |-> IF c \in {"a1", "a2"} THEN "A" ELSE "B"]

Padded(t) == [text |-> t, form |-> "padded"]
Upper(t) == [text |-> t, form |-> "upper"]
Invalid(t) == [text |-> t, form |-> "invalid"]
N(n) == Component(n, <<>>)
Hardened(n, mark) == Component(n, <<mark>>)
Account == <<Hardened(1, "'"), N(0)>>
Child == Path("/", <<N(0), N(2)>>)
DerivedKey == ChildKey("pub", "cc", <<0, 2>>)

MCNames == {Plain("s1"), Plain("s2"), Plain("k"), Padded("k"), Plain("refused"),
            Plain("empty"), Plain("corrupt")}
MCChainCodes == {"cc", "dd"}

\* The key k is made twice; the requests in between save nothing.
BaseDKG(p, s) ==
  [SessionID |-> Plain(s), OrgID |-> Plain("org"), KeyID |-> Plain("k"),
   Parties |-> <<"A", "B">>, Threshold |-> 2, LocalPartyID |-> Plain(p), HasTransport |-> TRUE,
   Algorithm |-> Blank, Curve |-> Blank, ChainCode |-> Plain("cc"),
   DerivationScheme |-> Upper("bip32_secp256k1")]
Refused(p, f, v) == [BaseDKG(p, "d2") EXCEPT !.KeyID = Plain("refused"), ![f] = v]
MCDKGs == [p \in MCParties |->
  <<[BaseDKG(p, "d1") EXCEPT !.ChainCode = Plain("dd")],
    [BaseDKG(p, "pub") EXCEPT !.KeyID = IF p = "A" THEN Padded("k") ELSE @],
    Refused(p, "ChainCode", Upper("cc")), Refused(p, "ChainCode", Padded("cc")),
    Refused(p, "ChainCode", Blank), Refused(p, "DerivationScheme", Blank),
    Refused(p, "Curve", Plain("ed25519")), Refused(p, "Curve", Padded("")),
    Refused(p, "Threshold", 1),
    Refused(p, "LocalPartyID", Padded(p)), Refused(p, "HasTransport", FALSE),
    [BaseDKG(p, "d3") EXCEPT !.KeyID = Padded("")],
    [BaseDKG(p, "d4") EXCEPT !.Algorithm = Plain("eddsa"), !.Curve = Plain("ed25519")]>>]

MCImported == [p \in MCParties |-> [n \in MCNames |->
  IF n = Plain("empty") THEN [Blob(BaseDKG(p, "d5")) EXCEPT !.pub = NoPub]
  ELSE IF n = Plain("corrupt") THEN [Blob(BaseDKG(p, "d5")) EXCEPT !.version = 0]
  ELSE NoBlob]]

BaseContext ==
  [ProfileID |-> Plain("p"), ProfileTemplateID |-> Blank, Chain |-> Plain("eth"),
   Algorithm |-> Blank, Curve |-> Blank, Scheme |-> Plain("bip32_secp256k1"),
   PublicKeyFormat |-> Blank, AccountPath |-> Path("m/", Account), ChildPath |-> Child,
   FullPath |-> BlankPath, DerivedPublicKey |-> NoKey, Versions |-> 0]

BaseRequest(p, s) ==
  [SessionID |-> Plain(s), OrgID |-> Plain("org"), KeyID |-> Plain("k"),
   Parties |-> <<"A", "B">>, Threshold |-> 2, LocalPartyID |-> Plain(p),
   Algorithm |-> Blank, Curve |-> Blank, Chain |-> Blank,
   Digest |-> [zeros |-> 0, num |-> 1], HasTransport |-> TRUE,
   Context |-> <<BaseContext>>]

With(f, values) == {[BaseContext EXCEPT ![f] = v] : v \in values}
WithParts(f, root, seqs) == With(f, {Path(root, s) : s \in seqs})

OddComponents ==
  {N(3), N(Empty), N(NotANumber), [N(0) EXCEPT !.zeros = TRUE], Hardened(1, "h"),
   Component(1, <<"H", "h", "'">>), Component(1, <<"'", "'">>), [N(2) EXCEPT !.blanks = TRUE]}

ContextVariants ==
  {BaseContext}
  \cup With("ProfileID", {Blank, Padded(""), Padded("p"), Upper("p"), Invalid("p")})
  \cup With("ProfileTemplateID", {Plain("t")})
  \cup With("Chain", {Blank})
  \cup With("Algorithm", {Upper("ecdsa"), Plain("eddsa"), Plain("rsa")})
  \cup With("Curve", {Upper("secp256k1"), Plain("ed25519")})
  \cup With("Scheme", {Blank, Upper("bip32_public"), Plain("slip10_ed25519")})
  \cup With("PublicKeyFormat", {Upper("uncompressed_hex"), Plain("x"), Invalid("x"), Invalid("y")})
  \cup WithParts("AccountPath", "m/", {<<Hardened(1, "'"), x>> : x \in OddComponents}
                                        \cup {<<x, N(0)>> : x \in {Hardened(1, "h"), Component(1, <<"H", "h", "'">>)}})
  \cup With("AccountPath", {BlankPath, Path("m", <<>>), [Path("m/", Account) EXCEPT !.padded = TRUE]})
  \cup WithParts("ChildPath", "/", {<<N(0), x>> : x \in OddComponents} \cup {<<N(0)>>, <<N(0), N(0), N(2)>>})
  \cup WithParts("ChildPath", "m/", {<<N(0), N(2)>>})
  \cup WithParts("FullPath", "m/", {<<Hardened(1, "H"), x, N(0), N(2)>> : x \in {N(0), [N(0) EXCEPT !.blanks = TRUE]}}
                                     \cup {<<N(0), N(2)>>, <<Hardened(1, "'"), N(0), N(0), N(1)>>})
  \cup With("FullPath", {Path("m", <<>>), Path("/", <<N(0)>>)})
  \cup With("DerivedPublicKey", {MalformedKey, DerivedKey, ChildKey("pub", "cc", <<0, 1>>)})
  \cup With("Versions", {1})
  \cup {[BaseContext EXCEPT !.Algorithm = Plain("eddsa"), !.Curve = Plain("ed25519"),
                            !.Scheme = Plain("slip10_ed25519")]}

WithRequest(f, values) == {[BaseRequest("A", "s1") EXCEPT ![f] = v] : v \in values}

RequestVariants ==
  WithRequest("Context", {<<x>> : x \in ContextVariants} \cup {<<>>})
  \cup WithRequest("SessionID", {Blank})
  \cup WithRequest("OrgID", {Blank})
  \cup WithRequest("KeyID", {Padded(""), Padded("k"), Plain("refused"), Plain("empty"), Plain("corrupt")})
  \cup WithRequest("Parties", {<<>>, <<"A">>, <<"B", "A">>, <<"A", "A">>, <<"B", "C">>})
  \cup WithRequest("Threshold", {0})
  \cup WithRequest("LocalPartyID", {Blank, Padded("A")})
  \cup WithRequest("Algorithm", {Padded("ecdsa"), Plain("eddsa")})
  \cup WithRequest("Curve", {Upper("secp256k1"), Plain("ed25519")})
  \cup WithRequest("Chain", {Padded("eth"), Plain("btc")})
  \cup WithRequest("Digest", {NoDigest, [zeros |-> 1, num |-> 1], [zeros |-> 0, num |-> 2]})
  \cup WithRequest("HasTransport", {FALSE})
  \cup {[BaseRequest("A", "s1") EXCEPT !.Algorithm = Plain("eddsa"), !.Curve = Plain("ed25519"),
           !.Context = <<[BaseContext EXCEPT !.Algorithm = Plain("eddsa"), !.Curve = Plain("ed25519"),
                                             !.Scheme = Plain("slip10_ed25519")]>>]}

OtherProfile == [BaseContext EXCEPT !.ProfileID = Plain("q")]
ShortDigest == [zeros |-> 1, num |-> 1]

MCRequests ==
  [c \in MCCalls |->
    CASE c = "a1" -> RequestVariants
      [] c = "b1" -> {BaseRequest("B", "s1")}
      [] c = "a2" -> {[BaseRequest("A", "s1") EXCEPT !.Context = <<OtherProfile>>],
                      [BaseRequest("A", "k") EXCEPT !.Digest = ShortDigest]}
      [] c = "b2" -> {BaseRequest("B", "k")}]
=============================================================================
