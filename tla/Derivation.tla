----------------------------- MODULE Derivation -----------------------------
(***************************************************************************)
(* The derivation context of a signing: internal/tss/derivation and        *)
(* tss/derivation.go.  A context arrives as text, is normalised, committed *)
(* to by a hash and used to derive a child key.  What a Go function        *)
(* returns is split in two operators: Valid... (err == nil) and the value. *)
(*                                                                         *)
(* A text is what it says and how it is written, a path its components.    *)
(* Hashing is injective on the committed fields (SHA-256 over a JSON       *)
(* object whose strings are escaped), a key is the way it was derived.     *)
(***************************************************************************)
EXTENDS Integers, Sequences

CONSTANT HardenedStart     \* 0x80000000, the first index that is hardened

ASSUME HardenedStartAssumption == HardenedStart \in Nat \ {0}

-----------------------------------------------------------------------------
(* Texts                                                                   *)

\* "padded" has blanks around it, "upper" has capitals, "invalid" holds bytes
\* that are not UTF-8.
Forms == {"plain", "padded", "upper", "invalid"}
ReplacementText == "U+FFFD"
\* Any string; those the code names are listed for the provers, which do not
\* know that a literal is one.
Words == STRING \cup {"", "ecdsa", "eddsa", "secp256k1", "ed25519", "bip32_secp256k1",
                      "bip32_public", "slip10_ed25519", "uncompressed_hex", ReplacementText}
Texts == [text : Words, form : Forms]
Plain(t) == [text |-> t, form |-> "plain"]
Blank == Plain("")

\* strings.TrimSpace
TrimSpace(t) == IF t.form = "padded" THEN Plain(t.text) ELSE t

\* strings.ToLower(strings.TrimSpace(t)); strings.Map replaces bytes that are
\* not UTF-8 by the replacement character.
TrimLower(t) == IF t.form = "invalid" THEN Plain(ReplacementText) ELSE Plain(t.text)

-----------------------------------------------------------------------------
(* Paths                                                                   *)

\* A component is its number (or Empty, or NotANumber: a sign, a blank or any
\* other character inside), whether that has leading zeros, the run of marks
\* after it, and whether blanks follow.
Empty == -1
NotANumber == -2
Marks == {"'", "h", "H"}
Components == [num : Int, zeros : BOOLEAN, marks : Seq(Marks), blanks : BOOLEAN]
Component(n, marks) == [num |-> n, zeros |-> FALSE, marks |-> marks, blanks |-> FALSE]

\* A path is what it starts with ("" stands for anything but m, m/ and /, and
\* with no component for a blank text) and what the slashes after it separate:
\* "m/" itself has one component, which is Empty.
Roots == {"m/", "/", "m", ""}
Paths == [root : Roots, parts : Seq(Components), padded : BOOLEAN]
Path(root, parts) == [root |-> root, parts |-> parts, padded |-> FALSE]
BlankPath == Path("", <<>>)

\* strings.TrimSpace: blanks before the path and after its last component.
TrimPath(p) ==
  [p EXCEPT !.padded = FALSE,
            !.parts = [i \in DOMAIN p.parts |->
                         IF i = Len(p.parts) THEN [p.parts[i] EXCEPT !.blanks = FALSE]
                                             ELSE p.parts[i]]]

\* strings.TrimSuffix(marks, m)
TrimMark(marks, m) ==
  IF marks # <<>> /\ marks[Len(marks)] = m
  THEN SubSeq(marks, 1, Len(marks) - 1) ELSE marks

\* Mutant: the first hardened index passes for a plain one.
InRangeInclusive(n) == n \in 0..HardenedStart

InRange(n) == n \in 0..(HardenedStart - 1)

ValidAccountPathComponent(part) ==
  /\ ~part.blanks
  /\ TrimMark(TrimMark(TrimMark(part.marks, "'"), "h"), "H") = <<>>
  /\ InRange(part.num)

\* Mutant: the mark of a hardened component is kept as it was written.
KeepsMark(part) == Component(part.num, part.marks)

\* strconv.FormatUint(n, 10), with "'" whatever the mark was.
normalizeAccountPathComponent(part) ==
  Component(part.num, IF part.marks # <<>> THEN <<"'">> ELSE <<>>)

ValidAccountPath(p) ==
  LET t == TrimPath(p) IN
    /\ t.root = "m/"
    /\ \A i \in DOMAIN t.parts : ValidAccountPathComponent(t.parts[i])

NormalizeAccountPath(p) ==
  Path("m/", [i \in DOMAIN p.parts |-> normalizeAccountPathComponent(p.parts[i])])

\* Neither marks nor leading zeros in a child path.
ValidChildPath(p) ==
  LET t == TrimPath(p) IN
    /\ t.root = "/" /\ Len(t.parts) = 2
    /\ \A i \in DOMAIN t.parts :
         LET part == t.parts[i] IN
           ~part.blanks /\ part.marks = <<>> /\ ~part.zeros /\ InRange(part.num)

Indices(p) == [i \in DOMAIN p.parts |-> p.parts[i].num]

NormalizeChildPath(p) == Path("/", [i \in DOMAIN p.parts |-> Component(Indices(p)[i], <<>>)])

CanonicalFullPath(account, child) == Path("m/", account.parts \o child.parts)

\* A full path splits into the account path and the last two components.
AccountPart(p) == Path("m/", SubSeq(p.parts, 1, Len(p.parts) - 2))
ChildPart(p) == Path("/", SubSeq(p.parts, Len(p.parts) - 1, Len(p.parts)))

ValidFullPath(p) ==
  /\ p.root = "m/" /\ Len(p.parts) >= 3
  /\ ValidAccountPath(AccountPart(p)) /\ ValidChildPath(ChildPart(p))

NormalizeFullPath(p) ==
  CanonicalFullPath(NormalizeAccountPath(AccountPart(p)), NormalizeChildPath(ChildPart(p)))

-----------------------------------------------------------------------------
(* Contexts                                                                *)

\* DerivedPublicKey: absent, not canonical uncompressed hex of a point, or a key.
NoKey == <<>>
MalformedKey == <<"malformed">>
Keys == {NoKey, MalformedKey} \cup (Words \X Words \X Seq(Int))

\* AddressEncoding, ExpectedAddress and Descriptor, which nothing looks at, are
\* left out; Versions stands for the three version numbers.
Contexts ==
  [ProfileID : Texts, ProfileTemplateID : Texts, Chain : Texts, Algorithm : Texts,
   Curve : Texts, Scheme : Texts, PublicKeyFormat : Texts, AccountPath : Paths,
   ChildPath : Paths, FullPath : Paths, DerivedPublicKey : Keys, Versions : Nat]

\* NormalizeContext up to the switch: texts trimmed, names in lower case, the
\* ECDSA defaults filled in.
NormalizeTexts(c) ==
  LET alg == IF TrimLower(c.Algorithm) = Blank THEN Plain("ecdsa") ELSE TrimLower(c.Algorithm)
      OrDefault(t, d) == IF TrimLower(t) = Blank /\ alg = Plain("ecdsa")
                         THEN Plain(d) ELSE TrimLower(t)
  IN [c EXCEPT !.ProfileID = TrimSpace(@),
               !.ProfileTemplateID = TrimSpace(@),
               !.Chain = TrimSpace(@),
               !.Algorithm = alg,
               !.Curve = OrDefault(@, "secp256k1"),
               !.PublicKeyFormat = OrDefault(@, "uncompressed_hex"),
               !.Scheme = TrimLower(@)]

ECDSASchemes == {Plain("bip32_secp256k1"), Plain("bip32_public")}

\* Both algorithms' paths: a full path may be left out, and must agree if not.
ValidPaths(c) ==
  /\ ValidAccountPath(c.AccountPath) /\ ValidChildPath(c.ChildPath)
  /\ LET full == TrimPath(c.FullPath) IN
       full # BlankPath =>
         /\ ValidFullPath(full)
         /\ NormalizeFullPath(full) =
              CanonicalFullPath(NormalizeAccountPath(c.AccountPath), NormalizeChildPath(c.ChildPath))

ValidContext(c) ==
  LET n == NormalizeTexts(c) IN
    /\ n.ProfileID # Blank
    /\ \/ /\ n.Algorithm = Plain("ecdsa") /\ n.Curve = Plain("secp256k1")
          /\ n.Scheme \in ECDSASchemes
          /\ n.DerivedPublicKey # MalformedKey
       \/ /\ n.Algorithm = Plain("eddsa") /\ n.Curve = Plain("ed25519")
          /\ n.Scheme = Plain("slip10_ed25519")
    /\ ValidPaths(c)

NormalizeContext(c) ==
  LET n == NormalizeTexts(c)
      account == NormalizeAccountPath(c.AccountPath)
      child == NormalizeChildPath(c.ChildPath)
  IN [n EXCEPT !.Scheme = IF @ = Plain("bip32_public") THEN Plain("bip32_secp256k1") ELSE @,
               !.AccountPath = account,
               !.ChildPath = child,
               !.FullPath = CanonicalFullPath(account, child)]

\* MatchSession: the session's algorithm and curve, and its chain if both name one.
MatchesSession(c, algorithm, curve, chain) ==
  LET n == NormalizeContext(c)
      s == NormalizeTexts([c EXCEPT !.Algorithm = algorithm, !.Curve = curve, !.Chain = chain])
  IN /\ ValidContext(c)
     /\ n.Algorithm = s.Algorithm /\ n.Curve = s.Curve
     /\ n.Chain = Blank \/ s.Chain = Blank \/ n.Chain = s.Chain

\* CanonicalHashPayloadV1: what the commitment covers.  AddressEncoding,
\* ExpectedAddress and Descriptor are not in it.
HashedTexts == {"ProfileID", "ProfileTemplateID", "Chain", "Algorithm", "Curve",
                "Scheme", "PublicKeyFormat"}
HashedFields == HashedTexts \cup {"AccountPath", "ChildPath", "FullPath",
                                  "DerivedPublicKey", "Versions"}

ValidHashInput(c) ==
  /\ ValidContext(c)
  /\ \A f \in HashedTexts : NormalizeContext(c)[f].form # "invalid"

HashV1(c) == LET n == NormalizeContext(c) IN [f \in HashedFields |-> n[f]]

-----------------------------------------------------------------------------
(* Keys                                                                    *)

\* ckd.DeriveChildKeyFromHierarchy: refuses a hardened index.
Derivable(indices) == \A i \in DOMAIN indices : indices[i] < HardenedStart
ChildKey(pub, chainCode, indices) == <<pub, chainCode, indices>>
NoPub == "none"

\* DeriveECDSAChildKeyForContext: the account path takes no part.
DerivesChild(pub, chainCode, c) ==
  LET n == NormalizeContext(c)
      child == ChildKey(pub, chainCode, Indices(n.ChildPath))
  IN /\ ValidContext(c) /\ n.Algorithm = Plain("ecdsa") /\ pub # NoPub
     /\ ValidChildPath(n.ChildPath) /\ Derivable(Indices(n.ChildPath))
     /\ n.DerivedPublicKey \in {NoKey, child}

DeriveECDSAChildKey(pub, chainCode, c) ==
  ChildKey(pub, chainCode, Indices(NormalizeContext(c).ChildPath))

-----------------------------------------------------------------------------
(* Reference: what a context says, read off the text it arrives as         *)

\* Two texts say the same if they differ in blanks around them only; names of
\* formats also if they differ in case or in bytes that are not UTF-8.
Says(t) == <<t.text, t.form = "upper">>
SaysName(t) == IF t.form = "invalid" THEN ReplacementText ELSE t.text

Meaning(c) ==
  LET alg == IF SaysName(c.Algorithm) = "" THEN "ecdsa" ELSE SaysName(c.Algorithm) IN
  [profile  |-> <<Says(c.ProfileID), Says(c.ProfileTemplateID), Says(c.Chain)>>,
   account  |-> [i \in DOMAIN c.AccountPath.parts |->
                   <<c.AccountPath.parts[i].num, c.AccountPath.parts[i].marks # <<>> >>],
   child    |-> Indices(c.ChildPath),
   key      |-> <<alg, c.DerivedPublicKey, c.Versions>>,
   format   |-> IF alg = "ecdsa" /\ SaysName(c.PublicKeyFormat) = ""
                THEN "uncompressed_hex" ELSE SaysName(c.PublicKeyFormat)]
=============================================================================
