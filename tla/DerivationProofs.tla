-------------------------- MODULE DerivationProofs --------------------------
(***************************************************************************)
(* What normalising a derivation context does, for every context: it keeps *)
(* what the context says, doing it again changes nothing, and the hash of  *)
(* two normalised contexts is the same exactly if they say the same.       *)
(***************************************************************************)
EXTENDS Derivation, TLAPS

-----------------------------------------------------------------------------
(* Texts                                                                   *)

\* Trimming is done once and for all, and keeps what a text says.
LEMMA TrimFacts ==
  ASSUME NEW t \in Texts
  PROVE  /\ TrimSpace(t) \in Texts /\ TrimSpace(TrimSpace(t)) = TrimSpace(t)
         /\ TrimSpace(t).text = t.text /\ TrimSpace(t).form # "padded"
         /\ (TrimSpace(t).form = "upper") <=> (t.form = "upper")
         /\ (TrimSpace(t).form = "invalid") <=> (t.form = "invalid")
BY DEF Texts, Forms, TrimSpace, Plain

\* Two texts that hold valid UTF-8 are trimmed alike exactly if they say the same.
LEMMA TrimSays ==
  ASSUME NEW t \in Texts, NEW u \in Texts, t.form # "invalid", u.form # "invalid"
  PROVE  TrimSpace(t) = TrimSpace(u) <=> Says(t) = Says(u)
BY DEF Texts, Forms, TrimSpace, Plain, Says

\* TrimLower gives the name a text says, and does nothing to a plain one.
LEMMA LowerFacts ==
  ASSUME NEW t \in Texts
  PROVE  /\ TrimLower(t) = Plain(SaysName(t)) /\ SaysName(t) \in Words
         /\ TrimLower(t) \in Texts
         /\ \A x \in Words : TrimLower(Plain(x)) = Plain(x)
         /\ \A x, y \in Words : Plain(x) = Plain(y) <=> x = y
<1>1. ReplacementText \in Words
  BY DEF Words
<1>2. TrimLower(t) = Plain(SaysName(t)) /\ SaysName(t) \in Words
  BY <1>1 DEF Texts, Forms, TrimLower, SaysName
<1>3. \A x \in Words : Plain(x) \in Texts /\ TrimLower(Plain(x)) = Plain(x)
  BY DEF Texts, Forms, TrimLower, Plain
<1>4. \A x, y \in Words : Plain(x) = Plain(y) <=> x = y
  BY DEF Plain
<1> QED
  BY <1>2, <1>3, <1>4

-----------------------------------------------------------------------------
(* Paths                                                                   *)

\* Normalising an account path keeps the number and the hardening of every
\* component, and nothing else of how they were written.
LEMMA AccountFacts ==
  ASSUME NEW p \in Paths
  PROVE  /\ NormalizeAccountPath(p) \in Paths
         /\ NormalizeAccountPath(NormalizeAccountPath(p)) = NormalizeAccountPath(p)
<1> DEFINE n == NormalizeAccountPath(p)
<1>1. p.parts \in Seq(Components) /\ DOMAIN p.parts = 1..Len(p.parts) /\ Len(p.parts) \in Nat
  BY DEF Paths
<1>2. \A c \in Components : normalizeAccountPathComponent(c) \in Components
  <2>1. <<"'">> \in Seq(Marks) /\ <<>> \in Seq(Marks)
    BY DEF Marks
  <2> SUFFICES ASSUME NEW c \in Components
               PROVE  normalizeAccountPathComponent(c) \in Components
    OBVIOUS
  <2>2. c.num \in Int
    BY DEF Components
  <2> DEFINE m == IF c.marks # <<>> THEN <<"'">> ELSE <<>>
  <2>3. m \in Seq(Marks)
    BY <2>1
  <2> HIDE DEF m
  <2>4. Component(c.num, m) \in Components
    BY <2>2, <2>3 DEF Components, Component
  <2> QED
    BY <2>4 DEF normalizeAccountPathComponent, m
<1>3. \A c \in Components : normalizeAccountPathComponent(normalizeAccountPathComponent(c))
                              = normalizeAccountPathComponent(c)
  <2>1. <<"'">> # <<>>
    OBVIOUS
  <2> SUFFICES ASSUME NEW c \in Components
               PROVE  normalizeAccountPathComponent(normalizeAccountPathComponent(c))
                        = normalizeAccountPathComponent(c)
    OBVIOUS
  <2>2. CASE c.marks = <<>>
    BY <2>2 DEF normalizeAccountPathComponent, Component
  <2>3. CASE c.marks # <<>>
    BY <2>1, <2>3 DEF normalizeAccountPathComponent, Component
  <2> QED
    BY <2>2, <2>3
<1>4. n.parts = [i \in DOMAIN p.parts |-> normalizeAccountPathComponent(p.parts[i])]
  BY DEF NormalizeAccountPath, Path
<1>5. n.parts \in Seq(Components)
  BY <1>1, <1>2, <1>4
<1>6. n \in Paths
  BY <1>5 DEF NormalizeAccountPath, Path, Paths, Roots
<1>7. [i \in DOMAIN n.parts |-> normalizeAccountPathComponent(n.parts[i])] = n.parts
  BY <1>1, <1>3, <1>4
<1> QED
  BY <1>6, <1>7 DEF NormalizeAccountPath, Path

\* Two account paths normalise alike exactly if they have the same numbers and
\* the same hardening, component by component.
LEMMA AccountSays ==
  ASSUME NEW p \in Paths, NEW q \in Paths
  PROVE  NormalizeAccountPath(p) = NormalizeAccountPath(q) <=>
           [i \in DOMAIN p.parts |-> <<p.parts[i].num, p.parts[i].marks # <<>> >>]
             = [i \in DOMAIN q.parts |-> <<q.parts[i].num, q.parts[i].marks # <<>> >>]
<1> DEFINE norm(r) == [i \in DOMAIN r.parts |-> normalizeAccountPathComponent(r.parts[i])]
           says(r) == [i \in DOMAIN r.parts |-> <<r.parts[i].num, r.parts[i].marks # <<>> >>]
<1>1. NormalizeAccountPath(p) = NormalizeAccountPath(q) <=> norm(p) = norm(q)
  BY DEF NormalizeAccountPath, Path
<1>2. \A x, y : normalizeAccountPathComponent(x) = normalizeAccountPathComponent(y)
               <=> <<x.num, x.marks # <<>> >> = <<y.num, y.marks # <<>> >>
  <2>1. <<"'">> # <<>>
    OBVIOUS
  <2>2. \A a, b, m, n : Component(a, m) = Component(b, n) <=> (a = b /\ m = n)
    BY DEF Component
  <2> QED
    BY <2>1, <2>2 DEF normalizeAccountPathComponent
<1>3. ASSUME norm(p) = norm(q)
      PROVE  says(p) = says(q)
  <2>1. DOMAIN p.parts = DOMAIN q.parts
    BY <1>3
  <2>2. \A i \in DOMAIN p.parts : normalizeAccountPathComponent(p.parts[i])
                                   = normalizeAccountPathComponent(q.parts[i])
    BY <1>3, <2>1
  <2> QED
    BY <1>2, <2>1, <2>2
<1>4. ASSUME says(p) = says(q)
      PROVE  norm(p) = norm(q)
  <2>1. DOMAIN p.parts = DOMAIN q.parts
    BY <1>4
  <2>2. \A i \in DOMAIN p.parts : <<p.parts[i].num, p.parts[i].marks # <<>> >>
                                   = <<q.parts[i].num, q.parts[i].marks # <<>> >>
    BY <1>4, <2>1
  <2> QED
    BY <1>2, <2>1, <2>2
<1> QED
  BY <1>1, <1>3, <1>4

\* Normalising a child path keeps its indices, and nothing else.
LEMMA ChildFacts ==
  ASSUME NEW p \in Paths
  PROVE  /\ NormalizeChildPath(p) \in Paths
         /\ Indices(NormalizeChildPath(p)) = Indices(p)
         /\ NormalizeChildPath(NormalizeChildPath(p)) = NormalizeChildPath(p)
<1> DEFINE n == NormalizeChildPath(p)
<1>1. p.parts \in Seq(Components) /\ DOMAIN p.parts = 1..Len(p.parts) /\ Len(p.parts) \in Nat
  BY DEF Paths
<1>2. \A i \in DOMAIN p.parts : Indices(p)[i] \in Int
  <2>1. \A c \in Components : c.num \in Int
    BY DEF Components
  <2> QED
    BY <1>1, <2>1 DEF Indices
<1>3. \A k \in Int : Component(k, <<>>) \in Components /\ Component(k, <<>>).num = k
  <2>1. <<>> \in Seq(Marks)
    OBVIOUS
  <2> QED
    BY <2>1 DEF Component, Components
<1>4. n.parts = [i \in DOMAIN p.parts |-> Component(Indices(p)[i], <<>>)]
  BY DEF NormalizeChildPath, Path
<1>5. n.parts \in Seq(Components)
  BY <1>1, <1>2, <1>3, <1>4
<1>6. n \in Paths
  BY <1>5 DEF NormalizeChildPath, Path, Paths, Roots
<1>7. DOMAIN n.parts = DOMAIN p.parts
  BY <1>4
<1>8. \A i \in DOMAIN p.parts : n.parts[i].num = Indices(p)[i]
  BY <1>2, <1>3, <1>4
<1>9. Indices(n) = Indices(p)
  BY <1>7, <1>8 DEF Indices
<1> QED
  BY <1>6, <1>7, <1>9 DEF NormalizeChildPath

\* Two child paths normalise alike exactly if they have the same indices.
LEMMA ChildSays ==
  ASSUME NEW p \in Paths, NEW q \in Paths
  PROVE  NormalizeChildPath(p) = NormalizeChildPath(q) <=> Indices(p) = Indices(q)
<1>1. ASSUME NormalizeChildPath(p) = NormalizeChildPath(q)
      PROVE  Indices(p) = Indices(q)
  BY <1>1, ChildFacts
<1>2. DOMAIN Indices(p) = DOMAIN p.parts /\ DOMAIN Indices(q) = DOMAIN q.parts
  BY DEF Indices
<1> QED
  BY <1>1, <1>2 DEF NormalizeChildPath

-----------------------------------------------------------------------------
(* Contexts                                                                *)

\* The algorithm a context names, with the default; a name with a default.
AlgName(c) == IF SaysName(c.Algorithm) = "" THEN "ecdsa" ELSE SaysName(c.Algorithm)
OrDefaultName(c, t, d) == IF SaysName(t) = "" /\ AlgName(c) = "ecdsa" THEN d ELSE SaysName(t)

\* What every text field of a context holds once its texts are normalised.
LEMMA NormalTexts ==
  ASSUME NEW c \in Contexts
  PROVE  LET n == NormalizeTexts(c) IN
         /\ n \in Contexts
         /\ n.ProfileID = TrimSpace(c.ProfileID)
         /\ n.ProfileTemplateID = TrimSpace(c.ProfileTemplateID)
         /\ n.Chain = TrimSpace(c.Chain)
         /\ n.Algorithm = Plain(AlgName(c))
         /\ n.Curve = Plain(OrDefaultName(c, c.Curve, "secp256k1"))
         /\ n.PublicKeyFormat = Plain(OrDefaultName(c, c.PublicKeyFormat, "uncompressed_hex"))
         /\ n.Scheme = Plain(SaysName(c.Scheme))
         /\ n.AccountPath = c.AccountPath /\ n.ChildPath = c.ChildPath /\ n.FullPath = c.FullPath
         /\ n.DerivedPublicKey = c.DerivedPublicKey /\ n.Versions = c.Versions
<1> DEFINE n == NormalizeTexts(c)
<1>1. /\ c.ProfileID \in Texts /\ c.ProfileTemplateID \in Texts /\ c.Chain \in Texts
      /\ c.Algorithm \in Texts /\ c.Curve \in Texts /\ c.PublicKeyFormat \in Texts
      /\ c.Scheme \in Texts
  BY DEF Contexts
<1>2. "ecdsa" \in Words /\ "secp256k1" \in Words /\ "uncompressed_hex" \in Words /\ "" \in Words
  BY DEF Words
<1>3. \A t \in Texts : /\ TrimSpace(t) \in Texts /\ TrimLower(t) = Plain(SaysName(t))
                       /\ SaysName(t) \in Words
  BY TrimFacts, LowerFacts
<1>4. /\ \A x \in Words : Plain(x) \in Texts
      /\ \A x, y \in Words : Plain(x) = Plain(y) <=> x = y
  BY DEF Plain, Texts, Forms
<1> DEFINE alg == IF TrimLower(c.Algorithm) = Blank THEN Plain("ecdsa") ELSE TrimLower(c.Algorithm)
           def(t, d) == IF TrimLower(t) = Blank /\ alg = Plain("ecdsa") THEN Plain(d) ELSE TrimLower(t)
<1>5. alg = Plain(AlgName(c)) /\ AlgName(c) \in Words
  BY <1>1, <1>2, <1>3, <1>4 DEF Blank, AlgName
<1>6. \A t \in Texts, d \in Words : /\ def(t, d) = Plain(OrDefaultName(c, t, d))
                                     /\ def(t, d) \in Texts
  <2> HIDE DEF alg
  <2> SUFFICES ASSUME NEW t \in Texts, NEW d \in Words
               PROVE  /\ def(t, d) = Plain(OrDefaultName(c, t, d))
                      /\ def(t, d) \in Texts
    OBVIOUS
  <2>1. TrimLower(t) = Plain(SaysName(t)) /\ SaysName(t) \in Words
    BY <1>3
  <2>2. TrimLower(t) = Blank <=> SaysName(t) = ""
    BY <1>2, <1>4, <2>1 DEF Blank
  <2>3. alg = Plain("ecdsa") <=> AlgName(c) = "ecdsa"
    BY <1>2, <1>4, <1>5
  <2>4. def(t, d) = Plain(OrDefaultName(c, t, d))
    BY <2>1, <2>2, <2>3 DEF OrDefaultName
  <2>5. OrDefaultName(c, t, d) \in Words
    BY <2>1 DEF OrDefaultName
  <2> HIDE DEF def
  <2> QED
    BY <1>4, <2>4, <2>5
<1>7. n = [c EXCEPT !.ProfileID = TrimSpace(c.ProfileID),
                    !.ProfileTemplateID = TrimSpace(c.ProfileTemplateID),
                    !.Chain = TrimSpace(c.Chain),
                    !.Algorithm = alg,
                    !.Curve = def(c.Curve, "secp256k1"),
                    !.PublicKeyFormat = def(c.PublicKeyFormat, "uncompressed_hex"),
                    !.Scheme = TrimLower(c.Scheme)]
  BY Zenon DEF NormalizeTexts
<1> HIDE DEF n, alg, def
<1>8. /\ n.ProfileID = TrimSpace(c.ProfileID)
      /\ n.ProfileTemplateID = TrimSpace(c.ProfileTemplateID)
      /\ n.Chain = TrimSpace(c.Chain)
      /\ n.Algorithm = alg
      /\ n.Curve = def(c.Curve, "secp256k1")
      /\ n.PublicKeyFormat = def(c.PublicKeyFormat, "uncompressed_hex")
      /\ n.Scheme = TrimLower(c.Scheme)
      /\ n.AccountPath = c.AccountPath /\ n.ChildPath = c.ChildPath /\ n.FullPath = c.FullPath
      /\ n.DerivedPublicKey = c.DerivedPublicKey /\ n.Versions = c.Versions
  BY <1>7 DEF Contexts
<1>9. n \in Contexts
  <2>1. /\ TrimSpace(c.ProfileID) \in Texts /\ TrimSpace(c.ProfileTemplateID) \in Texts
        /\ TrimSpace(c.Chain) \in Texts /\ alg \in Texts /\ def(c.Curve, "secp256k1") \in Texts
        /\ def(c.PublicKeyFormat, "uncompressed_hex") \in Texts /\ TrimLower(c.Scheme) \in Texts
    <3>1. alg \in Texts /\ TrimLower(c.Scheme) \in Texts
      BY <1>1, <1>3, <1>4, <1>5
    <3>2. def(c.Curve, "secp256k1") \in Texts
      BY <1>1, <1>2, <1>6
    <3>3. def(c.PublicKeyFormat, "uncompressed_hex") \in Texts
      BY <1>1, <1>2, <1>6
    <3> QED
      BY <1>1, <1>3, <3>1, <3>2, <3>3
  <2> QED
    BY <1>7, <2>1 DEF Contexts
<1> QED
  BY <1>1, <1>2, <1>3, <1>5, <1>6, <1>8, <1>9 DEF n

\* What every field of a normalised context holds.
LEMMA NormalFields ==
  ASSUME NEW c \in Contexts
  PROVE  LET n == NormalizeContext(c) IN
         /\ n \in Contexts
         /\ n.ProfileID = TrimSpace(c.ProfileID)
         /\ n.ProfileTemplateID = TrimSpace(c.ProfileTemplateID)
         /\ n.Chain = TrimSpace(c.Chain)
         /\ n.Algorithm = Plain(AlgName(c))
         /\ n.Curve = Plain(OrDefaultName(c, c.Curve, "secp256k1"))
         /\ n.PublicKeyFormat = Plain(OrDefaultName(c, c.PublicKeyFormat, "uncompressed_hex"))
         /\ n.Scheme = Plain(IF SaysName(c.Scheme) = "bip32_public" THEN "bip32_secp256k1"
                                                                   ELSE SaysName(c.Scheme))
         /\ n.AccountPath = NormalizeAccountPath(c.AccountPath)
         /\ n.ChildPath = NormalizeChildPath(c.ChildPath)
         /\ n.FullPath = CanonicalFullPath(n.AccountPath, n.ChildPath)
         /\ n.DerivedPublicKey = c.DerivedPublicKey /\ n.Versions = c.Versions
<1> DEFINE t == NormalizeTexts(c)
           n == NormalizeContext(c)
           account == NormalizeAccountPath(c.AccountPath)
           child == NormalizeChildPath(c.ChildPath)
           alias == IF t.Scheme = Plain("bip32_public") THEN Plain("bip32_secp256k1") ELSE t.Scheme
           name == IF SaysName(c.Scheme) = "bip32_public" THEN "bip32_secp256k1"
                                                          ELSE SaysName(c.Scheme)
<1>1. t \in Contexts /\ t.Scheme = Plain(SaysName(c.Scheme))
  BY NormalTexts
<1>2. c.AccountPath \in Paths /\ c.ChildPath \in Paths /\ c.Scheme \in Texts
  BY DEF Contexts
<1>3. account \in Paths /\ child \in Paths
  BY <1>2, AccountFacts, ChildFacts
<1>4. CanonicalFullPath(account, child) \in Paths
  <2> HIDE DEF account, child
  <2>1. account.parts \in Seq(Components) /\ child.parts \in Seq(Components)
    BY <1>3 DEF Paths
  <2>2. account.parts \o child.parts \in Seq(Components)
    BY <2>1
  <2> QED
    BY <2>2 DEF CanonicalFullPath, Path, Paths, Roots
<1>5. alias = Plain(name) /\ alias \in Texts
  <2>1. SaysName(c.Scheme) \in Words
    BY <1>2, LowerFacts
  <2>2. "bip32_public" \in Words /\ "bip32_secp256k1" \in Words
    BY DEF Words
  <2>3. t.Scheme = Plain("bip32_public") <=> SaysName(c.Scheme) = "bip32_public"
    BY <1>1 DEF Plain
  <2>4. name \in Words
    BY <2>1, <2>2
  <2>5. alias = Plain(name)
    BY <1>1, <2>3
  <2> HIDE DEF name, alias
  <2> QED
    BY <2>4, <2>5 DEF Plain, Texts, Forms
<1>6. n = [t EXCEPT !.Scheme = alias, !.AccountPath = account, !.ChildPath = child,
                    !.FullPath = CanonicalFullPath(account, child)]
  BY Zenon DEF NormalizeContext
<1> HIDE DEF t, n, account, child, alias, name
<1>7. /\ n \in Contexts
      /\ n.ProfileID = t.ProfileID /\ n.ProfileTemplateID = t.ProfileTemplateID
      /\ n.Chain = t.Chain /\ n.Algorithm = t.Algorithm /\ n.Curve = t.Curve
      /\ n.PublicKeyFormat = t.PublicKeyFormat /\ n.Scheme = alias
      /\ n.AccountPath = account /\ n.ChildPath = child
      /\ n.FullPath = CanonicalFullPath(account, child)
      /\ n.DerivedPublicKey = t.DerivedPublicKey /\ n.Versions = t.Versions
  BY <1>1, <1>3, <1>4, <1>5, <1>6 DEF Contexts
<1> QED
  BY <1>5, <1>7, NormalTexts DEF t, n, account, child, name

\* context.go NormalizeContext: a context that has been normalised is left as it
\* is, so the facade, the hash and the service see one and the same context.
THEOREM NormalizeOnce ==
  ASSUME NEW c \in Contexts
  PROVE  NormalizeContext(NormalizeContext(c)) = NormalizeContext(c)
<1> DEFINE n == NormalizeContext(c)
           m == NormalizeContext(n)
<1>1. n \in Contexts /\ m \in Contexts
  BY NormalFields
<1>2. /\ c.ProfileID \in Texts /\ c.ProfileTemplateID \in Texts /\ c.Chain \in Texts
      /\ c.AccountPath \in Paths /\ c.ChildPath \in Paths
  BY DEF Contexts
<1> HIDE DEF n, m
<1>3. /\ m.ProfileID = n.ProfileID /\ m.ProfileTemplateID = n.ProfileTemplateID
      /\ m.Chain = n.Chain
  BY <1>1, <1>2, NormalFields, TrimFacts DEF n, m
<1>4. \A x : SaysName(Plain(x)) = x
  BY DEF SaysName, Plain
<1>5. AlgName(n) = AlgName(c)
  <2>1. n.Algorithm = Plain(AlgName(c))
    BY NormalFields DEF n
  <2>2. SaysName(n.Algorithm) = AlgName(c)
    BY <1>4, <2>1
  <2>3. AlgName(c) # ""
    BY DEF AlgName
  <2> QED
    BY <2>2, <2>3 DEF AlgName
<1>6. /\ n.Algorithm = Plain(AlgName(c)) /\ m.Algorithm = Plain(AlgName(n))
      /\ n.Curve = Plain(OrDefaultName(c, c.Curve, "secp256k1"))
      /\ m.Curve = Plain(OrDefaultName(n, n.Curve, "secp256k1"))
      /\ n.PublicKeyFormat = Plain(OrDefaultName(c, c.PublicKeyFormat, "uncompressed_hex"))
      /\ m.PublicKeyFormat = Plain(OrDefaultName(n, n.PublicKeyFormat, "uncompressed_hex"))
  BY <1>1, NormalFields DEF n, m
<1>7. \A t, d : d # "" => OrDefaultName(n, Plain(OrDefaultName(c, t, d)), d)
                           = OrDefaultName(c, t, d)
  <2> SUFFICES ASSUME NEW t, NEW d, d # ""
               PROVE  OrDefaultName(n, Plain(OrDefaultName(c, t, d)), d) = OrDefaultName(c, t, d)
    OBVIOUS
  <2>1. SaysName(Plain(OrDefaultName(c, t, d))) = OrDefaultName(c, t, d)
    BY <1>4
  <2>2. AlgName(c) = "ecdsa" => OrDefaultName(c, t, d) # ""
    BY DEF OrDefaultName
  <2>3. OrDefaultName(n, Plain(OrDefaultName(c, t, d)), d)
          = IF OrDefaultName(c, t, d) = "" /\ AlgName(c) = "ecdsa" THEN d ELSE OrDefaultName(c, t, d)
    BY <1>5, <2>1 DEF OrDefaultName
  <2> QED
    BY <2>2, <2>3
<1>8. m.Algorithm = n.Algorithm /\ m.Curve = n.Curve /\ m.PublicKeyFormat = n.PublicKeyFormat
  BY <1>5, <1>6, <1>7
<1>9. m.Scheme = n.Scheme
  BY <1>1, <1>4, NormalFields DEF n, m
<1>10. m.AccountPath = n.AccountPath /\ m.ChildPath = n.ChildPath
  BY <1>1, <1>2, NormalFields, AccountFacts, ChildFacts DEF n, m
<1>11. m.FullPath = n.FullPath
  BY <1>1, <1>10, NormalFields DEF n, m
<1>12. m.DerivedPublicKey = n.DerivedPublicKey /\ m.Versions = n.Versions
  BY <1>1, NormalFields DEF n, m
<1>13. m = n
  BY <1>1, <1>3, <1>8, <1>9, <1>10, <1>11, <1>12 DEF Contexts
<1> QED
  BY <1>13 DEF n, m

\* In a valid normalised context the algorithm decides the curve and the scheme.
LEMMA AlgorithmDecides ==
  ASSUME NEW c \in Contexts, ValidContext(NormalizeContext(c))
  PROVE  LET n == NormalizeContext(c) IN
         \/ /\ AlgName(c) = "ecdsa" /\ n.Algorithm = Plain("ecdsa")
            /\ n.Curve = Plain("secp256k1") /\ n.Scheme = Plain("bip32_secp256k1")
         \/ /\ AlgName(c) = "eddsa" /\ n.Algorithm = Plain("eddsa")
            /\ n.Curve = Plain("ed25519") /\ n.Scheme = Plain("slip10_ed25519")
<1> DEFINE n == NormalizeContext(c)
           t == NormalizeTexts(n)
<1>1. n \in Contexts /\ n.Algorithm = Plain(AlgName(c)) /\ NormalizeContext(n) = n
  BY NormalFields, NormalizeOnce
<1> HIDE DEF n, t
<1>2. /\ t.Algorithm = n.Algorithm /\ t.Curve = n.Curve
      /\ t.Scheme = Plain(SaysName(n.Scheme))
  BY <1>1, NormalTexts, NormalFields DEF t
<1>3. \A x, y : Plain(x) = Plain(y) <=> x = y
  BY DEF Plain
<1>4. \A x : SaysName(Plain(x)) = x
  BY DEF SaysName, Plain
<1>5. n.Scheme = Plain(SaysName(n.Scheme)) /\ SaysName(n.Scheme) # "bip32_public"
  <2> DEFINE x == IF SaysName(c.Scheme) = "bip32_public" THEN "bip32_secp256k1"
                                                         ELSE SaysName(c.Scheme)
  <2>1. n.Scheme = Plain(x)
    BY NormalFields DEF n
  <2>2. x # "bip32_public"
    OBVIOUS
  <2> HIDE DEF x
  <2> QED
    BY <1>4, <2>1, <2>2
<1>6. \/ /\ t.Algorithm = Plain("ecdsa") /\ t.Curve = Plain("secp256k1")
         /\ t.Scheme \in {Plain("bip32_secp256k1"), Plain("bip32_public")}
      \/ /\ t.Algorithm = Plain("eddsa") /\ t.Curve = Plain("ed25519")
         /\ t.Scheme = Plain("slip10_ed25519")
  BY DEF n, t, ValidContext, ECDSASchemes
<1> QED
  BY <1>1, <1>2, <1>3, <1>5, <1>6 DEF n

\* hash.go CanonicalHashPayloadV1 and SHA-256 over it: two contexts that the
\* facade has normalised and accepts for hashing have the same commitment
\* exactly if they say the same, however each of them was written.
THEOREM HashSays ==
  ASSUME NEW c \in Contexts, NEW d \in Contexts,
         ValidHashInput(NormalizeContext(c)), ValidHashInput(NormalizeContext(d))
  PROVE  HashV1(NormalizeContext(c)) = HashV1(NormalizeContext(d)) <=> Meaning(c) = Meaning(d)
<1> DEFINE n == NormalizeContext(c)
           m == NormalizeContext(d)
           fmt(x) == OrDefaultName(x, x.PublicKeyFormat, "uncompressed_hex")
           acc(x) == [i \in DOMAIN x.AccountPath.parts |->
                        <<x.AccountPath.parts[i].num, x.AccountPath.parts[i].marks # <<>> >>]
<1>1. /\ NormalizeContext(n) = n /\ NormalizeContext(m) = m
      /\ ValidContext(n) /\ ValidContext(m)
      /\ \A f \in HashedTexts : n[f].form # "invalid" /\ m[f].form # "invalid"
  BY NormalizeOnce DEF ValidHashInput
<1>2. /\ n.ProfileID = TrimSpace(c.ProfileID) /\ m.ProfileID = TrimSpace(d.ProfileID)
      /\ n.ProfileTemplateID = TrimSpace(c.ProfileTemplateID)
      /\ m.ProfileTemplateID = TrimSpace(d.ProfileTemplateID)
      /\ n.Chain = TrimSpace(c.Chain) /\ m.Chain = TrimSpace(d.Chain)
  BY NormalFields
<1>3. /\ n.Algorithm = Plain(AlgName(c)) /\ m.Algorithm = Plain(AlgName(d))
      /\ n.PublicKeyFormat = Plain(fmt(c)) /\ m.PublicKeyFormat = Plain(fmt(d))
  BY NormalFields
<1>4. /\ n.AccountPath = NormalizeAccountPath(c.AccountPath)
      /\ m.AccountPath = NormalizeAccountPath(d.AccountPath)
      /\ n.ChildPath = NormalizeChildPath(c.ChildPath)
      /\ m.ChildPath = NormalizeChildPath(d.ChildPath)
      /\ n.FullPath = CanonicalFullPath(n.AccountPath, n.ChildPath)
      /\ m.FullPath = CanonicalFullPath(m.AccountPath, m.ChildPath)
      /\ n.DerivedPublicKey = c.DerivedPublicKey /\ m.DerivedPublicKey = d.DerivedPublicKey
      /\ n.Versions = c.Versions /\ m.Versions = d.Versions
  BY NormalFields
<1>5. AlgName(c) = AlgName(d) => n.Curve = m.Curve /\ n.Scheme = m.Scheme
  BY <1>1, AlgorithmDecides
<1> HIDE DEF n, m, fmt
<1>6. HashV1(n) = HashV1(m) <=> \A f \in HashedFields : n[f] = m[f]
  BY <1>1 DEF HashV1
<1>7. (\A f \in HashedFields : n[f] = m[f]) <=>
        /\ n.ProfileID = m.ProfileID /\ n.ProfileTemplateID = m.ProfileTemplateID
        /\ n.Chain = m.Chain /\ n.Algorithm = m.Algorithm /\ n.Curve = m.Curve
        /\ n.Scheme = m.Scheme /\ n.PublicKeyFormat = m.PublicKeyFormat
        /\ n.AccountPath = m.AccountPath /\ n.ChildPath = m.ChildPath
        /\ n.FullPath = m.FullPath /\ n.DerivedPublicKey = m.DerivedPublicKey
        /\ n.Versions = m.Versions
  BY DEF HashedFields, HashedTexts
<1>8. Meaning(c) = Meaning(d) <=>
        /\ Says(c.ProfileID) = Says(d.ProfileID)
        /\ Says(c.ProfileTemplateID) = Says(d.ProfileTemplateID)
        /\ Says(c.Chain) = Says(d.Chain)
        /\ acc(c) = acc(d) /\ Indices(c.ChildPath) = Indices(d.ChildPath)
        /\ AlgName(c) = AlgName(d) /\ c.DerivedPublicKey = d.DerivedPublicKey
        /\ c.Versions = d.Versions /\ fmt(c) = fmt(d)
  <2> DEFINE profile(x) == <<Says(x.ProfileID), Says(x.ProfileTemplateID), Says(x.Chain)>>
             key(x) == <<AlgName(x), x.DerivedPublicKey, x.Versions>>
             says(x) == [profile |-> profile(x), account |-> acc(x), child |-> Indices(x.ChildPath),
                         key |-> key(x), format |-> fmt(x)]
  <2>1. \A x : Meaning(x) = says(x)
    BY DEF Meaning, AlgName, OrDefaultName, fmt
  <2>2. profile(c) = profile(d) <=> /\ Says(c.ProfileID) = Says(d.ProfileID)
                                    /\ Says(c.ProfileTemplateID) = Says(d.ProfileTemplateID)
                                    /\ Says(c.Chain) = Says(d.Chain)
    OBVIOUS
  <2>3. key(c) = key(d) <=> /\ AlgName(c) = AlgName(d)
                            /\ c.DerivedPublicKey = d.DerivedPublicKey /\ c.Versions = d.Versions
    OBVIOUS
  <2> HIDE DEF profile, key, acc
  <2>4. says(c) = says(d) <=> /\ profile(c) = profile(d) /\ acc(c) = acc(d)
                              /\ Indices(c.ChildPath) = Indices(d.ChildPath)
                              /\ key(c) = key(d) /\ fmt(c) = fmt(d)
    OBVIOUS
  <2> QED
    BY <2>1, <2>2, <2>3, <2>4
<1>9. /\ n.ProfileID = m.ProfileID <=> Says(c.ProfileID) = Says(d.ProfileID)
      /\ n.ProfileTemplateID = m.ProfileTemplateID
           <=> Says(c.ProfileTemplateID) = Says(d.ProfileTemplateID)
      /\ n.Chain = m.Chain <=> Says(c.Chain) = Says(d.Chain)
  <2>1. \A x \in {"ProfileID", "ProfileTemplateID", "Chain"} :
           /\ c[x] \in Texts /\ d[x] \in Texts
           /\ n[x] = TrimSpace(c[x]) /\ m[x] = TrimSpace(d[x])
           /\ n[x].form # "invalid" /\ m[x].form # "invalid"
    BY <1>1, <1>2 DEF Contexts, HashedTexts
  <2>2. \A x \in {"ProfileID", "ProfileTemplateID", "Chain"} : n[x] = m[x] <=> Says(c[x]) = Says(d[x])
    BY <2>1, TrimFacts, TrimSays
  <2> QED
    BY <2>2
<1>10. /\ n.Algorithm = m.Algorithm <=> AlgName(c) = AlgName(d)
       /\ n.PublicKeyFormat = m.PublicKeyFormat <=> fmt(c) = fmt(d)
  BY <1>3 DEF Plain
<1>11. /\ n.AccountPath = m.AccountPath <=> acc(c) = acc(d)
       /\ n.ChildPath = m.ChildPath <=> Indices(c.ChildPath) = Indices(d.ChildPath)
  <2>1. /\ c.AccountPath \in Paths /\ c.ChildPath \in Paths
        /\ d.AccountPath \in Paths /\ d.ChildPath \in Paths
    BY DEF Contexts
  <2> QED
    BY <1>4, <2>1, AccountSays, ChildSays
<1> HIDE DEF acc
<1> QED
  BY <1>4, <1>5, <1>6, <1>7, <1>8, <1>9, <1>10, <1>11 DEF n, m

-----------------------------------------------------------------------------
(* Keys                                                                    *)

\* No index of a valid child path is hardened.
LEMMA ChildDerivable ==
  ASSUME NEW p \in Paths, ValidChildPath(p)
  PROVE  Derivable(Indices(p))
<1> DEFINE t == TrimPath(p)
<1>1. p.parts \in Seq(Components) /\ \A i \in DOMAIN p.parts : p.parts[i] \in Components
  BY DEF Paths
<1>2. t.parts = [i \in DOMAIN p.parts |->
                   IF i = Len(p.parts) THEN [p.parts[i] EXCEPT !.blanks = FALSE] ELSE p.parts[i]]
  BY DEF TrimPath, Paths
<1>3. \A i \in DOMAIN t.parts : InRange(t.parts[i].num)
  BY DEF ValidChildPath
<1> HIDE DEF t
<1>4. \A x \in Components : [x EXCEPT !.blanks = FALSE].num = x.num /\ x.num \in Int
  BY DEF Components
<1>5. ASSUME NEW i \in DOMAIN p.parts
      PROVE  p.parts[i].num < HardenedStart
  <2>1. t.parts[i].num = p.parts[i].num
    BY <1>1, <1>2, <1>4
  <2>2. InRange(p.parts[i].num)
    BY <1>2, <1>3, <2>1
  <2> QED
    BY <2>2, HardenedStartAssumption DEF InRange
<1> QED
  BY <1>5 DEF Derivable, Indices

\* What a context says of the child path.
LEMMA MeaningChild ==
  ASSUME NEW c
  PROVE  Meaning(c).child = Indices(c.ChildPath)
<1> DEFINE profile == <<Says(c.ProfileID), Says(c.ProfileTemplateID), Says(c.Chain)>>
           account == [i \in DOMAIN c.AccountPath.parts |->
                         <<c.AccountPath.parts[i].num, c.AccountPath.parts[i].marks # <<>> >>]
           key == <<AlgName(c), c.DerivedPublicKey, c.Versions>>
           format == OrDefaultName(c, c.PublicKeyFormat, "uncompressed_hex")
<1>1. Meaning(c) = [profile |-> profile, account |-> account, child |-> Indices(c.ChildPath),
                    key |-> key, format |-> format]
  BY DEF Meaning, AlgName, OrDefaultName
<1> HIDE DEF profile, account, key, format
<1> QED
  BY <1>1

\* The key derived from a normalised context is the child the request asks for.
LEMMA DerivesRequested ==
  ASSUME NEW c \in Contexts, NEW pub, NEW chainCode
  PROVE  DeriveECDSAChildKey(pub, chainCode, NormalizeContext(c))
           = ChildKey(pub, chainCode, Indices(c.ChildPath))
<1>1. c.ChildPath \in Paths
  BY DEF Contexts
<1>2. Indices(NormalizeContext(NormalizeContext(c)).ChildPath) = Indices(c.ChildPath)
  BY <1>1, NormalizeOnce, NormalFields, ChildFacts
<1> QED
  BY <1>2 DEF DeriveECDSAChildKey

\* ecdsa.go DeriveECDSAChildKeyForContext: of a valid normalised ECDSA context
\* the derivation refuses nothing but an unexpected child key.
LEMMA DerivesUnlessUnexpected ==
  ASSUME NEW c \in Contexts, NEW pub, NEW chainCode, pub # NoPub,
         ValidContext(NormalizeContext(c)), NormalizeContext(c).Algorithm = Plain("ecdsa"),
         ~DerivesChild(pub, chainCode, NormalizeContext(c))
  PROVE  NormalizeContext(c).DerivedPublicKey
           \notin {NoKey, ChildKey(pub, chainCode, Indices(c.ChildPath))}
<1> DEFINE n == NormalizeContext(c)
<1>1. /\ n \in Contexts /\ NormalizeContext(n) = n
      /\ n.ChildPath = NormalizeChildPath(c.ChildPath)
  BY NormalFields, NormalizeOnce
<1>2. n.ChildPath \in Paths /\ c.ChildPath \in Paths
  BY <1>1 DEF Contexts
<1>3. Indices(n.ChildPath) = Indices(c.ChildPath)
  BY <1>1, <1>2, ChildFacts
<1>4. ValidChildPath(n.ChildPath)
  BY DEF ValidContext, ValidPaths
<1>5. Derivable(Indices(n.ChildPath))
  BY <1>2, <1>4, ChildDerivable
<1> HIDE DEF n
<1> QED
  BY <1>1, <1>3, <1>4, <1>5 DEF DerivesChild, n
=============================================================================
