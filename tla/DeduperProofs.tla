--------------------------- MODULE DeduperProofs ---------------------------
(***************************************************************************)
(* Proofs about Deduper, for every table size, TTL, pruning period and     *)
(* finite set of frames.                                                   *)
(***************************************************************************)
EXTENDS Deduper, FiniteSetTheorems, TLAPS

\* Sets of frames are finite, and a larger one has at least as many elements.
LEMMA FramesFinite ==
    ASSUME NEW S \in SUBSET Frames
    PROVE  /\ IsFiniteSet(S)
           /\ Cardinality(S) \in Nat
           /\ \A T \in SUBSET S : Cardinality(T) <= Cardinality(S)
<1>1. IsFiniteSet(S)
  BY FS_Subset, DeduperAssumption
<1> QED
  BY <1>1, FS_Subset, FS_CardinalityType

\* What a call's prune and eviction do: they leave room for one entry, and
\* what they remove has outlived the TTL or has had MaxEntries - 1 rivals.
LEMMA TrimmedTable ==
    ASSUME DedupInv, NEW t \in Instants, NEW table \in Evictions(Pruned(t))
    PROVE  /\ table \subseteq seen
           /\ Cardinality(table) <= MaxEntries - 1
           /\ \A g \in seen \ table :
                Outlives(g, t) \/ Cardinality(rivals[g]) >= MaxEntries - 1
<1> DEFINE P == Pruned(t)
<1> USE DeduperAssumption DEF Instants
<1>1. P \subseteq seen /\ P \in SUBSET Frames
  BY DEF Pruned, DedupInv, TypeOK
<1>2. \A g \in seen \ P : Outlives(g, t)
  BY DEF Pruned, DedupInv, TypeOK, LossInv, Outlives
<1>3. Cardinality(P) <= MaxEntries /\ Cardinality(P) \in Nat /\ IsFiniteSet(P)
  <2>1. Cardinality(P) <= Cardinality(seen) /\ Cardinality(seen) \in Nat
    BY <1>1, FramesFinite DEF DedupInv, TypeOK
  <2> QED
    BY <1>1, <2>1, FramesFinite DEF DedupInv, TableBounded
<1>4. CASE Cardinality(P) < MaxEntries
  <2>1. table = P
    BY <1>3, <1>4 DEF Evictions
  <2> QED
    BY <1>1, <1>2, <1>3, <1>4, <2>1
<1>5. CASE Cardinality(P) >= MaxEntries
  <2>1. PICK k \in P : table = P \ {k} /\ \A j \in P : stamp[k] <= stamp[j]
    BY <1>5 DEF Evictions
  <2>2. Cardinality(table) = Cardinality(P) - 1
    BY <1>3, <2>1, FS_RemoveElement
  <2>3. table \subseteq rivals[k]
    BY <1>1, <2>1 DEF DedupInv, TypeOK, LossInv
  <2>4. Cardinality(rivals[k]) >= MaxEntries - 1
    <3>1. rivals[k] \in SUBSET Frames
      BY <1>1, <2>1 DEF DedupInv, TypeOK
    <3> QED
      BY <1>3, <1>5, <2>2, <2>3, <3>1, FramesFinite
  <2> QED
    BY <1>1, <1>2, <1>3, <2>1, <2>2, <2>4
<1> QED
  BY <1>3, <1>4, <1>5

\* The empty table satisfies the invariant.
LEMMA DedupInit == Init => DedupInv
<1> SUFFICES ASSUME Init PROVE DedupInv
  OBVIOUS
<1> USE DeduperAssumption
<1>1. TypeOK
  BY DEF Init, TypeOK
<1>2. TableBounded
  BY FS_EmptySet DEF Init, TableBounded
<1>3. LossInv
  BY DEF Init, LossInv
<1> QED
  BY <1>1, <1>2, <1>3 DEF DedupInv

\* An accepted frame starts anew, with the entries no older than its own as its
\* rivals; it is a rival of the entries no younger.
LEMMA AcceptStep ==
    ASSUME DedupInv, NEW f \in Frames, NEW t \in Instants, Accept(f, t)
    PROVE  DedupInv'
<1> USE DeduperAssumption DEF Instants
<1>1. PICK table \in Evictions(Pruned(t)) :
        /\ f \notin table /\ seen' = table \cup {f}
        /\ rivals' = [g \in Frames |->
                        IF g = f THEN {k \in table : stamp[k] >= t}
                        ELSE IF stamp[g] \in 1..t THEN rivals[g] \cup {f}
                        ELSE rivals[g]]
  BY DEF Accept
<1>2. /\ table \subseteq seen
      /\ Cardinality(table) <= MaxEntries - 1
      /\ \A g \in seen \ table :
           Outlives(g, t) \/ Cardinality(rivals[g]) >= MaxEntries - 1
  BY TrimmedTable
<1>3. /\ stamp' = [stamp EXCEPT ![f] = t]
      /\ outlived' = {g \in Frames \ {f} : g \in outlived \/ Outlives(g, t)}
  BY DEF Accept
<1>4. TypeOK'
  <2>1. phase' \in 0..(PruneEvery - 1)
    BY DEF Accept, DedupInv, TypeOK
  <2>2. seen' \in SUBSET Frames /\ table \in SUBSET Frames
    BY <1>1, <1>2 DEF DedupInv, TypeOK
  <2>3. rivals' \in [Frames -> SUBSET Frames]
    BY <1>1, <2>2 DEF DedupInv, TypeOK
  <2>4. stamp' \in [Frames -> 0..MaxNow] /\ outlived' \in SUBSET Frames
    BY <1>3 DEF DedupInv, TypeOK
  <2> QED
    BY <2>1, <2>2, <2>3, <2>4 DEF TypeOK
<1>5. TableBounded'
  <2>1. table \in SUBSET Frames
    BY <1>2 DEF DedupInv, TypeOK
  <2>2. Cardinality(seen') = Cardinality(table) + 1
    BY <1>1, <2>1, FramesFinite, FS_AddElement
  <2> QED
    BY <1>2, <2>1, <2>2, FramesFinite DEF TableBounded
<1>6. LossInv'
  <2> USE DEF DedupInv, TypeOK, LossInv
  <2>1. \A g \in seen' : stamp'[g] > 0
    BY <1>1, <1>2, <1>3
  <2>2. \A g, h \in seen' : h # g /\ stamp'[h] >= stamp'[g] => h \in rivals'[g]
    <3> SUFFICES ASSUME NEW g \in seen', NEW h \in seen', h # g, stamp'[h] >= stamp'[g]
                 PROVE  h \in rivals'[g]
      OBVIOUS
    <3>1. g \in Frames /\ h \in Frames
      BY <1>4
    <3>2. CASE g = f
      BY <1>1, <1>3, <3>1, <3>2
    <3>3. CASE h = f
      BY <1>1, <1>2, <1>3, <3>1, <3>3
    <3>4. CASE g # f /\ h # f
      BY <1>1, <1>2, <1>3, <3>1, <3>4
    <3> QED
      BY <3>2, <3>3, <3>4
  <2>3. ASSUME NEW g \in Frames
        PROVE  \/ stamp'[g] = 0 \/ g \in seen' \/ g \in outlived'
               \/ Cardinality(rivals'[g]) >= MaxEntries - 1
    <3>1. CASE g = f
      BY <1>1, <3>1
    <3>2. CASE g # f
      <4>1. stamp'[g] = stamp[g] /\ rivals[g] \subseteq rivals'[g]
        BY <1>1, <1>3, <3>2
      <4>2. rivals'[g] \in SUBSET Frames /\ rivals[g] \in SUBSET Frames
        BY <1>4
      <4>3. Cardinality(rivals[g]) <= Cardinality(rivals'[g])
        BY <4>1, <4>2, FramesFinite
      <4>4. Cardinality(rivals[g]) \in Nat /\ Cardinality(rivals'[g]) \in Nat
        BY <4>2, FramesFinite
      <4>5. \/ stamp[g] = 0 \/ g \in table
            \/ g \in outlived \/ Outlives(g, t)
            \/ Cardinality(rivals[g]) >= MaxEntries - 1
        BY <1>2
      <4> QED
        BY <1>1, <1>3, <3>2, <4>1, <4>3, <4>4, <4>5
    <3> QED
      BY <3>1, <3>2
  <2> QED
    BY <2>1, <2>2, <2>3
<1> QED
  BY <1>4, <1>5, <1>6 DEF DedupInv

\* A refused duplicate may cost another entry its place, and no more.
LEMMA RefuseStep ==
    ASSUME DedupInv, NEW f \in Frames, NEW t \in Instants, RefuseDuplicate(f, t)
    PROVE  DedupInv'
<1> USE DeduperAssumption DEF Instants
<1>1. PICK table \in Evictions(Pruned(t)) : seen' = table
  BY DEF RefuseDuplicate
<1>2. /\ table \subseteq seen
      /\ Cardinality(table) <= MaxEntries - 1
      /\ \A g \in seen \ table :
           Outlives(g, t) \/ Cardinality(rivals[g]) >= MaxEntries - 1
  BY TrimmedTable
<1>3. /\ outlived' = outlived \cup {g \in Frames : Outlives(g, t)}
      /\ UNCHANGED <<stamp, phase, rivals>>
  BY DEF RefuseDuplicate
<1>4. TypeOK'
  BY <1>1, <1>2, <1>3 DEF DedupInv, TypeOK
<1>5. TableBounded'
  BY <1>1, <1>2, <1>4, FramesFinite DEF TableBounded, TypeOK
<1>6. LossInv'
  BY <1>1, <1>2, <1>3 DEF DedupInv, TypeOK, LossInv
<1> QED
  BY <1>4, <1>5, <1>6 DEF DedupInv

\* After any sequence of frames, at whatever instants, the table is within its
\* limit and what has lost its entry has outlived the TTL or has had
\* MaxEntries - 1 rivals.
THEOREM DedupInvariant == Spec => []DedupInv
<1>1. DedupInv /\ [Next]_vars => DedupInv'
  <2> SUFFICES ASSUME DedupInv, [Next]_vars PROVE DedupInv'
    OBVIOUS
  <2>1. CASE UNCHANGED vars
    BY <2>1 DEF vars, histVars, DedupInv, TypeOK, TableBounded, LossInv
  <2>2. ASSUME NEW f \in Frames, NEW t \in Instants, ShouldAccept(f, t)
        PROVE  DedupInv'
    BY <2>1, <2>2, AcceptStep, RefuseStep DEF ShouldAccept, RefuseOversized
  <2> QED
    BY <2>1, <2>2 DEF Next
<1> QED
  BY DedupInit, <1>1, PTL DEF Spec

\* The table never exceeds DedupMaxEntries.
THEOREM TableStaysBounded == Spec => []TableBounded
<1>1. DedupInv => TableBounded
  BY DEF DedupInv
<1> QED
  BY DedupInvariant, <1>1, PTL

\* No replay is accepted within the TTL and MaxEntries - 1 rivals, whatever the
\* clock does.
THEOREM ReplaysRefused == Spec => []ReplayWindow
<1>1. DedupInv => ReplayWindow
  <2> SUFFICES ASSUME DedupInv, NEW f \in Frames, NEW t \in Instants,
                      stamp[f] > 0, Acceptable(f, t)
               PROVE  \/ f \in outlived \/ Outlives(f, t)
                      \/ Cardinality(rivals[f]) >= MaxEntries - 1
    BY DEF ReplayWindow
  <2>1. PICK table \in Evictions(Pruned(t)) : f \notin table
    BY DEF Acceptable
  <2>2. f \in seen => \/ Outlives(f, t)
                      \/ Cardinality(rivals[f]) >= MaxEntries - 1
    BY <2>1, TrimmedTable
  <2> QED
    BY <2>2 DEF DedupInv, TypeOK, LossInv
<1> QED
  BY DedupInvariant, <1>1, PTL

=============================================================================
