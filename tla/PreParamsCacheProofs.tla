------------------------ MODULE PreParamsCacheProofs ------------------------
(***************************************************************************)
(* Proofs about PreParamsCache, for any number of pools on the directory,  *)
(* of items, of failed file system calls and of crashes.                   *)
(***************************************************************************)
EXTENDS PreParamsCache, TLAPS

\* The empty directory satisfies the invariant.
LEMMA CacheInit == Init => CacheInv
<1> SUFFICES ASSUME Init PROVE CacheInv
  OBVIOUS
<1> USE CacheAssumption, NoItemAssumption
<1>1. TypeOK
  BY DEF Init, TypeOK
<1>2. FreshInv /\ UnpublishedInv /\ UnlinkedInv /\ FateInv
  BY DEF Init, FreshInv, UnpublishedInv, UnlinkedInv, Unpublished, FateInv
<1>3. HandedOutOnce /\ GoneBeforeUse /\ PublishedIsComplete /\ PublishedIsDurable
  BY DEF Init, HandedOutOnce, GoneBeforeUse, PublishedIsComplete, PublishedIsDurable
<1> QED
  BY <1>1, <1>2, <1>3 DEF CacheInv

\* Crashes, write-back and damage.
LEMMA EnvironmentStep == CacheInv /\ Environment => CacheInv'
<1> SUFFICES ASSUME CacheInv, Environment PROVE CacheInv'
  OBVIOUS
<1> USE CacheAssumption, NoItemAssumption
<1> USE DEF CacheInv, TypeOK, FreshInv, UnpublishedInv, Unpublished, UnlinkedInv,
            FateInv, HandedOutOnce, GoneBeforeUse, PublishedIsComplete,
            PublishedIsDurable, BecomesPublished, BecomesTaken, fsVars, genVars, acqVars, loadVars,
            StartUnchanged, GenUnchanged, AcqUnchanged
<1>1. ASSUME MachineCrash PROVE CacheInv'
  <2>1. TypeOK'
    BY <1>1 DEF MachineCrash, Dies
  <2>2. FreshInv'
    BY <1>1 DEF MachineCrash, Dies
  <2>3. UnpublishedInv'
    BY <1>1 DEF MachineCrash, Dies
  <2>4. UnlinkedInv'
    BY <1>1 DEF MachineCrash, Dies
  <2>5. HandedOutOnce' /\ GoneBeforeUse'
    BY <1>1 DEF MachineCrash, Dies
  <2>6. PublishedIsComplete'
    BY <1>1 DEF MachineCrash, Dies
  <2>7. FateInv'
    BY <1>1 DEF MachineCrash, Dies
  <2>8. PublishedIsDurable'
    BY <1>1 DEF MachineCrash, Dies
  <2> QED
    BY <2>1, <2>2, <2>3, <2>4, <2>5, <2>6, <2>7, <2>8
<1>2. ASSUME NEW p \in Pools, ProcessCrash(p) PROVE CacheInv'
  <2>1. TypeOK'
    BY <1>2 DEF ProcessCrash, Dies
  <2>2. FreshInv'
    BY <1>2 DEF ProcessCrash, Dies
  <2>3. UnpublishedInv'
    BY <1>2 DEF ProcessCrash, Dies
  <2>4. UnlinkedInv'
    BY <1>2 DEF ProcessCrash, Dies
  <2>5. HandedOutOnce' /\ GoneBeforeUse'
    BY <1>2 DEF ProcessCrash, Dies
  <2>6. PublishedIsComplete'
    BY <1>2 DEF ProcessCrash, Dies
  <2>7. FateInv'
    BY <1>2 DEF ProcessCrash, Dies
  <2>8. PublishedIsDurable'
    BY <1>2 DEF ProcessCrash, Dies
  <2> QED
    BY <2>1, <2>2, <2>3, <2>4, <2>5, <2>6, <2>7, <2>8
<1>3. ASSUME NEW i \in Items, Writeback(i) PROVE CacheInv'
  <2>1. TypeOK'
    BY <1>3 DEF Writeback
  <2>2. FreshInv'
    BY <1>3 DEF Writeback
  <2>3. UnpublishedInv'
    BY <1>3 DEF Writeback
  <2>4. UnlinkedInv'
    BY <1>3 DEF Writeback
  <2>5. HandedOutOnce' /\ GoneBeforeUse'
    BY <1>3 DEF Writeback
  <2>6. PublishedIsComplete'
    BY <1>3 DEF Writeback
  <2>7. FateInv'
    BY <1>3 DEF Writeback
  <2>8. PublishedIsDurable'
    BY <1>3 DEF Writeback
  <2> QED
    BY <2>1, <2>2, <2>3, <2>4, <2>5, <2>6, <2>7, <2>8
<1>4. ASSUME NEW i \in Items, Damage(i) PROVE CacheInv'
  <2>1. TypeOK'
    BY <1>4 DEF Damage, Fault
  <2>2. FreshInv'
    BY <1>4 DEF Damage, Fault
  <2>3. UnpublishedInv'
    BY <1>4 DEF Damage, Fault
  <2>4. UnlinkedInv'
    BY <1>4 DEF Damage, Fault
  <2>5. HandedOutOnce' /\ GoneBeforeUse'
    BY <1>4 DEF Damage, Fault
  <2>6. PublishedIsComplete'
    BY <1>4 DEF Damage, Fault
  <2>7. FateInv'
    BY <1>4 DEF Damage, Fault
  <2>8. PublishedIsDurable'
    BY <1>4 DEF Damage, Fault
  <2> QED
    BY <2>1, <2>2, <2>3, <2>4, <2>5, <2>6, <2>7, <2>8
<1> QED
  BY <1>1, <1>2, <1>3, <1>4 DEF Environment

\* Start, Close and the replacement of a pool.
LEMMA LifecycleStep == CacheInv /\ Lifecycle => CacheInv'
<1> SUFFICES ASSUME CacheInv, Lifecycle PROVE CacheInv'
  OBVIOUS
<1> USE CacheAssumption, NoItemAssumption
<1> USE DEF CacheInv, TypeOK, FreshInv, UnpublishedInv, Unpublished, UnlinkedInv,
            FateInv, HandedOutOnce, GoneBeforeUse, PublishedIsComplete,
            PublishedIsDurable, BecomesPublished, BecomesTaken, fsVars, genVars, acqVars, loadVars,
            StartUnchanged, GenUnchanged, AcqUnchanged
<1>1. ASSUME NEW p \in Pools, StartProbes(p) PROVE CacheInv'
  <2>1. TypeOK'
    BY <1>1 DEF StartProbes, Fault
  <2>2. FreshInv'
    BY <1>1 DEF StartProbes, Fault
  <2>3. UnpublishedInv'
    BY <1>1 DEF StartProbes, Fault
  <2>4. UnlinkedInv'
    BY <1>1 DEF StartProbes, Fault
  <2>5. HandedOutOnce' /\ GoneBeforeUse'
    BY <1>1 DEF StartProbes, Fault
  <2>6. PublishedIsComplete'
    BY <1>1 DEF StartProbes, Fault
  <2>7. FateInv'
    BY <1>1 DEF StartProbes, Fault
  <2>8. PublishedIsDurable'
    BY <1>1 DEF StartProbes, Fault
  <2> QED
    BY <2>1, <2>2, <2>3, <2>4, <2>5, <2>6, <2>7, <2>8
<1>2. ASSUME NEW p \in Pools, StartLists(p) PROVE CacheInv'
  <2>1. TypeOK'
    BY <1>2 DEF StartLists, Fault
  <2>2. FreshInv'
    BY <1>2 DEF StartLists, Fault
  <2>3. UnpublishedInv'
    BY <1>2 DEF StartLists, Fault
  <2>4. UnlinkedInv'
    BY <1>2 DEF StartLists, Fault
  <2>5. HandedOutOnce' /\ GoneBeforeUse'
    BY <1>2 DEF StartLists, Fault
  <2>6. PublishedIsComplete'
    BY <1>2 DEF StartLists, Fault
  <2>7. FateInv'
    BY <1>2 DEF StartLists, Fault
  <2>8. PublishedIsDurable'
    BY <1>2 DEF StartLists, Fault
  <2> QED
    BY <2>1, <2>2, <2>3, <2>4, <2>5, <2>6, <2>7, <2>8
<1>3. ASSUME NEW p \in Pools, StartEnds(p) PROVE CacheInv'
  <2>1. TypeOK'
    BY <1>3 DEF StartEnds
  <2>2. FreshInv'
    BY <1>3 DEF StartEnds
  <2>3. UnpublishedInv'
    BY <1>3 DEF StartEnds
  <2>4. UnlinkedInv'
    BY <1>3 DEF StartEnds
  <2>5. HandedOutOnce' /\ GoneBeforeUse'
    BY <1>3 DEF StartEnds
  <2>6. PublishedIsComplete'
    BY <1>3 DEF StartEnds
  <2>7. FateInv'
    BY <1>3 DEF StartEnds
  <2>8. PublishedIsDurable'
    BY <1>3 DEF StartEnds
  <2> QED
    BY <2>1, <2>2, <2>3, <2>4, <2>5, <2>6, <2>7, <2>8
<1>4. ASSUME NEW p \in Pools, Close(p) PROVE CacheInv'
  <2>1. TypeOK'
    BY <1>4 DEF Close
  <2>2. FreshInv'
    BY <1>4 DEF Close
  <2>3. UnpublishedInv'
    BY <1>4 DEF Close
  <2>4. UnlinkedInv'
    BY <1>4 DEF Close
  <2>5. HandedOutOnce' /\ GoneBeforeUse'
    BY <1>4 DEF Close
  <2>6. PublishedIsComplete'
    BY <1>4 DEF Close
  <2>7. FateInv'
    BY <1>4 DEF Close
  <2>8. PublishedIsDurable'
    BY <1>4 DEF Close
  <2> QED
    BY <2>1, <2>2, <2>3, <2>4, <2>5, <2>6, <2>7, <2>8
<1>5. ASSUME NEW p \in Pools, Replace(p) PROVE CacheInv'
  <2>1. TypeOK'
    BY <1>5 DEF Replace
  <2>2. FreshInv'
    BY <1>5 DEF Replace
  <2>3. UnpublishedInv'
    BY <1>5 DEF Replace
  <2>4. UnlinkedInv'
    BY <1>5 DEF Replace
  <2>5. HandedOutOnce' /\ GoneBeforeUse'
    BY <1>5 DEF Replace
  <2>6. PublishedIsComplete'
    BY <1>5 DEF Replace
  <2>7. FateInv'
    BY <1>5 DEF Replace
  <2>8. PublishedIsDurable'
    BY <1>5 DEF Replace
  <2> QED
    BY <2>1, <2>2, <2>3, <2>4, <2>5, <2>6, <2>7, <2>8
<1>6. ASSUME NEW p \in Pools, NEW i \in Items, StartLoads(p, i) PROVE CacheInv'
  <2>1. TypeOK'
    BY <1>6 DEF StartLoads
  <2>2. FreshInv'
    BY <1>6 DEF StartLoads
  <2>3. UnpublishedInv'
    BY <1>6 DEF StartLoads
  <2>4. UnlinkedInv'
    BY <1>6 DEF StartLoads
  <2>5. HandedOutOnce' /\ GoneBeforeUse'
    BY <1>6 DEF StartLoads
  <2>6. PublishedIsComplete'
    BY <1>6 DEF StartLoads
  <2>7. FateInv'
    BY <1>6 DEF StartLoads
  <2>8. PublishedIsDurable'
    BY <1>6 DEF StartLoads
  <2> QED
    BY <2>1, <2>2, <2>3, <2>4, <2>5, <2>6, <2>7, <2>8
<1>7. ASSUME NEW p \in Pools, NEW i \in Items, StartRemoves(p, i) PROVE CacheInv'
  <2>1. TypeOK'
    BY <1>7 DEF StartRemoves, Fault
  <2>2. FreshInv'
    BY <1>7 DEF StartRemoves, Fault
  <2>3. UnpublishedInv'
    BY <1>7 DEF StartRemoves, Fault
  <2>4. UnlinkedInv'
    BY <1>7 DEF StartRemoves, Fault
  <2>5. HandedOutOnce' /\ GoneBeforeUse'
    BY <1>7 DEF StartRemoves, Fault
  <2>6. PublishedIsComplete'
    BY <1>7 DEF StartRemoves, Fault
  <2>7. FateInv'
    BY <1>7 DEF StartRemoves, Fault
  <2>8. PublishedIsDurable'
    BY <1>7 DEF StartRemoves, Fault
  <2> QED
    BY <2>1, <2>2, <2>3, <2>4, <2>5, <2>6, <2>7, <2>8
<1> QED
  BY <1>1, <1>2, <1>3, <1>4, <1>5, <1>6, <1>7 DEF Lifecycle

\* generateOne, from the temporary file to the queue.
LEMMA GenerateStep == CacheInv /\ GenerateOne => CacheInv'
<1> SUFFICES ASSUME CacheInv, GenerateOne PROVE CacheInv'
  OBVIOUS
<1> USE CacheAssumption, NoItemAssumption
<1> USE DEF CacheInv, TypeOK, FreshInv, UnpublishedInv, Unpublished, UnlinkedInv,
            FateInv, HandedOutOnce, GoneBeforeUse, PublishedIsComplete,
            PublishedIsDurable, BecomesPublished, BecomesTaken, fsVars, genVars, acqVars, loadVars,
            StartUnchanged, GenUnchanged, AcqUnchanged
<1>1. ASSUME NEW p \in Pools, GenSyncs(p) PROVE CacheInv'
  <2>1. TypeOK'
    <3> HIDE DEF FreshInv, UnpublishedInv, UnlinkedInv, FateInv, HandedOutOnce,
                 GoneBeforeUse, PublishedIsComplete, PublishedIsDurable
    <3> QED
      BY <1>1 DEF GenSyncs, GenGoes, GenEnds, Fault
  <2>2. FreshInv'
    BY <1>1 DEF GenSyncs, GenGoes, GenEnds, Fault
  <2>3. UnpublishedInv'
    BY <1>1 DEF GenSyncs, GenGoes, GenEnds, Fault
  <2>4. UnlinkedInv'
    BY <1>1 DEF GenSyncs, GenGoes, GenEnds, Fault
  <2>5. HandedOutOnce' /\ GoneBeforeUse'
    BY <1>1 DEF GenSyncs, GenGoes, GenEnds, Fault
  <2>6. PublishedIsComplete'
    BY <1>1 DEF GenSyncs, GenGoes, GenEnds, Fault
  <2>7. FateInv'
    BY <1>1 DEF GenSyncs, GenGoes, GenEnds, Fault
  <2>8. PublishedIsDurable'
    BY <1>1 DEF GenSyncs, GenGoes, GenEnds, Fault
  <2> QED
    BY <2>1, <2>2, <2>3, <2>4, <2>5, <2>6, <2>7, <2>8
<1>2. ASSUME NEW p \in Pools, GenLinks(p) PROVE CacheInv'
  <2>1. TypeOK'
    BY <1>2 DEF GenLinks, GenGoes, GenEnds, Fault
  <2>2. FreshInv'
    BY <1>2 DEF GenLinks, GenGoes, GenEnds, Fault
  <2>3. UnpublishedInv'
    BY <1>2 DEF GenLinks, GenGoes, GenEnds, Fault
  <2>4. UnlinkedInv'
    BY <1>2 DEF GenLinks, GenGoes, GenEnds, Fault
  <2>5. HandedOutOnce' /\ GoneBeforeUse'
    BY <1>2 DEF GenLinks, GenGoes, GenEnds, Fault
  <2>6. PublishedIsComplete'
    BY <1>2 DEF GenLinks, GenGoes, GenEnds, Fault
  <2>7. FateInv'
    BY <1>2 DEF GenLinks, GenGoes, GenEnds, Fault
  <2>8. PublishedIsDurable'
    BY <1>2 DEF GenLinks, GenGoes, GenEnds, Fault
  <2> QED
    BY <2>1, <2>2, <2>3, <2>4, <2>5, <2>6, <2>7, <2>8
<1>3. ASSUME NEW p \in Pools, GenPublishes(p) PROVE CacheInv'
  <2>1. TypeOK'
    BY <1>3 DEF GenPublishes, GenGoes, GenEnds, Fault
  <2>2. FreshInv'
    BY <1>3 DEF GenPublishes, GenGoes, GenEnds, Fault
  <2>3. UnpublishedInv'
    BY <1>3 DEF GenPublishes, GenGoes, GenEnds, Fault
  <2>4. UnlinkedInv'
    BY <1>3 DEF GenPublishes, GenGoes, GenEnds, Fault
  <2>5. HandedOutOnce' /\ GoneBeforeUse'
    BY <1>3 DEF GenPublishes, GenGoes, GenEnds, Fault
  <2>6. PublishedIsComplete'
    BY <1>3 DEF GenPublishes, GenGoes, GenEnds, Fault
  <2>7. FateInv'
    BY <1>3 DEF GenPublishes, GenGoes, GenEnds, Fault
  <2>8. PublishedIsDurable'
    BY <1>3 DEF GenPublishes, GenGoes, GenEnds, Fault
  <2> QED
    BY <2>1, <2>2, <2>3, <2>4, <2>5, <2>6, <2>7, <2>8
<1>4. ASSUME NEW p \in Pools, GenQueues(p) PROVE CacheInv'
  <2>1. TypeOK'
    BY <1>4 DEF GenQueues, GenGoes, GenEnds, Fault
  <2>2. FreshInv'
    BY <1>4 DEF GenQueues, GenGoes, GenEnds, Fault
  <2>3. UnpublishedInv'
    BY <1>4 DEF GenQueues, GenGoes, GenEnds, Fault
  <2>4. UnlinkedInv'
    BY <1>4 DEF GenQueues, GenGoes, GenEnds, Fault
  <2>5. HandedOutOnce' /\ GoneBeforeUse'
    BY <1>4 DEF GenQueues, GenGoes, GenEnds, Fault
  <2>6. PublishedIsComplete'
    BY <1>4 DEF GenQueues, GenGoes, GenEnds, Fault
  <2>7. FateInv'
    BY <1>4 DEF GenQueues, GenGoes, GenEnds, Fault
  <2>8. PublishedIsDurable'
    BY <1>4 DEF GenQueues, GenGoes, GenEnds, Fault
  <2> QED
    BY <2>1, <2>2, <2>3, <2>4, <2>5, <2>6, <2>7, <2>8
<1>5. ASSUME NEW p \in Pools, GenDrops(p) PROVE CacheInv'
  <2>1. TypeOK'
    BY <1>5 DEF GenDrops, GenGoes, GenEnds, Fault
  <2>2. FreshInv'
    BY <1>5 DEF GenDrops, GenGoes, GenEnds, Fault
  <2>3. UnpublishedInv'
    BY <1>5 DEF GenDrops, GenGoes, GenEnds, Fault
  <2>4. UnlinkedInv'
    BY <1>5 DEF GenDrops, GenGoes, GenEnds, Fault
  <2>5. HandedOutOnce' /\ GoneBeforeUse'
    BY <1>5 DEF GenDrops, GenGoes, GenEnds, Fault
  <2>6. PublishedIsComplete'
    BY <1>5 DEF GenDrops, GenGoes, GenEnds, Fault
  <2>7. FateInv'
    BY <1>5 DEF GenDrops, GenGoes, GenEnds, Fault
  <2>8. PublishedIsDurable'
    BY <1>5 DEF GenDrops, GenGoes, GenEnds, Fault
  <2> QED
    BY <2>1, <2>2, <2>3, <2>4, <2>5, <2>6, <2>7, <2>8
<1>6. ASSUME NEW p \in Pools, NEW i \in Items, GenWrites(p, i) PROVE CacheInv'
  <2>1. TypeOK'
    BY <1>6 DEF GenWrites
  <2>2. FreshInv'
    BY <1>6 DEF GenWrites
  <2>3. UnpublishedInv'
    BY <1>6 DEF GenWrites
  <2>4. UnlinkedInv'
    BY <1>6 DEF GenWrites
  <2>5. HandedOutOnce' /\ GoneBeforeUse'
    BY <1>6 DEF GenWrites
  <2>6. PublishedIsComplete'
    BY <1>6 DEF GenWrites
  <2>7. FateInv'
    BY <1>6 DEF GenWrites
  <2>8. PublishedIsDurable'
    BY <1>6 DEF GenWrites
  <2> QED
    BY <2>1, <2>2, <2>3, <2>4, <2>5, <2>6, <2>7, <2>8
<1> QED
  BY <1>1, <1>2, <1>3, <1>4, <1>5, <1>6 DEF GenerateOne

\* finishItem: the entry is gone, durably, before the item is handed out.
LEMMA AcquireStep == CacheInv /\ Acquire => CacheInv'
<1> SUFFICES ASSUME CacheInv, Acquire PROVE CacheInv'
  OBVIOUS
<1> USE CacheAssumption, NoItemAssumption
<1> USE DEF CacheInv, TypeOK, FreshInv, UnpublishedInv, Unpublished, UnlinkedInv,
            FateInv, HandedOutOnce, GoneBeforeUse, PublishedIsComplete,
            PublishedIsDurable, BecomesPublished, BecomesTaken, fsVars, genVars, acqVars, loadVars,
            StartUnchanged, GenUnchanged, AcqUnchanged
<1>1. ASSUME NEW p \in Pools, AcquireUnlinks(p) PROVE CacheInv'
  <2>1. TypeOK'
    BY <1>1 DEF AcquireUnlinks, AcqEnds, Fault
  <2>2. FreshInv'
    BY <1>1 DEF AcquireUnlinks, AcqEnds, Fault
  <2>3. UnpublishedInv'
    BY <1>1 DEF AcquireUnlinks, AcqEnds, Fault
  <2>4. UnlinkedInv'
    BY <1>1 DEF AcquireUnlinks, AcqEnds, Fault
  <2>5. HandedOutOnce' /\ GoneBeforeUse'
    BY <1>1 DEF AcquireUnlinks, AcqEnds, Fault
  <2>6. PublishedIsComplete'
    BY <1>1 DEF AcquireUnlinks, AcqEnds, Fault
  <2>7. FateInv'
    BY <1>1 DEF AcquireUnlinks, AcqEnds, Fault
  <2>8. PublishedIsDurable'
    BY <1>1 DEF AcquireUnlinks, AcqEnds, Fault
  <2> QED
    BY <2>1, <2>2, <2>3, <2>4, <2>5, <2>6, <2>7, <2>8
<1>2. ASSUME NEW p \in Pools, AcquireReturns(p) PROVE CacheInv'
  <2>1. TypeOK'
    BY <1>2 DEF AcquireReturns, AcqEnds, Fault
  <2>2. FreshInv'
    BY <1>2 DEF AcquireReturns, AcqEnds, Fault
  <2>3. UnpublishedInv'
    BY <1>2 DEF AcquireReturns, AcqEnds, Fault
  <2>4. UnlinkedInv'
    BY <1>2 DEF AcquireReturns, AcqEnds, Fault
  <2>5. HandedOutOnce' /\ GoneBeforeUse'
    BY <1>2 DEF AcquireReturns, AcqEnds, Fault
  <2>6. PublishedIsComplete'
    BY <1>2 DEF AcquireReturns, AcqEnds, Fault
  <2>7. FateInv'
    BY <1>2 DEF AcquireReturns, AcqEnds, Fault
  <2>8. PublishedIsDurable'
    BY <1>2 DEF AcquireReturns, AcqEnds, Fault
  <2> QED
    BY <2>1, <2>2, <2>3, <2>4, <2>5, <2>6, <2>7, <2>8
<1>3. ASSUME NEW p \in Pools, NEW i \in Items, AcquireTakes(p, i) PROVE CacheInv'
  <2>1. TypeOK'
    BY <1>3 DEF AcquireTakes
  <2>2. FreshInv'
    BY <1>3 DEF AcquireTakes
  <2>3. UnpublishedInv'
    BY <1>3 DEF AcquireTakes
  <2>4. UnlinkedInv'
    BY <1>3 DEF AcquireTakes
  <2>5. HandedOutOnce' /\ GoneBeforeUse'
    BY <1>3 DEF AcquireTakes
  <2>6. PublishedIsComplete'
    BY <1>3 DEF AcquireTakes
  <2>7. FateInv'
    BY <1>3 DEF AcquireTakes
  <2>8. PublishedIsDurable'
    BY <1>3 DEF AcquireTakes
  <2> QED
    BY <2>1, <2>2, <2>3, <2>4, <2>5, <2>6, <2>7, <2>8
<1> QED
  BY <1>1, <1>2, <1>3 DEF Acquire

\* The life of every item, through every interleaving of generations, starts,
\* acquires, failed calls and crashes.
THEOREM CacheInvariant == Spec => []CacheInv
<1>1. CacheInv /\ [Next]_vars => CacheInv'
  <2>1. CacheInv /\ Next => CacheInv'
    BY EnvironmentStep, LifecycleStep, GenerateStep, AcquireStep DEF Next
  <2>2. CacheInv /\ UNCHANGED vars => CacheInv'
    BY DEF vars, CacheInv, TypeOK, FreshInv, UnpublishedInv, Unpublished,
           UnlinkedInv, FateInv, HandedOutOnce, GoneBeforeUse, PublishedIsComplete,
           PublishedIsDurable
  <2> QED
    BY <2>1, <2>2
<1> QED
  BY CacheInit, <1>1, PTL DEF Spec

\* No two callers are ever given the same pre-parameters, by one pool or by
\* several on the same directory, before or after a crash.
THEOREM NeverReused == Spec => []HandedOutOnce
<1>1. CacheInv => HandedOutOnce
  BY DEF CacheInv
<1> QED
  BY CacheInvariant, <1>1, PTL

\* An item in a caller's hands has no entry in the directory or on the disk.
THEOREM ErasedBeforeUse == Spec => []GoneBeforeUse
<1>1. CacheInv => GoneBeforeUse
  BY DEF CacheInv
<1> QED
  BY CacheInvariant, <1>1, PTL

\* A reader of the cache never meets a partly written entry.
THEOREM EntriesComplete == Spec => []PublishedIsComplete
<1>1. CacheInv => PublishedIsComplete
  BY DEF CacheInv
<1> QED
  BY CacheInvariant, <1>1, PTL

\* A published item that nothing has damaged is still there, in the directory and
\* on the disk, until a caller takes it or its generation drops it: through every
\* crash, restart, failed call and removal of another item.
THEOREM PublishedSurvives == Spec => []PublishedIsDurable
<1>1. CacheInv => PublishedIsDurable
  BY DEF CacheInv
<1> QED
  BY CacheInvariant, <1>1, PTL
=============================================================================
