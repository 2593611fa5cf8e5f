---------------------------- MODULE PreParamsCache ---------------------------
(***************************************************************************)
(* The durable cache behind the pools: internal/preparams/fs.go and the    *)
(* parts of pool.go that use it.  Each set of pre-parameters is one file;  *)
(* a pool publishes it before it queues it, and unlinks it durably before  *)
(* it hands it out.  Processes crash, the machine crashes, file system     *)
(* calls fail, and pools may share one cache directory.                    *)
(*                                                                         *)
(* The file system is external: dir is what calls see, disk what survives  *)
(* a machine crash.  SyncDir makes the two equal; the kernel may also write *)
(* an entry back at any time.                                              *)
(***************************************************************************)
EXTENDS Integers, FiniteSets

CONSTANTS
  Pools,       \* the pools that use the directory, each in its own process
  Items,       \* the sets of pre-parameters ever generated
  TargetSize,  \* capacity of a pool's channel
  MaxFaults,   \* bound: file system calls that fail, entries that go bad
  MaxCrashes   \* bound: crashes of a process or of the machine

ASSUME CacheAssumption == /\ TargetSize \in Nat \ {0}
                          /\ MaxFaults \in Nat /\ MaxCrashes \in Nat

NoItem == "no item"
ASSUME NoItemAssumption == NoItem \notin Items

VARIABLES
  dir,      \* items whose .gob entry is in the directory
  disk,     \* items whose .gob entry is on stable storage
  data,     \* data[i]: content of item i's file
  life,     \* life[p]: "down", "probing", "loading", "up", "failed", "closed"
  listed,   \* listed[p]: entries loadFromCache has read and not yet loaded
  ch,       \* ch[p]: items queued in pool p
  gen,      \* gen[p]: control point of pool p's generation
  genItem,  \* its item, or NoItem
  acq,      \* acq[p]: control point of a caller in finishItem
  acqItem,  \* its item, or NoItem
  handed,   \* history: handed[i] counts the callers that were given item i
  fate,     \* history: fate[i] is "published" once a generation has published
            \* item i durably, "taken" once a caller or a dropping one has it
  faults, crashes   \* history: what the bounds count

fsVars   == <<dir, disk, data>>
genVars  == <<gen, genItem>>
acqVars  == <<acq, acqItem, handed>>
loadVars == <<life, listed>>
vars == <<dir, disk, data, life, listed, ch, gen, genItem, acq, acqItem, handed,
          fate, faults, crashes>>

Init ==
  /\ dir = {} /\ disk = {} /\ data = [i \in Items |-> "none"]
  /\ life = [p \in Pools |-> "down"] /\ listed = [p \in Pools |-> {}]
  /\ ch = [p \in Pools |-> {}]
  /\ gen = [p \in Pools |-> "idle"] /\ genItem = [p \in Pools |-> NoItem]
  /\ acq = [p \in Pools |-> "idle"] /\ acqItem = [p \in Pools |-> NoItem]
  /\ handed = [i \in Items |-> 0] /\ fate = [i \in Items |-> "none"]
  /\ faults = 0 /\ crashes = 0

-----------------------------------------------------------------------------
(* The file system                                                         *)

Fault == faults < MaxFaults /\ faults' = faults + 1

\* The kernel writes an entry's state back on its own.
Writeback(i) ==
  /\ (i \in dir) # (i \in disk)
  /\ disk' = IF i \in dir THEN disk \cup {i} ELSE disk \ {i}
  /\ UNCHANGED <<dir, data, loadVars, ch, genVars, acqVars, fate, faults, crashes>>

\* An entry is damaged by something other than the pools.
Damage(i) ==
  /\ i \in dir /\ data[i] = "synced" /\ Fault
  /\ data' = [data EXCEPT ![i] = "bad"]
  /\ UNCHANGED <<dir, disk, loadVars, ch, genVars, acqVars, fate, crashes>>

\* Pool p's process dies; what it held in memory is gone.
Dies(P) ==
  /\ crashes < MaxCrashes /\ crashes' = crashes + 1
  /\ life' = [p \in Pools |-> IF p \in P THEN "down" ELSE life[p]]
  /\ listed' = [p \in Pools |-> IF p \in P THEN {} ELSE listed[p]]
  /\ ch' = [p \in Pools |-> IF p \in P THEN {} ELSE ch[p]]
  /\ gen' = [p \in Pools |-> IF p \in P THEN "idle" ELSE gen[p]]
  /\ genItem' = [p \in Pools |-> IF p \in P THEN NoItem ELSE genItem[p]]
  /\ acq' = [p \in Pools |-> IF p \in P THEN "idle" ELSE acq[p]]
  /\ acqItem' = [p \in Pools |-> IF p \in P THEN NoItem ELSE acqItem[p]]
  /\ UNCHANGED <<handed, fate, faults>>

ProcessCrash(p) == life[p] # "down" /\ Dies({p}) /\ UNCHANGED fsVars

\* Every process dies and the directory is what was on disk; content that was
\* not synced is lost.
MachineCrash ==
  /\ \E p \in Pools : life[p] # "down"
  /\ Dies(Pools)
  /\ dir' = disk
  /\ data' = [i \in Items |-> IF data[i] = "written" THEN "bad" ELSE data[i]]
  /\ UNCHANGED disk

Environment == \/ MachineCrash
               \/ \E p \in Pools : ProcessCrash(p)
               \/ \E i \in Items : Writeback(i) \/ Damage(i)

-----------------------------------------------------------------------------
(* Start: ensurePrivateCacheDir, validateCacheCapabilities, loadFromCache  *)

StartUnchanged == UNCHANGED <<genVars, acqVars, fate, crashes>>

\* The directory is private and the probe file is published, unlinked and
\* synced, or Start fails.
StartProbes(p) ==
  /\ life[p] = "down"
  /\ \/ /\ life' = [life EXCEPT ![p] = "probing"]
        /\ disk' = dir /\ UNCHANGED faults
     \/ life' = [life EXCEPT ![p] = "failed"] /\ Fault /\ UNCHANGED disk
  /\ UNCHANGED <<dir, data, listed, ch>> /\ StartUnchanged

\* ReadDir
StartLists(p) ==
  /\ life[p] = "probing"
  /\ \/ /\ life' = [life EXCEPT ![p] = "loading"]
        /\ listed' = [listed EXCEPT ![p] = dir] /\ UNCHANGED faults
     \/ life' = [life EXCEPT ![p] = "failed"] /\ Fault /\ UNCHANGED listed
  /\ UNCHANGED <<fsVars, ch>> /\ StartUnchanged

\* loadOne gives item i, and it validates.
StartLoads(p, i) ==
  /\ life[p] = "loading" /\ Cardinality(ch[p]) < TargetSize
  /\ i \in listed[p] /\ i \in dir /\ data[i] = "synced"
  /\ ch' = [ch EXCEPT ![p] = @ \cup {i}]
  /\ listed' = [listed EXCEPT ![p] = @ \ {i}]
  /\ UNCHANGED <<fsVars, life, faults>> /\ StartUnchanged

\* The entry does not load: it is removed durably.  One that is already gone,
\* taken by another pool since ReadDir, cannot be removed and fails Start.
StartRemoves(p, i) ==
  /\ life[p] = "loading" /\ Cardinality(ch[p]) < TargetSize
  /\ i \in listed[p]
  /\ \/ /\ i \in dir /\ data[i] = "bad"
        /\ dir' = dir \ {i} /\ disk' = dir'
        /\ listed' = [listed EXCEPT ![p] = @ \ {i}]
        /\ UNCHANGED <<life, faults>>
     \/ /\ i \in dir /\ data[i] = "bad" /\ Fault
        /\ life' = [life EXCEPT ![p] = "failed"]
        /\ dir' \in {dir, dir \ {i}}
        /\ UNCHANGED <<disk, listed>>
     \/ /\ i \notin dir
        /\ life' = [life EXCEPT ![p] = "failed"]
        /\ UNCHANGED <<dir, disk, listed, faults>>
  /\ UNCHANGED <<data, ch>> /\ StartUnchanged

StartEnds(p) ==
  /\ life[p] = "loading"
  /\ listed[p] = {} \/ Cardinality(ch[p]) >= TargetSize
  /\ life' = [life EXCEPT ![p] = "up"]
  /\ listed' = [listed EXCEPT ![p] = {}]
  /\ UNCHANGED <<fsVars, ch, faults>> /\ StartUnchanged

\* Close: the context ends.
Close(p) ==
  /\ life[p] = "up"
  /\ life' = [life EXCEPT ![p] = "closed"]
  /\ UNCHANGED <<fsVars, listed, ch, faults>> /\ StartUnchanged

\* The process gives up a pool that is closed or did not start, and makes a
\* new one on the same directory.
Replace(p) ==
  /\ life[p] \in {"closed", "failed"} /\ gen[p] = "idle" /\ acq[p] = "idle"
  /\ life' = [life EXCEPT ![p] = "down"]
  /\ ch' = [ch EXCEPT ![p] = {}] /\ listed' = [listed EXCEPT ![p] = {}]
  /\ UNCHANGED <<fsVars, faults>> /\ StartUnchanged

Lifecycle == \E p \in Pools :
               \/ StartProbes(p) \/ StartLists(p) \/ StartEnds(p)
               \/ Close(p) \/ Replace(p)
               \/ \E i \in Items : StartLoads(p, i) \/ StartRemoves(p, i)

-----------------------------------------------------------------------------
(* generateOne with saveToCache and publishCacheFile                       *)

GenUnchanged == UNCHANGED <<loadVars, acqVars, crashes>>
GenGoes(p, to) == gen' = [gen EXCEPT ![p] = to] /\ UNCHANGED genItem
GenEnds(p) == /\ gen' = [gen EXCEPT ![p] = "idle"]
              /\ genItem' = [genItem EXCEPT ![p] = NoItem]

\* A fresh item is written to a temporary file, which the loader ignores.
GenWrites(p, i) ==
  /\ life[p] = "up" /\ gen[p] = "idle" /\ data[i] = "none"
  /\ Cardinality(ch[p]) < TargetSize
  /\ data' = [data EXCEPT ![i] = "written"]
  /\ gen' = [gen EXCEPT ![p] = "written"]
  /\ genItem' = [genItem EXCEPT ![p] = i]
  /\ UNCHANGED <<dir, disk, ch, faults, fate>> /\ GenUnchanged

\* Mutant: the content is not synced before it is linked.
GenSkipsSync(p) ==
  /\ gen[p] = "written"
  /\ GenGoes(p, "synced")
  /\ UNCHANGED <<fsVars, ch, faults, fate>> /\ GenUnchanged

\* temp.Sync and temp.Close
GenSyncs(p) ==
  /\ gen[p] = "written"
  /\ \/ /\ data' = [data EXCEPT ![genItem[p]] = "synced"]
        /\ GenGoes(p, "synced") /\ UNCHANGED faults
     \/ Fault /\ GenEnds(p) /\ UNCHANGED data
  /\ UNCHANGED <<dir, disk, ch, fate>> /\ GenUnchanged

\* Link, which never replaces an entry
GenLinks(p) ==
  /\ gen[p] = "synced"
  /\ \/ /\ dir' = dir \cup {genItem[p]}
        /\ GenGoes(p, "linked") /\ UNCHANGED faults
     \/ Fault /\ GenEnds(p) /\ UNCHANGED dir
  /\ UNCHANGED <<disk, data, ch, fate>> /\ GenUnchanged

\* Another pool may have loaded and taken the item as soon as it was linked.
BecomesPublished(i) ==
  fate' = [fate EXCEPT ![i] = IF @ = "none" THEN "published" ELSE @]
BecomesTaken(i) == fate' = [fate EXCEPT ![i] = "taken"]

\* Mutant: the directory is not synced after publication.
GenPublishesUnsynced(p) ==
  /\ gen[p] = "linked"
  /\ GenGoes(p, "published") /\ BecomesPublished(genItem[p])
  /\ UNCHANGED <<fsVars, ch, faults>> /\ GenUnchanged

\* Remove of the temporary name, then SyncDir; a failure abandons the item but
\* leaves its entry.
GenPublishes(p) ==
  /\ gen[p] = "linked"
  /\ \/ /\ disk' = dir /\ GenGoes(p, "published") /\ UNCHANGED faults
        /\ BecomesPublished(genItem[p])
     \/ Fault /\ GenEnds(p) /\ UNCHANGED <<disk, fate>>
  /\ UNCHANGED <<dir, data, ch>> /\ GenUnchanged

\* The select: the item is queued, or the context has ended or ch is full.
GenQueues(p) ==
  /\ gen[p] = "published"
  /\ \/ /\ Cardinality(ch[p]) < TargetSize
        /\ ch' = [ch EXCEPT ![p] = @ \cup {genItem[p]}]
        /\ GenEnds(p) /\ UNCHANGED fate
     \/ /\ ~(life[p] = "up" /\ Cardinality(ch[p]) < TargetSize)
        /\ GenGoes(p, "dropping") /\ BecomesTaken(genItem[p]) /\ UNCHANGED ch
  /\ UNCHANGED <<fsVars, faults>> /\ GenUnchanged

\* durablyRemoveCacheFile of an item that could not be queued; failures are
\* only logged.
GenDrops(p) ==
  /\ gen[p] = "dropping"
  /\ \/ /\ genItem[p] \in dir
        /\ dir' = dir \ {genItem[p]} /\ disk' = dir' /\ UNCHANGED faults
     \/ /\ genItem[p] \in dir /\ Fault
        /\ dir' \in {dir, dir \ {genItem[p]}} /\ UNCHANGED disk
     \/ genItem[p] \notin dir /\ UNCHANGED <<dir, disk, faults>>
  /\ GenEnds(p)
  /\ UNCHANGED <<data, ch, fate>> /\ GenUnchanged

GenerateOne == \E p \in Pools :
                 \/ GenSyncs(p) \/ GenLinks(p) \/ GenPublishes(p)
                 \/ GenQueues(p) \/ GenDrops(p)
                 \/ \E i \in Items : GenWrites(p, i)

-----------------------------------------------------------------------------
(* Acquire and TryAcquire: finishItem                                      *)

AcqUnchanged == UNCHANGED <<data, loadVars, genVars, crashes>>
AcqEnds(p) == /\ acq' = [acq EXCEPT ![p] = "idle"]
              /\ acqItem' = [acqItem EXCEPT ![p] = NoItem]

\* An item leaves ch.  Acquire waits for one only in a pool that has started;
\* TryAcquire looks into any pool.  A caller that came before Close may find
\* its item after it.
AcquireTakes(p, i) ==
  /\ life[p] # "down" /\ acq[p] = "idle" /\ i \in ch[p]
  /\ ch' = [ch EXCEPT ![p] = @ \ {i}]
  /\ acq' = [acq EXCEPT ![p] = "took"]
  /\ acqItem' = [acqItem EXCEPT ![p] = i] /\ BecomesTaken(i)
  /\ UNCHANGED <<dir, disk, handed, faults>> /\ AcqUnchanged

\* Mutant: an entry that is gone counts as removed.
AcquireUnlinksMissing(p) ==
  /\ acq[p] = "took"
  /\ dir' = dir \ {acqItem[p]}
  /\ acq' = [acq EXCEPT ![p] = "unlinked"] /\ UNCHANGED <<acqItem, faults>>
  /\ UNCHANGED <<disk, ch, handed, fate>> /\ AcqUnchanged

\* Remove: an entry another pool has already taken cannot be removed.
AcquireUnlinks(p) ==
  /\ acq[p] = "took"
  /\ \/ /\ acqItem[p] \in dir /\ dir' = dir \ {acqItem[p]}
        /\ acq' = [acq EXCEPT ![p] = "unlinked"] /\ UNCHANGED <<acqItem, faults>>
     \/ acqItem[p] \in dir /\ Fault /\ AcqEnds(p) /\ UNCHANGED dir
     \/ acqItem[p] \notin dir /\ AcqEnds(p) /\ UNCHANGED <<dir, faults>>
  /\ UNCHANGED <<disk, ch, handed, fate>> /\ AcqUnchanged

\* Mutant: the item is handed out without SyncDir.
AcquireReturnsUnsynced(p) ==
  /\ acq[p] = "unlinked"
  /\ handed' = [handed EXCEPT ![acqItem[p]] = @ + 1]
  /\ AcqEnds(p)
  /\ UNCHANGED <<dir, disk, ch, faults, fate>> /\ AcqUnchanged

\* SyncDir, and the item is the caller's; or it fails and the item is nobody's.
AcquireReturns(p) ==
  /\ acq[p] = "unlinked"
  /\ \/ /\ disk' = dir /\ UNCHANGED faults
        /\ handed' = [handed EXCEPT ![acqItem[p]] = @ + 1]
     \/ Fault /\ UNCHANGED <<disk, handed>>
  /\ AcqEnds(p)
  /\ UNCHANGED <<dir, ch, fate>> /\ AcqUnchanged

Acquire == \E p \in Pools : \/ AcquireUnlinks(p) \/ AcquireReturns(p)
                            \/ \E i \in Items : AcquireTakes(p, i)

Next == Environment \/ Lifecycle \/ GenerateOne \/ Acquire

Spec == Init /\ [][Next]_vars

-----------------------------------------------------------------------------
(* Properties                                                              *)

\* Every variable keeps its type.
TypeOK ==
  /\ dir \subseteq Items /\ disk \subseteq Items
  /\ data \in [Items -> {"none", "written", "synced", "bad"}]
  /\ life \in [Pools -> {"down", "probing", "loading", "up", "failed", "closed"}]
  /\ listed \in [Pools -> SUBSET Items] /\ ch \in [Pools -> SUBSET Items]
  /\ gen \in [Pools -> {"idle", "written", "synced", "linked", "published",
                        "dropping"}]
  /\ genItem \in [Pools -> Items \cup {NoItem}]
  /\ acq \in [Pools -> {"idle", "took", "unlinked"}]
  /\ acqItem \in [Pools -> Items \cup {NoItem}]
  /\ handed \in [Items -> Nat] /\ fate \in [Items -> {"none", "published", "taken"}]
  /\ faults \in 0..MaxFaults /\ crashes \in 0..MaxCrashes

\* No set of pre-parameters is ever used by two DKG sessions: not after a crash
\* of the process or the machine between any two calls, not after a failed
\* call, not by another pool on the same directory.
HandedOutOnce == \A i \in Items : handed[i] <= 1

\* By the time a caller holds an item its file is gone, from the directory and
\* from the disk, so that no later start can find it.
GoneBeforeUse == \A i \in Items : handed[i] > 0 => i \notin dir \cup disk

\* A published entry is complete: only damage from outside makes it unreadable.
PublishedIsComplete ==
  \A i \in dir \cup disk : data[i] = "synced" \/ (data[i] = "bad" /\ faults > 0)

\* Published pre-parameters are not lost: an undamaged item stays in the
\* directory and on the disk until a caller takes it or its generation drops it,
\* queued or not, whatever else fails, crashes, restarts or is removed.
PublishedIsDurable ==
  \A i \in Items : fate[i] = "published" /\ data[i] = "synced" => i \in dir \cap disk

-----------------------------------------------------------------------------
(* The inductive invariant behind these properties                         *)

\* An item between GenWrites and GenLinks is known to its generator alone.
Unpublished(p) == gen[p] \in {"written", "synced"}

\* Whatever has an item, the item has been written before.
FreshInv ==
  \A i \in Items : data[i] = "none" =>
    /\ i \notin dir \cup disk /\ handed[i] = 0
    /\ \A p \in Pools : acqItem[p] # i /\ genItem[p] # i /\ i \notin ch[p]

\* An unpublished item has no entry, no caller and no other generator.
UnpublishedInv ==
  \A p \in Pools : Unpublished(p) =>
    /\ genItem[p] \in Items
    /\ genItem[p] \notin dir \cup disk /\ handed[genItem[p]] = 0
    /\ data[genItem[p]] = gen[p]
    /\ \A q \in Pools : /\ acqItem[q] # genItem[p] /\ genItem[p] \notin ch[q]
                        /\ q # p => genItem[q] # genItem[p]

\* An item whose entry a caller has unlinked is that caller's alone.
UnlinkedInv ==
  \A p \in Pools :
    /\ acq[p] # "idle" => acqItem[p] \in Items
    /\ acq[p] = "unlinked" =>
         /\ acqItem[p] \notin dir /\ handed[acqItem[p]] = 0
         /\ \A q \in Pools : acq[q] = "unlinked" /\ acqItem[q] = acqItem[p]
                             => q = p
    /\ gen[p] # "idle" => genItem[p] \in Items

\* An item has no fate before it is linked, who is about to unlink it has taken
\* it, and a linked item has its entry, and no other generator, until it is
\* published.
FateInv ==
  /\ \A i \in Items : data[i] = "none" => fate[i] = "none"
  /\ \A p \in Pools :
    /\ Unpublished(p) => fate[genItem[p]] = "none"
    /\ acq[p] # "idle" => fate[acqItem[p]] = "taken"
    /\ gen[p] = "dropping" => fate[genItem[p]] = "taken"
    /\ gen[p] = "linked" /\ fate[genItem[p]] # "taken" /\ data[genItem[p]] = "synced"
         => genItem[p] \in dir
    /\ \A q \in Pools : gen[p] # "idle" /\ genItem[q] = genItem[p] => q = p

\* Every call, fault and crash preserves the types, the lives of the items
\* and the properties above.
CacheInv == /\ TypeOK /\ FreshInv /\ UnpublishedInv /\ UnlinkedInv /\ FateInv
            /\ HandedOutOnce /\ GoneBeforeUse /\ PublishedIsComplete
            /\ PublishedIsDurable
=============================================================================
