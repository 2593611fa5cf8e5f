------------------------------ MODULE Deduper ------------------------------
(***************************************************************************)
(* ttlFrameDeduper (internal/tssbnb/execution/deduper.go): the table of    *)
(* frames a session has accepted, with a lifetime and a size limit.  Run's *)
(* event loop alone uses it, one inbound frame at a time.                  *)
(*                                                                         *)
(* A frame is its deduplication key.  time.Now().UnixNano() is the wall    *)
(* clock: a call may read the same instant as the one before, or an        *)
(* earlier one after the clock was set back, so any call reads any instant. *)
(***************************************************************************)
EXTENDS Integers, FiniteSets

CONSTANTS
    Frames,      \* deduplication keys the peers may send, any number of times
    Oversized,   \* the frames whose payload exceeds MaxFrameBytes
    MaxEntries,  \* DedupMaxEntries
    TTL,         \* DedupTTL, in ticks
    PruneEvery,  \* dedupPruneEvery
    MaxNow       \* bound: the latest instant the clock shows

ASSUME DeduperAssumption ==
    /\ IsFiniteSet(Frames)
    /\ Oversized \subseteq Frames
    /\ MaxEntries \in Nat \ {0}
    /\ TTL \in Nat
    /\ PruneEvery \in Nat \ {0}
    /\ MaxNow \in Nat

VARIABLES
    seen,        \* the keys of the table
    stamp,       \* for each frame, when it was last accepted (0: never)
    phase,       \* insertions % dedupPruneEvery
    outlived,    \* history: frames whose acceptance a later call has read to be
                 \* more than the TTL ago
    rivals       \* history: for each frame, the entries no older than its own
                 \* that it has had beside it since it was last accepted

histVars == <<outlived, rivals>>
vars == <<seen, stamp, phase, histVars>>

Instants == 1..MaxNow

Init ==
    /\ seen = {}
    /\ stamp = [f \in Frames |-> 0]
    /\ phase = 0
    /\ outlived = {}
    /\ rivals = [f \in Frames |-> {}]

\* The entries left by the prune of a call at time t.
Pruned(t) ==
    IF phase = 0 THEN {k \in seen : stamp[k] >= t - TTL} ELSE seen

\* Mutant of Evictions: the table is trimmed when it is over the limit, not
\* when it is at the limit.
EvictionsLate(table) ==
    IF Cardinality(table) > MaxEntries
    THEN {table \ {k} : k \in {k \in table : \A j \in table : stamp[k] <= stamp[j]}}
    ELSE {table}

\* Mutant of Evictions: the youngest entry makes room.
EvictionsYoungest(table) ==
    IF Cardinality(table) >= MaxEntries
    THEN {table \ {k} : k \in {k \in table : \A j \in table : stamp[k] >= stamp[j]}}
    ELSE {table}

\* The tables the eviction may leave: at the limit, an oldest entry goes.
Evictions(table) ==
    IF Cardinality(table) >= MaxEntries
    THEN {table \ {k} : k \in {k \in table : \A j \in table : stamp[k] <= stamp[j]}}
    ELSE {table}

Outlives(f, t) == stamp[f] > 0 /\ t - stamp[f] > TTL

\* A call of ShouldAccept that returns true.
Accept(f, t) ==
    /\ f \notin Oversized
    /\ \E table \in Evictions(Pruned(t)) :
         /\ f \notin table
         /\ seen' = table \cup {f}
         /\ rivals' = [g \in Frames |->
                         IF g = f THEN {k \in table : stamp[k] >= t}
                         ELSE IF stamp[g] \in 1..t THEN rivals[g] \cup {f}
                         ELSE rivals[g]]
    /\ stamp' = [stamp EXCEPT ![f] = t]
    /\ phase' = (phase + 1) % PruneEvery
    /\ outlived' = {g \in Frames \ {f} : g \in outlived \/ Outlives(g, t)}

\* ErrDuplicateFrame.  What the prune and the eviction removed stays removed.
RefuseDuplicate(f, t) ==
    /\ f \notin Oversized
    /\ \E table \in Evictions(Pruned(t)) :
         /\ f \in table
         /\ seen' = table
    /\ outlived' = outlived \cup {g \in Frames : Outlives(g, t)}
    /\ UNCHANGED <<stamp, phase, rivals>>

\* ErrFrameTooLarge, before the clock and the table are looked at.
RefuseOversized(f) ==
    /\ f \in Oversized
    /\ UNCHANGED vars

ShouldAccept(f, t) ==
    Accept(f, t) \/ RefuseDuplicate(f, t) \/ RefuseOversized(f)

Next ==
    \E f \in Frames, t \in Instants : ShouldAccept(f, t)

Spec == Init /\ [][Next]_vars

--------------------------------------------------------------------------

\* Every variable holds a value of its kind, and stamps are instants.
TypeOK ==
    /\ seen \in SUBSET Frames
    /\ stamp \in [Frames -> 0..MaxNow]
    /\ phase \in 0..(PruneEvery - 1)
    /\ outlived \in SUBSET Frames
    /\ rivals \in [Frames -> SUBSET Frames]

\* However many distinct frames the peers send, and whatever the clock does,
\* the table stays within DedupMaxEntries.
TableBounded == Cardinality(seen) <= MaxEntries

\* A call at instant t may accept f.
Acceptable(f, t) == \E table \in Evictions(Pruned(t)) : f \notin table

\* A replay is accepted, whenever it comes, only if a call since the frame was
\* accepted has read a time more than the TTL later, or if the frame has had
\* MaxEntries - 1 entries beside it that were no older.  Evictions, other
\* replays and a clock that stands still or is set back never open the window
\* otherwise.  (At the limit the eviction precedes the lookup, so the oldest of
\* MaxEntries entries is already replayable; after the clock was set back that
\* may be the frame accepted last.)
ReplayWindow ==
    \A f \in Frames, t \in Instants :
      stamp[f] > 0 /\ Acceptable(f, t) =>
        \/ f \in outlived \/ Outlives(f, t)
        \/ Cardinality(rivals[f]) >= MaxEntries - 1

\* What an entry's rivals are, and how an accepted frame may lose its entry.
LossInv ==
    /\ \A f \in seen : stamp[f] > 0
    /\ \A f, g \in seen : g # f /\ stamp[g] >= stamp[f] => g \in rivals[f]
    /\ \A f \in Frames :
         \/ stamp[f] = 0
         \/ f \in seen
         \/ f \in outlived
         \/ Cardinality(rivals[f]) >= MaxEntries - 1

\* The conjunction every call preserves.
DedupInv == TypeOK /\ TableBounded /\ LossInv

=============================================================================
