----------------------------- MODULE MCDeduper -----------------------------
EXTENDS Deduper, TLC

\* Frames that fit are interchangeable.
Symmetry == Permutations(Frames \ Oversized)

=============================================================================
