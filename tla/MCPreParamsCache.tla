--------------------------- MODULE MCPreParamsCache --------------------------
(* Small caches for TLC: pools are interchangeable, and so are items.       *)
EXTENDS PreParamsCache, TLC

Symmetry == Permutations(Pools) \cup Permutations(Items)
=============================================================================
