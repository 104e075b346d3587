---------------------------- MODULE MCCacheSync ----------------------------
(* CacheSync, and FencedLease by itself, for TLC. *)
EXTENDS CacheSync, TLC

MCTtls == {0, 1, 2}
Symmetry == Permutations(Workers) \cup Permutations(Owners)
=============================================================================
