---------------------------- MODULE MCBloomFilter ----------------------------
(* Two products whose bits overlap: a filter that holds p1 accepts p2 as     *)
(* well, whether or not p2 was ever added.                                   *)
EXTENDS BloomFilter, TLC

CONSTANTS p1, p2

MCBitsOf == (p1 :> {1, 2}) @@ (p2 :> {2})

Symmetry == Permutations(Requests) \cup Permutations(Rebuilds)
=============================================================================
