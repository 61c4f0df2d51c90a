---------------------------- MODULE MCCacheGateway ----------------------------
(* One product with one bit of its own, on several workers. *)
EXTENDS CacheGateway, TLC

CONSTANT p1, MaxOthers

MCBitsOf == p1 :> {1}

Symmetry == Permutations(Readers) \cup Permutations(Workers) \cup Permutations(Rebuilders)

\* Bound: of the writers and rebuilds, MaxOthers ever start, in any choice.
FewOthers == Cardinality({t \in Writers \cup Rebuilders : pc[t] # "idle"}) <= MaxOthers
=============================================================================
