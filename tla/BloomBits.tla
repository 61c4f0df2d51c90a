------------------------------ MODULE BloomBits ------------------------------
(***************************************************************************)
(* The bit array of pybloomfiltermmap3 as src/service/bloom.py uses it: a  *)
(* filter is the set of bits that are on.  The hash functions are a        *)
(* constant, so products may share bits and a product may be accepted that *)
(* was never added.                                                        *)
(***************************************************************************)
CONSTANTS
    Products,   \* product ids
    Bits,       \* positions of the bit array
    BitsOf      \* product -> the positions its key hashes to

ASSUME BitsOfAssumption == BitsOf \in [Products -> (SUBSET Bits) \ {{}}]

MayContain(bits, p) == BitsOf[p] \subseteq bits

BitsOfAll(ids) == UNION {BitsOf[p] : p \in ids}
=============================================================================
