--------------------------- MODULE RixHashCommon ---------------------------
(***************************************************************************)
(* Hash values, buckets and fingerprints shared by every cuckoo hash       *)
(* variant (include/rix/rix_hash_common.h, rix_hash_arch.h).               *)
(*                                                                         *)
(* A 32-bit hash is the set of its one bits, so that the three bit         *)
(* operations of the code are set operations: x ^ y is the symmetric       *)
(* difference, x & mask the intersection with the mask's bits, and 0 the   *)
(* empty set.  A bucket index is a hash restricted to the mask, so there   *)
(* are 2^Cardinality(Mask) buckets (nb_bk is a power of two).              *)
(***************************************************************************)
EXTENDS Integers, FiniteSets

CONSTANTS
    Bits,       (* The bit positions of a hash value.                       *)
    Mask,       (* The bits of head->rhh_mask.                              *)
    Keys,
    Hash0,      (* Hash0[k]: val32[0] of hash_fn(k, mask).                  *)
    Hash1,      (* Hash1[k]: val32[1] of hash_fn(k, mask).                  *)
    Nodes,      (* The caller's array of elements.                          *)
    NIL,        (* RIX_NIL, the index no element has.                       *)
    EntrySz     (* RIX_HASH_BUCKET_ENTRY_SZ, slots per bucket.              *)

Hash   == SUBSET Bits
Bucket == SUBSET Mask
Slot   == 0 .. EntrySz - 1
NodeOrNil == Nodes \cup {NIL}

Xor(x, y) == (x \ y) \cup (y \ x)

(* The two candidate buckets of a key and its fingerprint.                 *)
Bk0(k) == Hash0[k] \cap Mask
Bk1(k) == Hash1[k] \cap Mask
Fp(k)  == Xor(Hash0[k], Hash1[k])

(* What the hash functions promise: the loop that draws val32[1] runs      *)
(* until the two candidate buckets differ.                                 *)
HashContract ==
    /\ Mask \subseteq Bits
    /\ Hash0 \in [Keys -> Hash]
    /\ Hash1 \in [Keys -> Hash]
    /\ \A k \in Keys : Bk0(k) # Bk1(k)

ASSUME HashAssumption == HashContract
ASSUME NilAssumption == NIL \notin Nodes
ASSUME SizeAssumption == EntrySz \in Nat \ {0}

(* __builtin_ctz of a hit mask: the lowest slot of a non-empty set.        *)
LowestSlot(S) == CHOOSE s \in S : \A t \in S : s <= t
=============================================================================
