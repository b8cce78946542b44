----------------------------- MODULE MCRixHashFp -----------------------------
(***************************************************************************)
(* Small instances of RixHashFp for TLC.                                   *)
(*                                                                         *)
(* Keys and elements are numbered; the hash functions are tuples indexed   *)
(* by the key.  With a two-bit mask there are four buckets: {}, {1}, {2}   *)
(* and {1,2}; bit 3 lies outside the mask.                                 *)
(***************************************************************************)
EXTENDS RixHashFpAtomic

MCBits == {1, 2, 3}
MCMask == {1, 2}

(* Two slots a bucket, for the run in which linked elements are inserted   *)
(* again: four keys fill the four slots of buckets {} and {1}, key 5 can   *)
(* leave {1} for {2}.                                                      *)
AgainKeys  == 1 .. 5
AgainHash0 == << {},  {3},   {1}, {1}, {1} >>
AgainHash1 == << {1}, {1,3}, {},  {3}, {2} >>
AgainKeyOf == << 1, 2, 3, 4, 5 >>

(* One slot a bucket.  Three keys compete for {} and {1}, so some inserts  *)
(* fail; keys 4 and 5 chain {1} - {2} - {1,2}, and element 6 has the key   *)
(* of element 1.                                                           *)
ChainKeys  == 1 .. 5
ChainHash0 == << {},  {3},   {1}, {1}, {2} >>
ChainHash1 == << {1}, {1,3}, {},  {2}, {1,2} >>
ChainNodes == 1 .. 6
ChainKeyOf == << 1, 2, 3, 4, 5, 1 >>

(* Callers that may also insert an element that already is in the table.   *)
AgainSpec == AtomicInit /\ [][RelinkNext /\ Record]_atomicVars
=============================================================================
