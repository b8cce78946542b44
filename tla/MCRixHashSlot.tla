---------------------------- MODULE MCRixHashSlot ----------------------------
(***************************************************************************)
(* A small instance of RixHashSlot for TLC.                                *)
(*                                                                         *)
(* Two slots a bucket and four buckets: {}, {1}, {2} and {1,2}; bit 3 lies *)
(* outside the mask.  Keys 1 and 2 have the same two hashes and key 3      *)
(* their fingerprint; keys 1 to 4 compete for {} and {1}, key 5 leads from *)
(* {1} to {2}, and keys 6 and 7 fill {2}, from where 6 can go on to {1,2}  *)
(* and 7 to {}.  Element 8 has the key of element 5.                       *)
(***************************************************************************)
EXTENDS RixHashSlot

MCBits  == {1, 2, 3}
MCMask  == {1, 2}
MCKeys  == 1 .. 7
MCHash0 == << {},  {},  {3},   {1}, {1}, {2},   {2} >>
MCHash1 == << {1}, {1}, {1,3}, {},  {2}, {1,2}, {} >>
MCNodes == 1 .. 8
MCKeyOf == << 1, 2, 3, 4, 5, 6, 7, 5 >>

(* Elements 3, 5 and 8 are also removed, 3 and 5 through their slots too;  *)
(* the others stay, so that kickouts run deep.                             *)
GrowNext ==
    \/ \E n \in Nodes : SlotInsert(n)
    \/ \E n \in {3, 5, 8} : SlotRemove(n)
    \/ \E b \in Bucket, s \in Slot :
          bkt_idx[b][s] \in {3, 5, NIL} /\ SlotRemoveAtCall(b, s)
    \/ SlotKick

(* A started insert runs on (the code has no blocking point in it).        *)
GrowFairSpec == SlotInit /\ [][GrowNext]_svars /\ WF_svars(SlotKick)
=============================================================================
