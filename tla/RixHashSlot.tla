---------------------------- MODULE RixHashSlot ----------------------------
(***************************************************************************)
(* The slot variant (include/rix/rix_hash_slot.h): the fingerprint         *)
(* variant with a second field in each element, slot_field, the slot it    *)
(* sits in.  insert and kickout write it wherever they place an element;   *)
(* remove goes straight to the slot it names instead of searching the      *)
(* bucket.  Every other statement is that of RixHashFp, whose actions are  *)
(* conjoined with the writes to slot_field.                                *)
(***************************************************************************)
EXTENDS RixHashFp

VARIABLE slot_field     (* slot_field[n]: element n's slot_field.           *)

svars == <<vars, slot_field>>

SlotInit == Init /\ slot_field = [n \in Nodes |-> 0]

(* Mutant: kickout forgets slot_field. *)
SlotFlipForgets(b, s) == UNCHANGED slot_field

(* flipflop stores the slot it found in the alternate bucket. *)
SlotFlip(b, s) ==
    slot_field' = [slot_field EXCEPT ![bkt_idx[b][s]] =
                                         LowestSlot(Empties(AltOf(b, s)))]

SlotKickFlip ==
    /\ KickFlip
    /\ SlotFlip(top.bk, LowestSlot({s \in Slot : CanFlip(top.bk, s)}))

SlotKickUnwind ==
    /\ KickUnwind
    /\ IF CanFlip(Caller.bk, Caller.s)
         THEN SlotFlip(Caller.bk, Caller.s)
         ELSE UNCHANGED slot_field

(* The fast path stores the slot it took, in bk0 if that has room. *)
SlotInsertFast(n) ==
    /\ InsertFast(n)
    /\ LET b == IF Empties(Bk0(KeyOf[n])) # {} THEN Bk0(KeyOf[n])
                                               ELSE Bk1(KeyOf[n])
       IN  slot_field' = [slot_field EXCEPT ![n] = LowestSlot(Empties(b))]

(* Mutant: off by one. *)
SlotInsertAfterKickoutNext ==
    /\ InsertAfterKickout
    /\ slot_field' = [slot_field EXCEPT ![elm] = pos + 1]

SlotInsertAfterKickout ==
    /\ InsertAfterKickout
    /\ slot_field' = [slot_field EXCEPT ![elm] = pos]

SlotInsert(n) ==
    /\ ~Linked(n)
    /\ \/ SlotInsertFast(n)
       \/ (InsertDuplicate(n) \/ InsertSlow(n)) /\ UNCHANGED slot_field

(* Mutant: the slot is cleared without checking that elm is in it.         *)
SlotRemoveUnchecked(n) ==
    LET b == hash_field[n] \cap Mask
        s == slot_field[n]
    IN  /\ Idle
        /\ \/ /\ bkt_idx[b][s] # NIL
              /\ RemoveAt(b, s)
              /\ Answer("remove", n, n)
           \/ /\ bkt_idx[b][s] = NIL
              /\ Answer("remove", n, NIL)
              /\ UNCHANGED <<bkt_hash, bkt_idx, nb>>
        /\ UNCHANGED <<hash_field, slot_field>>
        /\ UNCHANGED stack

(* remove: elm is in the slot its two fields name, or it is not in the     *)
(* table.                                                                  *)
SlotRemove(n) ==
    LET b == hash_field[n] \cap Mask
        s == slot_field[n]
    IN  /\ Idle
        /\ \/ /\ s \in Slot
              /\ bkt_idx[b][s] = n
              /\ RemoveAt(b, s)
              /\ Answer("remove", n, n)
           \/ /\ s \in Slot => bkt_idx[b][s] # n
              /\ Answer("remove", n, NIL)
              /\ UNCHANGED <<bkt_hash, bkt_idx, nb>>
        /\ UNCHANGED <<hash_field, slot_field>>
        /\ UNCHANGED stack

(* The steps of kickout that move no element. *)
SlotKick ==
    \/ SlotKickFlip
    \/ SlotKickUnwind
    \/ SlotInsertAfterKickout
    \/ /\ \/ KickTooDeep \/ KickScan \/ KickSkip \/ KickDescend
          \/ KickExhausted \/ KickNext \/ KickRecheck
          \/ InsertTryBk1 \/ InsertFull
       /\ UNCHANGED slot_field

(* remove_at is that of the fingerprint variant. *)
SlotRemoveAtCall(b, s) == RemoveAtCall(b, s) /\ UNCHANGED slot_field

SlotNext == \/ \E n \in Nodes : SlotInsert(n) \/ SlotRemove(n)
            \/ \E b \in Bucket, s \in Slot : SlotRemoveAtCall(b, s)
            \/ SlotKick

SlotSpec == SlotInit /\ [][SlotNext]_svars

-----------------------------------------------------------------------------
SlotTypeOK == TypeOK /\ slot_field \in [Nodes -> Slot]

(* "buckets[current_bucket].idx[node->slot_field] == node_idx": a linked   *)
(* element's two fields lead to its slot, after every write of a kickout.  *)
SlotFieldTracksSlot ==
    \A b \in Bucket, s \in Slot :
        bkt_idx[b][s] # NIL =>
            /\ hash_field[bkt_idx[b][s]] \cap Mask = b
            /\ slot_field[bkt_idx[b][s]] = s

(* Removing through slot_field, never searching the bucket, is what the    *)
(* fingerprint variant's search would have done: the slot variant          *)
(* implements the fingerprint variant.                                     *)
RefinesFp == Spec
=============================================================================
