----------------------------- MODULE RixHashFp -----------------------------
(***************************************************************************)
(* The fingerprint variant of the cuckoo hash table                        *)
(* (include/rix/rix_hash_fp.h): insert, remove and find over buckets of    *)
(* EntrySz slots, where a slot holds a fingerprint and an element index    *)
(* and an element holds hash_field, the hash of the bucket it sits in.     *)
(*                                                                         *)
(* insert's slow path, the recursive kickout, is a machine with an         *)
(* explicit call stack: frame[d] is the activation whose depth argument    *)
(* is d, and every action below is one step of one activation.  Each write *)
(* to the table is thus a separate state, and no RECURSIVE operator is     *)
(* needed.                                                                 *)
(***************************************************************************)
EXTENDS RixHashCommon

CONSTANTS
    KeyOf,      (* KeyOf[n]: the key_field of element n.                    *)
    FollowDepth (* RIX_HASH_FOLLOW_DEPTH.                                   *)

ASSUME KeyAssumption == KeyOf \in [Nodes -> Keys]
ASSUME DepthAssumption == FollowDepth \in Nat \ {0}

VARIABLES
    bkt_hash,   (* bkt_hash[b][s]: bucket b's hash[s], {} when empty.       *)
    bkt_idx,    (* bkt_idx[b][s]: bucket b's idx[s].                        *)
    hash_field, (* hash_field[n]: element n's hash_field.                   *)
    nb,         (* head->rhh_nb.                                            *)
    elm,        (* The element whose insert is on the slow path, or NIL.    *)
    side,       (* Which candidate bucket kickout was called on: 0 or 1.    *)
    phase,      (* What the active kickout activation does next.            *)
    depth,      (* The depth argument of the active activation.             *)
    frame,      (* The activations, by depth argument.                      *)
    pos,        (* The value the active activation returns, -1 for failure. *)
    ret         (* The last call and what it returned, or the one begun.    *)

table == <<bkt_hash, bkt_idx, hash_field, nb>>
stack == <<elm, side, phase, depth, frame, pos>>
vars  == <<bkt_hash, bkt_idx, hash_field, nb,
           elm, side, phase, depth, frame, pos, ret>>

-----------------------------------------------------------------------------
(* Reading the table. *)

Linked(n) == \E b \in Bucket, s \in Slot : bkt_idx[b][s] = n

Empties(b) == {s \in Slot : bkt_hash[b][s] = {}}

(* Slots of b whose fingerprint and then whose key match k. *)
Hits(b, k) == {s \in Slot : /\ bkt_hash[b][s] = Fp(k)
                            /\ bkt_idx[b][s] # NIL
                            /\ KeyOf[bkt_idx[b][s]] = k}

(* find(key): the first candidate bucket, then the second. *)
Find(k) ==
    IF Hits(Bk0(k), k) # {} THEN bkt_idx[Bk0(k)][LowestSlot(Hits(Bk0(k), k))]
    ELSE IF Hits(Bk1(k), k) # {} THEN bkt_idx[Bk1(k)][LowestSlot(Hits(Bk1(k), k))]
    ELSE NIL

(* The other candidate bucket of the element in slot s of b, from the      *)
(* fingerprint and the element's hash_field, without hashing its key.      *)
AltOf(b, s) == Xor(bkt_hash[b][s], hash_field[bkt_idx[b][s]]) \cap Mask

(* flipflop succeeds when the slot is occupied and the alternate bucket    *)
(* has room.                                                               *)
CanFlip(b, s) == bkt_idx[b][s] # NIL /\ Empties(AltOf(b, s)) # {}

(* Mutant of Flip: the alternate slot gets the element's new hash in place *)
(* of its fingerprint.                                                     *)
FlipStoresHash(b, s) ==
    LET n == bkt_idx[b][s]
        a == AltOf(b, s)
        e == LowestSlot(Empties(a))
        h == Xor(bkt_hash[b][s], hash_field[n])
    IN  /\ bkt_hash' = [bkt_hash EXCEPT ![a][e] = h, ![b][s] = {}]
        /\ bkt_idx'  = [bkt_idx EXCEPT ![a][e] = n, ![b][s] = NIL]
        /\ hash_field' = [hash_field EXCEPT ![n] = h]

(* flipflop: move the element of slot s of b to its alternate bucket.      *)
Flip(b, s) ==
    LET n == bkt_idx[b][s]
        a == AltOf(b, s)
        e == LowestSlot(Empties(a))
    IN  /\ bkt_hash' = [bkt_hash EXCEPT ![a][e] = bkt_hash[b][s], ![b][s] = {}]
        /\ bkt_idx'  = [bkt_idx EXCEPT ![a][e] = n, ![b][s] = NIL]
        /\ hash_field' = [hash_field EXCEPT ![n] = Xor(bkt_hash[b][s], @)]

-----------------------------------------------------------------------------
(* The kickout machine's stack. *)

Phase == {"idle", "enter", "scan", "return"}

(* bk: the bucket to free a slot in; s: the slot pass 2 is at; fp and idx: *)
(* what that slot held before the recursive call.                          *)
Frame == [bk : Bucket, s : 0 .. EntrySz, fp : Hash, idx : NodeOrNil]

(* A frame that is not in use. *)
NoFrame == [bk |-> {}, s |-> 0, fp |-> {}, idx |-> NIL]

StackInit ==
    /\ elm = NIL
    /\ side = 0
    /\ phase = "idle"
    /\ depth = FollowDepth
    /\ frame = [d \in 0 .. FollowDepth |-> NoFrame]
    /\ pos = -1

top == frame[depth]

(* Start an activation of kickout on bucket b at depth d; f is the frame   *)
(* array with the caller's frame brought up to date.                       *)
Call(f, d, b) ==
    /\ frame' = [f EXCEPT ![d] = [NoFrame EXCEPT !.bk = b]]
    /\ depth' = d
    /\ phase' = "enter"
    /\ pos' = -1

(* The active activation returns p to its caller. *)
Return(p) ==
    /\ phase' = "return"
    /\ pos' = p
    /\ UNCHANGED <<depth, frame>>

-----------------------------------------------------------------------------
(* insert(elm) *)

Idle == phase = "idle"

Result == [op : {"none", "begun", "insert", "remove"},
           elm : NodeOrNil, out : NodeOrNil]

(* op on element n returns r. *)
Answer(op, n, r) == ret' = [op |-> op, elm |-> n, out |-> r]

(* Mutant: a duplicate is counted. *)
InsertDuplicateCounts(n) ==
    /\ Idle
    /\ Find(KeyOf[n]) # NIL
    /\ hash_field' = [hash_field EXCEPT ![n] = Hash0[KeyOf[n]]]
    /\ Answer("insert", n, Find(KeyOf[n]))
    /\ nb' = nb + 1
    /\ UNCHANGED <<bkt_hash, bkt_idx>>
    /\ UNCHANGED stack

(* A node with elm's key is linked: it is returned, but elm's hash_field   *)
(* has been overwritten before the scan.                                   *)
InsertDuplicate(n) ==
    /\ Idle
    /\ Find(KeyOf[n]) # NIL
    /\ hash_field' = [hash_field EXCEPT ![n] = Hash0[KeyOf[n]]]
    /\ Answer("insert", n, Find(KeyOf[n]))
    /\ UNCHANGED <<bkt_hash, bkt_idx, nb>>
    /\ UNCHANGED stack

(* Write elm n into slot s of its first (i = 0) or second bucket.          *)
Place(n, i, s) ==
    LET k == KeyOf[n]
        h == IF i = 0 THEN Hash0[k] ELSE Hash1[k]
        b == h \cap Mask
    IN  /\ bkt_hash' = [bkt_hash EXCEPT ![b][s] = Fp(k)]
        /\ bkt_idx' = [bkt_idx EXCEPT ![b][s] = n]
        /\ hash_field' = [hash_field EXCEPT ![n] = h]
        /\ nb' = nb + 1
        /\ Answer("insert", n, NIL)

(* Fast path: the lowest empty slot of bk0, or of bk1 when bk0 is full.    *)
InsertFast(n) ==
    /\ Idle
    /\ Find(KeyOf[n]) = NIL
    /\ \/ /\ Empties(Bk0(KeyOf[n])) # {}
          /\ Place(n, 0, LowestSlot(Empties(Bk0(KeyOf[n]))))
       \/ /\ Empties(Bk0(KeyOf[n])) = {}
          /\ Empties(Bk1(KeyOf[n])) # {}
          /\ Place(n, 1, LowestSlot(Empties(Bk1(KeyOf[n]))))
    /\ UNCHANGED stack

(* Slow path: both buckets are full, kickout starts on bk0.                *)
InsertSlow(n) ==
    /\ Idle
    /\ Find(KeyOf[n]) = NIL
    /\ Empties(Bk0(KeyOf[n])) = {}
    /\ Empties(Bk1(KeyOf[n])) = {}
    /\ hash_field' = [hash_field EXCEPT ![n] = Hash0[KeyOf[n]]]
    /\ elm' = n
    /\ side' = 0
    /\ Call(frame, FollowDepth, Bk0(KeyOf[n]))
    /\ Answer("begun", n, NIL)
    /\ UNCHANGED <<bkt_hash, bkt_idx, nb>>

StackReset ==
    /\ elm' = NIL
    /\ side' = 0
    /\ phase' = "idle"
    /\ depth' = FollowDepth
    /\ frame' = [d \in 0 .. FollowDepth |-> NoFrame]
    /\ pos' = -1

AtRoot == phase = "return" /\ depth = FollowDepth

(* kickout freed slot pos of the bucket it was called on: elm goes there.  *)
InsertAfterKickout ==
    /\ AtRoot
    /\ pos >= 0
    /\ Place(elm, side, pos)
    /\ StackReset

(* kickout failed on bk0: try bk1. *)
InsertTryBk1 ==
    /\ AtRoot
    /\ pos = -1
    /\ side = 0
    /\ side' = 1
    /\ Call(frame, FollowDepth, Bk1(KeyOf[elm]))
    /\ UNCHANGED <<elm, ret>>
    /\ UNCHANGED table

(* Mutant: a full table is reported as success. *)
InsertFullSilent ==
    /\ AtRoot
    /\ pos = -1
    /\ side = 1
    /\ Answer("insert", elm, NIL)
    /\ StackReset
    /\ UNCHANGED table

(* kickout failed on both buckets: the table is full for this key.         *)
InsertFull ==
    /\ AtRoot
    /\ pos = -1
    /\ side = 1
    /\ Answer("insert", elm, elm)
    /\ StackReset
    /\ UNCHANGED table

-----------------------------------------------------------------------------
(* kickout(bucket, depth) *)

(* depth <= 0: fail at once. *)
KickTooDeep ==
    /\ phase = "enter"
    /\ depth = 0
    /\ Return(-1)
    /\ UNCHANGED <<elm, side, ret>>
    /\ UNCHANGED table

(* Pass 1: the first slot whose element can move to its other bucket.      *)
KickFlip ==
    LET b == top.bk
        movable == {s \in Slot : CanFlip(b, s)}
    IN  /\ phase = "enter"
        /\ depth > 0
        /\ movable # {}
        /\ Flip(b, LowestSlot(movable))
        /\ Return(LowestSlot(movable))
        /\ UNCHANGED <<elm, side, ret, nb>>

(* Pass 1 moved nothing: pass 2 begins at slot 0.                          *)
KickScan ==
    /\ phase = "enter"
    /\ depth > 0
    /\ \A s \in Slot : ~CanFlip(top.bk, s)
    /\ phase' = "scan"
    /\ UNCHANGED <<elm, side, depth, frame, pos, ret>>
    /\ UNCHANGED table

(* Pass 2 skips an empty slot. *)
KickSkip ==
    /\ phase = "scan"
    /\ top.s < EntrySz
    /\ bkt_idx[top.bk][top.s] = NIL
    /\ frame' = [frame EXCEPT ![depth].s = @ + 1]
    /\ UNCHANGED <<elm, side, phase, depth, pos, ret>>
    /\ UNCHANGED table

(* Pass 2 makes room in the other bucket of the element at slot s.         *)
KickDescend ==
    LET b == top.bk
        s == top.s
    IN  /\ phase = "scan"
        /\ s < EntrySz
        /\ bkt_idx[b][s] # NIL
        /\ Call([frame EXCEPT ![depth].fp = bkt_hash[b][s],
                              ![depth].idx = bkt_idx[b][s]],
                depth - 1, AltOf(b, s))
        /\ UNCHANGED <<elm, side, ret>>
        /\ UNCHANGED table

(* Pass 2 ran out of slots. *)
KickExhausted ==
    /\ phase = "scan"
    /\ top.s = EntrySz
    /\ Return(-1)
    /\ UNCHANGED <<elm, side, ret>>
    /\ UNCHANGED table

(* The frame a return goes back to. *)
Caller == frame[depth + 1]

(* The caller's slot still holds the element it was going to move.         *)
Unmoved(f) == /\ bkt_hash[f.bk][f.s] = f.fp
              /\ bkt_idx[f.bk][f.s] = f.idx

Popped == [frame EXCEPT ![depth] = NoFrame]

(* Mutant: the scan stays at its slot. *)
NextSlotStays ==
    /\ frame' = Popped
    /\ depth' = depth + 1
    /\ phase' = "scan"
    /\ pos' = -1

(* Back in the caller, which goes on with its next slot. *)
NextSlot ==
    /\ frame' = [Popped EXCEPT ![depth + 1].s = @ + 1]
    /\ depth' = depth + 1
    /\ phase' = "scan"
    /\ pos' = -1

(* Back in the caller, which itself returns p. *)
ReturnOn(p) ==
    /\ frame' = Popped
    /\ depth' = depth + 1
    /\ phase' = "return"
    /\ pos' = p

Returning == phase = "return" /\ depth < FollowDepth

(* The recursive call failed. *)
KickNext ==
    /\ Returning
    /\ pos = -1
    /\ NextSlot
    /\ UNCHANGED <<elm, side, ret>>
    /\ UNCHANGED table

(* Mutant: the room that was made is not used. *)
KickUnwindStays ==
    /\ Returning
    /\ pos >= 0
    /\ Unmoved(Caller)
    /\ ReturnOn(Caller.s)
    /\ UNCHANGED <<elm, side, ret>>
    /\ UNCHANGED table

(* Mutant: the slot that the call below freed, in the other bucket, is     *)
(* returned for this one.                                                  *)
KickUnwindPassesPos ==
    /\ Returning
    /\ pos >= 0
    /\ Unmoved(Caller)
    /\ IF CanFlip(Caller.bk, Caller.s)
         THEN Flip(Caller.bk, Caller.s)
         ELSE UNCHANGED <<bkt_hash, bkt_idx, hash_field>>
    /\ ReturnOn(pos)
    /\ UNCHANGED <<elm, side, ret, nb>>

(* It succeeded and the element has not moved: flipflop it into the room   *)
(* that was made.  The result of flipflop is not looked at.                *)
KickUnwind ==
    /\ Returning
    /\ pos >= 0
    /\ Unmoved(Caller)
    /\ IF CanFlip(Caller.bk, Caller.s)
         THEN Flip(Caller.bk, Caller.s)
         ELSE UNCHANGED <<bkt_hash, bkt_idx, hash_field>>
    /\ ReturnOn(Caller.s)
    /\ UNCHANGED <<elm, side, ret, nb>>

(* Mutant: the slot the moved element left is taken for free. *)
KickRecheckAssumes ==
    /\ Returning
    /\ pos >= 0
    /\ ~Unmoved(Caller)
    /\ ReturnOn(Caller.s)
    /\ UNCHANGED <<elm, side, ret>>
    /\ UNCHANGED table

(* It succeeded but moved the caller's own element on the way: any slot    *)
(* now empty will do, and without one the scan goes on.                    *)
KickRecheck ==
    /\ Returning
    /\ pos >= 0
    /\ ~Unmoved(Caller)
    /\ \/ /\ Empties(Caller.bk) # {}
          /\ ReturnOn(LowestSlot(Empties(Caller.bk)))
       \/ /\ Empties(Caller.bk) = {}
          /\ NextSlot
    /\ UNCHANGED <<elm, side, ret>>
    /\ UNCHANGED table

-----------------------------------------------------------------------------
(* remove(elm): elm is looked for only in the bucket its hash_field names; *)
(* remove_at clears the slot.                                              *)

(* Mutants: the fingerprint is left behind; the count is not lowered.      *)
RemoveAtKeepsHash(b, s) ==
    /\ bkt_idx' = [bkt_idx EXCEPT ![b][s] = NIL]
    /\ nb' = nb - 1
    /\ UNCHANGED bkt_hash

RemoveAtKeepsCount(b, s) ==
    /\ bkt_hash' = [bkt_hash EXCEPT ![b][s] = {}]
    /\ bkt_idx' = [bkt_idx EXCEPT ![b][s] = NIL]
    /\ UNCHANGED nb

RemoveAt(b, s) ==
    /\ bkt_hash' = [bkt_hash EXCEPT ![b][s] = {}]
    /\ bkt_idx' = [bkt_idx EXCEPT ![b][s] = NIL]
    /\ nb' = nb - 1

Remove(n) ==
    LET b == hash_field[n] \cap Mask
        at == {s \in Slot : bkt_idx[b][s] = n}
    IN  /\ Idle
        /\ \/ /\ at # {}
              /\ RemoveAt(b, LowestSlot(at))
              /\ Answer("remove", n, n)
           \/ /\ at = {}
              /\ Answer("remove", n, NIL)
              /\ UNCHANGED <<bkt_hash, bkt_idx, nb>>
        /\ UNCHANGED hash_field
        /\ UNCHANGED stack

(* remove_at(bk, slot), called on its own. *)
RemoveAtCall(b, s) ==
    /\ Idle
    /\ \/ /\ bkt_idx[b][s] # NIL
          /\ RemoveAt(b, s)
          /\ Answer("remove", bkt_idx[b][s], bkt_idx[b][s])
       \/ /\ bkt_idx[b][s] = NIL
          /\ UNCHANGED <<bkt_hash, bkt_idx, nb, ret>>
    /\ UNCHANGED hash_field
    /\ UNCHANGED stack

-----------------------------------------------------------------------------
(* init with zeroed buckets and elements.                                  *)
Init ==
    /\ bkt_hash = [b \in Bucket |-> [s \in Slot |-> {}]]
    /\ bkt_idx = [b \in Bucket |-> [s \in Slot |-> NIL]]
    /\ hash_field = [n \in Nodes |-> {}]
    /\ nb = 0
    /\ ret = [op |-> "none", elm |-> NIL, out |-> NIL]
    /\ StackInit

Kick == \/ KickTooDeep \/ KickFlip \/ KickScan \/ KickSkip \/ KickDescend
        \/ KickExhausted \/ KickNext \/ KickUnwind \/ KickRecheck
        \/ InsertAfterKickout \/ InsertTryBk1 \/ InsertFull

(* insert of an element that is not in the table. *)
Insert(n) ==
    /\ ~Linked(n)
    /\ InsertDuplicate(n) \/ InsertFast(n) \/ InsertSlow(n)

Next == \/ \E n \in Nodes : Insert(n) \/ Remove(n)
        \/ \E b \in Bucket, s \in Slot : RemoveAtCall(b, s)
        \/ Kick

Spec == Init /\ [][Next]_vars

(* An operation that has begun runs on: the code has no blocking point.    *)
FairSpec == Spec /\ WF_vars(Kick)

(* The same table when callers may also insert an element that already is  *)
(* in it, as the duplicate-insert tests do.                                *)
RelinkNext == Next \/ \E n \in Nodes : Linked(n) /\ InsertDuplicate(n)

-----------------------------------------------------------------------------
(* Properties. *)

TypeOK ==
    /\ bkt_hash \in [Bucket -> [Slot -> Hash]]
    /\ bkt_idx \in [Bucket -> [Slot -> NodeOrNil]]
    /\ hash_field \in [Nodes -> Hash]
    /\ nb \in Int
    /\ elm \in NodeOrNil
    /\ side \in {0, 1}
    /\ phase \in Phase
    /\ depth \in 0 .. FollowDepth
    /\ frame \in [0 .. FollowDepth -> Frame]
    /\ pos \in -1 .. EntrySz - 1
    /\ ret \in Result

LinkedNodes == {n \in Nodes : Linked(n)}

(* "node->hash_field always holds the hash that corresponds to the bucket  *)
(* where the node currently resides": after every single write of insert,  *)
(* kickout and remove, a linked element's hash_field leads to its bucket.  *)
HashFieldTracksBucket ==
    \A b \in Bucket, s \in Slot :
        bkt_idx[b][s] # NIL => hash_field[bkt_idx[b][s]] \cap Mask = b

(* Every linked element is the one find returns for its key, at every      *)
(* point of every kickout: it sits in one of its key's two buckets under   *)
(* its key's fingerprint, and no second element with that key is linked.   *)
EveryLinkedIsFound == \A n \in Nodes : Linked(n) => Find(KeyOf[n]) = n

(* No element sits in two slots. *)
LinkedOnce ==
    \A b, c \in Bucket : \A s, t \in Slot :
        bkt_idx[b][s] = bkt_idx[c][t] /\ bkt_idx[b][s] # NIL => b = c /\ s = t

(* A slot is empty by its fingerprint exactly when it is empty by its      *)
(* index: insert finds room by hash = 0, kickout and walk by idx = NIL.    *)
EmptyBothWays ==
    \A b \in Bucket, s \in Slot : bkt_hash[b][s] = {} <=> bkt_idx[b][s] = NIL

(* rhh_nb is the number of occupied slots. *)
CountExact ==
    nb = Cardinality({p \in Bucket \X Slot : bkt_idx[p[1]][p[2]] # NIL})

(* A kickout moves elements and never drops one: each of its steps keeps   *)
(* the linked elements, and the last may add the one being inserted, which *)
(* therefore lands in a slot that really is free.                          *)
KickoutKeepsElements ==
    [][phase # "idle" =>
         \/ LinkedNodes' = LinkedNodes
         \/ LinkedNodes' = LinkedNodes \cup {elm}]_vars

(* The slot a kickout reports as freed is empty when its caller uses it:   *)
(* the parent's "flipflop (guaranteed to succeed)" does succeed, although  *)
(* its result is ignored.                                                  *)
FreedSlotIsEmpty ==
    phase = "return" /\ pos >= 0 => bkt_hash[top.bk][pos] = {}

(* The table is a finite map from keys to elements, the one find shows:    *)
(* kickouts are invisible to find, a failed insert changes nothing find    *)
(* can see, insert reports a duplicate exactly when find would have found  *)
(* one, and remove returns the element exactly when it was linked.         *)
Found == {k \in Keys : Find(k) # NIL}

AsMap == INSTANCE RixMap WITH map <- [k \in Found |-> Find(k)]

RefinesMap == AsMap!Spec

(* An insert that starts a kickout ends. *)
KickoutEnds == phase # "idle" ~> phase = "idle"

-----------------------------------------------------------------------------
(* The inductive invariant behind these properties. *)

(* b and c are the two candidate buckets of key k. *)
Opposite(k, b, c) == \/ b = Bk0(k) /\ c = Bk1(k)
                     \/ b = Bk1(k) /\ c = Bk0(k)

(* A slot is empty in both arrays, or holds its element's fingerprint, in  *)
(* the bucket of the one of its key's two hashes kept in hash_field.       *)
SlotOK(b, s) ==
    LET n == bkt_idx[b][s]
    IN  \/ n = NIL /\ bkt_hash[b][s] = {}
        \/ /\ n # NIL
           /\ bkt_hash[b][s] = Fp(KeyOf[n])
           /\ hash_field[n] \in {Hash0[KeyOf[n]], Hash1[KeyOf[n]]}
           /\ hash_field[n] \cap Mask = b

TableInv == \A b \in Bucket, s \in Slot : SlotOK(b, s)

(* No two slots hold the same key, and so none the same element.           *)
KeyOnce ==
    \A b, c \in Bucket : \A s, t \in Slot :
        /\ bkt_idx[b][s] # NIL
        /\ bkt_idx[c][t] # NIL
        /\ KeyOf[bkt_idx[b][s]] = KeyOf[bkt_idx[c][t]]
        => b = c /\ s = t

(* The key being inserted is not in the table. *)
NewKey ==
    elm # NIL => \A b \in Bucket, s \in Slot :
        bkt_idx[b][s] # NIL => KeyOf[bkt_idx[b][s]] # KeyOf[elm]

(* The activations form a chain: the one waiting at depth d wants to move  *)
(* the element it saved to the bucket the one below is freeing.            *)
StackInv ==
    /\ elm = NIL <=> phase = "idle"
    /\ phase = "idle" => depth = FollowDepth
    /\ phase = "scan" => depth > 0
    /\ elm # NIL => frame[FollowDepth].bk =
                       IF side = 0 THEN Bk0(KeyOf[elm]) ELSE Bk1(KeyOf[elm])
    /\ \A d \in 1 .. FollowDepth :
         d > depth =>
           /\ frame[d].s < EntrySz
           /\ frame[d].idx # NIL
           /\ frame[d].fp = Fp(KeyOf[frame[d].idx])
           /\ Opposite(KeyOf[frame[d].idx], frame[d].bk, frame[d - 1].bk)

Inv == TypeOK /\ TableInv /\ KeyOnce /\ NewKey /\ StackInv /\ FreedSlotIsEmpty
=============================================================================
