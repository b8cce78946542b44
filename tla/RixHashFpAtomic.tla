-------------------------- MODULE RixHashFpAtomic ---------------------------
(***************************************************************************)
(* RixHashFp seen from outside: an insert that kicks elements about as one *)
(* step of RixTable.  before is a history variable: the buckets as they    *)
(* were when the insert in progress began its first kickout.               *)
(***************************************************************************)
EXTENDS RixHashFp

VARIABLE before

Record == before' = IF elm' = NIL THEN <<>>
                    ELSE IF elm = NIL THEN <<bkt_hash, bkt_idx, nb>>
                    ELSE before

AtomicInit == Init /\ before = <<>>
atomicVars == <<vars, before>>

AtomicSpec == AtomicInit /\ [][Next /\ Record]_atomicVars

(* The table as the last call left it. *)
Committed == IF elm = NIL THEN bkt_idx ELSE before[2]

(* Seen from its beginning and its end an insert is one step of the        *)
(* abstract table, which rearranges linked elements among their candidate  *)
(* buckets only when both buckets of the new key are full, and which only  *)
(* then may refuse the element, with nothing changed ("On failure, table   *)
(* is untouched").                                                         *)
AsTable == INSTANCE RixTable WITH tbl <- Committed

RefinesTable == AsTable!Spec

-----------------------------------------------------------------------------
(* Why a failed insert leaves the table alone at the code's depth: until   *)
(* the first element moves nothing has changed and no waiting activation   *)
(* could move any; from then on the waiting activations move different     *)
(* slots, each of which still holds what was saved.                        *)
Still == ~(phase = "return" /\ pos >= 0)

Stuck(b) == \A s \in Slot : ~CanFlip(b, s)

Waiting == {d \in 1 .. FollowDepth : d > depth}

Scanned == Waiting \cup {d \in 1 .. FollowDepth : d = depth /\ phase = "scan"}

PathInv ==
    /\ Still => \A d \in Scanned : Stuck(frame[d].bk)
    /\ \A d \in Waiting : Unmoved(frame[d])
    /\ ~Still => \A d, e \in Waiting :
         frame[d].bk = frame[e].bk /\ frame[d].s = frame[e].s => d = e

(* What before keeps: a table with the same elements, which had no room in *)
(* the buckets of the key being inserted.                                  *)
BeforeInv ==
    IF elm = NIL THEN before = <<>>
    ELSE /\ Committed \in [Bucket -> [Slot -> NodeOrNil]]
         /\ \A n \in Nodes : Linked(n) <=> \E b \in Bucket, s \in Slot : Committed[b][s] = n
         /\ \A s \in Slot : /\ Committed[Bk0(KeyOf[elm])][s] # NIL
                            /\ Committed[Bk1(KeyOf[elm])][s] # NIL
         /\ Still => Committed = bkt_idx

(* The re-check for an occupant that moved while its caller waited.        *)
NeverRechecks == [][~KickRecheck]_vars
=============================================================================
