----------------------------- MODULE RixCuckoo -----------------------------
(***************************************************************************)
(* What one call does to the buckets of a cuckoo table, as a user of the   *)
(* table sees it: the index array alone, and a whole insert at once.       *)
(*                                                                         *)
(* A table t maps a bucket and a slot to an element or NIL; key maps the   *)
(* elements to their keys.  That hash[] and hash_field agree with t, and   *)
(* that remove finds every linked element through its fields, is what      *)
(* RixHashFp and RixHashSlot establish; RixTable puts these operators into *)
(* a specification that RixHashFp implements.                              *)
(***************************************************************************)
EXTENDS RixHashCommon

EmptyTable == [b \in Bucket |-> [s \in Slot |-> NIL]]

LinkedIn(t) == {t[b][s] : b \in Bucket, s \in Slot} \ {NIL}

(* No element sits in two slots. *)
OneSlot(t) == \A b, c \in Bucket : \A s, r \in Slot :
                 t[b][s] = t[c][r] /\ t[b][s] # NIL => b = c /\ s = r

Room(t, b) == {s \in Slot : t[b][s] = NIL}

Cands(k) == {Bk0(k), Bk1(k)}

Put(t, b, s, n) == [t EXCEPT ![b][s] = n]

(* remove *)
Without(t, n) == [b \in Bucket |-> [s \in Slot |->
                     IF t[b][s] = n THEN NIL ELSE t[b][s]]]

(* What kickout may make of t: the same elements, each in one slot of one  *)
(* of its key's two buckets.                                               *)
Rearranged(t, key) ==
    LET L == LinkedIn(t)
        Places == {p \in [L -> Bucket \X Slot] :
                     /\ \A n \in L : p[n][1] \in Cands(key[n])
                     /\ \A m, n \in L : p[m] = p[n] => m = n}
    IN  {[b \in Bucket |-> [s \in Slot |->
             IF \E n \in L : p[n] = <<b, s>>
               THEN CHOOSE n \in L : p[n] = <<b, s>> ELSE NIL]] : p \in Places}

BothFull(t, k) == \A b \in Cands(k) : Room(t, b) = {}

(* The tables insert may leave when it links n: the lowest empty slot of   *)
(* the first bucket that has one, or the outcome of a kickout.             *)
InsertedIn(t, key, n) ==
    LET k == key[n]
    IN  IF Room(t, Bk0(k)) # {} THEN {Put(t, Bk0(k), LowestSlot(Room(t, Bk0(k))), n)}
        ELSE IF Room(t, Bk1(k)) # {} THEN {Put(t, Bk1(k), LowestSlot(Room(t, Bk1(k))), n)}
        ELSE UNION {{Put(u, b, s, n) : s \in Room(u, b)} :
                       u \in Rearranged(t, key), b \in Cands(k)}
=============================================================================
