-------------------------- MODULE RixHashFp_proofs --------------------------
(***************************************************************************)
(* Theorems about RixHashFp, for every number of buckets, slots, elements, *)
(* keys, hash functions within the contract, and every kickout depth.      *)
(* Then what a caller of the table sees: RixHashFp implements the map of   *)
(* RixMap at every kickout depth, and the table of RixTable, whose inserts *)
(* are atomic, at the code's.  Last, the slot variant: it implements the   *)
(* fingerprint variant, so that all that holds of this holds of it too,    *)
(* and slot_field always leads to its element.                             *)
(***************************************************************************)
EXTENDS RixHashFpAtomic, RixHashSlot, RixCuckoo_proofs, FiniteSetTheorems

-----------------------------------------------------------------------------
(* Slots and hashes. *)

(* AltOf finds the other candidate bucket of a linked element, and         *)
(* flipflop's new hash_field the hash that belongs to it.                  *)
LEMMA AltIsOpposite ==
    ASSUME TypeOK, NEW b \in Bucket, NEW s \in Slot, SlotOK(b, s),
           bkt_idx[b][s] # NIL
    PROVE  LET n == bkt_idx[b][s]
               h == Xor(bkt_hash[b][s], hash_field[n])
           IN  /\ n \in Nodes
               /\ KeyOf[n] \in Keys
               /\ AltOf(b, s) \in Bucket
               /\ AltOf(b, s) # b
               /\ Opposite(KeyOf[n], b, AltOf(b, s))
               /\ h \in {Hash0[KeyOf[n]], Hash1[KeyOf[n]]}
               /\ h \cap Mask = AltOf(b, s)
<1> DEFINE n == bkt_idx[b][s]
           k == KeyOf[n]
           h == Xor(bkt_hash[b][s], hash_field[n])
<1>1. n \in Nodes /\ k \in Keys
  BY NilAssumption, KeyAssumption DEF TypeOK, NodeOrNil
<1>2. /\ bkt_hash[b][s] = Xor(Hash0[k], Hash1[k])
      /\ hash_field[n] \in {Hash0[k], Hash1[k]}
      /\ hash_field[n] \cap Mask = b
  BY DEF SlotOK, Fp
<1>3. h \cap Mask = AltOf(b, s)
  BY DEF AltOf
<1>4. AltOf(b, s) \in Bucket
  BY DEF AltOf, Bucket
<1>5. CASE hash_field[n] = Hash0[k]
  <2>1. h = Hash1[k]
    BY <1>2, <1>5, XorOther
  <2>2. b = Bk0(k) /\ AltOf(b, s) = Bk1(k)
    BY <1>2, <1>3, <1>5, <2>1 DEF Bk0, Bk1
  <2>3. QED
    BY <1>1, <1>3, <1>4, <2>1, <2>2, HashTypes DEF Opposite
<1>6. CASE hash_field[n] = Hash1[k]
  <2>1. h = Hash0[k]
    BY <1>2, <1>6, XorOther
  <2>2. b = Bk1(k) /\ AltOf(b, s) = Bk0(k)
    BY <1>2, <1>3, <1>6, <2>1 DEF Bk0, Bk1
  <2>3. QED
    BY <1>1, <1>3, <1>4, <2>1, <2>2, HashTypes DEF Opposite
<1>7. QED
  BY <1>2, <1>5, <1>6

(* What flipflop does to the table, slot by slot. *)
Moved(b, s, a, e) ==
    LET n == bkt_idx[b][s]
    IN  /\ a \in Bucket /\ e \in Slot /\ a # b
        /\ bkt_hash[a][e] = {}
        /\ Opposite(KeyOf[n], b, a)
        /\ bkt_idx' \in [Bucket -> [Slot -> NodeOrNil]]
        /\ bkt_hash' \in [Bucket -> [Slot -> Hash]]
        /\ hash_field' \in [Nodes -> Hash]
        /\ bkt_idx'[a][e] = n /\ bkt_hash'[a][e] = bkt_hash[b][s]
        /\ bkt_idx'[b][s] = NIL /\ bkt_hash'[b][s] = {}
        /\ \A c \in Bucket, t \in Slot :
              <<c, t>> \notin {<<a, e>>, <<b, s>>} =>
                 bkt_idx'[c][t] = bkt_idx[c][t] /\ bkt_hash'[c][t] = bkt_hash[c][t]
        /\ \A m \in Nodes \ {n} : hash_field'[m] = hash_field[m]
        /\ hash_field'[n] \in {Hash0[KeyOf[n]], Hash1[KeyOf[n]]}
        /\ hash_field'[n] \cap Mask = a

LEMMA FlipMoves ==
    ASSUME TypeOK, NEW b \in Bucket, NEW s \in Slot, SlotOK(b, s),
           CanFlip(b, s), Flip(b, s)
    PROVE  \E a \in Bucket, e \in Slot : Moved(b, s, a, e)
<1> DEFINE n == bkt_idx[b][s]
           a == AltOf(b, s)
           e == LowestSlot(Empties(a))
<1>1. /\ n \in Nodes /\ a \in Bucket /\ a # b
      /\ Opposite(KeyOf[n], b, a)
      /\ Xor(bkt_hash[b][s], hash_field[n]) \in {Hash0[KeyOf[n]], Hash1[KeyOf[n]]}
      /\ Xor(bkt_hash[b][s], hash_field[n]) \cap Mask = a
      /\ KeyOf[n] \in Keys
  BY AltIsOpposite DEF CanFlip
<1>2. e \in Slot /\ bkt_hash[a][e] = {}
  <2>1. Empties(a) \in SUBSET Slot /\ Empties(a) # {}
    BY DEF CanFlip, Empties
  <2>2. e \in Empties(a)
    BY <2>1, LowestSlotIn
  <2>3. QED
    BY <2>2 DEF Empties
<1>3. Xor(bkt_hash[b][s], hash_field[n]) \in Hash
  BY <1>1, HashTypes
<1>4. /\ bkt_hash' = [bkt_hash EXCEPT ![a][e] = bkt_hash[b][s], ![b][s] = {}]
      /\ bkt_idx'  = [bkt_idx EXCEPT ![a][e] = n, ![b][s] = NIL]
      /\ hash_field' = [hash_field EXCEPT ![n] = Xor(bkt_hash[b][s], @)]
  BY DEF Flip
<1> HIDE DEF a, e
<1>5. /\ bkt_hash' \in [Bucket -> [Slot -> Hash]]
      /\ bkt_hash'[a][e] = bkt_hash[b][s] /\ bkt_hash'[b][s] = {}
      /\ \A c \in Bucket, t \in Slot :
            <<c, t>> \notin {<<a, e>>, <<b, s>>} => bkt_hash'[c][t] = bkt_hash[c][t]
  <2>1. {} \in Hash /\ bkt_hash[b][s] \in Hash
    BY DEF TypeOK, Hash
  <2>2. QED
    BY <1>1, <1>2, <1>4, <2>1 DEF TypeOK
<1>6. /\ bkt_idx' \in [Bucket -> [Slot -> NodeOrNil]]
      /\ bkt_idx'[a][e] = n /\ bkt_idx'[b][s] = NIL
      /\ \A c \in Bucket, t \in Slot :
            <<c, t>> \notin {<<a, e>>, <<b, s>>} => bkt_idx'[c][t] = bkt_idx[c][t]
  BY <1>1, <1>2, <1>4 DEF TypeOK, NodeOrNil
<1>7. /\ hash_field' \in [Nodes -> Hash]
      /\ hash_field'[n] = Xor(bkt_hash[b][s], hash_field[n])
      /\ \A m \in Nodes \ {n} : hash_field'[m] = hash_field[m]
  BY <1>1, <1>3, <1>4 DEF TypeOK
<1>8. Moved(b, s, a, e)
  BY <1>1, <1>2, <1>5, <1>6, <1>7 DEF Moved
<1>9. QED
  BY <1>1, <1>2, <1>8

(* Every element linked after a step was linked before it. *)
NoneAppears ==
    \A c \in Bucket, t \in Slot : bkt_idx'[c][t] # NIL =>
        \E d \in Bucket, u \in Slot : bkt_idx[d][u] = bkt_idx'[c][t]

(* flipflop keeps the table in order and the same elements in it.          *)
LEMMA FlipKeepsTable ==
    ASSUME TypeOK, TableInv, KeyOnce,
           NEW b \in Bucket, NEW s \in Slot, bkt_idx[b][s] # NIL,
           NEW a \in Bucket, NEW e \in Slot, Moved(b, s, a, e)
    PROVE  TableInv' /\ KeyOnce' /\ NoneAppears /\ LinkedNodes' = LinkedNodes
<1> DEFINE n == bkt_idx[b][s]
<1>1. /\ n \in Nodes /\ KeyOf[n] \in Keys
      /\ bkt_hash[b][s] = Fp(KeyOf[n])
  BY NilAssumption, KeyAssumption DEF TypeOK, NodeOrNil, TableInv, SlotOK
<1>2. bkt_idx[a][e] = NIL
  BY <1>1, HashTypes, NilAssumption, KeyAssumption DEF Moved, TableInv, SlotOK, TypeOK, NodeOrNil
<1>3. \A c \in Bucket, t \in Slot :
        <<c, t>> # <<b, s>> => bkt_idx[c][t] # n
  BY <1>1 DEF KeyOnce
<1>4. TableInv'
  <2>1. SUFFICES ASSUME NEW c \in Bucket, NEW t \in Slot
                 PROVE  SlotOK(c, t)'
    BY DEF TableInv
  <2>2. CASE c = a /\ t = e
    BY <1>1, <2>2 DEF Moved, SlotOK
  <2>3. CASE c = b /\ t = s
    BY <2>3 DEF Moved, SlotOK
  <2>4. CASE <<c, t>> \notin {<<a, e>>, <<b, s>>}
    <3>1. SlotOK(c, t)
      BY DEF TableInv
    <3>2. bkt_idx'[c][t] = bkt_idx[c][t] /\ bkt_hash'[c][t] = bkt_hash[c][t]
      BY <2>4 DEF Moved
    <3>3. bkt_idx[c][t] \in Nodes \ {n} \/ bkt_idx[c][t] = NIL
      BY <1>3, <2>4 DEF TypeOK, NodeOrNil
    <3>4. bkt_idx[c][t] # NIL =>
            hash_field'[bkt_idx[c][t]] = hash_field[bkt_idx[c][t]]
      BY <3>3 DEF Moved
    <3>5. QED
      BY <3>1, <3>2, <3>4 DEF SlotOK
  <2>5. QED
    BY <2>2, <2>3, <2>4
<1>5. NoneAppears
  BY DEF Moved, NoneAppears
<1>6. KeyOnce'
  <2>1. SUFFICES ASSUME NEW c \in Bucket, NEW d \in Bucket,
                        NEW t \in Slot, NEW u \in Slot,
                        bkt_idx'[c][t] # NIL, bkt_idx'[d][u] # NIL,
                        KeyOf[bkt_idx'[c][t]] = KeyOf[bkt_idx'[d][u]]
                 PROVE  c = d /\ t = u
    BY DEF KeyOnce
  <2>2. <<c, t>> # <<b, s>> /\ <<d, u>> # <<b, s>>
    BY <2>1 DEF Moved
  <2>3. bkt_idx'[a][e] = bkt_idx[b][s]
    BY DEF Moved
  <2>4. <<c, t>> # <<a, e>> => bkt_idx'[c][t] = bkt_idx[c][t]
    BY <2>2 DEF Moved
  <2>5. <<d, u>> # <<a, e>> => bkt_idx'[d][u] = bkt_idx[d][u]
    BY <2>2 DEF Moved
  <2>6. QED
    BY <2>1, <2>2, <2>3, <2>4, <2>5 DEF KeyOnce
<1>7. LinkedNodes' = LinkedNodes
  <2>1. ASSUME NEW m \in Nodes
        PROVE  Linked(m)' <=> Linked(m)
    <3>1. m # NIL
      BY NilAssumption, KeyAssumption
    <3>2. Linked(m)' => Linked(m)
      BY <1>5, <3>1 DEF NoneAppears, Linked
    <3>3. ASSUME NEW c \in Bucket, NEW t \in Slot, bkt_idx[c][t] = m
          PROVE  Linked(m)'
      <4>1. bkt_idx'[a][e] = n
        BY DEF Moved
      <4>2. CASE <<c, t>> = <<b, s>>
        BY <3>3, <4>1, <4>2 DEF Linked
      <4>3. CASE <<c, t>> # <<b, s>>
        <5>1. bkt_idx'[c][t] = bkt_idx[c][t]
          BY <1>2, <3>1, <3>3, <4>3 DEF Moved
        <5>2. QED
          BY <3>3, <5>1 DEF Linked
      <4>4. QED
        BY <4>2, <4>3
    <3>4. QED
      BY <3>2, <3>3 DEF Linked
  <2>2. QED
    BY <2>1 DEF LinkedNodes
<1>8. QED
  BY <1>4, <1>5, <1>6, <1>7

(* Placing an element whose key is new in an empty slot of one of its      *)
(* buckets.                                                                *)
LEMMA PlaceKeepsTable ==
    ASSUME TypeOK, TableInv, KeyOnce,
           NEW n \in Nodes, NEW i \in {0, 1}, NEW p \in Slot,
           \A c \in Bucket, t \in Slot :
               bkt_idx[c][t] # NIL => KeyOf[bkt_idx[c][t]] # KeyOf[n],
           bkt_hash[IF i = 0 THEN Bk0(KeyOf[n]) ELSE Bk1(KeyOf[n])][p] = {},
           Place(n, i, p)
    PROVE  /\ bkt_hash' \in [Bucket -> [Slot -> Hash]]
           /\ bkt_idx' \in [Bucket -> [Slot -> NodeOrNil]]
           /\ hash_field' \in [Nodes -> Hash]
           /\ TableInv' /\ KeyOnce'
           /\ LinkedNodes' = LinkedNodes \cup {n}
<1> DEFINE k == KeyOf[n]
           h == IF i = 0 THEN Hash0[k] ELSE Hash1[k]
           b == h \cap Mask
<1>1. /\ k \in Keys /\ h \in Hash /\ h \in {Hash0[k], Hash1[k]}
      /\ Fp(k) \in Hash /\ Fp(k) # {}
      /\ n # NIL /\ n \in NodeOrNil
  BY NilAssumption, KeyAssumption, HashTypes DEF NodeOrNil
<1>2. b \in Bucket /\ b = IF i = 0 THEN Bk0(k) ELSE Bk1(k)
  BY DEF Bk0, Bk1, Bucket
<1>3. /\ bkt_hash' = [bkt_hash EXCEPT ![b][p] = Fp(k)]
      /\ bkt_idx' = [bkt_idx EXCEPT ![b][p] = n]
      /\ hash_field' = [hash_field EXCEPT ![n] = h]
  BY DEF Place
<1> HIDE DEF b, h
<1>4. /\ bkt_hash' \in [Bucket -> [Slot -> Hash]]
      /\ bkt_hash'[b][p] = Fp(k)
      /\ \A c \in Bucket, t \in Slot :
            <<c, t>> # <<b, p>> => bkt_hash'[c][t] = bkt_hash[c][t]
  BY <1>1, <1>2, <1>3 DEF TypeOK
<1>5. /\ bkt_idx' \in [Bucket -> [Slot -> NodeOrNil]]
      /\ bkt_idx'[b][p] = n
      /\ \A c \in Bucket, t \in Slot :
            <<c, t>> # <<b, p>> => bkt_idx'[c][t] = bkt_idx[c][t]
  BY <1>1, <1>2, <1>3 DEF TypeOK
<1>6. /\ hash_field' \in [Nodes -> Hash]
      /\ hash_field'[n] = h
      /\ \A m \in Nodes \ {n} : hash_field'[m] = hash_field[m]
  BY <1>1, <1>3 DEF TypeOK
<1>7. bkt_idx[b][p] = NIL
  BY <1>2, HashTypes, NilAssumption, KeyAssumption DEF TableInv, SlotOK, TypeOK, NodeOrNil
<1>8. TableInv'
  <2>1. SUFFICES ASSUME NEW c \in Bucket, NEW t \in Slot
                 PROVE  SlotOK(c, t)'
    BY DEF TableInv
  <2>2. CASE c = b /\ t = p
    <3>1. h \cap Mask = b
      BY DEF b
    <3>2. QED
      BY <1>1, <1>4, <1>5, <1>6, <2>2, <3>1 DEF SlotOK
  <2>3. CASE <<c, t>> # <<b, p>>
    <3>1. SlotOK(c, t)
      BY DEF TableInv
    <3>2. bkt_idx[c][t] \in Nodes \ {n} \/ bkt_idx[c][t] = NIL
      BY <1>1 DEF TypeOK, NodeOrNil
    <3>3. QED
      BY <1>4, <1>5, <1>6, <2>3, <3>1, <3>2 DEF SlotOK
  <2>4. QED
    BY <2>2, <2>3
<1>9. KeyOnce'
  BY <1>5, <1>2 DEF KeyOnce
<1>10. LinkedNodes' = LinkedNodes \cup {n}
  <2>1. ASSUME NEW m \in Nodes
        PROVE  Linked(m)' <=> Linked(m) \/ m = n
    BY <1>2, <1>5, <1>7, NilAssumption, KeyAssumption DEF Linked
  <2>2. QED
    BY <2>1 DEF LinkedNodes
<1>11. QED
  BY <1>4, <1>5, <1>6, <1>8, <1>9, <1>10

(* Clearing an occupied slot, as remove_at does. *)
LEMMA RemoveKeepsTable ==
    ASSUME TypeOK, TableInv, KeyOnce,
           NEW b \in Bucket, NEW s \in Slot, bkt_idx[b][s] # NIL,
           RemoveAt(b, s), UNCHANGED hash_field
    PROVE  /\ bkt_hash' \in [Bucket -> [Slot -> Hash]]
           /\ bkt_idx' \in [Bucket -> [Slot -> NodeOrNil]]
           /\ TableInv' /\ KeyOnce'
           /\ bkt_idx'[b][s] = NIL
           /\ \A c \in Bucket, t \in Slot :
                 <<c, t>> # <<b, s>> => bkt_idx'[c][t] = bkt_idx[c][t]
<1>1. /\ bkt_hash' = [bkt_hash EXCEPT ![b][s] = {}]
      /\ bkt_idx' = [bkt_idx EXCEPT ![b][s] = NIL]
      /\ {} \in Hash
      /\ NIL \in NodeOrNil
  BY DEF RemoveAt, Hash, NodeOrNil
<1>2. /\ bkt_hash' \in [Bucket -> [Slot -> Hash]]
      /\ bkt_hash'[b][s] = {}
      /\ \A c \in Bucket, t \in Slot :
            <<c, t>> # <<b, s>> => bkt_hash'[c][t] = bkt_hash[c][t]
  BY <1>1 DEF TypeOK
<1>3. /\ bkt_idx' \in [Bucket -> [Slot -> NodeOrNil]]
      /\ bkt_idx'[b][s] = NIL
      /\ \A c \in Bucket, t \in Slot :
            <<c, t>> # <<b, s>> => bkt_idx'[c][t] = bkt_idx[c][t]
  BY <1>1 DEF TypeOK
<1>4. TableInv'
  <2>1. SUFFICES ASSUME NEW c \in Bucket, NEW t \in Slot
                 PROVE  SlotOK(c, t)'
    BY DEF TableInv
  <2>2. SlotOK(c, t)
    BY DEF TableInv
  <2>3. QED
    BY <1>2, <1>3, <2>2 DEF SlotOK
<1>5. KeyOnce'
  BY <1>3 DEF KeyOnce
<1>6. QED
  BY <1>2, <1>3, <1>4, <1>5

(* A step that does not write the table. *)
LEMMA SameTable ==
    ASSUME TableInv, KeyOnce, UNCHANGED table
    PROVE  TableInv' /\ KeyOnce'
BY DEF table, TableInv, SlotOK, KeyOnce

(* insert's early write of hash_field, on an element that is not linked.   *)
LEMMA FieldOfUnlinked ==
    ASSUME TypeOK, TableInv, KeyOnce, NEW n \in Nodes, ~Linked(n),
           hash_field' = [hash_field EXCEPT ![n] = Hash0[KeyOf[n]]],
           UNCHANGED <<bkt_hash, bkt_idx>>
    PROVE  hash_field' \in [Nodes -> Hash] /\ TableInv' /\ KeyOnce'
<1>1. hash_field' \in [Nodes -> Hash]
  BY HashTypes, NilAssumption, KeyAssumption DEF TypeOK
<1>2. ASSUME NEW m \in Nodes, m # n
      PROVE  hash_field'[m] = hash_field[m]
  BY <1>2 DEF TypeOK
<1>3. TableInv'
  <2>1. SUFFICES ASSUME NEW c \in Bucket, NEW t \in Slot
                 PROVE  SlotOK(c, t)'
    BY DEF TableInv
  <2>2. SlotOK(c, t)
    BY DEF TableInv
  <2>3. bkt_idx[c][t] \in Nodes \ {n} \/ bkt_idx[c][t] = NIL
    BY DEF Linked, TypeOK, NodeOrNil
  <2>4. QED
    BY <1>2, <2>2, <2>3 DEF SlotOK
<1>4. KeyOnce'
  BY DEF KeyOnce
<1>5. QED
  BY <1>1, <1>3, <1>4

(* When find returns NULL the key is nowhere in the table. *)
LEMMA FindNilIsAbsent ==
    ASSUME TypeOK, TableInv, NEW k \in Keys, Find(k) = NIL
    PROVE  \A b \in Bucket, s \in Slot :
               bkt_idx[b][s] # NIL => KeyOf[bkt_idx[b][s]] # k
<1>1. SUFFICES ASSUME NEW b \in Bucket, NEW s \in Slot,
                      bkt_idx[b][s] # NIL, KeyOf[bkt_idx[b][s]] = k
               PROVE  FALSE
  OBVIOUS
<1>2. b \in {Bk0(k), Bk1(k)} /\ s \in Hits(b, k)
  BY <1>1 DEF TableInv, SlotOK, Bk0, Bk1, Hits
<1>3. ASSUME NEW c \in Bucket, Hits(c, k) # {}
      PROVE  bkt_idx[c][LowestSlot(Hits(c, k))] # NIL
  <2>1. Hits(c, k) \in SUBSET Slot
    BY DEF Hits
  <2>2. LowestSlot(Hits(c, k)) \in Hits(c, k)
    BY <1>3, <2>1, LowestSlotIn
  <2>3. QED
    BY <2>2 DEF Hits
<1>4. QED
  BY <1>2, <1>3, HashTypes DEF Find

-----------------------------------------------------------------------------
(* The inductive invariant, action by action. *)

StackTypeOK ==
    /\ elm \in NodeOrNil
    /\ side \in {0, 1}
    /\ phase \in Phase
    /\ depth \in 0 .. FollowDepth
    /\ frame \in [0 .. FollowDepth -> Frame]
    /\ pos \in -1 .. EntrySz - 1

LEMMA NoFrameType == NoFrame \in Frame
<1>1. {} \in Bucket /\ {} \in Hash /\ 0 \in 0 .. EntrySz
  BY SizeAssumption DEF Bucket, Hash
<1>2. QED
  BY <1>1 DEF NoFrame, Frame, NodeOrNil

(* The empty stack. *)
LEMMA ResetStack ==
    ASSUME StackReset
    PROVE  StackTypeOK' /\ StackInv' /\ NewKey' /\ FreedSlotIsEmpty'
<1>1. StackTypeOK'
  BY NoFrameType, DepthAssumption, SizeAssumption
     DEF StackReset, StackTypeOK, NodeOrNil, Phase
<1>2. StackInv'
  BY DepthAssumption DEF StackReset, StackInv
<1>3. NewKey' /\ FreedSlotIsEmpty'
  BY DEF StackReset, NewKey, FreedSlotIsEmpty
<1>4. QED
  BY <1>1, <1>2, <1>3

LEMMA InitInv == Init => Inv
<1> SUFFICES ASSUME Init PROVE Inv
  OBVIOUS
<1>1. {} \in Hash /\ NIL \in NodeOrNil
  BY DEF Hash, NodeOrNil
<1>2. TypeOK
  BY <1>1, NoFrameType, DepthAssumption, SizeAssumption
     DEF Init, StackInit, TypeOK, Phase, Result
<1>3. TableInv /\ KeyOnce
  BY DEF Init, TableInv, SlotOK, KeyOnce
<1>4. NewKey /\ StackInv /\ FreedSlotIsEmpty
  BY DepthAssumption DEF Init, StackInit, NewKey, StackInv, FreedSlotIsEmpty
<1>5. QED
  BY <1>2, <1>3, <1>4 DEF Inv

(* A call's record is well-formed when its element and result are.         *)
LEMMA AnswerType ==
    ASSUME NEW op \in {"begun", "insert", "remove"},
           NEW n \in NodeOrNil, NEW r \in NodeOrNil, Answer(op, n, r)
    PROVE  ret' \in Result
BY DEF Answer, Result

LEMMA InsertDuplicateInv ==
    ASSUME Inv, NEW n \in Nodes, ~Linked(n), InsertDuplicate(n)
    PROVE  Inv'
<1>1. hash_field' \in [Nodes -> Hash] /\ TableInv' /\ KeyOnce'
  BY FieldOfUnlinked DEF Inv, InsertDuplicate
<1>2. ret' \in Result
  <2>1. KeyOf[n] \in Keys /\ n \in NodeOrNil
    BY NilAssumption, KeyAssumption DEF NodeOrNil
  <2>2. ASSUME NEW b \in Bucket, Hits(b, KeyOf[n]) # {}
        PROVE  bkt_idx[b][LowestSlot(Hits(b, KeyOf[n]))] \in NodeOrNil
    <3>1. Hits(b, KeyOf[n]) \in SUBSET Slot
      BY DEF Hits
    <3>2. LowestSlot(Hits(b, KeyOf[n])) \in Slot
      BY <2>2, <3>1, LowestSlotIn
    <3>3. QED
      BY <3>2 DEF Inv, TypeOK
  <2>3. Find(KeyOf[n]) \in NodeOrNil
    BY <2>1, <2>2, HashTypes DEF Find, NodeOrNil
  <2>4. QED
    BY <2>1, <2>3, AnswerType DEF InsertDuplicate
<1>3. TypeOK'
  BY <1>1, <1>2 DEF Inv, TypeOK, InsertDuplicate, stack
<1>4. NewKey' /\ StackInv' /\ FreedSlotIsEmpty'
  BY DEF Inv, NewKey, StackInv, FreedSlotIsEmpty, InsertDuplicate, stack, Idle
<1>5. QED
  BY <1>1, <1>3, <1>4 DEF Inv

(* The fast path writes an empty slot of one of elm's two buckets.         *)
LEMMA FastSlot ==
    ASSUME NEW n \in Nodes, InsertFast(n)
    PROVE  \E i \in {0, 1}, p \in Slot :
             /\ Place(n, i, p)
             /\ bkt_hash[IF i = 0 THEN Bk0(KeyOf[n]) ELSE Bk1(KeyOf[n])][p] = {}
<1> DEFINE k == KeyOf[n]
<1>1. k \in Keys
  BY NilAssumption, KeyAssumption
<1>2. ASSUME NEW b \in Bucket, Empties(b) # {}
      PROVE  /\ LowestSlot(Empties(b)) \in Slot
             /\ bkt_hash[b][LowestSlot(Empties(b))] = {}
  <2>1. Empties(b) \in SUBSET Slot
    BY DEF Empties
  <2>2. LowestSlot(Empties(b)) \in Empties(b)
    BY <1>2, <2>1, LowestSlotIn
  <2>3. QED
    BY <2>2 DEF Empties
<1>3. CASE /\ Empties(Bk0(k)) # {}
           /\ Place(n, 0, LowestSlot(Empties(Bk0(k))))
  BY <1>1, <1>2, <1>3, HashTypes
<1>4. CASE /\ Empties(Bk1(k)) # {}
           /\ Place(n, 1, LowestSlot(Empties(Bk1(k))))
  BY <1>1, <1>2, <1>4, HashTypes
<1>5. QED
  BY <1>3, <1>4 DEF InsertFast

LEMMA InsertFastInv ==
    ASSUME Inv, NEW n \in Nodes, InsertFast(n)
    PROVE  Inv'
<1> DEFINE k == KeyOf[n]
<1>1. k \in Keys
  BY NilAssumption, KeyAssumption
<1>2. \A c \in Bucket, t \in Slot :
        bkt_idx[c][t] # NIL => KeyOf[bkt_idx[c][t]] # k
  BY <1>1, FindNilIsAbsent DEF Inv, InsertFast
<1>3. PICK i \in {0, 1}, p \in Slot :
        /\ Place(n, i, p)
        /\ bkt_hash[IF i = 0 THEN Bk0(k) ELSE Bk1(k)][p] = {}
  BY FastSlot
<1>4. /\ bkt_hash' \in [Bucket -> [Slot -> Hash]]
      /\ bkt_idx' \in [Bucket -> [Slot -> NodeOrNil]]
      /\ hash_field' \in [Nodes -> Hash]
      /\ TableInv' /\ KeyOnce'
  BY <1>2, <1>3, PlaceKeepsTable DEF Inv
<1>5. TypeOK'
  <2>1. ret' \in Result /\ nb' \in Int
    <3>1. Answer("insert", n, NIL) /\ n \in NodeOrNil /\ NIL \in NodeOrNil
      BY <1>3 DEF Place, NodeOrNil
    <3>2. nb' \in Int
      BY <1>3 DEF Place, Inv, TypeOK
    <3>3. QED
      BY <3>1, <3>2, AnswerType
  <2>2. UNCHANGED <<elm, side, phase, depth, frame, pos>>
    BY DEF InsertFast, stack
  <2>3. QED
    BY <1>4, <2>1, <2>2 DEF Inv, TypeOK
<1>6. NewKey' /\ StackInv' /\ FreedSlotIsEmpty'
  BY DEF Inv, NewKey, StackInv, FreedSlotIsEmpty, InsertFast, stack, Idle
<1>7. QED
  BY <1>4, <1>5, <1>6 DEF Inv

LEMMA RemoveInv ==
    ASSUME Inv, NEW n \in Nodes, Remove(n)
    PROVE  Inv'
<1> DEFINE b == hash_field[n] \cap Mask
           at == {s \in Slot : bkt_idx[b][s] = n}
<1>1. b \in Bucket /\ n # NIL /\ n \in NodeOrNil
  BY NilAssumption, KeyAssumption DEF Bucket, NodeOrNil
<1>2. CASE at # {} /\ RemoveAt(b, LowestSlot(at)) /\ Answer("remove", n, n)
  <2>1. at \in SUBSET Slot
    OBVIOUS
  <2>2. LowestSlot(at) \in Slot /\ bkt_idx[b][LowestSlot(at)] = n
    <3>1. LowestSlot(at) \in at
      BY <1>2, <2>1, LowestSlotIn
    <3>2. QED
      BY <3>1
  <2>3. UNCHANGED hash_field
    BY DEF Remove
  <2>4. /\ bkt_hash' \in [Bucket -> [Slot -> Hash]]
        /\ bkt_idx' \in [Bucket -> [Slot -> NodeOrNil]]
        /\ TableInv' /\ KeyOnce'
    BY <1>1, <1>2, <2>2, <2>3, RemoveKeepsTable DEF Inv
  <2>5. TypeOK'
    <3>1. ret' \in Result /\ nb' \in Int
      BY <1>1, <1>2, AnswerType DEF RemoveAt, Inv, TypeOK
    <3>2. UNCHANGED <<elm, side, phase, depth, frame, pos, hash_field>>
      BY DEF Remove, stack
    <3>3. QED
      BY <2>4, <3>1, <3>2 DEF Inv, TypeOK
  <2>6. NewKey' /\ StackInv' /\ FreedSlotIsEmpty'
    BY DEF Inv, NewKey, StackInv, FreedSlotIsEmpty, Remove, stack, Idle
  <2>7. QED
    BY <2>4, <2>5, <2>6 DEF Inv
<1>3. CASE Answer("remove", n, NIL) /\ UNCHANGED <<bkt_hash, bkt_idx, nb>>
  <2>1. UNCHANGED table
    BY <1>3 DEF Remove, table
  <2>2. TypeOK'
    <3>1. NIL \in NodeOrNil
      BY DEF NodeOrNil
    <3>4. ret' \in Result
      BY <1>1, <1>3, <3>1, AnswerType
    <3>2. UNCHANGED <<elm, side, phase, depth, frame, pos, hash_field>>
      BY DEF Remove, stack
    <3>3. QED
      BY <1>3, <3>4, <3>2 DEF Inv, TypeOK
  <2>3. NewKey' /\ StackInv' /\ FreedSlotIsEmpty'
    BY <1>3 DEF Inv, NewKey, StackInv, FreedSlotIsEmpty, Remove, stack, Idle
  <2>4. QED
    BY <2>1, <2>2, <2>3, SameTable DEF Inv
<1>4. QED
  BY <1>2, <1>3 DEF Remove

LEMMA InsertSlowInv ==
    ASSUME Inv, NEW n \in Nodes, ~Linked(n), InsertSlow(n)
    PROVE  Inv'
<1> DEFINE k == KeyOf[n]
<1>1. /\ k \in Keys /\ Bk0(k) \in Bucket
      /\ n # NIL /\ n \in NodeOrNil
  BY NilAssumption, KeyAssumption, HashTypes DEF NodeOrNil
<1>2. hash_field' \in [Nodes -> Hash] /\ TableInv' /\ KeyOnce'
  BY FieldOfUnlinked DEF Inv, InsertSlow
<1>3. /\ elm' = n /\ side' = 0 /\ phase' = "enter" /\ pos' = -1
      /\ depth' = FollowDepth
      /\ frame' = [frame EXCEPT ![FollowDepth] = [NoFrame EXCEPT !.bk = Bk0(k)]]
      /\ Answer("begun", n, NIL)
      /\ UNCHANGED <<bkt_hash, bkt_idx, nb>>
  BY DEF InsertSlow, Call
<1>4. /\ [NoFrame EXCEPT !.bk = Bk0(k)] \in Frame
      /\ [NoFrame EXCEPT !.bk = Bk0(k)].bk = Bk0(k)
  BY <1>1, NoFrameType DEF Frame
<1>5. /\ frame' \in [0 .. FollowDepth -> Frame]
      /\ frame'[FollowDepth].bk = Bk0(k)
  BY <1>3, <1>4, DepthAssumption DEF Inv, TypeOK
<1>6. TypeOK'
  <2>1. NIL \in NodeOrNil
    BY DEF NodeOrNil
  <2>2. ret' \in Result
    BY <1>1, <1>3, <2>1, AnswerType
  <2>3. QED
    BY <1>1, <1>2, <1>3, <1>5, <2>2, DepthAssumption, SizeAssumption
       DEF Inv, TypeOK, Phase
<1>7. NewKey'
  BY <1>1, <1>3, FindNilIsAbsent DEF Inv, NewKey, InsertSlow
<1>8. StackInv' /\ FreedSlotIsEmpty'
  BY <1>1, <1>3, <1>5, DepthAssumption DEF StackInv, FreedSlotIsEmpty
<1>9. QED
  BY <1>2, <1>6, <1>7, <1>8 DEF Inv

(* While an insert is on the slow path, elm is an element.                 *)
LEMMA SlowPathElm ==
    ASSUME Inv, phase # "idle"
    PROVE  elm \in Nodes /\ KeyOf[elm] \in Keys
BY NilAssumption, KeyAssumption DEF Inv, TypeOK, NodeOrNil, StackInv

(* The slot kickout freed for elm is an empty slot of elm's bucket.        *)
LEMMA KickedSlot ==
    ASSUME Inv, InsertAfterKickout
    PROVE  /\ elm \in Nodes /\ side \in {0, 1} /\ pos \in Slot
           /\ Place(elm, side, pos) /\ StackReset
           /\ bkt_hash[IF side = 0 THEN Bk0(KeyOf[elm])
                                   ELSE Bk1(KeyOf[elm])][pos] = {}
           /\ \A b \in Bucket, s \in Slot :
                 bkt_idx[b][s] # NIL => KeyOf[bkt_idx[b][s]] # KeyOf[elm]
<1>1. /\ phase = "return" /\ depth = FollowDepth /\ pos >= 0
      /\ Place(elm, side, pos) /\ StackReset
  BY DEF InsertAfterKickout, AtRoot
<1>2. elm \in Nodes /\ elm # NIL
  BY <1>1, SlowPathElm, NilAssumption, KeyAssumption
<1>3. pos \in Slot /\ side \in {0, 1}
  BY <1>1, SizeAssumption DEF Inv, TypeOK, Slot
<1>4. QED
  BY <1>1, <1>2, <1>3 DEF Inv, FreedSlotIsEmpty, StackInv, NewKey, top

LEMMA InsertAfterKickoutInv ==
    ASSUME Inv, InsertAfterKickout
    PROVE  Inv'
<1>1. /\ elm \in Nodes /\ side \in {0, 1} /\ pos \in Slot
      /\ Place(elm, side, pos) /\ StackReset
  BY KickedSlot
<1>2. /\ bkt_hash' \in [Bucket -> [Slot -> Hash]]
      /\ bkt_idx' \in [Bucket -> [Slot -> NodeOrNil]]
      /\ hash_field' \in [Nodes -> Hash]
      /\ TableInv' /\ KeyOnce'
  BY <1>1, KickedSlot, PlaceKeepsTable DEF Inv
<1>3. nb' \in Int /\ ret' \in Result
  <2>1. Answer("insert", elm, NIL) /\ elm \in NodeOrNil /\ NIL \in NodeOrNil
    BY <1>1 DEF Place, NodeOrNil, Inv, TypeOK
  <2>2. nb' \in Int
    BY <1>1 DEF Place, Inv, TypeOK
  <2>3. QED
    BY <2>1, <2>2, AnswerType
<1>4. StackTypeOK' /\ StackInv' /\ NewKey' /\ FreedSlotIsEmpty'
  BY <1>1, ResetStack
<1>5. QED
  BY <1>2, <1>3, <1>4 DEF Inv, TypeOK, StackTypeOK

LEMMA InsertTryBk1Inv ==
    ASSUME Inv, InsertTryBk1
    PROVE  Inv'
<1> DEFINE k == KeyOf[elm]
<1>1. elm \in Nodes /\ k \in Keys /\ elm # NIL
  BY SlowPathElm, NilAssumption, KeyAssumption DEF InsertTryBk1, AtRoot
<1>2. /\ side' = 1 /\ phase' = "enter" /\ pos' = -1 /\ depth' = FollowDepth
      /\ frame' = [frame EXCEPT ![FollowDepth] = [NoFrame EXCEPT !.bk = Bk1(k)]]
      /\ UNCHANGED <<elm, ret>>
      /\ UNCHANGED <<bkt_hash, bkt_idx, hash_field, nb>>
  BY DEF InsertTryBk1, Call, table
<1>3. /\ [NoFrame EXCEPT !.bk = Bk1(k)] \in Frame
      /\ [NoFrame EXCEPT !.bk = Bk1(k)].bk = Bk1(k)
  BY <1>1, HashTypes, NoFrameType DEF Frame
<1>4. /\ frame' \in [0 .. FollowDepth -> Frame]
      /\ frame'[FollowDepth].bk = Bk1(k)
  BY <1>2, <1>3, DepthAssumption DEF Inv, TypeOK
<1>5. TypeOK'
  BY <1>2, <1>4, DepthAssumption, SizeAssumption DEF Inv, TypeOK, Phase
<1>6. TableInv' /\ KeyOnce'
  BY SameTable DEF Inv, InsertTryBk1
<1>7. NewKey'
  BY <1>2 DEF Inv, NewKey
<1>8. StackInv' /\ FreedSlotIsEmpty'
  BY <1>1, <1>2, <1>4, DepthAssumption DEF StackInv, FreedSlotIsEmpty
<1>9. QED
  BY <1>5, <1>6, <1>7, <1>8 DEF Inv

LEMMA InsertFullInv ==
    ASSUME Inv, InsertFull
    PROVE  Inv'
<1>1. UNCHANGED table /\ StackReset /\ Answer("insert", elm, elm)
  BY DEF InsertFull
<1>2. TableInv' /\ KeyOnce'
  BY <1>1, SameTable DEF Inv
<1>3. StackTypeOK' /\ StackInv' /\ NewKey' /\ FreedSlotIsEmpty'
  BY <1>1, ResetStack
<1>4. TypeOK'
  <2>1. elm \in NodeOrNil
    BY DEF Inv, TypeOK
  <2>2. ret' \in Result
    BY <1>1, <2>1, AnswerType
  <2>3. QED
    BY <1>1, <1>3, <2>2 DEF Inv, TypeOK, StackTypeOK, table
<1>5. QED
  BY <1>2, <1>3, <1>4 DEF Inv

(* Steps of kickout that return -1 without touching the table.             *)
LEMMA ReturnFailure ==
    ASSUME Inv, phase # "idle", Return(-1),
           UNCHANGED <<elm, side, ret>>, UNCHANGED table
    PROVE  Inv'
<1>1. TypeOK'
  BY SizeAssumption DEF Inv, TypeOK, Return, table, Phase
<1>2. TableInv' /\ KeyOnce'
  BY SameTable DEF Inv
<1>3. NewKey' /\ StackInv' /\ FreedSlotIsEmpty'
  BY DEF Inv, NewKey, StackInv, FreedSlotIsEmpty, Return, table
<1>4. QED
  BY <1>1, <1>2, <1>3 DEF Inv

LEMMA KickScanInv ==
    ASSUME Inv, KickScan \/ KickSkip
    PROVE  Inv'
<1>1. UNCHANGED table /\ UNCHANGED <<elm, side, depth, pos, ret>>
  BY DEF KickScan, KickSkip
<1>2. phase # "idle" /\ phase' = "scan" /\ depth' > 0
  BY DEF KickScan, KickSkip, Inv, StackInv, TypeOK
<1>3. /\ frame' \in [0 .. FollowDepth -> Frame]
      /\ \A d \in 0 .. FollowDepth : /\ frame'[d].bk = frame[d].bk
                                     /\ d # depth => frame'[d] = frame[d]
  <2>1. CASE UNCHANGED frame
    BY <2>1 DEF Inv, TypeOK
  <2>2. CASE frame' = [frame EXCEPT ![depth].s = @ + 1] /\ top.s < EntrySz
    <3>1. frame[depth] \in Frame /\ depth \in 0 .. FollowDepth
      BY DEF Inv, TypeOK
    <3>2. frame[depth].s \in 0 .. EntrySz
      BY <3>1 DEF Frame
    <3>3. frame[depth].s + 1 \in 0 .. EntrySz
      BY <2>2, <3>2, SizeAssumption DEF top
    <3>4. [frame[depth] EXCEPT !.s = @ + 1] \in Frame
      BY <3>1, <3>3 DEF Frame
    <3>5. frame' = [frame EXCEPT ![depth] = [frame[depth] EXCEPT !.s = @ + 1]]
      BY <2>2
    <3>6. [frame[depth] EXCEPT !.s = @ + 1].bk = frame[depth].bk
      BY <3>1 DEF Frame
    <3>7. frame \in [0 .. FollowDepth -> Frame]
      BY DEF Inv, TypeOK
    <3> HIDE DEF Inv
    <3>8. QED
      BY <3>1, <3>4, <3>5, <3>6, <3>7
  <2>3. QED
    BY <2>1, <2>2 DEF KickScan, KickSkip
<1>4. TypeOK'
  BY <1>1, <1>2, <1>3 DEF Inv, TypeOK, Phase, table
<1>5. TableInv' /\ KeyOnce'
  BY <1>1, SameTable DEF Inv
<1>6. NewKey' /\ FreedSlotIsEmpty'
  BY <1>1, <1>2 DEF Inv, NewKey, FreedSlotIsEmpty, table
<1>7. StackInv'
  BY <1>1, <1>2, <1>3, DepthAssumption DEF Inv, StackInv, TypeOK
<1>8. QED
  BY <1>4, <1>5, <1>6, <1>7 DEF Inv

(* A kickout step that moves one element keeps what the table and the new  *)
(* key promise.                                                            *)
LEMMA FlipKeepsInv ==
    ASSUME Inv, NEW b \in Bucket, NEW s \in Slot,
           CanFlip(b, s), Flip(b, s), UNCHANGED elm
    PROVE  /\ bkt_hash' \in [Bucket -> [Slot -> Hash]]
           /\ bkt_idx' \in [Bucket -> [Slot -> NodeOrNil]]
           /\ hash_field' \in [Nodes -> Hash]
           /\ TableInv' /\ KeyOnce' /\ NewKey'
           /\ bkt_hash'[b][s] = {}
           /\ LinkedNodes' = LinkedNodes
<1>1. SlotOK(b, s) /\ bkt_idx[b][s] # NIL
  BY DEF Inv, TableInv, CanFlip
<1>2. PICK a \in Bucket, e \in Slot : Moved(b, s, a, e)
  BY <1>1, FlipMoves DEF Inv
<1>3. /\ TableInv' /\ KeyOnce' /\ NoneAppears
      /\ LinkedNodes' = LinkedNodes
  BY <1>1, <1>2, FlipKeepsTable DEF Inv
<1>4. NewKey'
  BY <1>3 DEF Inv, NewKey, NoneAppears
<1>5. QED
  BY <1>2, <1>3, <1>4 DEF Moved

(* Pass 1 moves the element of one slot of its bucket. *)
LEMMA PassOneSlot ==
    ASSUME Inv, KickFlip
    PROVE  \E p \in Slot : /\ top.bk \in Bucket
                           /\ CanFlip(top.bk, p) /\ Flip(top.bk, p)
                           /\ pos' = p
<1> DEFINE b == top.bk
           movable == {s \in Slot : CanFlip(b, s)}
           p == LowestSlot(movable)
<1>1. movable # {} /\ Flip(b, p) /\ pos' = p
  BY DEF KickFlip, Return
<1>2. b \in Bucket
  BY DEF Inv, TypeOK, Frame, top
<1>3. p \in Slot /\ CanFlip(b, p)
  <2>1. movable \in SUBSET Slot
    OBVIOUS
  <2>2. p \in movable
    BY <1>1, <2>1, LowestSlotIn
  <2>3. QED
    BY <2>2
<1> HIDE DEF p
<1>4. QED
  BY <1>1, <1>2, <1>3

LEMMA KickFlipInv ==
    ASSUME Inv, KickFlip
    PROVE  Inv'
<1> DEFINE b == top.bk
<1>1. /\ phase = "enter" /\ phase' = "return"
      /\ UNCHANGED <<depth, frame, elm, side, ret, nb>>
  BY DEF KickFlip, Return
<1>2. PICK p \in Slot : /\ b \in Bucket /\ CanFlip(b, p) /\ Flip(b, p)
                        /\ pos' = p
  BY PassOneSlot
<1>3. /\ bkt_hash' \in [Bucket -> [Slot -> Hash]]
      /\ bkt_idx' \in [Bucket -> [Slot -> NodeOrNil]]
      /\ hash_field' \in [Nodes -> Hash]
      /\ TableInv' /\ KeyOnce' /\ NewKey'
      /\ bkt_hash'[b][p] = {}
  BY <1>1, <1>2, FlipKeepsInv
<1>4. TypeOK'
  <2>1. pos' \in -1 .. EntrySz - 1 /\ phase' \in Phase
    BY <1>1, <1>2, SizeAssumption DEF Slot, Phase
  <2>2. QED
    BY <1>1, <1>3, <2>1 DEF Inv, TypeOK
<1>5. StackInv'
  BY <1>1 DEF Inv, StackInv
<1>6. FreedSlotIsEmpty'
  BY <1>1, <1>2, <1>3 DEF FreedSlotIsEmpty, top
<1>7. QED
  BY <1>3, <1>4, <1>5, <1>6 DEF Inv

LEMMA KickDescendInv ==
    ASSUME Inv, KickDescend
    PROVE  Inv'
<1> DEFINE b == top.bk
           s == top.s
           x == bkt_hash[b][s]
           y == bkt_idx[b][s]
           a == AltOf(b, s)
           f == [frame EXCEPT ![depth].fp = x, ![depth].idx = y]
           g == [NoFrame EXCEPT !.bk = a]
           r == [frame[depth] EXCEPT !.fp = x, !.idx = y]
<1>1. /\ phase = "scan" /\ s < EntrySz /\ y # NIL
      /\ frame' = [f EXCEPT ![depth - 1] = g]
      /\ depth' = depth - 1 /\ phase' = "enter" /\ pos' = -1
      /\ UNCHANGED <<elm, side, ret>>
      /\ UNCHANGED table
  BY DEF KickDescend, Call
<1>2. /\ frame \in [0 .. FollowDepth -> Frame]
      /\ depth \in 1 .. FollowDepth /\ depth - 1 \in 0 .. FollowDepth
      /\ frame[depth] \in Frame
  BY <1>1, DepthAssumption DEF Inv, StackInv, TypeOK
<1>3. b \in Bucket /\ s \in Slot
  BY <1>1, <1>2, SizeAssumption DEF Frame, Slot, top
<1>4. x \in Hash /\ y \in NodeOrNil
  BY <1>3 DEF Inv, TypeOK
<1>5. /\ a \in Bucket
      /\ x = Fp(KeyOf[y])
      /\ Opposite(KeyOf[y], b, a)
  <2>1. SlotOK(b, s)
    BY <1>3 DEF Inv, TableInv
  <2>2. x = Fp(KeyOf[y])
    BY <1>1, <2>1 DEF SlotOK
  <2>3. QED
    BY <1>1, <1>3, <2>1, <2>2, AltIsOpposite DEF Inv
<1>6. g \in Frame /\ g.bk = a
  BY <1>5, NoFrameType DEF Frame
<1>7. r \in Frame
  BY <1>2, <1>4 DEF Frame
<1>8. f = [frame EXCEPT ![depth] = r]
  BY <1>2
<1>9. r.bk = b /\ r.s = s /\ r.fp = x /\ r.idx = y
  BY <1>2 DEF Frame, top
<1> HIDE DEF a, b, s, x, y, g, f, r
<1>10. /\ frame' \in [0 .. FollowDepth -> Frame]
       /\ frame'[depth - 1].bk = a
       /\ frame'[depth].bk = b /\ frame'[depth].s = s
       /\ frame'[depth].fp = x /\ frame'[depth].idx = y
       /\ \A d \in 0 .. FollowDepth : d > depth => frame'[d] = frame[d]
  <2>1. f \in [0 .. FollowDepth -> Frame]
    BY <1>2, <1>7, <1>8
  <2>2. frame' \in [0 .. FollowDepth -> Frame]
    BY <1>1, <1>6, <2>1
  <2>3. frame'[depth - 1] = g
    BY <1>1, <1>2, <2>1
  <2>4. frame'[depth] = f[depth]
    BY <1>1, <1>2, <2>1
  <2>5. f[depth] = r
    BY <1>2, <1>8
  <2>6. \A d \in 0 .. FollowDepth : d > depth => frame'[d] = frame[d]
    BY <1>1, <1>2, <1>8, <2>1
  <2>7. QED
    BY <1>6, <1>9, <2>2, <2>3, <2>4, <2>5, <2>6
<1>11. TypeOK'
  BY <1>1, <1>2, <1>10, SizeAssumption DEF Inv, TypeOK, Phase, table
<1>12. TableInv' /\ KeyOnce'
  BY <1>1, SameTable DEF Inv
<1>13. NewKey' /\ FreedSlotIsEmpty'
  BY <1>1 DEF Inv, NewKey, FreedSlotIsEmpty, table
<1>14. StackInv'
  <2>1. frame'[FollowDepth].bk = frame[FollowDepth].bk
    <3>1. frame[depth].bk = b
      BY DEF b, top
    <3>2. CASE depth = FollowDepth
      BY <1>10, <3>1, <3>2
    <3>3. CASE depth # FollowDepth
      BY <1>2, <1>10, <3>3, DepthAssumption
    <3>4. QED
      BY <3>2, <3>3
  <2>2. ASSUME NEW d \in 1 .. FollowDepth, d > depth'
        PROVE  /\ frame'[d].s < EntrySz
               /\ frame'[d].idx # NIL
               /\ frame'[d].fp = Fp(KeyOf[frame'[d].idx])
               /\ Opposite(KeyOf[frame'[d].idx], frame'[d].bk, frame'[d - 1].bk)
    <3>1. CASE d = depth
      BY <1>1, <1>5, <1>10, <3>1
    <3>2. CASE d > depth
      <4>1. frame'[d] = frame[d]
        BY <1>10, <3>2
      <4>2. frame'[d - 1].bk = frame[d - 1].bk
        <5>1. CASE d - 1 = depth
          BY <1>10, <5>1 DEF b, top
        <5>2. CASE d - 1 > depth
          BY <1>10, <5>2, DepthAssumption
        <5>3. QED
          BY <1>2, <3>2, <5>1, <5>2
      <4>3. QED
        BY <3>2, <4>1, <4>2 DEF Inv, StackInv
    <3>3. QED
      BY <1>1, <1>2, <2>2, <3>1, <3>2
  <2>3. QED
    BY <1>1, <1>2, <2>1, <2>2, DepthAssumption DEF Inv, StackInv
<1>15. QED
  BY <1>11, <1>12, <1>13, <1>14 DEF Inv

(* A return to the caller: its slot is in range, it holds a saved element, *)
(* and the bucket just worked on is that element's other bucket.           *)
LEMMA CallerFacts ==
    ASSUME Inv, Returning
    PROVE  /\ depth + 1 \in 1 .. FollowDepth
           /\ Caller \in Frame
           /\ Caller.bk \in Bucket /\ Caller.s \in Slot
           /\ top.bk \in Bucket
           /\ Caller.idx # NIL
           /\ Opposite(KeyOf[Caller.idx], Caller.bk, top.bk)
           /\ Popped \in [0 .. FollowDepth -> Frame]
           /\ \A d \in 0 .. FollowDepth : d # depth => Popped[d] = frame[d]
<1>1. /\ depth \in 0 .. FollowDepth /\ depth < FollowDepth
      /\ frame \in [0 .. FollowDepth -> Frame]
  BY DEF Returning, Inv, TypeOK
<1>2. depth + 1 \in 1 .. FollowDepth /\ depth + 1 > depth
  BY <1>1, DepthAssumption
<1>3. /\ frame[depth + 1].s < EntrySz
      /\ frame[depth + 1].idx # NIL
      /\ Opposite(KeyOf[frame[depth + 1].idx],
                  frame[depth + 1].bk, frame[(depth + 1) - 1].bk)
  BY <1>2 DEF Inv, StackInv
<1>4. (depth + 1) - 1 = depth
  BY <1>1, DepthAssumption
<1>5. frame[depth + 1] \in Frame /\ frame[depth] \in Frame
  BY <1>1, <1>2, DepthAssumption
<1>6. Popped \in [0 .. FollowDepth -> Frame]
  BY <1>1, NoFrameType DEF Popped
<1>7. \A d \in 0 .. FollowDepth : d # depth => Popped[d] = frame[d]
  BY <1>1 DEF Popped
<1>8. frame[depth + 1].s \in Slot
  BY <1>3, <1>5, SizeAssumption DEF Frame, Slot
<1>9. QED
  BY <1>2, <1>3, <1>4, <1>5, <1>6, <1>7, <1>8 DEF Caller, top, Frame

(* What the stack promises survives a return, whatever the caller does     *)
(* with the slot it is at.                                                 *)
LEMMA PopKeepsStack ==
    ASSUME Inv, Returning, UNCHANGED <<elm, side>>,
           depth' = depth + 1, phase' \in {"scan", "return"},
           frame' \in [0 .. FollowDepth -> Frame],
           frame'[depth + 1].bk = Caller.bk,
           \A d \in 0 .. FollowDepth : d > depth + 1 => frame'[d] = frame[d]
    PROVE  StackInv'
<1>1. /\ depth \in 0 .. FollowDepth /\ depth < FollowDepth
      /\ phase # "idle"
  BY DEF Returning, Inv, TypeOK
<1>2. \A d \in 0 .. FollowDepth : d >= depth + 1 => frame'[d].bk = frame[d].bk
  BY <1>1, DepthAssumption DEF Caller
<1>3. FollowDepth \in 0 .. FollowDepth /\ FollowDepth >= depth + 1
  BY <1>1, DepthAssumption
<1>4. frame'[FollowDepth].bk = frame[FollowDepth].bk
  BY <1>2, <1>3
<1>5. ASSUME NEW d \in 1 .. FollowDepth, d > depth'
      PROVE  /\ frame'[d].s < EntrySz
             /\ frame'[d].idx # NIL
             /\ frame'[d].fp = Fp(KeyOf[frame'[d].idx])
             /\ Opposite(KeyOf[frame'[d].idx], frame'[d].bk, frame'[d - 1].bk)
  <2>1. frame'[d] = frame[d]
    BY <1>1, <1>5, DepthAssumption
  <2>2. frame'[d - 1].bk = frame[d - 1].bk
    BY <1>1, <1>2, <1>5, DepthAssumption
  <2>3. d > depth
    BY <1>1, <1>5, DepthAssumption
  <2>4. QED
    BY <2>1, <2>2, <2>3 DEF Inv, StackInv
<1>6. depth' > 0
  BY <1>1, DepthAssumption
<1>7. QED
  BY <1>1, <1>4, <1>5, <1>6 DEF Inv, StackInv

LEMMA NextSlotInv ==
    ASSUME Inv, Returning, NextSlot,
           UNCHANGED <<elm, side, ret>>, UNCHANGED table
    PROVE  Inv'
<1> DEFINE r == [Caller EXCEPT !.s = @ + 1]
<1>1. r \in Frame /\ r.bk = Caller.bk
  <2>1. Caller \in Frame /\ Caller.s + 1 \in 0 .. EntrySz
    BY CallerFacts, SizeAssumption DEF Slot
  <2>2. QED
    BY <2>1 DEF Frame
<1>2. depth + 1 \in 0 .. FollowDepth /\ depth + 1 # depth
  BY CallerFacts, DepthAssumption
<1>3. Popped[depth + 1] = Caller
  BY <1>2, CallerFacts DEF Caller
<1>4. frame' = [Popped EXCEPT ![depth + 1] = r]
  BY <1>2, <1>3, CallerFacts DEF NextSlot
<1> HIDE DEF r
<1>5. /\ frame' \in [0 .. FollowDepth -> Frame]
      /\ frame'[depth + 1] = r
      /\ \A d \in 0 .. FollowDepth : d > depth + 1 => frame'[d] = frame[d]
  <2>1. /\ Popped \in [0 .. FollowDepth -> Frame]
        /\ \A d \in 0 .. FollowDepth : d # depth => Popped[d] = frame[d]
    BY CallerFacts
  <2>2. depth \in Int
    BY DepthAssumption DEF Inv, TypeOK
  <2>3. QED
    BY <1>1, <1>2, <1>4, <2>1, <2>2, DepthAssumption
<1>6. TypeOK'
  BY <1>2, <1>5, SizeAssumption DEF Inv, TypeOK, NextSlot, Phase, table
<1>7. TableInv' /\ KeyOnce'
  BY SameTable DEF Inv
<1>8. NewKey' /\ FreedSlotIsEmpty'
  BY DEF Inv, NewKey, FreedSlotIsEmpty, NextSlot, table
<1>9. StackInv'
  BY <1>1, <1>5, PopKeepsStack DEF NextSlot
<1>10. QED
  BY <1>6, <1>7, <1>8, <1>9 DEF Inv

LEMMA ReturnOnStack ==
    ASSUME Inv, Returning, NEW p \in Slot, ReturnOn(p),
           UNCHANGED <<elm, side>>
    PROVE  StackTypeOK' /\ StackInv' /\ top'.bk = Caller.bk
<1>1. /\ frame' = Popped
      /\ depth' = depth + 1 /\ phase' = "return" /\ pos' = p
  BY DEF ReturnOn
<1>2. /\ depth + 1 \in 0 .. FollowDepth /\ depth + 1 # depth
      /\ depth \in Int
  BY CallerFacts, DepthAssumption DEF Inv, TypeOK
<1>3. /\ frame' \in [0 .. FollowDepth -> Frame]
      /\ \A d \in 0 .. FollowDepth : d # depth => frame'[d] = frame[d]
  BY <1>1, CallerFacts
<1>4. frame'[depth + 1].bk = Caller.bk
  BY <1>2, <1>3 DEF Caller
<1>5. \A d \in 0 .. FollowDepth : d > depth + 1 => frame'[d] = frame[d]
  BY <1>2, <1>3, DepthAssumption
<1>6. StackInv'
  BY <1>1, <1>3, <1>4, <1>5, PopKeepsStack
<1>7. pos' \in -1 .. EntrySz - 1
  BY <1>1, SizeAssumption DEF Slot
<1>8. StackTypeOK'
  BY <1>1, <1>2, <1>3, <1>7 DEF StackTypeOK, Phase, Inv, TypeOK
<1>9. QED
  BY <1>1, <1>4, <1>6, <1>8 DEF top

(* The flipflop whose result kickout ignores does succeed. *)
LEMMA UnwindFlips ==
    ASSUME Inv, KickUnwind
    PROVE  /\ Caller.bk \in Bucket /\ Caller.s \in Slot
           /\ CanFlip(Caller.bk, Caller.s) /\ Flip(Caller.bk, Caller.s)
<1> DEFINE b == Caller.bk
           s == Caller.s
<1>1. Returning /\ pos >= 0 /\ Unmoved(Caller)
  BY DEF KickUnwind
<1>2. /\ b \in Bucket /\ s \in Slot /\ top.bk \in Bucket
      /\ Caller.idx # NIL
      /\ Opposite(KeyOf[Caller.idx], b, top.bk)
  BY <1>1, CallerFacts
<1>3. SlotOK(b, s) /\ bkt_idx[b][s] # NIL /\ bkt_idx[b][s] = Caller.idx
  BY <1>1, <1>2 DEF Unmoved, Inv, TableInv
<1>4. AltOf(b, s) = top.bk
  <2>1. /\ KeyOf[Caller.idx] \in Keys
        /\ Opposite(KeyOf[Caller.idx], b, AltOf(b, s))
    BY <1>2, <1>3, AltIsOpposite DEF Inv
  <2>2. QED
    BY <1>2, <2>1, HashTypes DEF Opposite
<1>5. CanFlip(b, s)
  <2>1. pos \in Slot
    BY <1>1, SizeAssumption DEF Inv, TypeOK, Slot
  <2>2. bkt_hash[top.bk][pos] = {}
    BY <1>1 DEF Inv, FreedSlotIsEmpty, Returning
  <2>3. QED
    BY <1>3, <1>4, <2>1, <2>2 DEF CanFlip, Empties
<1>6. QED
  BY <1>2, <1>5 DEF KickUnwind

LEMMA KickUnwindInv ==
    ASSUME Inv, KickUnwind
    PROVE  Inv' /\ LinkedNodes' = LinkedNodes
<1> DEFINE b == Caller.bk
           s == Caller.s
<1>1. /\ Returning /\ ReturnOn(s) /\ UNCHANGED <<elm, side, ret, nb>>
  BY DEF KickUnwind
<1>2. b \in Bucket /\ s \in Slot
  BY UnwindFlips
<1>3. /\ bkt_hash' \in [Bucket -> [Slot -> Hash]]
      /\ bkt_idx' \in [Bucket -> [Slot -> NodeOrNil]]
      /\ hash_field' \in [Nodes -> Hash]
      /\ TableInv' /\ KeyOnce' /\ NewKey'
      /\ bkt_hash'[b][s] = {}
      /\ LinkedNodes' = LinkedNodes
  BY <1>1, UnwindFlips, FlipKeepsInv
<1>4. StackTypeOK' /\ StackInv' /\ top'.bk = b
  BY <1>1, <1>2, ReturnOnStack
<1>5. TypeOK'
  BY <1>1, <1>3, <1>4 DEF Inv, TypeOK, StackTypeOK
<1>6. FreedSlotIsEmpty'
  BY <1>1, <1>3, <1>4 DEF FreedSlotIsEmpty, ReturnOn
<1>7. QED
  BY <1>3, <1>4, <1>5, <1>6 DEF Inv

LEMMA KickRecheckInv ==
    ASSUME Inv, KickRecheck
    PROVE  Inv'
<1> DEFINE p == LowestSlot(Empties(Caller.bk))
<1>1. Returning /\ UNCHANGED <<elm, side, ret>> /\ UNCHANGED table
  BY DEF KickRecheck
<1>2. CASE Empties(Caller.bk) # {} /\ ReturnOn(p)
  <2>1. p \in Slot /\ bkt_hash[Caller.bk][p] = {}
    <3>1. Empties(Caller.bk) \in SUBSET Slot
      BY DEF Empties
    <3>2. p \in Empties(Caller.bk)
      BY <1>2, <3>1, LowestSlotIn
    <3>3. QED
      BY <3>2 DEF Empties
  <2>2. StackTypeOK' /\ StackInv' /\ top'.bk = Caller.bk
    BY <1>1, <1>2, <2>1, ReturnOnStack
  <2>3. TypeOK'
    BY <1>1, <2>2 DEF Inv, TypeOK, StackTypeOK, table
  <2>4. TableInv' /\ KeyOnce'
    BY <1>1, SameTable DEF Inv
  <2>5. NewKey'
    BY <1>1 DEF Inv, NewKey, table
  <2>6. FreedSlotIsEmpty'
    BY <1>1, <1>2, <2>1, <2>2 DEF FreedSlotIsEmpty, ReturnOn, table
  <2>7. QED
    BY <2>2, <2>3, <2>4, <2>5, <2>6 DEF Inv
<1>3. CASE NextSlot
  BY <1>1, <1>3, NextSlotInv
<1>4. QED
  BY <1>2, <1>3 DEF KickRecheck

(* remove_at clears the slot that remove would have found the element in.  *)
LEMMA RemoveAtRemoves ==
    ASSUME Inv, NEW b \in Bucket, NEW s \in Slot, RemoveAtCall(b, s)
    PROVE  (\E n \in Nodes : Remove(n)) \/ UNCHANGED vars
<1>1. CASE /\ bkt_idx[b][s] # NIL
           /\ RemoveAt(b, s)
           /\ Answer("remove", bkt_idx[b][s], bkt_idx[b][s])
  <2> DEFINE n == bkt_idx[b][s]
  <2>1. n \in Nodes
    BY <1>1 DEF Inv, TypeOK, NodeOrNil
  <2>2. hash_field[n] \cap Mask = b
    BY <1>1 DEF Inv, TableInv, SlotOK
  <2>3. {t \in Slot : bkt_idx[b][t] = n} = {s}
    BY <1>1 DEF Inv, KeyOnce
  <2>4. LowestSlot({s}) = s
    <3>1. {s} \in SUBSET Slot
      OBVIOUS
    <3>2. LowestSlot({s}) \in {s}
      BY <3>1, LowestSlotIn
    <3>3. QED
      BY <3>2
  <2>5. Remove(n)
    BY <1>1, <2>2, <2>3, <2>4 DEF RemoveAtCall, Remove
  <2>6. QED
    BY <2>1, <2>5
<1>2. CASE bkt_idx[b][s] = NIL /\ UNCHANGED <<bkt_hash, bkt_idx, nb, ret>>
  BY <1>2 DEF RemoveAtCall, vars, stack
<1>3. QED
  BY <1>1, <1>2 DEF RemoveAtCall

(* So no proof about a step has to look at remove_at again. *)
LEMMA StepKinds ==
    ASSUME Inv, [Next]_vars
    PROVE  \/ \E n \in Nodes : Insert(n) \/ Remove(n)
           \/ Kick
           \/ UNCHANGED vars
BY RemoveAtRemoves DEF Next

(* Every step keeps the inductive invariant. *)
LEMMA NextInv == Inv /\ [Next]_vars => Inv'
<1> SUFFICES ASSUME Inv, [Next]_vars PROVE Inv'
  OBVIOUS
<1>1. ASSUME NEW n \in Nodes, Insert(n) PROVE Inv'
  BY <1>1, InsertDuplicateInv, InsertFastInv, InsertSlowInv DEF Insert
<1>2. ASSUME NEW n \in Nodes, Remove(n) PROVE Inv'
  BY <1>2, RemoveInv
<1>3. ASSUME Kick PROVE Inv'
  <2>1. CASE KickTooDeep
    BY <2>1, ReturnFailure DEF KickTooDeep
  <2>2. CASE KickExhausted
    BY <2>2, ReturnFailure DEF KickExhausted
  <2>3. CASE KickNext
    BY <2>3, NextSlotInv DEF KickNext
  <2>4. QED
    BY <1>3, <2>1, <2>2, <2>3, KickFlipInv, KickScanInv, KickDescendInv,
       KickUnwindInv, KickRecheckInv, InsertAfterKickoutInv, InsertTryBk1Inv,
       InsertFullInv
       DEF Kick
<1>4. CASE UNCHANGED vars
  <2>1. TypeOK'
    BY <1>4 DEF Inv, TypeOK, vars
  <2>2. TableInv' /\ KeyOnce'
    BY <1>4, SameTable DEF Inv, vars, table
  <2>3. NewKey' /\ StackInv' /\ FreedSlotIsEmpty'
    BY <1>4 DEF Inv, NewKey, StackInv, FreedSlotIsEmpty, vars, top
  <2>4. QED
    BY <2>1, <2>2, <2>3 DEF Inv
<1>5. QED
  BY <1>1, <1>2, <1>3, <1>4, StepKinds

(* The table, the stack of a kickout in progress and the slot it reports   *)
(* as freed are in order in every reachable state.                         *)
THEOREM Invariance == Spec => []Inv
BY InitInv, NextInv, PTL DEF Spec

(* Type correctness. *)
THEOREM TypeCorrect == Spec => []TypeOK
BY Invariance, PTL DEF Inv

(* "node->hash_field always holds the hash that corresponds to the bucket  *)
(* where the node currently resides", between any two writes of insert,    *)
(* kickout and remove: remove, which looks only there, finds the element.  *)
THEOREM HashFieldTracks == Spec => []HashFieldTracksBucket
<1>1. Inv => HashFieldTracksBucket
  BY DEF Inv, TableInv, SlotOK, HashFieldTracksBucket
<1>2. QED
  BY <1>1, Invariance, PTL

(* The bucket kickout says it has room in does have it. *)
THEOREM FreedSlot == Spec => []FreedSlotIsEmpty
BY Invariance, PTL DEF Inv

LEMMA EmptyInBoth ==
    ASSUME Inv
    PROVE  EmptyBothWays
<1> SUFFICES ASSUME NEW b \in Bucket, NEW s \in Slot
             PROVE  bkt_hash[b][s] = {} <=> bkt_idx[b][s] = NIL
  BY DEF EmptyBothWays
<1>1. bkt_idx[b][s] # NIL => KeyOf[bkt_idx[b][s]] \in Keys
  BY KeyAssumption DEF Inv, TypeOK, NodeOrNil
<1>2. SlotOK(b, s)
  BY DEF Inv, TableInv
<1>3. QED
  BY <1>1, <1>2, HashTypes DEF SlotOK

(* The two encodings of an empty slot agree. *)
THEOREM EmptyAgree == Spec => []EmptyBothWays
BY EmptyInBoth, Invariance, PTL

(* No element sits in two slots. *)
THEOREM OneSlotEach == Spec => []LinkedOnce
<1>1. Inv => LinkedOnce
  BY DEF Inv, KeyOnce, LinkedOnce
<1>2. QED
  BY <1>1, Invariance, PTL

(* find returns every linked element for its key, at every point of every  *)
(* kickout.                                                                *)
LEMMA LinkedIsFound ==
    ASSUME Inv, NEW n \in Nodes, Linked(n)
    PROVE  Find(KeyOf[n]) = n
<1> DEFINE k == KeyOf[n]
<1>1. k \in Keys /\ n # NIL
  BY NilAssumption, KeyAssumption
<1>2. PICK b \in Bucket, s \in Slot : bkt_idx[b][s] = n
  BY DEF Linked
<1>3. b \in {Bk0(k), Bk1(k)} /\ s \in Hits(b, k)
  BY <1>1, <1>2 DEF Inv, TableInv, SlotOK, Bk0, Bk1, Hits
<1>4. ASSUME NEW c \in Bucket, NEW t \in Hits(c, k)
      PROVE  c = b /\ t = s
  BY <1>1, <1>2, <1>4 DEF Hits, Inv, KeyOnce
<1>5. Hits(b, k) = {s}
  BY <1>3, <1>4
<1>6. LowestSlot(Hits(b, k)) = s
  BY <1>5, LowestSlotIn
<1>7. \A c \in Bucket : c # b => Hits(c, k) = {}
  BY <1>4
<1>8. QED
  BY <1>1, <1>2, <1>3, <1>5, <1>6, <1>7, HashTypes DEF Find

THEOREM AllFound == Spec => []EveryLinkedIsFound
<1>1. Inv => EveryLinkedIsFound
  BY LinkedIsFound DEF EveryLinkedIsFound
<1>2. QED
  BY <1>1, Invariance, PTL

-----------------------------------------------------------------------------
(* A kickout moves elements and never drops one. *)

LEMMA SameLinked ==
    ASSUME UNCHANGED bkt_idx
    PROVE  LinkedNodes' = LinkedNodes
BY DEF LinkedNodes, Linked

LEMMA KickKeeps ==
    ASSUME Inv, Kick
    PROVE  LinkedNodes' = LinkedNodes \/ LinkedNodes' = LinkedNodes \cup {elm}
<1>1. CASE KickFlip
  BY <1>1, PassOneSlot, FlipKeepsInv DEF KickFlip
<1>2. CASE KickUnwind
  BY <1>2, KickUnwindInv
<1>3. CASE InsertAfterKickout
  BY <1>3, KickedSlot, PlaceKeepsTable DEF Inv
<1>4. CASE UNCHANGED table
  BY <1>4, SameLinked DEF table
<1>5. QED
  BY <1>1, <1>2, <1>3, <1>4
     DEF Kick, KickTooDeep, KickScan, KickSkip, KickDescend, KickExhausted,
         KickNext, KickRecheck, InsertTryBk1, InsertFull

(* Each step of a kickout keeps the linked elements; its last may add the  *)
(* one being inserted.                                                     *)
THEOREM KeepsElements == Spec => KickoutKeepsElements
<1> DEFINE Keeps == phase # "idle" =>
                      \/ LinkedNodes' = LinkedNodes
                      \/ LinkedNodes' = LinkedNodes \cup {elm}
<1>1. Inv /\ [Next]_vars => [Keeps]_vars
  <2> SUFFICES ASSUME Inv, Next, phase # "idle" PROVE Keeps
    OBVIOUS
  <2>1. Kick
    BY DEF Next, Insert, Remove, RemoveAtCall, InsertDuplicate, InsertFast, InsertSlow, Idle
  <2>2. QED
    BY <2>1, KickKeeps
<1>2. QED
  BY <1>1, Invariance, PTL DEF Spec, KickoutKeepsElements

-----------------------------------------------------------------------------
(* rhh_nb is the number of occupied slots. *)

Occupied == {p \in Bucket \X Slot : bkt_idx[p[1]][p[2]] # NIL}

CountInv == IsFiniteSet(Occupied) /\ nb = Cardinality(Occupied)

LEMMA CountUp ==
    ASSUME CountInv, TypeOK, TableInv,
           NEW n \in Nodes, NEW i \in {0, 1}, NEW p \in Slot,
           bkt_hash[IF i = 0 THEN Bk0(KeyOf[n]) ELSE Bk1(KeyOf[n])][p] = {},
           Place(n, i, p)
    PROVE  CountInv'
<1> DEFINE b == (IF i = 0 THEN Hash0[KeyOf[n]] ELSE Hash1[KeyOf[n]]) \cap Mask
<1>1. b \in Bucket /\ b = IF i = 0 THEN Bk0(KeyOf[n]) ELSE Bk1(KeyOf[n])
  BY DEF Bk0, Bk1, Bucket
<1>2. bkt_idx' = [bkt_idx EXCEPT ![b][p] = n] /\ nb' = nb + 1
  BY DEF Place
<1> HIDE DEF b
<1>3. bkt_idx[b][p] = NIL
  BY <1>1, HashTypes, NilAssumption, KeyAssumption DEF TableInv, SlotOK, TypeOK, NodeOrNil
<1>4. /\ bkt_idx'[b][p] # NIL
      /\ \A c \in Bucket, t \in Slot :
            <<c, t>> # <<b, p>> => bkt_idx'[c][t] = bkt_idx[c][t]
  BY <1>1, <1>2, NilAssumption, KeyAssumption DEF TypeOK
<1>5. Occupied' = Occupied \cup {<<b, p>>} /\ <<b, p>> \notin Occupied
  BY <1>1, <1>3, <1>4 DEF Occupied
<1>6. QED
  BY <1>2, <1>5, FS_AddElement DEF CountInv

LEMMA CountDown ==
    ASSUME CountInv, TypeOK, TableInv, KeyOnce,
           NEW b \in Bucket, NEW s \in Slot, bkt_idx[b][s] # NIL,
           RemoveAt(b, s), UNCHANGED hash_field
    PROVE  CountInv'
<1>1. /\ bkt_idx'[b][s] = NIL
      /\ \A c \in Bucket, t \in Slot :
            <<c, t>> # <<b, s>> => bkt_idx'[c][t] = bkt_idx[c][t]
  BY RemoveKeepsTable
<1>2. Occupied' = Occupied \ {<<b, s>>} /\ <<b, s>> \in Occupied
  BY <1>1 DEF Occupied
<1>3. nb' = nb - 1
  BY DEF RemoveAt
<1>4. QED
  BY <1>2, <1>3, FS_RemoveElement DEF CountInv

LEMMA CountSame ==
    ASSUME Inv, CountInv, NEW b \in Bucket, NEW s \in Slot,
           CanFlip(b, s), Flip(b, s), UNCHANGED nb
    PROVE  CountInv'
<1>1. SlotOK(b, s) /\ bkt_idx[b][s] # NIL
  BY DEF Inv, TableInv, CanFlip
<1>2. PICK a \in Bucket, e \in Slot : Moved(b, s, a, e)
  BY <1>1, FlipMoves DEF Inv
<1>3. bkt_idx[a][e] = NIL
  <2>1. SlotOK(a, e) /\ bkt_hash[a][e] = {}
    BY <1>2 DEF Inv, TableInv, Moved
  <2>2. bkt_idx[a][e] # NIL => KeyOf[bkt_idx[a][e]] \in Keys
    BY NilAssumption, KeyAssumption DEF Inv, TypeOK, NodeOrNil
  <2>3. QED
    BY <2>1, <2>2, HashTypes DEF SlotOK
<1>4. /\ <<b, s>> \in Occupied /\ <<a, e>> \notin Occupied
      /\ Occupied' = (Occupied \ {<<b, s>>}) \cup {<<a, e>>}
  BY <1>1, <1>2, <1>3 DEF Occupied, Moved
<1>5. /\ IsFiniteSet(Occupied \ {<<b, s>>})
      /\ Cardinality(Occupied \ {<<b, s>>}) = Cardinality(Occupied) - 1
  BY <1>4, FS_RemoveElement DEF CountInv
<1>6. /\ IsFiniteSet(Occupied')
      /\ Cardinality(Occupied') = Cardinality(Occupied \ {<<b, s>>}) + 1
  BY <1>4, <1>5, FS_AddElement
<1>7. Cardinality(Occupied) \in Int
  BY FS_CardinalityType DEF CountInv
<1>8. QED
  BY <1>5, <1>6, <1>7 DEF CountInv

LEMMA NextCounts ==
    ASSUME Inv, CountInv, [Next]_vars
    PROVE  CountInv'
<1>1. CASE UNCHANGED <<bkt_idx, nb>>
  BY <1>1 DEF CountInv, Occupied
<1>2. ASSUME NEW n \in Nodes, InsertFast(n) PROVE CountInv'
  BY <1>2, FastSlot, CountUp DEF Inv
<1>3. ASSUME NEW n \in Nodes, Remove(n) PROVE CountInv'
  <2> DEFINE b == hash_field[n] \cap Mask
             at == {s \in Slot : bkt_idx[b][s] = n}
  <2>1. CASE at # {} /\ RemoveAt(b, LowestSlot(at)) /\ UNCHANGED hash_field
    <3>1. b \in Bucket /\ n # NIL
      BY NilAssumption, KeyAssumption DEF Bucket
    <3>2. at \in SUBSET Slot
      OBVIOUS
    <3>3. LowestSlot(at) \in at
      BY <2>1, <3>2, LowestSlotIn
    <3>4. LowestSlot(at) \in Slot /\ bkt_idx[b][LowestSlot(at)] # NIL
      BY <3>1, <3>3
    <3>5. QED
      BY <2>1, <3>1, <3>4, CountDown DEF Inv
  <2>2. QED
    BY <1>1, <1>3, <2>1 DEF Remove
<1>4. CASE KickFlip
  BY <1>4, PassOneSlot, CountSame DEF KickFlip
<1>5. CASE KickUnwind
  BY <1>5, UnwindFlips, CountSame DEF KickUnwind
<1>6. CASE InsertAfterKickout
  BY <1>6, KickedSlot, CountUp DEF Inv
<1>7. ASSUME NEW n \in Nodes, InsertDuplicate(n) \/ InsertSlow(n)
      PROVE  CountInv'
  BY <1>1, <1>7 DEF InsertDuplicate, InsertSlow
<1>8. CASE UNCHANGED table
  BY <1>1, <1>8 DEF table
<1>9. CASE UNCHANGED vars
  BY <1>1, <1>9 DEF vars
<1>10. CASE Kick
  BY <1>4, <1>5, <1>6, <1>8, <1>10
     DEF Kick, KickTooDeep, KickScan, KickSkip, KickDescend, KickExhausted,
         KickNext, KickRecheck, InsertTryBk1, InsertFull
<1>11. QED
  BY <1>2, <1>3, <1>7, <1>9, <1>10, StepKinds DEF Insert

(* The count is the number of occupied slots, through every step of every  *)
(* insert, kickout and remove.                                             *)
THEOREM Counts == Spec => []CountExact
<1>1. Init => CountInv
  <2> SUFFICES ASSUME Init PROVE CountInv
    OBVIOUS
  <2>1. Occupied = {} /\ nb = 0
    BY DEF Init, Occupied
  <2>2. QED
    BY <2>1, FS_EmptySet DEF CountInv
<1>2. CountInv => CountExact
  BY DEF CountInv, CountExact, Occupied
<1>3. QED
  BY <1>1, <1>2, NextCounts, Invariance, PTL DEF Spec

-----------------------------------------------------------------------------
(* The map *)

(* What find shows is the linked elements under their keys.                *)
Shown == [k \in Found |-> Find(k)]

LEMMA ShownIs ==
    ASSUME Inv
    PROVE  Shown = MapOn(LinkedNodes, KeyOf) /\ KeysDiffer(LinkedNodes, KeyOf)
<1>1. KeysDiffer(LinkedNodes, KeyOf)
  BY NilAssumption, KeyAssumption DEF KeysDiffer, LinkedNodes, Linked, Inv, KeyOnce
<1>2. ASSUME NEW k \in Keys, Find(k) # NIL
      PROVE  \E n \in LinkedNodes : KeyOf[n] = k
  <2>1. ASSUME NEW c \in Bucket, Hits(c, k) # {}
        PROVE  \E n \in LinkedNodes : KeyOf[n] = k
    <3>1. PICK t \in Slot : bkt_idx[c][t] # NIL /\ KeyOf[bkt_idx[c][t]] = k
      BY <2>1 DEF Hits
    <3>2. bkt_idx[c][t] \in LinkedNodes
      BY <3>1 DEF LinkedNodes, Linked, Inv, TypeOK, NodeOrNil
    <3>3. QED
      BY <3>1, <3>2
  <2>2. Hits(Bk0(k), k) # {} \/ Hits(Bk1(k), k) # {}
    BY <1>2 DEF Find
  <2>3. QED
    BY <2>1, <2>2, HashTypes
<1>3. \A n \in LinkedNodes : Find(KeyOf[n]) = n /\ n # NIL /\ KeyOf[n] \in Keys
  BY LinkedIsFound, NilAssumption, KeyAssumption DEF LinkedNodes
<1>4. Found = KeysOf(LinkedNodes, KeyOf)
  BY <1>2, <1>3 DEF Found, KeysOf
<1>5. Shown = MapOn(LinkedNodes, KeyOf)
  <2>1. Shown = [k \in KeysOf(LinkedNodes, KeyOf) |-> Shown[k]]
    BY <1>4 DEF Shown
  <2>2. \A n \in LinkedNodes : Shown[KeyOf[n]] = n
    BY <1>3, <1>4, MapOnAt, <1>1 DEF Shown
  <2>3. QED
    BY <1>1, <2>1, <2>2, MapOnIs
<1>6. QED
  BY <1>1, <1>5

LEMMA ShownKeys ==
    ASSUME Inv, NEW k
    PROVE  k \in DOMAIN Shown <=> \E m \in LinkedNodes : KeyOf[m] = k
<1>1. Shown = MapOn(LinkedNodes, KeyOf)
  BY ShownIs
<1>2. DOMAIN Shown = KeysOf(LinkedNodes, KeyOf)
  BY <1>1, MapOnDomain
<1>3. QED
  BY <1>2 DEF KeysOf

LEMMA ShownNext ==
    Inv' => /\ Shown' = MapOn(LinkedNodes', KeyOf)
            /\ KeysDiffer(LinkedNodes', KeyOf)
<1>1. Inv => Shown = MapOn(LinkedNodes, KeyOf) /\ KeysDiffer(LinkedNodes, KeyOf)
  BY ShownIs
<1>2. (Inv => Shown = MapOn(LinkedNodes, KeyOf) /\ KeysDiffer(LinkedNodes, KeyOf))'
  BY <1>1, PTL
<1>3. QED
  BY <1>2

-----------------------------------------------------------------------------
(* What a call does to the linked elements *)

LEMMA FastLinks ==
    ASSUME Inv, NEW n \in Nodes, InsertFast(n)
    PROVE  /\ \A m \in LinkedNodes : KeyOf[m] # KeyOf[n]
           /\ LinkedNodes' = LinkedNodes \cup {n}
           /\ Answer("insert", n, NIL)
<1>1. KeyOf[n] \in Keys
  BY NilAssumption, KeyAssumption
<1>2. \A c \in Bucket, t \in Slot :
        bkt_idx[c][t] # NIL => KeyOf[bkt_idx[c][t]] # KeyOf[n]
  BY <1>1, FindNilIsAbsent DEF Inv, InsertFast
<1>3. \A m \in LinkedNodes : KeyOf[m] # KeyOf[n]
  BY <1>2, NilAssumption, KeyAssumption DEF LinkedNodes, Linked
<1>4. PICK i \in {0, 1}, p \in Slot :
        /\ Place(n, i, p)
        /\ bkt_hash[IF i = 0 THEN Bk0(KeyOf[n]) ELSE Bk1(KeyOf[n])][p] = {}
  BY FastSlot
<1>5. QED
  BY <1>2, <1>3, <1>4, PlaceKeepsTable DEF Inv, Place

LEMMA AbsentKey ==
    ASSUME Inv, NEW k \in Keys
    PROVE  Find(k) = NIL <=> \A m \in LinkedNodes : KeyOf[m] # k
<1>1. CASE Find(k) = NIL
  BY <1>1, FindNilIsAbsent, NilAssumption, KeyAssumption DEF Inv, LinkedNodes, Linked
<1>2. CASE Find(k) # NIL
  <2>1. k \in Found
    BY <1>2 DEF Found
  <2>2. k \in KeysOf(LinkedNodes, KeyOf)
    BY <2>1, ShownIs DEF Shown, MapOn
  <2>3. QED
    BY <1>2, <2>2 DEF KeysOf
<1>3. QED
  BY <1>1, <1>2

LEMMA KickedLinks ==
    ASSUME Inv, InsertAfterKickout
    PROVE  /\ elm \in Nodes
           /\ \A m \in LinkedNodes : KeyOf[m] # KeyOf[elm]
           /\ LinkedNodes' = LinkedNodes \cup {elm}
           /\ Answer("insert", elm, NIL)
<1>1. /\ elm \in Nodes /\ side \in {0, 1} /\ pos \in Slot
      /\ Place(elm, side, pos)
  BY KickedSlot
<1>2. LinkedNodes' = LinkedNodes \cup {elm}
  BY <1>1, KickedSlot, PlaceKeepsTable DEF Inv
<1>3. \A m \in LinkedNodes : KeyOf[m] # KeyOf[elm]
  BY KickedSlot, NilAssumption, KeyAssumption DEF LinkedNodes, Linked
<1>4. QED
  BY <1>1, <1>2, <1>3 DEF Place

(* The steps of a kickout that do not answer. *)
Inside == \/ KickTooDeep \/ KickFlip \/ KickScan \/ KickSkip \/ KickDescend
          \/ KickExhausted \/ KickNext \/ KickUnwind \/ KickRecheck
          \/ InsertTryBk1

LEMMA InsideKeeps ==
    ASSUME Inv, Inside
    PROVE  LinkedNodes' = LinkedNodes /\ UNCHANGED <<ret, elm>> /\ phase # "idle" /\ phase' # "idle"
<1>1. UNCHANGED <<ret, elm>> /\ phase # "idle" /\ phase' # "idle"
  BY DEF Inside, KickTooDeep, KickFlip, KickScan, KickSkip, KickDescend, KickExhausted,
     KickNext, KickUnwind, KickRecheck, InsertTryBk1, Returning, AtRoot, Call, Return,
     ReturnOn, NextSlot
<1>2. CASE KickFlip
  BY <1>1, <1>2, PassOneSlot, FlipKeepsInv DEF KickFlip
<1>3. CASE KickUnwind
  BY <1>1, <1>3, KickUnwindInv
<1>4. CASE ~KickFlip /\ ~KickUnwind
  <2>1. UNCHANGED bkt_idx
    BY <1>4 DEF Inside, KickTooDeep, KickScan, KickSkip, KickDescend, KickExhausted,
       KickNext, KickRecheck, InsertTryBk1, table
  <2>2. QED
    BY <1>1, <2>1, SameLinked
<1>5. QED
  BY <1>1, <1>2, <1>3, <1>4

LEMMA RemoveUnlinks ==
    ASSUME Inv, NEW n \in Nodes, Remove(n)
    PROVE  \/ /\ n \in LinkedNodes /\ LinkedNodes' = LinkedNodes \ {n}
              /\ Answer("remove", n, n)
           \/ /\ n \notin LinkedNodes /\ LinkedNodes' = LinkedNodes
              /\ Answer("remove", n, NIL)
<1> DEFINE b == hash_field[n] \cap Mask
           at == {s \in Slot : bkt_idx[b][s] = n}
<1>1. b \in Bucket /\ n # NIL
  BY NilAssumption, KeyAssumption DEF Bucket
<1>2. \A c \in Bucket, t \in Slot : bkt_idx[c][t] = n => c = b
  BY <1>1 DEF Inv, TableInv, SlotOK
<1>3. CASE at # {} /\ RemoveAt(b, LowestSlot(at)) /\ Answer("remove", n, n)
  <2> DEFINE s == LowestSlot(at)
  <2>1. s \in Slot /\ bkt_idx[b][s] = n
    <3>1. at \in SUBSET Slot
      OBVIOUS
    <3>2. s \in at
      BY <1>3, <3>1, LowestSlotIn
    <3>3. QED
      BY <3>2
  <2>2. /\ bkt_idx'[b][s] = NIL
        /\ \A c \in Bucket, t \in Slot :
              <<c, t>> # <<b, s>> => bkt_idx'[c][t] = bkt_idx[c][t]
    BY <1>1, <1>3, <2>1, RemoveKeepsTable DEF Inv, Remove
  <2> HIDE DEF s
  <2>3. \A c \in Bucket, t \in Slot : bkt_idx[c][t] = n => <<c, t>> = <<b, s>>
    BY <1>1, <2>1 DEF Inv, KeyOnce
  <2>4. \A m \in Nodes : Linked(m)' <=> Linked(m) /\ m # n
    <3>1. SUFFICES ASSUME NEW m \in Nodes
                   PROVE  Linked(m)' <=> Linked(m) /\ m # n
      OBVIOUS
    <3>2. m # NIL
      BY NilAssumption
    <3>3. ASSUME NEW c \in Bucket, NEW t \in Slot, bkt_idx'[c][t] = m
          PROVE  bkt_idx[c][t] = m /\ m # n
      <4>1. <<c, t>> # <<b, s>>
        BY <2>2, <3>2, <3>3
      <4>2. bkt_idx[c][t] = m
        BY <2>2, <3>3, <4>1
      <4>3. QED
        BY <2>3, <4>1, <4>2
    <3>4. ASSUME NEW c \in Bucket, NEW t \in Slot, bkt_idx[c][t] = m, m # n
          PROVE  bkt_idx'[c][t] = m
      BY <2>1, <2>2, <3>4
    <3>5. QED
      BY <3>3, <3>4 DEF Linked
  <2>5. Linked(n)
    BY <1>1, <2>1 DEF Linked
  <2>6. QED
    BY <1>3, <2>4, <2>5 DEF LinkedNodes
<1>4. CASE at = {} /\ Answer("remove", n, NIL) /\ UNCHANGED <<bkt_hash, bkt_idx, nb>>
  <2>1. ~Linked(n)
    BY <1>2, <1>4 DEF Linked
  <2>2. QED
    BY <1>4, <2>1, SameLinked DEF LinkedNodes
<1>5. QED
  BY <1>3, <1>4 DEF Remove

-----------------------------------------------------------------------------
(* The table implements the map *)

(* ret says that an insert has begun, and of which element, while its      *)
(* kickout runs.                                                           *)
RetInv ==
    /\ phase = "idle" <=> ret.op # "begun"
    /\ phase # "idle" => ret.elm = elm

LEMMA RetStep ==
    ASSUME Inv, RetInv, [Next]_vars
    PROVE  RetInv'
<1>1. ASSUME NEW n \in Nodes, Insert(n) PROVE RetInv'
  BY <1>1 DEF Insert, InsertDuplicate, InsertFast, InsertSlow, Place, Answer, Call,
     stack, RetInv, Idle
<1>2. ASSUME NEW n \in Nodes, Remove(n) PROVE RetInv'
  BY <1>2 DEF Remove, Answer, stack, RetInv, Idle
<1>3. CASE Inside
  BY <1>3, InsideKeeps DEF RetInv
<1>4. CASE InsertAfterKickout
  BY <1>4 DEF InsertAfterKickout, Place, Answer, StackReset, RetInv
<1>5. CASE InsertFull
  BY <1>5 DEF InsertFull, Answer, StackReset, RetInv
<1>6. CASE UNCHANGED vars
  BY <1>6 DEF vars, RetInv
<1>7. QED
  BY <1>1, <1>2, <1>3, <1>4, <1>5, <1>6, StepKinds DEF Kick, Inside

LEMMA MapInit == Init => AsMap!Init
<1> SUFFICES ASSUME Init PROVE AsMap!Init
  OBVIOUS
<1>1. Found = {}
  <2>1. \A c \in Bucket, k \in Keys : Hits(c, k) = {}
    BY DEF Init, Hits
  <2>2. QED
    BY <2>1, HashTypes DEF Found, Find
<1>2. Shown = <<>>
  BY <1>1 DEF Shown
<1>3. QED
  BY <1>2 DEF Init, AsMap!Init, Shown

LEMMA MapInsert ==
    ASSUME Inv, Inv', RetInv, NEW n \in Nodes, Insert(n)
    PROVE  [AsMap!Next]_(AsMap!vars)
<1> DEFINE k == KeyOf[n]
<1>1. k \in Keys /\ phase = "idle" /\ ret.op # "begun"
  BY NilAssumption, KeyAssumption
     DEF Insert, InsertDuplicate, InsertFast, InsertSlow, Idle, RetInv
<1>2. Shown = MapOn(LinkedNodes, KeyOf) /\ KeysDiffer(LinkedNodes, KeyOf)
      /\ Shown' = MapOn(LinkedNodes', KeyOf)
  BY ShownIs, ShownNext
<1>3. CASE InsertDuplicate(n)
  <2> DEFINE d == Find(k)
  <2>1. d # NIL /\ Answer("insert", n, d) /\ Shown' = Shown
    BY <1>2, <1>3, SameLinked DEF InsertDuplicate
  <2>2. PICK m \in LinkedNodes : KeyOf[m] = k
    BY <1>1, <2>1, AbsentKey
  <2>3. d = m /\ m \in Nodes
    BY <2>2, LinkedIsFound DEF LinkedNodes
  <2>4. k \in DOMAIN Shown /\ Shown[k] = m
    BY <1>2, <2>2, MapOnAt, MapOnDomain
  <2> HIDE DEF d
  <2>5. AsMap!Duplicate(n)
    BY <1>1, <2>1, <2>2, <2>3, <2>4
       DEF AsMap!Duplicate, AsMap!Answer, Answer, AsMap!MayRun, AsMap!IsIn, Shown
  <2>6. QED
    BY <2>5 DEF AsMap!Next
<1>4. CASE InsertFast(n)
  <2>1. /\ \A m \in LinkedNodes : KeyOf[m] # k
        /\ LinkedNodes' = LinkedNodes \cup {n}
        /\ Answer("insert", n, NIL)
    BY <1>4, FastLinks
  <2>2. k \notin DOMAIN Shown
    BY <2>1, ShownKeys
  <2>3. Shown' = [j \in DOMAIN Shown \cup {k} |-> IF j = k THEN n ELSE Shown[j]]
    BY <1>2, <2>1, MapAdds
  <2>4. AsMap!Inserted(n)
    BY <1>1, <2>1, <2>2, <2>3
       DEF AsMap!Inserted, AsMap!Answer, Answer, AsMap!MayRun, Shown
  <2>5. QED
    BY <2>4 DEF AsMap!Next
<1>5. CASE InsertSlow(n)
  <2>1. Shown' = Shown /\ Answer("begun", n, NIL)
    BY <1>2, <1>5, SameLinked DEF InsertSlow
  <2>2. AsMap!Begun(n)
    BY <1>1, <2>1 DEF AsMap!Begun, AsMap!Answer, Answer, Shown
  <2>3. QED
    BY <2>2 DEF AsMap!Next
<1>6. QED
  BY <1>3, <1>4, <1>5 DEF Insert

LEMMA MapRemove ==
    ASSUME Inv, Inv', RetInv, NEW n \in Nodes, Remove(n)
    PROVE  [AsMap!Next]_(AsMap!vars)
<1> DEFINE k == KeyOf[n]
<1>1. ret.op # "begun"
  BY DEF Remove, Idle, RetInv
<1>2. Shown = MapOn(LinkedNodes, KeyOf) /\ KeysDiffer(LinkedNodes, KeyOf)
      /\ Shown' = MapOn(LinkedNodes', KeyOf)
  BY ShownIs, ShownNext
<1>3. n \in LinkedNodes <=> k \in DOMAIN Shown /\ Shown[k] = n
  <2>1. n \in LinkedNodes => k \in DOMAIN Shown /\ Shown[k] = n
    BY <1>2, MapOnAt, MapOnDomain
  <2>2. ASSUME k \in DOMAIN Shown, Shown[k] = n
        PROVE  n \in LinkedNodes
    <3>1. PICK m \in LinkedNodes : KeyOf[m] = k
      BY <2>2, ShownKeys
    <3>2. QED
      BY <1>2, <2>2, <3>1, MapOnAt
  <2>3. QED
    BY <2>1, <2>2
<1>4. CASE n \in LinkedNodes /\ LinkedNodes' = LinkedNodes \ {n} /\ Answer("remove", n, n)
  <2>1. Shown' = [j \in DOMAIN Shown \ {k} |-> Shown[j]]
    BY <1>2, <1>4, MapDrops
  <2>2. AsMap!Remove(n)
    BY <1>1, <1>3, <1>4, <2>1 DEF AsMap!Remove, AsMap!Answer, Answer, AsMap!IsIn, Shown
  <2>3. QED
    BY <2>2 DEF AsMap!Next
<1>5. CASE n \notin LinkedNodes /\ LinkedNodes' = LinkedNodes /\ Answer("remove", n, NIL)
  <2>1. Shown' = Shown
    BY <1>2, <1>5
  <2>2. AsMap!Remove(n)
    BY <1>1, <1>3, <1>5, <2>1 DEF AsMap!Remove, AsMap!Answer, Answer, AsMap!IsIn, Shown
  <2>3. QED
    BY <2>2 DEF AsMap!Next
<1>6. QED
  BY <1>4, <1>5, RemoveUnlinks

LEMMA MapKick ==
    ASSUME Inv, Inv', RetInv, Kick
    PROVE  [AsMap!Next]_(AsMap!vars)
<1>1. Shown = MapOn(LinkedNodes, KeyOf) /\ KeysDiffer(LinkedNodes, KeyOf)
      /\ Shown' = MapOn(LinkedNodes', KeyOf)
  BY ShownIs, ShownNext
<1>2. CASE Inside
  <2>1. Shown' = Shown /\ UNCHANGED ret
    BY <1>1, <1>2, InsideKeeps
  <2>2. QED
    BY <2>1 DEF AsMap!vars, Shown
<1>3. CASE InsertAfterKickout
  <2>1. /\ elm \in Nodes
        /\ \A m \in LinkedNodes : KeyOf[m] # KeyOf[elm]
        /\ LinkedNodes' = LinkedNodes \cup {elm}
        /\ Answer("insert", elm, NIL)
    BY <1>3, KickedLinks
  <2>2. KeyOf[elm] \notin DOMAIN Shown
    BY <2>1, ShownKeys
  <2>3. Shown' = [j \in DOMAIN Shown \cup {KeyOf[elm]} |->
                    IF j = KeyOf[elm] THEN elm ELSE Shown[j]]
    BY <1>1, <2>1, MapAdds
  <2>4. ret.op = "begun" => ret.elm = elm
    BY <1>3 DEF RetInv, InsertAfterKickout, AtRoot
  <2>5. AsMap!Inserted(elm)
    BY <2>1, <2>2, <2>3, <2>4
       DEF AsMap!Inserted, AsMap!Answer, Answer, AsMap!MayRun, Shown
  <2>6. QED
    BY <2>1, <2>5 DEF AsMap!Next
<1>4. CASE InsertFull
  <2>1. elm \in Nodes /\ Answer("insert", elm, elm) /\ UNCHANGED bkt_idx
    BY <1>4, SlowPathElm DEF InsertFull, AtRoot, table
  <2>2. Shown' = Shown
    BY <1>1, <2>1, SameLinked
  <2>3. KeyOf[elm] \notin DOMAIN Shown
    <3>1. \A m \in LinkedNodes : KeyOf[m] # KeyOf[elm]
      BY <2>1, NilAssumption DEF Inv, NewKey, LinkedNodes, Linked
    <3>2. QED
      BY <3>1, ShownKeys
  <2>4. ret.op = "begun" => ret.elm = elm
    BY <1>4 DEF RetInv, InsertFull, AtRoot
  <2>5. AsMap!Full(elm)
    BY <2>1, <2>2, <2>3, <2>4
       DEF AsMap!Full, AsMap!Answer, Answer, AsMap!MayRun, Shown
  <2>6. QED
    BY <2>1, <2>5 DEF AsMap!Next
<1>5. QED
  BY <1>2, <1>3, <1>4 DEF Kick, Inside

LEMMA MapStep == Inv /\ RetInv /\ [Next]_vars => [AsMap!Next]_(AsMap!vars)
<1> SUFFICES ASSUME Inv, RetInv, [Next]_vars
             PROVE  [AsMap!Next]_(AsMap!vars)
  OBVIOUS
<1>1. Inv'
  BY NextInv
<1>2. CASE UNCHANGED vars
  <2>1. Shown' = Shown
    BY <1>1, <1>2, ShownIs, ShownNext, SameLinked DEF vars
  <2>2. QED
    BY <1>2, <2>1 DEF AsMap!vars, Shown, vars
<1>3. QED
  BY <1>1, <1>2, MapInsert, MapRemove, MapKick, StepKinds

(* The fingerprint table is a finite map, with the documented return       *)
(* values: kickouts are invisible to find, a refused insert changes        *)
(* nothing find shows, and remove answers what find would have shown.      *)
THEOREM FpImplementsMap == Spec => RefinesMap
<1>1. Init => RetInv
  BY DEF Init, StackInit, RetInv
<1>2. Inv /\ RetInv /\ [Next]_vars => RetInv'
  BY RetStep
<1>3. QED
  BY <1>1, <1>2, MapInit, MapStep, InitInv, NextInv, PTL DEF Spec, RefinesMap, AsMap!Spec

-----------------------------------------------------------------------------
(* Until the first element moves, and after *)

(* What an activation that waits for a recursive call has saved.           *)
LEMMA WaitingFacts ==
    ASSUME Inv, NEW d \in Waiting, Unmoved(frame[d])
    PROVE  /\ d \in 1 .. FollowDepth /\ d > depth
           /\ frame[d].bk \in Bucket /\ frame[d].s \in Slot
           /\ frame[d].idx # NIL /\ KeyOf[frame[d].idx] \in Keys
           /\ bkt_idx[frame[d].bk][frame[d].s] = frame[d].idx
           /\ Opposite(KeyOf[frame[d].idx], frame[d].bk, frame[d - 1].bk)
<1>1. d \in 1 .. FollowDepth /\ d > depth /\ frame[d] \in Frame
  BY DepthAssumption DEF Waiting, Inv, TypeOK
<1>2. /\ frame[d].s < EntrySz /\ frame[d].idx # NIL
      /\ Opposite(KeyOf[frame[d].idx], frame[d].bk, frame[d - 1].bk)
  BY <1>1 DEF Inv, StackInv
<1>3. frame[d].idx \in Nodes /\ KeyOf[frame[d].idx] \in Keys
  BY <1>1, <1>2, KeyAssumption DEF Frame, NodeOrNil
<1>4. QED
  BY <1>1, <1>2, <1>3, SizeAssumption DEF Frame, Slot, Unmoved

(* Activations waiting at the same slot saved the same element, and so the *)
(* calls below them work on the same bucket.                               *)
LEMMA SameSlotSameBelow ==
    ASSUME Inv, NEW d \in Waiting, NEW e \in Waiting,
           Unmoved(frame[d]), Unmoved(frame[e]),
           frame[d].bk = frame[e].bk, frame[d].s = frame[e].s
    PROVE  /\ frame[d - 1].bk = frame[e - 1].bk
           /\ frame[d - 1].bk # frame[d].bk
<1>1. frame[d].idx = frame[e].idx
  BY WaitingFacts
<1>2. /\ KeyOf[frame[d].idx] \in Keys
      /\ Opposite(KeyOf[frame[d].idx], frame[d].bk, frame[d - 1].bk)
      /\ Opposite(KeyOf[frame[d].idx], frame[d].bk, frame[e - 1].bk)
  BY <1>1, WaitingFacts
<1>3. QED
  BY <1>2, HashTypes DEF Opposite

(* When the first element of a kickout is about to move, the activations   *)
(* that wait are at different slots, if there are no more than three.      *)
LEMMA WaitingApart ==
    ASSUME Inv, PathInv, KickFlip, FollowDepth <= 4,
           NEW d \in Waiting, NEW e \in Waiting,
           frame[d].bk = frame[e].bk, frame[d].s = frame[e].s,
           d > e
    PROVE  FALSE
<1>1. /\ depth \in Nat /\ depth > 0 /\ Still
      /\ \E s \in Slot : CanFlip(frame[depth].bk, s)
  BY DEF KickFlip, Inv, TypeOK, Still, top
<1>2. /\ d \in 1 .. FollowDepth /\ e \in 1 .. FollowDepth
      /\ e > depth
  BY DEF Waiting
<1>3. /\ frame[d - 1].bk = frame[e - 1].bk
      /\ frame[d - 1].bk # frame[d].bk
  BY SameSlotSameBelow DEF PathInv
<1>4. d - 1 \in Waiting
  BY <1>1, <1>2, DepthAssumption DEF Waiting
<1>5. Stuck(frame[d - 1].bk)
  BY <1>1, <1>4 DEF PathInv, Scanned
<1>6. e - 1 # depth
  BY <1>1, <1>3, <1>5 DEF Stuck
<1>7. d - 1 # e
  BY <1>3
<1>8. QED
  BY <1>1, <1>2, <1>6, <1>7, DepthAssumption

(* Moving another slot's element leaves a waiting activation's slot alone: *)
(* the slot it fills was empty, that one was not.                          *)
LEMMA FlipSpares ==
    ASSUME Inv, NEW b \in Bucket, NEW s \in Slot, CanFlip(b, s), Flip(b, s),
           NEW d \in Waiting, Unmoved(frame[d]),
           <<frame[d].bk, frame[d].s>> # <<b, s>>
    PROVE  /\ bkt_hash'[frame[d].bk][frame[d].s] = frame[d].fp
           /\ bkt_idx'[frame[d].bk][frame[d].s] = frame[d].idx
<1>1. SlotOK(b, s)
  BY DEF Inv, TableInv
<1>2. PICK a \in Bucket, e \in Slot : Moved(b, s, a, e)
  BY <1>1, FlipMoves DEF Inv
<1>3. /\ frame[d].bk \in Bucket /\ frame[d].s \in Slot
      /\ bkt_idx[frame[d].bk][frame[d].s] # NIL
  BY WaitingFacts
<1>4. bkt_hash[frame[d].bk][frame[d].s] # {}
  <2> DEFINE n == bkt_idx[frame[d].bk][frame[d].s]
  <2>1. n \in Nodes /\ KeyOf[n] \in Keys
    BY <1>3, KeyAssumption DEF Inv, TypeOK, NodeOrNil
  <2>2. bkt_hash[frame[d].bk][frame[d].s] = Fp(KeyOf[n])
    BY <1>3 DEF Inv, TableInv, SlotOK
  <2>3. QED
    BY <2>1, <2>2, HashTypes
<1>5. <<frame[d].bk, frame[d].s>> # <<a, e>>
  BY <1>2, <1>4 DEF Moved
<1>6. QED
  BY <1>2, <1>3, <1>5 DEF Moved, Unmoved

LEMMA PathFlip ==
    ASSUME Inv, PathInv, KickFlip, FollowDepth <= 4
    PROVE  PathInv'
<1>1. PICK p \in Slot : /\ top.bk \in Bucket /\ pos' = p
                        /\ CanFlip(top.bk, p) /\ Flip(top.bk, p)
  BY PassOneSlot
<1>2. ~Still' /\ UNCHANGED <<depth, frame>> /\ Still
  BY <1>1, SizeAssumption DEF KickFlip, Return, Still, Slot
<1>3. Waiting' = Waiting
  BY <1>2 DEF Waiting
<1>4. ASSUME NEW d \in Waiting
      PROVE  Unmoved(frame[d])'
  <2>1. frame[d].bk # top.bk
    BY <1>1, <1>2 DEF PathInv, Scanned, Stuck
  <2>2. QED
    BY <1>1, <1>2, <2>1, FlipSpares DEF PathInv, Unmoved
<1>5. ASSUME NEW d \in Waiting, NEW e \in Waiting,
             frame[d].bk = frame[e].bk, frame[d].s = frame[e].s
      PROVE  d = e
  BY <1>5, WaitingApart, DepthAssumption DEF Waiting
<1>6. QED
  BY <1>2, <1>3, <1>4, <1>5 DEF PathInv

LEMMA PathUnwind ==
    ASSUME Inv, PathInv, KickUnwind
    PROVE  PathInv'
<1>1. /\ Returning /\ pos >= 0 /\ ReturnOn(Caller.s) /\ ~Still
  BY DEF KickUnwind, Returning, Still
<1>2. /\ Caller.bk \in Bucket /\ Caller.s \in Slot
      /\ CanFlip(Caller.bk, Caller.s) /\ Flip(Caller.bk, Caller.s)
  BY UnwindFlips
<1>3. /\ depth \in Nat /\ depth + 1 \in 1 .. FollowDepth
      /\ depth' = depth + 1 /\ phase' = "return" /\ pos' = Caller.s /\ frame' = Popped
      /\ \A d \in 0 .. FollowDepth : d # depth => Popped[d] = frame[d]
  BY <1>1, CallerFacts DEF ReturnOn, Inv, TypeOK
<1>4. ~Still'
  BY <1>2, <1>3, SizeAssumption DEF Still, Slot
<1>5. /\ depth + 1 \in Waiting
      /\ Waiting' = Waiting \ {depth + 1}
  BY <1>3, DepthAssumption DEF Waiting
<1>6. \A d \in Waiting' : d \in Waiting /\ d # depth + 1 /\ frame'[d] = frame[d]
  BY <1>3, <1>5, DepthAssumption DEF Waiting
<1>7. ASSUME NEW d \in Waiting'
      PROVE  Unmoved(frame[d])'
  <2>1. <<frame[d].bk, frame[d].s>> # <<Caller.bk, Caller.s>>
    BY <1>1, <1>5, <1>6 DEF PathInv, Caller
  <2>2. QED
    BY <1>2, <1>6, <2>1, FlipSpares DEF PathInv, Unmoved
<1>8. \A d, e \in Waiting' :
        frame'[d].bk = frame'[e].bk /\ frame'[d].s = frame'[e].s => d = e
  BY <1>1, <1>6 DEF PathInv
<1>9. QED
  BY <1>4, <1>7, <1>8 DEF PathInv

(* No activation waits or scans. *)
LEMMA PathFresh ==
    ASSUME depth' = FollowDepth, phase' \notin {"scan", "return"}
    PROVE  PathInv' /\ Still'
<1>1. Waiting' = {} /\ Scanned' = {}
  BY DepthAssumption DEF Waiting, Scanned
<1>2. QED
  BY <1>1 DEF PathInv, Still

LEMMA StuckStays ==
    ASSUME UNCHANGED table, NEW b, NEW s
    PROVE  /\ CanFlip(b, s)' <=> CanFlip(b, s)
           /\ Stuck(b)' <=> Stuck(b)
BY DEF table, Stuck, CanFlip, AltOf, Empties

(* As long as nothing has moved. *)
LEMMA PathStill ==
    ASSUME Inv, PathInv, Still, UNCHANGED table,
           KickTooDeep \/ KickScan \/ KickSkip \/ KickDescend \/ KickExhausted \/ KickNext
    PROVE  PathInv' /\ Still'
<1>1. /\ depth \in 0 .. FollowDepth /\ frame \in [0 .. FollowDepth -> Frame]
      /\ FollowDepth \in Nat
  BY DepthAssumption DEF Inv, TypeOK
<1>2. Still'
  BY DEF KickTooDeep, KickScan, KickSkip, KickDescend, KickExhausted, KickNext, Still,
     Return, Call, NextSlot
<1>3. \A d \in Scanned' :
         \/ d \in Scanned /\ frame'[d].bk = frame[d].bk
         \/ Stuck(frame[d].bk) /\ frame'[d].bk = frame[d].bk
  <2>1. CASE KickTooDeep \/ KickExhausted
    BY <2>1 DEF KickTooDeep, KickExhausted, Return, Scanned, Waiting
  <2>2. CASE KickScan
    BY <2>2 DEF KickScan, Scanned, Waiting, Stuck, top
  <2>3. CASE KickSkip
    BY <1>1, <2>3 DEF KickSkip, Scanned, Waiting, Frame
  <2>4. CASE KickDescend
    BY <1>1, <2>4 DEF KickDescend, Call, Scanned, Waiting, Frame
  <2>5. CASE KickNext
    BY <1>1, <2>5 DEF KickNext, NextSlot, Popped, Returning, Scanned, Waiting, Frame
  <2>6. QED
    BY <2>1, <2>2, <2>3, <2>4, <2>5
<1>4. \A d \in Waiting' :
         \/ d \in Waiting /\ frame'[d] = frame[d]
         \/ Unmoved(frame'[d])
  <2>1. CASE KickTooDeep \/ KickExhausted \/ KickScan
    BY <2>1 DEF KickTooDeep, KickExhausted, KickScan, Return, Waiting
  <2>2. CASE KickSkip
    BY <1>1, <2>2 DEF KickSkip, Waiting
  <2>3. CASE KickDescend
    <3>1. /\ depth > 0 /\ depth' = depth - 1
          /\ \A d \in 1 .. FollowDepth : d > depth => frame'[d] = frame[d]
          /\ frame'[depth] = [frame[depth] EXCEPT !.fp = bkt_hash[top.bk][top.s],
                                                 !.idx = bkt_idx[top.bk][top.s]]
      BY <1>1, <2>3 DEF KickDescend, Call, Inv, StackInv, top
    <3>2. Unmoved(frame'[depth])
      BY <1>1, <3>1 DEF Unmoved, Frame, top
    <3>3. Waiting' = Waiting \cup {depth}
      BY <1>1, <3>1 DEF Waiting
    <3>4. QED
      BY <3>1, <3>2, <3>3 DEF Waiting
  <2>4. CASE KickNext
    BY <1>1, <2>4 DEF KickNext, NextSlot, Popped, Returning, Waiting
  <2>5. QED
    BY <2>1, <2>2, <2>3, <2>4
<1>5. \A d \in Scanned' : Stuck(frame[d].bk)'
  BY <1>3, StuckStays DEF PathInv, Stuck
<1>6. \A d \in Waiting' : Unmoved(frame[d])'
  BY <1>4 DEF PathInv, Unmoved, table
<1>7. QED
  BY <1>2, <1>5, <1>6 DEF PathInv

(* The activation that a recursive call returns to waits. *)
LEMMA CallerUnmoved ==
    ASSUME Inv, PathInv, Returning
    PROVE  Unmoved(Caller)
<1>1. depth + 1 \in Waiting
  BY CallerFacts, DepthAssumption DEF Waiting, Inv, TypeOK
<1>2. QED
  BY <1>1 DEF PathInv, Caller

LEMMA PathStep ==
    ASSUME Inv, PathInv, [Next]_vars, FollowDepth <= 4
    PROVE  PathInv'
<1>1. ASSUME NEW n \in Nodes, Insert(n) \/ Remove(n) PROVE PathInv'
  BY <1>1, PathFresh DEF Insert, InsertDuplicate, InsertFast, InsertSlow, Remove, Call,
     stack, Idle, Inv, StackInv
<1>2. CASE KickTooDeep \/ KickScan \/ KickSkip \/ KickDescend \/ KickExhausted \/ KickNext
  <2>1. Still /\ UNCHANGED table
    BY <1>2 DEF KickTooDeep, KickScan, KickSkip, KickDescend, KickExhausted, KickNext, Still
  <2>2. QED
    BY <1>2, <2>1, PathStill
<1>3. CASE KickRecheck
  BY <1>3, CallerUnmoved DEF KickRecheck
<1>4. CASE InsertTryBk1 \/ InsertAfterKickout \/ InsertFull
  BY <1>4, PathFresh DEF InsertTryBk1, InsertAfterKickout, InsertFull, Call, StackReset
<1>5. CASE UNCHANGED vars
  BY <1>5 DEF vars, PathInv, Still, Scanned, Waiting, Stuck, CanFlip, AltOf, Empties, Unmoved
<1>6. QED
  BY <1>1, <1>2, <1>3, <1>4, <1>5, PathFlip, PathUnwind, StepKinds DEF Kick

(* Up to the depth the code compiles in, the re-check is dead code. *)
THEOREM RecheckNeverRuns ==
    ASSUME FollowDepth <= 4
    PROVE  Spec => NeverRechecks
<1>1. Init => PathInv
  BY DepthAssumption DEF Init, StackInit, PathInv, Still, Scanned, Waiting
<1>2. Inv /\ PathInv /\ [Next]_vars => PathInv'
  BY PathStep
<1>3. Inv /\ PathInv => ~KickRecheck
  BY CallerUnmoved DEF KickRecheck
<1>4. QED
  BY <1>1, <1>2, <1>3, InitInv, NextInv, PTL DEF Spec, NeverRechecks

-----------------------------------------------------------------------------
(* The table *)

(* The operators of RixTable, read in terms of this module.                *)
LEMMA TableOps ==
    /\ AsTable!EmptyTable = [b \in Bucket |-> [s \in Slot |-> NIL]]
    /\ \A t : AsTable!LinkedIn(t) = {t[b][s] : b \in Bucket, s \in Slot} \ {NIL}
    /\ \A t, b : AsTable!Room(t, b) = {s \in Slot : t[b][s] = NIL}
    /\ \A k : AsTable!Cands(k) = {Bk0(k), Bk1(k)}
    /\ \A k : AsTable!Bk0(k) = Bk0(k) /\ AsTable!Bk1(k) = Bk1(k)
    /\ \A t, b, s, n : AsTable!Put(t, b, s, n) = [t EXCEPT ![b][s] = n]
    /\ \A S : AsTable!LowestSlot(S) = LowestSlot(S)
    /\ \A t, n : AsTable!Without(t, n) =
         [b \in Bucket |-> [s \in Slot |-> IF t[b][s] = n THEN NIL ELSE t[b][s]]]
<1>1. AsTable!Bucket = Bucket /\ AsTable!Slot = Slot
  BY DEF AsTable!Bucket, Bucket, AsTable!Slot, Slot
<1>2. \A k : AsTable!Bk0(k) = Bk0(k) /\ AsTable!Bk1(k) = Bk1(k)
  BY DEF AsTable!Bk0, AsTable!Bk1, Bk0, Bk1
<1>3. \A S : AsTable!LowestSlot(S) = LowestSlot(S)
  BY DEF AsTable!LowestSlot, LowestSlot
<1>4. QED
  BY <1>1, <1>2, <1>3 DEF AsTable!EmptyTable, AsTable!LinkedIn, AsTable!Room,
     AsTable!Cands, AsTable!Put, AsTable!Without

(* The elements of a table. *)
InTable(t) == {n \in Nodes : \E b \in Bucket, s \in Slot : t[b][s] = n}

LEMMA LinkedInIs ==
    ASSUME NEW t \in [Bucket -> [Slot -> NodeOrNil]]
    PROVE  AsTable!LinkedIn(t) = InTable(t)
<1>1. AsTable!LinkedIn(t) = {t[b][s] : b \in Bucket, s \in Slot} \ {NIL}
  BY TableOps
<1>2. QED
  BY <1>1, NilAssumption DEF InTable, NodeOrNil

(* A table with the elements of t, each in a slot of its own in one of its *)
(* key's buckets, is a rearrangement of t.                                 *)
LEMMA IsRearranged ==
    ASSUME NEW t \in [Bucket -> [Slot -> NodeOrNil]],
           NEW u \in [Bucket -> [Slot -> NodeOrNil]],
           InTable(u) = InTable(t),
           \A b, c \in Bucket : \A s, r \in Slot :
              u[b][s] = u[c][r] /\ u[b][s] # NIL => b = c /\ s = r,
           \A b \in Bucket, s \in Slot :
              u[b][s] # NIL => b \in {Bk0(KeyOf[u[b][s]]), Bk1(KeyOf[u[b][s]])}
    PROVE  u \in AsTable!Rearranged(t, KeyOf)
<1> DEFINE L == AsTable!LinkedIn(t)
           at(n) == CHOOSE x \in Bucket \X Slot : u[x[1]][x[2]] = n
           p == [n \in L |-> at(n)]
<1>0. L = InTable(u)
  BY LinkedInIs
<1> HIDE DEF L
<1>1. \A n \in L : at(n) \in Bucket \X Slot /\ u[at(n)[1]][at(n)[2]] = n /\ n # NIL
  <2> SUFFICES ASSUME NEW n \in L
               PROVE  at(n) \in Bucket \X Slot /\ u[at(n)[1]][at(n)[2]] = n /\ n # NIL
    OBVIOUS
  <2>1. \E x \in Bucket \X Slot : u[x[1]][x[2]] = n
    <3>1. PICK b \in Bucket, s \in Slot : u[b][s] = n
      BY <1>0 DEF InTable
    <3>2. <<b, s>> \in Bucket \X Slot /\ u[<<b, s>>[1]][<<b, s>>[2]] = n
      BY <3>1
    <3>3. QED
      BY <3>2
  <2>2. QED
    BY <1>0, <2>1, NilAssumption DEF InTable
<1> HIDE DEF at
<1>2. p \in [L -> Bucket \X Slot]
  BY <1>1
<1>3. \A n \in L : p[n][1] \in {Bk0(KeyOf[n]), Bk1(KeyOf[n])}
  BY <1>1
<1>4. \A m, n \in L : p[m] = p[n] => m = n
  BY <1>1
<1>5. \A b \in Bucket, s \in Slot, n \in L : p[n] = <<b, s>> <=> u[b][s] = n
  <2> SUFFICES ASSUME NEW b \in Bucket, NEW s \in Slot, NEW n \in L
               PROVE  at(n) = <<b, s>> <=> u[b][s] = n
    OBVIOUS
  <2>1. ASSUME u[b][s] = n PROVE at(n) = <<b, s>>
    <3>1. at(n)[1] = b /\ at(n)[2] = s
      BY <1>1, <2>1
    <3>2. QED
      BY <1>1, <3>1
  <2>2. QED
    BY <1>1, <2>1
<1> HIDE DEF p
<1>6. u = [b \in Bucket |-> [s \in Slot |->
             IF \E n \in L : p[n] = <<b, s>>
               THEN CHOOSE n \in L : p[n] = <<b, s>> ELSE NIL]]
  <2>1. ASSUME NEW b \in Bucket, NEW s \in Slot
        PROVE  u[b][s] = IF \E n \in L : p[n] = <<b, s>>
                           THEN CHOOSE n \in L : p[n] = <<b, s>> ELSE NIL
    <3>1. CASE u[b][s] = NIL
      <4>1. ~\E n \in L : p[n] = <<b, s>>
        BY <1>1, <1>5, <3>1
      <4>2. QED
        BY <3>1, <4>1
    <3>2. CASE u[b][s] # NIL
      <4>1. u[b][s] \in L
        BY <1>0, <3>2 DEF InTable, NodeOrNil
      <4>2. p[u[b][s]] = <<b, s>> /\ \A n \in L : p[n] = <<b, s>> => n = u[b][s]
        BY <1>5, <4>1
      <4>3. QED
        BY <4>1, <4>2
    <3>3. QED
      BY <3>1, <3>2
  <2>2. QED
    BY <2>1
<1>7. \A n \in L : p[n][1] \in AsTable!Cands(KeyOf[n])
  BY <1>3, TableOps
<1> DEFINE Laid(q) == [b \in Bucket |-> [s \in Slot |->
                         IF \E n \in L : q[n] = <<b, s>>
                           THEN CHOOSE n \in L : q[n] = <<b, s>> ELSE NIL]]
           Places == {q \in [L -> Bucket \X Slot] :
                        /\ \A n \in L : q[n][1] \in AsTable!Cands(KeyOf[n])
                        /\ \A m, n \in L : q[m] = q[n] => m = n}
<1>8. p \in Places
  BY <1>2, <1>4, <1>7
<1>9. u = Laid(p)
  BY <1>6
<1>10. AsTable!Rearranged(t, KeyOf) = {Laid(q) : q \in Places}
  <2>1. AsTable!Bucket = Bucket /\ AsTable!Slot = Slot
    BY DEF AsTable!Bucket, Bucket, AsTable!Slot, Slot
  <2>2. QED
    BY <2>1 DEF L, AsTable!Rearranged
<1> HIDE DEF Laid, Places
<1>11. QED
  BY <1>8, <1>9, <1>10

(* What before keeps *)

LEMMA InsideStill ==
    ASSUME Inv, PathInv, Inside, Still'
    PROVE  Still /\ UNCHANGED bkt_idx
<1>1. ~KickFlip
  <2> SUFFICES ASSUME KickFlip PROVE FALSE
    OBVIOUS
  <2>1. PICK p \in Slot : pos' = p /\ phase' = "return"
    BY PassOneSlot DEF KickFlip, Return
  <2>2. QED
    BY <2>1, SizeAssumption DEF Still, Slot
<1>2. ~KickUnwind
  BY UnwindFlips, SizeAssumption DEF KickUnwind, ReturnOn, Still, Slot
<1>3. ~KickRecheck
  BY CallerUnmoved DEF KickRecheck
<1>4. QED
  BY <1>1, <1>2, <1>3 DEF Inside, KickTooDeep, KickScan, KickSkip, KickDescend,
     KickExhausted, KickNext, InsertTryBk1, AtRoot, table, Still

LEMMA StutterKeeps ==
    ASSUME BeforeInv, UNCHANGED vars, [Next /\ Record]_atomicVars
    PROVE  UNCHANGED before
BY DEF vars, atomicVars, Record, BeforeInv

LEMMA BeforeStep ==
    ASSUME Inv, Inv', PathInv, BeforeInv, [Next /\ Record]_atomicVars
    PROVE  BeforeInv'
<1>1. CASE UNCHANGED vars
  BY <1>1, StutterKeeps DEF vars, BeforeInv, Committed, Still, Linked
<1>2. CASE Next /\ Record /\ elm' = NIL
  BY <1>2 DEF Record, BeforeInv
<1>3. ASSUME NEW n \in Nodes, InsertSlow(n), Record
      PROVE  BeforeInv'
  <2>1. elm = NIL /\ elm' = n /\ n # NIL /\ UNCHANGED bkt_idx /\ KeyOf[n] \in Keys
    BY <1>3, NilAssumption, KeyAssumption DEF InsertSlow, Idle, Inv, StackInv
  <2>2. before' = <<bkt_hash, bkt_idx, nb>>
    BY <1>3, <2>1 DEF Record
  <2>3. Committed' = bkt_idx
    BY <2>1, <2>2 DEF Committed
  <2>4. bkt_idx \in [Bucket -> [Slot -> NodeOrNil]]
    BY DEF Inv, TypeOK
  <2>5. \A s \in Slot : bkt_idx[Bk0(KeyOf[n])][s] # NIL /\ bkt_idx[Bk1(KeyOf[n])][s] # NIL
    BY <1>3, <2>1, HashTypes DEF InsertSlow, Empties, Inv, TableInv, SlotOK
  <2>6. \A m \in Nodes : Linked(m)' <=> \E b \in Bucket, s \in Slot : bkt_idx[b][s] = m
    BY <2>1 DEF Linked
  <2>7. QED
    BY <2>1, <2>3, <2>4, <2>5, <2>6 DEF BeforeInv
<1>4. CASE Inside /\ Record
  <2>1. LinkedNodes' = LinkedNodes /\ elm' = elm /\ elm # NIL
    BY <1>4, InsideKeeps DEF Inv, StackInv
  <2>2. before' = before /\ Committed' = Committed
    BY <1>4, <2>1 DEF Record, Committed
  <2>3. \A n \in Nodes : Linked(n)' <=> Linked(n)
    BY <2>1 DEF LinkedNodes
  <2>4. Still' => Still /\ UNCHANGED bkt_idx
    BY <1>4, InsideStill
  <2>5. QED
    BY <2>1, <2>2, <2>3, <2>4 DEF BeforeInv
<1>5. ASSUME Next, elm' # NIL
      PROVE  Inside \/ (\E n \in Nodes : InsertSlow(n)) \/ UNCHANGED vars
  <2>1. \A n \in Nodes : InsertDuplicate(n) \/ InsertFast(n) \/ Remove(n) => elm' = NIL
    BY DEF InsertDuplicate, InsertFast, Remove, stack, Idle, Inv, StackInv
  <2>2. InsertAfterKickout \/ InsertFull => elm' = NIL
    BY DEF InsertAfterKickout, InsertFull, StackReset
  <2>3. QED
    BY <1>5, <2>1, <2>2, StepKinds DEF Insert, Kick, Inside
<1>6. QED
  BY <1>1, <1>2, <1>3, <1>4, <1>5 DEF atomicVars

(* The table as the last call left it. *)
LEMMA CommittedIs ==
    ASSUME Inv, BeforeInv
    PROVE  /\ Committed \in [Bucket -> [Slot -> NodeOrNil]]
           /\ AsTable!LinkedIn(Committed) = LinkedNodes
<1>1. CASE elm = NIL
  <2>1. Committed = bkt_idx
    BY <1>1 DEF Committed
  <2>2. InTable(bkt_idx) = LinkedNodes
    BY DEF InTable, LinkedNodes, Linked
  <2>3. QED
    BY <2>1, <2>2, LinkedInIs DEF Inv, TypeOK
<1>2. CASE elm # NIL
  <2>1. Committed \in [Bucket -> [Slot -> NodeOrNil]]
    BY <1>2 DEF BeforeInv
  <2>2. InTable(Committed) = LinkedNodes
    BY <1>2 DEF BeforeInv, InTable, LinkedNodes
  <2>3. QED
    BY <2>1, <2>2, LinkedInIs
<1>3. QED
  BY <1>1, <1>2

(* Every step is one of the abstract table or changes nothing it shows. *)

LEMMA NoSameKey ==
    ASSUME Inv, BeforeInv, NEW k, \A m \in LinkedNodes : KeyOf[m] # k
    PROVE  AsTable!SameKey(k) = {}
BY CommittedIs DEF AsTable!SameKey

LEMMA TableInsert ==
    ASSUME Inv, Inv', RetInv, BeforeInv, NEW n \in Nodes, Insert(n), Record
    PROVE  AsTable!Next
<1> DEFINE k == KeyOf[n]
<1>1. k \in Keys /\ elm = NIL /\ ret.op # "begun" /\ Committed = bkt_idx
  BY NilAssumption, KeyAssumption
     DEF Insert, InsertDuplicate, InsertFast, InsertSlow, Idle, RetInv, Inv, StackInv, Committed
<1>2. \A b \in Bucket : AsTable!Room(bkt_idx, b) = Empties(b)
  BY EmptyInBoth, TableOps DEF Empties, EmptyBothWays
<1>3. Bk0(k) \in Bucket /\ Bk1(k) \in Bucket
  BY <1>1, HashTypes
<1>4. CASE InsertDuplicate(n)
  <2>1. elm' = NIL /\ UNCHANGED bkt_idx /\ Answer("insert", n, Find(k)) /\ Find(k) # NIL
    BY <1>1, <1>4 DEF InsertDuplicate, stack
  <2>2. Committed' = Committed
    BY <1>1, <2>1 DEF Committed
  <2>3. PICK m \in LinkedNodes : KeyOf[m] = k
    BY <1>1, <2>1, AbsentKey
  <2>4. Find(k) = m
    BY <2>3, LinkedIsFound DEF LinkedNodes
  <2>5. m \in AsTable!SameKey(k)
    BY <2>3, CommittedIs DEF AsTable!SameKey
  <2>6. AsTable!Duplicate(n)
    BY <1>1, <2>1, <2>2, <2>4, <2>5
       DEF AsTable!Duplicate, AsTable!Answer, Answer, AsTable!MayRun
  <2>7. QED
    BY <2>6 DEF AsTable!Next
<1>5. CASE InsertFast(n)
  <2>1. /\ \A m \in LinkedNodes : KeyOf[m] # k
        /\ Answer("insert", n, NIL)
    BY <1>5, FastLinks
  <2>2. AsTable!SameKey(k) = {}
    BY <2>1, NoSameKey
  <2>3. elm' = NIL /\ Committed' = bkt_idx'
    BY <1>1, <1>5 DEF InsertFast, stack, Committed
  <2>4. bkt_idx' \in AsTable!InsertedIn(bkt_idx, KeyOf, n)
    <3>1. CASE Empties(Bk0(k)) # {}
      <4> DEFINE s == LowestSlot(Empties(Bk0(k)))
      <4>1. Place(n, 0, s)
        BY <1>5, <3>1 DEF InsertFast
      <4>2. /\ AsTable!Room(bkt_idx, AsTable!Bk0(k)) # {}
            /\ AsTable!LowestSlot(AsTable!Room(bkt_idx, AsTable!Bk0(k))) = s
        BY <1>2, <1>3, <3>1, TableOps
      <4> HIDE DEF s
      <4>3. bkt_idx' = [bkt_idx EXCEPT ![Bk0(k)][s] = n]
        BY <4>1 DEF Place, Bk0
      <4>4. bkt_idx' = AsTable!Put(bkt_idx, AsTable!Bk0(k), s, n)
        BY <4>3, TableOps
      <4>5. QED
        BY <4>2, <4>4 DEF AsTable!InsertedIn
    <3>2. CASE Empties(Bk0(k)) = {}
      <4> DEFINE s == LowestSlot(Empties(Bk1(k)))
      <4>1. Empties(Bk1(k)) # {} /\ Place(n, 1, s)
        BY <1>5, <3>2 DEF InsertFast
      <4>2. /\ AsTable!Room(bkt_idx, AsTable!Bk0(k)) = {}
            /\ AsTable!Room(bkt_idx, AsTable!Bk1(k)) # {}
            /\ AsTable!LowestSlot(AsTable!Room(bkt_idx, AsTable!Bk1(k))) = s
        BY <1>2, <1>3, <3>2, <4>1, TableOps
      <4> HIDE DEF s
      <4>3. bkt_idx' = [bkt_idx EXCEPT ![Bk1(k)][s] = n]
        BY <4>1 DEF Place, Bk1
      <4>4. bkt_idx' = AsTable!Put(bkt_idx, AsTable!Bk1(k), s, n)
        BY <4>3, TableOps
      <4>5. QED
        BY <4>2, <4>4 DEF AsTable!InsertedIn
    <3>3. QED
      BY <3>1, <3>2
  <2>5. AsTable!Inserted(n)
    BY <1>1, <2>1, <2>2, <2>3, <2>4
       DEF AsTable!Inserted, AsTable!Answer, Answer, AsTable!MayRun
  <2>6. QED
    BY <2>5 DEF AsTable!Next
<1>6. CASE InsertSlow(n)
  <2>1. /\ Find(k) = NIL /\ Empties(Bk0(k)) = {} /\ Empties(Bk1(k)) = {}
        /\ elm' = n /\ n # NIL /\ Answer("begun", n, NIL)
    BY <1>6, NilAssumption DEF InsertSlow
  <2>2. Committed' = Committed
    BY <1>1, <2>1 DEF Committed, Record
  <2>3. AsTable!SameKey(k) = {}
    BY <1>1, <2>1, AbsentKey, NoSameKey
  <2>4. AsTable!BothFull(Committed, k)
    BY <1>1, <1>2, <1>3, <2>1, TableOps DEF AsTable!BothFull
  <2>5. AsTable!Begun(n)
    BY <1>1, <2>1, <2>2, <2>3, <2>4 DEF AsTable!Begun, AsTable!Answer, Answer
  <2>6. QED
    BY <2>5 DEF AsTable!Next
<1>7. QED
  BY <1>4, <1>5, <1>6 DEF Insert

LEMMA TableRemove ==
    ASSUME Inv, Inv', RetInv, BeforeInv, NEW n \in Nodes, Remove(n), Record
    PROVE  AsTable!Next
<1> DEFINE b == hash_field[n] \cap Mask
           at == {s \in Slot : bkt_idx[b][s] = n}
<1>1. /\ elm = NIL /\ elm' = NIL /\ ret.op # "begun"
      /\ Committed = bkt_idx /\ Committed' = bkt_idx'
  BY DEF Remove, Idle, RetInv, Inv, StackInv, Committed, stack
<1>2. n # NIL /\ b \in Bucket
  BY NilAssumption DEF Bucket
<1>3. bkt_idx \in [Bucket -> [Slot -> NodeOrNil]]
  BY DEF Inv, TypeOK
<1>4. bkt_idx' = [c \in Bucket |-> [t \in Slot |->
                     IF bkt_idx[c][t] = n THEN NIL ELSE bkt_idx[c][t]]]
  <2>1. \A c \in Bucket, t \in Slot : bkt_idx[c][t] = n => c = b
    BY <1>2 DEF Inv, TableInv, SlotOK
  <2>2. CASE at # {} /\ RemoveAt(b, LowestSlot(at))
    <3> DEFINE s == LowestSlot(at)
    <3>1. s \in Slot /\ bkt_idx[b][s] = n
      <4>1. at \in SUBSET Slot
        OBVIOUS
      <4>2. s \in at
        BY <2>2, <4>1, LowestSlotIn
      <4>3. QED
        BY <4>2
    <3>2. bkt_idx' = [bkt_idx EXCEPT ![b][s] = NIL]
      BY <2>2 DEF RemoveAt
    <3> HIDE DEF s
    <3>3. \A c \in Bucket, t \in Slot : bkt_idx[c][t] = n <=> c = b /\ t = s
      <4>1. \A c \in Bucket, t \in Slot : bkt_idx[c][t] = n => b = c /\ s = t
        BY <1>2, <3>1 DEF Inv, KeyOnce
      <4>2. QED
        BY <3>1, <4>1
    <3>4. bkt_idx' \in [Bucket -> [Slot -> NodeOrNil]]
      BY DEF Inv, TypeOK
    <3>5. \A c \in Bucket, t \in Slot :
            bkt_idx'[c][t] = IF bkt_idx[c][t] = n THEN NIL ELSE bkt_idx[c][t]
      BY <1>2, <1>3, <3>1, <3>2, <3>3
    <3>6. QED
      BY <3>4, <3>5
  <2>3. CASE at = {} /\ UNCHANGED bkt_idx
    <3>1. \A c \in Bucket, t \in Slot : bkt_idx[c][t] # n
      BY <2>1, <2>3
    <3>2. QED
      BY <1>3, <2>3, <3>1
  <2>4. QED
    BY <2>2, <2>3 DEF Remove
<1>5. Answer("remove", n, IF n \in LinkedNodes THEN n ELSE NIL)
  BY RemoveUnlinks
<1>6. bkt_idx' = AsTable!Without(bkt_idx, n)
  BY <1>4, TableOps
<1>7. AsTable!Remove(n)
  BY <1>1, <1>5, <1>6, CommittedIs DEF AsTable!Remove, AsTable!Answer, Answer
<1>8. QED
  BY <1>7 DEF AsTable!Next

(* The slot that a kickout freed takes the element, and the table without  *)
(* it is a rearrangement of the one the insert found.                      *)
LEMMA TableKicked ==
    ASSUME Inv, Inv', RetInv, BeforeInv, InsertAfterKickout
    PROVE  AsTable!Inserted(elm)
<1> DEFINE b == IF side = 0 THEN Bk0(KeyOf[elm]) ELSE Bk1(KeyOf[elm])
<1>1. /\ elm \in Nodes /\ side \in {0, 1} /\ pos \in Slot
      /\ Place(elm, side, pos) /\ StackReset
      /\ bkt_hash[b][pos] = {}
      /\ KeyOf[elm] \in Keys /\ elm # NIL /\ phase # "idle"
  BY KickedSlot, NilAssumption, KeyAssumption DEF InsertAfterKickout, AtRoot
<1>2. b \in Bucket /\ b \in {Bk0(KeyOf[elm]), Bk1(KeyOf[elm])}
  BY <1>1, HashTypes
<1>3. /\ \A m \in LinkedNodes : KeyOf[m] # KeyOf[elm]
      /\ Answer("insert", elm, NIL)
  BY KickedLinks
<1>4. bkt_idx' = [bkt_idx EXCEPT ![b][pos] = elm]
  BY <1>1 DEF Place, Bk0, Bk1
<1>5. Committed' = bkt_idx'
  BY <1>1 DEF Committed, StackReset
<1>6. bkt_idx \in AsTable!Rearranged(Committed, KeyOf)
  <2>1. InTable(bkt_idx) = InTable(Committed)
    BY <1>1 DEF BeforeInv, InTable, Linked
  <2>2. \A c, d \in Bucket : \A s, r \in Slot :
           bkt_idx[c][s] = bkt_idx[d][r] /\ bkt_idx[c][s] # NIL => c = d /\ s = r
    BY DEF Inv, KeyOnce
  <2>3. \A c \in Bucket, s \in Slot : bkt_idx[c][s] # NIL =>
           c \in {Bk0(KeyOf[bkt_idx[c][s]]), Bk1(KeyOf[bkt_idx[c][s]])}
    BY DEF Inv, TableInv, SlotOK, Bk0, Bk1
  <2>4. QED
    BY <2>1, <2>2, <2>3, CommittedIs, IsRearranged DEF Inv, TypeOK
<1>7. /\ AsTable!Room(Committed, AsTable!Bk0(KeyOf[elm])) = {}
      /\ AsTable!Room(Committed, AsTable!Bk1(KeyOf[elm])) = {}
  BY <1>1, TableOps DEF BeforeInv
<1>8. pos \in AsTable!Room(bkt_idx, b)
  BY <1>1, <1>2, HashTypes, KeyAssumption, TableOps DEF Inv, TableInv, SlotOK, TypeOK, NodeOrNil
<1>9. b \in AsTable!Cands(KeyOf[elm]) /\ bkt_idx' = AsTable!Put(bkt_idx, b, pos, elm)
  BY <1>2, <1>4, TableOps
<1> HIDE DEF b
<1>10. bkt_idx' \in AsTable!InsertedIn(Committed, KeyOf, elm)
  <2> DEFINE R == AsTable!Rearranged(Committed, KeyOf)
             C == AsTable!Cands(KeyOf[elm])
             P(u, c) == {AsTable!Put(u, c, s, elm) : s \in AsTable!Room(u, c)}
  <2>1. bkt_idx' \in P(bkt_idx, b)
    BY <1>8, <1>9
  <2> HIDE DEF P
  <2>2. bkt_idx' \in UNION {P(u, c) : u \in R, c \in C}
    BY <1>6, <1>9, <2>1
  <2>3. AsTable!InsertedIn(Committed, KeyOf, elm) = UNION {P(u, c) : u \in R, c \in C}
    BY <1>7 DEF AsTable!InsertedIn, P
  <2>4. QED
    BY <2>2, <2>3
<1>11. AsTable!SameKey(KeyOf[elm]) = {}
  BY <1>3, NoSameKey
<1>12. QED
  BY <1>1, <1>3, <1>5, <1>10, <1>11
     DEF AsTable!Inserted, AsTable!Answer, Answer, AsTable!MayRun, RetInv

LEMMA TableFull ==
    ASSUME Inv, Inv', RetInv, BeforeInv, InsertFull
    PROVE  elm \in Nodes /\ AsTable!Full(elm)
<1>1. /\ elm \in Nodes /\ elm # NIL /\ KeyOf[elm] \in Keys /\ elm' = NIL
      /\ phase # "idle" /\ Still /\ UNCHANGED bkt_idx /\ Answer("insert", elm, elm)
  BY SlowPathElm, NilAssumption DEF InsertFull, AtRoot, StackReset, table, Still
<1>2. Committed' = Committed
  BY <1>1 DEF Committed, BeforeInv
<1>3. \A m \in LinkedNodes : KeyOf[m] # KeyOf[elm]
  BY <1>1, NilAssumption DEF Inv, NewKey, LinkedNodes, Linked
<1>4. AsTable!SameKey(KeyOf[elm]) = {}
  BY <1>3, NoSameKey
<1>5. AsTable!BothFull(Committed, KeyOf[elm])
  BY <1>1, TableOps DEF AsTable!BothFull, BeforeInv
<1>6. QED
  BY <1>1, <1>2, <1>4, <1>5
     DEF AsTable!Full, AsTable!Answer, Answer, AsTable!MayRun, RetInv

LEMMA TableStep ==
    ASSUME Inv, Inv', RetInv, BeforeInv, [Next /\ Record]_atomicVars
    PROVE  [AsTable!Next]_(AsTable!vars)
<1>1. CASE UNCHANGED vars
  BY <1>1, StutterKeeps DEF vars, AsTable!vars, Committed
<1>2. CASE Inside /\ Record
  <2>1. elm' = elm /\ ret' = ret /\ elm # NIL
    BY <1>2, InsideKeeps DEF Inv, StackInv
  <2>2. Committed' = Committed
    BY <1>2, <2>1 DEF Record, Committed
  <2>3. QED
    BY <2>1, <2>2 DEF AsTable!vars
<1>3. CASE InsertAfterKickout
  BY <1>3, KickedSlot, TableKicked DEF AsTable!Next
<1>4. CASE InsertFull
  BY <1>4, TableFull DEF AsTable!Next
<1>5. QED
  BY <1>1, <1>2, <1>3, <1>4, TableInsert, TableRemove, StepKinds
     DEF Kick, Inside, atomicVars

(* At the depth the code compiles in, whole calls of the table are the     *)
(* steps of RixTable: an insert puts its element into the first empty slot *)
(* of its buckets, or after a kickout that only moved elements to their    *)
(* other buckets, or is refused with the table as it was.                  *)
THEOREM FpImplementsTable ==
    ASSUME FollowDepth <= 4
    PROVE  AtomicSpec => RefinesTable
<1>1. AtomicInit => Init /\ RetInv /\ PathInv /\ BeforeInv /\ AsTable!Init
  <2> SUFFICES ASSUME AtomicInit
               PROVE  Init /\ RetInv /\ PathInv /\ BeforeInv /\ AsTable!Init
    OBVIOUS
  <2>1. Init /\ elm = NIL /\ before = <<>> /\ phase = "idle" /\ depth = FollowDepth
    BY DEF AtomicInit, Init, StackInit
  <2>2. PathInv
    BY <2>1, DepthAssumption DEF PathInv, Scanned, Waiting
  <2>3. Committed = [b \in Bucket |-> [s \in Slot |-> NIL]]
    BY <2>1 DEF Committed, Init
  <2>4. QED
    BY <2>1, <2>2, <2>3, TableOps DEF Init, RetInv, BeforeInv, AsTable!Init
<1>2. [Next /\ Record]_atomicVars => [Next]_vars
  BY DEF atomicVars
<1>3. Inv /\ RetInv /\ [Next]_vars => RetInv'
  BY RetStep
<1>4. Inv /\ PathInv /\ [Next]_vars => PathInv'
  BY PathStep
<1>5. Inv /\ Inv' /\ PathInv /\ BeforeInv /\ [Next /\ Record]_atomicVars => BeforeInv'
  BY BeforeStep
<1>6. Inv /\ Inv' /\ RetInv /\ BeforeInv /\ [Next /\ Record]_atomicVars
        => [AsTable!Next]_(AsTable!vars)
  BY TableStep
<1>7. QED
  BY <1>1, <1>2, <1>3, <1>4, <1>5, <1>6, InitInv, NextInv, PTL
     DEF AtomicSpec, RefinesTable, AsTable!Spec

-----------------------------------------------------------------------------
(* The second field *)

SlotsTold ==
    \A b \in Bucket, s \in Slot :
        bkt_idx[b][s] # NIL => slot_field[bkt_idx[b][s]] = s

SlotInv == Inv /\ slot_field \in [Nodes -> Slot] /\ SlotsTold

(* flipflop tells the element where it put it; no other slot has it.       *)
LEMMA FlipTold ==
    ASSUME SlotInv, NEW b \in Bucket, NEW s \in Slot,
           CanFlip(b, s), Flip(b, s), SlotFlip(b, s)
    PROVE  slot_field' \in [Nodes -> Slot] /\ SlotsTold'
<1> DEFINE n == bkt_idx[b][s]
           a == AltOf(b, s)
           e == LowestSlot(Empties(a))
<1>1. TypeOK /\ KeyOnce /\ SlotOK(b, s) /\ n # NIL
  BY DEF SlotInv, Inv, TableInv, CanFlip
<1>2. n \in Nodes /\ a \in Bucket /\ a # b
  BY <1>1, AltIsOpposite
<1>3. e \in Slot
  <2>1. Empties(a) \in SUBSET Slot /\ Empties(a) # {}
    BY DEF CanFlip, Empties
  <2>2. QED
    BY <2>1, LowestSlotIn
<1>4. /\ bkt_idx' = [bkt_idx EXCEPT ![a][e] = n, ![b][s] = NIL]
      /\ slot_field' = [slot_field EXCEPT ![n] = e]
  BY DEF Flip, SlotFlip
<1> HIDE DEF a, e
<1>5. \A c \in Bucket, t \in Slot :
        bkt_idx'[c][t] = IF c = b /\ t = s THEN NIL
                         ELSE IF c = a /\ t = e THEN n ELSE bkt_idx[c][t]
  BY <1>1, <1>2, <1>3, <1>4 DEF TypeOK
<1>6. /\ slot_field' \in [Nodes -> Slot] /\ slot_field'[n] = e
      /\ \A m \in Nodes \ {n} : slot_field'[m] = slot_field[m]
  BY <1>2, <1>3, <1>4 DEF SlotInv
<1>7. ASSUME NEW c \in Bucket, NEW t \in Slot, bkt_idx'[c][t] # NIL
      PROVE  slot_field'[bkt_idx'[c][t]] = t
  <2>1. CASE c = a /\ t = e
    BY <1>2, <1>5, <1>6, <2>1
  <2>2. CASE ~(c = a /\ t = e)
    <3>1. bkt_idx'[c][t] = bkt_idx[c][t] /\ ~(c = b /\ t = s)
      BY <1>5, <1>7, <2>2
    <3>2. bkt_idx[c][t] \in Nodes \ {n}
      BY <1>1, <1>7, <3>1 DEF TypeOK, NodeOrNil, KeyOnce
    <3>3. QED
      BY <1>6, <1>7, <3>1, <3>2 DEF SlotInv, SlotsTold
  <2>3. QED
    BY <2>1, <2>2
<1>8. QED
  BY <1>6, <1>7 DEF SlotsTold

(* Placing a new element and telling it its slot. *)
LEMMA PlaceTold ==
    ASSUME SlotInv, NEW n \in Nodes, NEW i \in {0, 1}, NEW p \in Slot,
           \A c \in Bucket, t \in Slot :
               bkt_idx[c][t] # NIL => KeyOf[bkt_idx[c][t]] # KeyOf[n],
           Place(n, i, p), slot_field' = [slot_field EXCEPT ![n] = p]
    PROVE  slot_field' \in [Nodes -> Slot] /\ SlotsTold'
<1> DEFINE b == (IF i = 0 THEN Hash0[KeyOf[n]] ELSE Hash1[KeyOf[n]]) \cap Mask
<1>1. b \in Bucket /\ bkt_idx' = [bkt_idx EXCEPT ![b][p] = n]
  BY DEF Place, Bucket
<1> HIDE DEF b
<1>2. \A c \in Bucket, t \in Slot :
        bkt_idx'[c][t] = IF c = b /\ t = p THEN n ELSE bkt_idx[c][t]
  BY <1>1 DEF SlotInv, Inv, TypeOK
<1>3. /\ slot_field' \in [Nodes -> Slot] /\ slot_field'[n] = p
      /\ \A m \in Nodes \ {n} : slot_field'[m] = slot_field[m]
  BY DEF SlotInv
<1>4. \A c \in Bucket, t \in Slot : bkt_idx[c][t] # NIL => bkt_idx[c][t] \in Nodes \ {n}
  BY DEF SlotInv, Inv, TypeOK, NodeOrNil
<1>5. QED
  BY <1>2, <1>3, <1>4 DEF SlotInv, SlotsTold

LEMMA SameTold ==
    ASSUME SlotInv, UNCHANGED <<bkt_idx, slot_field>>
    PROVE  slot_field' \in [Nodes -> Slot] /\ SlotsTold'
BY DEF SlotInv, SlotsTold

-----------------------------------------------------------------------------
(* Each step of the slot variant is one of the fingerprint variant *)

(* What the slot named by the two fields shows is what a search of the     *)
(* whole bucket would find.                                                *)
LEMMA SlotRemoveStep ==
    ASSUME SlotInv, NEW n \in Nodes, SlotRemove(n)
    PROVE  Remove(n) /\ slot_field' \in [Nodes -> Slot] /\ SlotsTold'
<1> DEFINE b == hash_field[n] \cap Mask
           s == slot_field[n]
           at == {t \in Slot : bkt_idx[b][t] = n}
<1>1. b \in Bucket /\ n # NIL /\ s \in Slot
  BY NilAssumption, KeyAssumption DEF Bucket, SlotInv
<1>2. at \subseteq {s}
  BY <1>1 DEF SlotInv, SlotsTold
<1>3. CASE bkt_idx[b][s] = n /\ RemoveAt(b, s) /\ Answer("remove", n, n)
  <2>1. at = {s}
    BY <1>1, <1>2, <1>3
  <2>2. LowestSlot(at) = s
    <3>1. at \in SUBSET Slot /\ at # {}
      BY <1>1, <2>1
    <3> HIDE DEF at
    <3>2. LowestSlot(at) \in at
      BY <3>1, LowestSlotIn
    <3>3. QED
      BY <2>1, <3>2
  <2>3. Remove(n)
    BY <1>3, <2>1, <2>2 DEF Remove, SlotRemove
  <2>4. UNCHANGED slot_field
    BY DEF SlotRemove
  <2>5. \A c \in Bucket, t \in Slot : bkt_idx'[c][t] \in {bkt_idx[c][t], NIL}
    BY <1>1, <1>3 DEF RemoveAt, SlotInv, Inv, TypeOK
  <2>6. QED
    BY <2>3, <2>4, <2>5 DEF SlotInv, SlotsTold
<1>4. CASE /\ bkt_idx[b][s] # n
           /\ Answer("remove", n, NIL)
           /\ UNCHANGED <<bkt_hash, bkt_idx, nb>>
  <2>1. at = {}
    BY <1>2, <1>4
  <2>2. Remove(n)
    BY <1>4, <2>1 DEF Remove, SlotRemove
  <2>3. UNCHANGED <<bkt_idx, slot_field>>
    BY <1>4 DEF SlotRemove
  <2>4. QED
    BY <2>2, <2>3, SameTold
<1>5. QED
  BY <1>1, <1>3, <1>4 DEF SlotRemove

LEMMA SlotInsertStep ==
    ASSUME SlotInv, NEW n \in Nodes, SlotInsert(n)
    PROVE  Insert(n) /\ slot_field' \in [Nodes -> Slot] /\ SlotsTold'
<1> DEFINE k == KeyOf[n]
<1>1. CASE (InsertDuplicate(n) \/ InsertSlow(n)) /\ UNCHANGED slot_field
  <2>1. UNCHANGED bkt_idx
    BY <1>1 DEF InsertDuplicate, InsertSlow
  <2>2. QED
    BY <1>1, <2>1, SameTold DEF SlotInsert, Insert
<1>2. CASE SlotInsertFast(n)
  <2>1. InsertFast(n)
    BY <1>2 DEF SlotInsertFast
  <2>2. k \in Keys /\ Bk0(k) \in Bucket /\ Bk1(k) \in Bucket
    BY NilAssumption, KeyAssumption, HashTypes
  <2>3. \A c \in Bucket, t \in Slot :
          bkt_idx[c][t] # NIL => KeyOf[bkt_idx[c][t]] # k
    BY <2>1, <2>2, FindNilIsAbsent DEF SlotInv, Inv, InsertFast
  <2>4. \A b \in Bucket : Empties(b) # {} => LowestSlot(Empties(b)) \in Slot
    <3>1. \A b \in Bucket : Empties(b) \in SUBSET Slot
      BY DEF Empties
    <3>2. QED
      BY <3>1, LowestSlotIn
  <2>5. CASE Empties(Bk0(k)) # {} /\ Place(n, 0, LowestSlot(Empties(Bk0(k))))
    <3>1. slot_field' = [slot_field EXCEPT ![n] = LowestSlot(Empties(Bk0(k)))]
      BY <1>2, <2>5 DEF SlotInsertFast
    <3>2. slot_field' \in [Nodes -> Slot] /\ SlotsTold'
      BY <2>2, <2>3, <2>4, <2>5, <3>1, PlaceTold
    <3>3. QED
      BY <2>1, <3>2 DEF SlotInsert, Insert
  <2>6. CASE /\ Empties(Bk0(k)) = {} /\ Empties(Bk1(k)) # {}
             /\ Place(n, 1, LowestSlot(Empties(Bk1(k))))
    <3>1. slot_field' = [slot_field EXCEPT ![n] = LowestSlot(Empties(Bk1(k)))]
      BY <1>2, <2>6 DEF SlotInsertFast
    <3>2. slot_field' \in [Nodes -> Slot] /\ SlotsTold'
      BY <2>2, <2>3, <2>4, <2>6, <3>1, PlaceTold
    <3>3. QED
      BY <2>1, <3>2 DEF SlotInsert, Insert
  <2>7. QED
    BY <2>1, <2>5, <2>6 DEF InsertFast
<1>3. QED
  BY <1>1, <1>2 DEF SlotInsert

LEMMA SlotKickStep ==
    ASSUME SlotInv, SlotKick
    PROVE  Kick /\ slot_field' \in [Nodes -> Slot] /\ SlotsTold'
<1>1. CASE SlotKickFlip
  <2> DEFINE b == top.bk
             movable == {s \in Slot : CanFlip(b, s)}
             p == LowestSlot(movable)
  <2>1. KickFlip /\ movable # {} /\ Flip(b, p) /\ SlotFlip(b, p)
    BY <1>1 DEF SlotKickFlip, KickFlip
  <2>2. b \in Bucket
    BY DEF SlotInv, Inv, TypeOK, Frame, top
  <2>3. p \in Slot /\ CanFlip(b, p)
    <3>1. movable \in SUBSET Slot
      OBVIOUS
    <3>2. p \in movable
      BY <2>1, <3>1, LowestSlotIn
    <3>3. QED
      BY <3>2
  <2> HIDE DEF p, b
  <2>4. QED
    BY <2>1, <2>2, <2>3, FlipTold DEF Kick
<1>2. CASE SlotKickUnwind
  <2>1. KickUnwind
    BY <1>2 DEF SlotKickUnwind
  <2>2. /\ Caller.bk \in Bucket /\ Caller.s \in Slot
        /\ CanFlip(Caller.bk, Caller.s) /\ Flip(Caller.bk, Caller.s)
    BY <2>1, UnwindFlips DEF SlotInv
  <2>3. SlotFlip(Caller.bk, Caller.s)
    BY <1>2, <2>2 DEF SlotKickUnwind
  <2>4. QED
    BY <2>1, <2>2, <2>3, FlipTold DEF Kick
<1>3. CASE SlotInsertAfterKickout
  <2>1. InsertAfterKickout /\ slot_field' = [slot_field EXCEPT ![elm] = pos]
    BY <1>3 DEF SlotInsertAfterKickout
  <2>2. /\ elm \in Nodes /\ side \in {0, 1} /\ pos \in Slot
        /\ Place(elm, side, pos)
        /\ \A b \in Bucket, s \in Slot :
              bkt_idx[b][s] # NIL => KeyOf[bkt_idx[b][s]] # KeyOf[elm]
    BY <2>1, KickedSlot DEF SlotInv
  <2>3. QED
    BY <2>1, <2>2, PlaceTold DEF Kick
<1>4. CASE /\ \/ KickTooDeep \/ KickScan \/ KickSkip \/ KickDescend
              \/ KickExhausted \/ KickNext \/ KickRecheck
              \/ InsertTryBk1 \/ InsertFull
           /\ UNCHANGED slot_field
  <2>1. UNCHANGED bkt_idx
    BY <1>4 DEF KickTooDeep, KickScan, KickSkip, KickDescend, KickExhausted,
       KickNext, KickRecheck, InsertTryBk1, InsertFull, table
  <2>2. QED
    BY <1>4, <2>1, SameTold DEF Kick
<1>5. QED
  BY <1>1, <1>2, <1>3, <1>4 DEF SlotKick

LEMMA SlotStep == SlotInv /\ [SlotNext]_svars => [Next]_vars /\ SlotInv'
<1> SUFFICES ASSUME SlotInv, [SlotNext]_svars
             PROVE  [Next]_vars /\ SlotInv'
  OBVIOUS
<1>1. [Next]_vars /\ slot_field' \in [Nodes -> Slot] /\ SlotsTold'
  <2>1. ASSUME NEW n \in Nodes, SlotInsert(n)
        PROVE  Next /\ slot_field' \in [Nodes -> Slot] /\ SlotsTold'
    BY <2>1, SlotInsertStep DEF Next
  <2>2. ASSUME NEW n \in Nodes, SlotRemove(n)
        PROVE  Next /\ slot_field' \in [Nodes -> Slot] /\ SlotsTold'
    BY <2>2, SlotRemoveStep DEF Next
  <2>3. ASSUME NEW b \in Bucket, NEW s \in Slot, SlotRemoveAtCall(b, s)
        PROVE  Next /\ slot_field' \in [Nodes -> Slot] /\ SlotsTold'
    <3>1. bkt_idx' = [bkt_idx EXCEPT ![b][s] = NIL] \/ UNCHANGED bkt_idx
      BY <2>3 DEF SlotRemoveAtCall, RemoveAtCall, RemoveAt
    <3>2. \A c \in Bucket, t \in Slot : bkt_idx'[c][t] # NIL => bkt_idx'[c][t] = bkt_idx[c][t]
      BY <3>1 DEF SlotInv, Inv, TypeOK
    <3>3. QED
      BY <2>3, <3>2 DEF SlotRemoveAtCall, Next, SlotInv, SlotsTold
  <2>4. CASE SlotKick
    BY <2>4, SlotKickStep DEF Next
  <2>5. CASE UNCHANGED svars
    BY <2>5, SameTold DEF svars, vars
  <2>6. QED
    BY <2>1, <2>2, <2>3, <2>4, <2>5 DEF SlotNext
<1>2. Inv'
  BY <1>1, NextInv DEF SlotInv
<1>3. QED
  BY <1>1, <1>2 DEF SlotInv

LEMMA SlotStart == SlotInit => Init /\ SlotInv
<1> SUFFICES ASSUME SlotInit PROVE SlotInv
  BY DEF SlotInit
<1>1. Inv
  BY InitInv DEF SlotInit
<1>2. slot_field \in [Nodes -> Slot]
  BY SizeAssumption DEF SlotInit, Slot
<1>3. SlotsTold
  BY DEF SlotInit, Init, SlotsTold
<1>4. QED
  BY <1>1, <1>2, <1>3 DEF SlotInv

-----------------------------------------------------------------------------
(* The theorems *)

(* Both fields of every linked element and the table are in order between  *)
(* any two writes of insert, kickout and remove.                           *)
THEOREM SlotInvariance == SlotSpec => []SlotInv
BY SlotStart, SlotStep, PTL DEF SlotSpec

(* Every behaviour of the slot variant is one of the fingerprint variant:  *)
(* remove's trust in slot_field never gives another answer than the search *)
(* of the bucket, and the writes to slot_field disturb nothing else.       *)
THEOREM SlotImplementsFp == SlotSpec => RefinesFp
BY SlotStart, SlotStep, PTL DEF SlotSpec, RefinesFp, Spec

(* Types, for every size of the table. *)
THEOREM SlotTypeCorrect == SlotSpec => []SlotTypeOK
<1>1. SlotInv => SlotTypeOK
  BY DEF SlotInv, Inv, SlotTypeOK
<1>2. QED
  BY <1>1, SlotInvariance, PTL

(* "buckets[current_bucket].idx[node->slot_field] == node_idx", after      *)
(* every write of a kickout.                                               *)
THEOREM SlotFieldTracks == SlotSpec => []SlotFieldTracksSlot
<1>1. SlotInv => SlotFieldTracksSlot
  BY DEF SlotInv, Inv, TableInv, SlotOK, SlotsTold, SlotFieldTracksSlot
<1>2. QED
  BY <1>1, SlotInvariance, PTL

(* What the fingerprint variant's proofs say of the properties the slot    *)
(* variant is checked for: a linked element is found, by its key.          *)
THEOREM SlotAllFound == SlotSpec => []EveryLinkedIsFound
BY SlotImplementsFp, AllFound, PTL DEF RefinesFp
=============================================================================
