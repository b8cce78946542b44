-------------------------- MODULE RixCuckoo_proofs --------------------------
(***************************************************************************)
(* Lemmas about slots and hashes on which the theorems about every table   *)
(* rest, and what the operations of RixCuckoo do to the set of linked      *)
(* elements.                                                               *)
(***************************************************************************)
EXTENDS RixCuckoo, WellFoundedInduction, TLAPS

-----------------------------------------------------------------------------
(* Slots and hashes *)

LEMMA LeastExists ==
    ASSUME NEW S \in SUBSET Nat, S # {}
    PROVE  \E x \in S : \A y \in S : x <= y
<1>1. PICK x \in S : \A y \in S : ~(<<y, x>> \in OpToRel(<, Nat))
  BY NatLessThanWellFounded, WFMin, Zenon
<1>2. \A y \in S : ~(y < x)
  BY <1>1, Zenon DEF OpToRel
<1>3. QED
  BY <1>2

(* ctz of a non-empty hit mask is one of its slots, and the lowest.        *)
LEMMA LowestSlotIn ==
    ASSUME NEW S \in SUBSET Slot, S # {}
    PROVE  LowestSlot(S) \in S /\ \A t \in S : LowestSlot(S) <= t
<1>1. S \in SUBSET Nat
  BY SizeAssumption DEF Slot
<1>2. \E x \in S : \A y \in S : x <= y
  BY <1>1, LeastExists
<1>3. QED
  BY <1>2 DEF LowestSlot

(* The fingerprint takes either hash to the other.                         *)
LEMMA XorOther ==
    ASSUME NEW x, NEW y
    PROVE  Xor(Xor(x, y), x) = y /\ Xor(Xor(x, y), y) = x
BY DEF Xor

LEMMA HashTypes ==
    ASSUME NEW k \in Keys
    PROVE  /\ Hash0[k] \in Hash /\ Hash1[k] \in Hash /\ Fp(k) \in Hash
           /\ Bk0(k) \in Bucket /\ Bk1(k) \in Bucket
           /\ Bk0(k) # Bk1(k)
           /\ Fp(k) # {}
<1>1. Hash0[k] \in Hash /\ Hash1[k] \in Hash /\ Bk0(k) # Bk1(k)
  BY HashAssumption DEF HashContract
<1>2. Bk0(k) \in Bucket /\ Bk1(k) \in Bucket
  BY DEF Bk0, Bk1, Bucket
<1>3. Fp(k) \in Hash
  BY <1>1 DEF Fp, Xor, Hash
<1>4. Fp(k) # {}
  <2>1. Hash0[k] # Hash1[k]
    BY <1>1 DEF Bk0, Bk1
  <2>2. QED
    BY <2>1 DEF Fp, Xor
<1>5. QED
  BY <1>1, <1>2, <1>3, <1>4

-----------------------------------------------------------------------------
(* Tables *)

Table == [Bucket -> [Slot -> NodeOrNil]]

(* Every linked element is in one of its key's two buckets. *)
InCands(t, key) ==
    \A b \in Bucket, s \in Slot : t[b][s] # NIL => b \in Cands(key[t[b][s]])

LEMMA LinkedTypes ==
    ASSUME NEW t \in Table
    PROVE  LinkedIn(t) \subseteq Nodes
BY DEF Table, LinkedIn, NodeOrNil

LEMMA LinkedAt ==
    ASSUME NEW t \in Table, NEW b \in Bucket, NEW s \in Slot, t[b][s] # NIL
    PROVE  t[b][s] \in LinkedIn(t)
BY DEF LinkedIn

LEMMA WithoutRemoves ==
    ASSUME NEW t \in Table, NEW n \in Nodes, OneSlot(t)
    PROVE  /\ Without(t, n) \in Table
           /\ OneSlot(Without(t, n))
           /\ LinkedIn(Without(t, n)) = LinkedIn(t) \ {n}
<1> DEFINE u == Without(t, n)
<1>1. u \in Table
  BY DEF Without, Table, NodeOrNil
<1>2. \A b \in Bucket, s \in Slot :
         u[b][s] = IF t[b][s] = n THEN NIL ELSE t[b][s]
  BY DEF Without
<1> HIDE DEF u
<1>3. OneSlot(u)
  BY <1>2 DEF OneSlot
<1>4. LinkedIn(u) = LinkedIn(t) \ {n}
  BY <1>2, NilAssumption DEF LinkedIn
<1>5. QED
  BY <1>1, <1>3, <1>4 DEF u

LEMMA PutAdds ==
    ASSUME NEW t \in Table, OneSlot(t), NEW n \in Nodes, n \notin LinkedIn(t),
           NEW b \in Bucket, NEW s \in Room(t, b)
    PROVE  /\ Put(t, b, s, n) \in Table
           /\ OneSlot(Put(t, b, s, n))
           /\ LinkedIn(Put(t, b, s, n)) = LinkedIn(t) \cup {n}
<1> DEFINE u == Put(t, b, s, n)
<1>0. s \in Slot /\ t[b][s] = NIL
  BY DEF Room
<1>1. u \in Table
  BY <1>0 DEF Put, Table, NodeOrNil
<1>2. \A c \in Bucket, r \in Slot :
         u[c][r] = IF c = b /\ r = s THEN n ELSE t[c][r]
  BY <1>0 DEF Put, Table
<1> HIDE DEF u
<1>3. \A c \in Bucket, r \in Slot : t[c][r] # n
  BY NilAssumption DEF LinkedIn
<1>4. OneSlot(u)
  BY <1>2, <1>3 DEF OneSlot
<1>5. LinkedIn(u) \subseteq LinkedIn(t) \cup {n}
  BY <1>2 DEF LinkedIn
<1>6. n \in LinkedIn(u)
  BY <1>0, <1>2, NilAssumption DEF LinkedIn
<1>7. LinkedIn(t) \subseteq LinkedIn(u)
  BY <1>0, <1>2 DEF LinkedIn
<1>8. QED
  BY <1>1, <1>4, <1>5, <1>6, <1>7 DEF u

(* A kickout keeps every linked element, in one slot.                      *)
LEMMA RearrangedKeeps ==
    ASSUME NEW t \in Table, NEW key, NEW u \in Rearranged(t, key)
    PROVE  u \in Table /\ OneSlot(u) /\ LinkedIn(u) = LinkedIn(t)
<1> DEFINE L == LinkedIn(t)
<1>1. PICK p \in [L -> Bucket \X Slot] :
         /\ \A m, n \in L : p[m] = p[n] => m = n
         /\ u = [b \in Bucket |-> [s \in Slot |->
                   IF \E n \in L : p[n] = <<b, s>>
                     THEN CHOOSE n \in L : p[n] = <<b, s>> ELSE NIL]]
  BY DEF Rearranged
<1>2. L \subseteq Nodes /\ NIL \notin L
  BY LinkedTypes, NilAssumption
<1>3. \A b \in Bucket, s \in Slot :
         \/ u[b][s] \in L /\ p[u[b][s]] = <<b, s>>
         \/ u[b][s] = NIL /\ \A n \in L : p[n] # <<b, s>>
  BY <1>1
<1>4. u \in Table
  <2>1. u = [b \in Bucket |-> [s \in Slot |-> u[b][s]]]
    BY <1>1
  <2>2. \A b \in Bucket, s \in Slot : u[b][s] \in NodeOrNil
    BY <1>2, <1>3 DEF NodeOrNil
  <2>3. QED
    BY <2>1, <2>2 DEF Table
<1>5. OneSlot(u)
  BY <1>2, <1>3 DEF OneSlot
<1>6. LinkedIn(u) \subseteq L
  BY <1>3 DEF LinkedIn
<1>7. L \subseteq LinkedIn(u)
  <2>1. SUFFICES ASSUME NEW n \in L PROVE n \in LinkedIn(u)
    OBVIOUS
  <2>2. PICK b \in Bucket, s \in Slot : p[n] = <<b, s>>
    BY <1>1
  <2>3. u[b][s] \in L /\ p[u[b][s]] = p[n]
    BY <1>3, <2>2
  <2>4. u[b][s] = n
    BY <1>1, <2>3
  <2>5. QED
    BY <1>2, <2>4 DEF LinkedIn
<1>8. QED
  BY <1>4, <1>5, <1>6, <1>7

(* insert links its element and drops none. *)
LEMMA InsertedAdds ==
    ASSUME NEW t \in Table, OneSlot(t), NEW key, NEW n \in Nodes,
           key[n] \in Keys, n \notin LinkedIn(t), NEW u \in InsertedIn(t, key, n)
    PROVE  u \in Table /\ OneSlot(u) /\ LinkedIn(u) = LinkedIn(t) \cup {n}
<1> DEFINE k == key[n]
<1>1. Cands(k) \subseteq Bucket /\ Bk0(k) \in Bucket /\ Bk1(k) \in Bucket
  BY HashTypes DEF Cands
<1>2. \A b \in Bucket : Room(t, b) # {} => LowestSlot(Room(t, b)) \in Room(t, b)
  <2>1. \A b \in Bucket : Room(t, b) \in SUBSET Slot
    BY DEF Room
  <2>2. QED
    BY <2>1, LowestSlotIn
<1>3. CASE \E b \in Bucket : \E s \in Room(t, b) : u = Put(t, b, s, n)
  BY <1>3, PutAdds
<1>4. CASE \E v \in Rearranged(t, key), b \in Cands(k) :
             \E s \in Room(v, b) : u = Put(v, b, s, n)
  <2>1. PICK v \in Rearranged(t, key), b \in Cands(k) :
          \E s \in Room(v, b) : u = Put(v, b, s, n)
    BY <1>4
  <2>2. v \in Table /\ OneSlot(v) /\ LinkedIn(v) = LinkedIn(t)
    BY RearrangedKeeps
  <2>3. QED
    BY <1>1, <2>1, <2>2, PutAdds
<1>5. QED
  BY <1>1, <1>2, <1>3, <1>4 DEF InsertedIn

(* A kickout, and so insert, leaves every element in one of its buckets.   *)
LEMMA RearrangedInCands ==
    ASSUME NEW t, NEW key, NEW u \in Rearranged(t, key)
    PROVE  InCands(u, key)
<1> DEFINE L == LinkedIn(t)
<1>1. PICK p \in [L -> Bucket \X Slot] :
         /\ \A n \in L : p[n][1] \in Cands(key[n])
         /\ u = [b \in Bucket |-> [s \in Slot |->
                   IF \E n \in L : p[n] = <<b, s>>
                     THEN CHOOSE n \in L : p[n] = <<b, s>> ELSE NIL]]
  BY DEF Rearranged
<1>2. \A b \in Bucket, s \in Slot :
         u[b][s] # NIL => u[b][s] \in L /\ p[u[b][s]] = <<b, s>>
  BY <1>1
<1>3. QED
  BY <1>1, <1>2 DEF InCands

LEMMA PutInCands ==
    ASSUME NEW t \in Table, NEW key, InCands(t, key), NEW n,
           NEW b \in Cands(key[n]) \cap Bucket, NEW s \in Room(t, b)
    PROVE  InCands(Put(t, b, s, n), key)
<1>1. \A c \in Bucket, r \in Slot :
         Put(t, b, s, n)[c][r] = IF c = b /\ r = s THEN n ELSE t[c][r]
  BY DEF Put, Table, Room
<1>2. QED
  BY <1>1 DEF InCands

LEMMA InsertedInCands ==
    ASSUME NEW t \in Table, OneSlot(t), NEW key, InCands(t, key),
           NEW n, key[n] \in Keys, NEW u \in InsertedIn(t, key, n)
    PROVE  InCands(u, key)
<1> DEFINE k == key[n]
<1>1. Cands(k) \subseteq Bucket /\ Bk0(k) \in Cands(k) /\ Bk1(k) \in Cands(k)
  BY HashTypes DEF Cands
<1>2. \A b \in Bucket : Room(t, b) # {} => LowestSlot(Room(t, b)) \in Room(t, b)
  <2>1. \A b \in Bucket : Room(t, b) \in SUBSET Slot
    BY DEF Room
  <2>2. QED
    BY <2>1, LowestSlotIn
<1>3. CASE \E b \in Cands(k) : \E s \in Room(t, b) : u = Put(t, b, s, n)
  BY <1>1, <1>3, PutInCands
<1>4. CASE \E v \in Rearranged(t, key), b \in Cands(k) :
             \E s \in Room(v, b) : u = Put(v, b, s, n)
  <2>1. PICK v \in Rearranged(t, key), b \in Cands(k) :
          \E s \in Room(v, b) : u = Put(v, b, s, n)
    BY <1>4
  <2>2. v \in Table /\ InCands(v, key)
    BY RearrangedKeeps, RearrangedInCands
  <2>3. QED
    BY <1>1, <2>1, <2>2, PutInCands
<1>5. QED
  BY <1>1, <1>2, <1>3, <1>4 DEF InsertedIn

(* Taking the elements of E out of t, as remove does for one. *)
LEMMA SweptRemoves ==
    ASSUME NEW t \in Table, OneSlot(t), NEW E \in SUBSET Nodes, NEW u,
           u = [b \in Bucket |-> [s \in Slot |->
                  IF t[b][s] \in E THEN NIL ELSE t[b][s]]]
    PROVE  /\ u \in Table /\ OneSlot(u)
           /\ LinkedIn(u) = LinkedIn(t) \ E
           /\ \A key : InCands(t, key) => InCands(u, key)
<1>1. u \in Table
  BY DEF Table, NodeOrNil
<1>2. \A b \in Bucket, s \in Slot :
         u[b][s] = IF t[b][s] \in E THEN NIL ELSE t[b][s]
  OBVIOUS
<1>3. OneSlot(u)
  BY <1>2 DEF OneSlot
<1>4. LinkedIn(u) = LinkedIn(t) \ E
  BY <1>2, NilAssumption DEF LinkedIn
<1>5. \A key : InCands(t, key) => InCands(u, key)
  BY <1>2 DEF InCands
<1>6. QED
  BY <1>1, <1>3, <1>4, <1>5

-----------------------------------------------------------------------------
(* Elements under their keys *)

KeysDiffer(L, key) == \A m, n \in L : key[m] = key[n] => m = n

KeysOf(L, key) == {key[n] : n \in L}

(* The elements of L under their keys. *)
MapOn(L, key) == [k \in KeysOf(L, key) |-> CHOOSE n \in L : key[n] = k]

LEMMA MapOnAt ==
    ASSUME NEW key, NEW L, KeysDiffer(L, key), NEW n \in L
    PROVE  key[n] \in KeysOf(L, key) /\ MapOn(L, key)[key[n]] = n
<1>1. key[n] \in KeysOf(L, key)
  BY DEF KeysOf
<1>2. MapOn(L, key)[key[n]] = CHOOSE m \in L : key[m] = key[n]
  BY <1>1 DEF MapOn
<1>3. (CHOOSE m \in L : key[m] = key[n]) = n
  BY DEF KeysDiffer
<1>4. QED
  BY <1>1, <1>2, <1>3

LEMMA MapOnDomain ==
    ASSUME NEW key, NEW L
    PROVE  DOMAIN MapOn(L, key) = KeysOf(L, key)
BY DEF MapOn

(* A function that gives each key its element is the map. *)
LEMMA MapOnIs ==
    ASSUME NEW key, NEW L, KeysDiffer(L, key),
           NEW f, f = [k \in KeysOf(L, key) |-> f[k]],
           \A n \in L : f[key[n]] = n
    PROVE  MapOn(L, key) = f
<1>1. \A k \in KeysOf(L, key) : MapOn(L, key)[k] = f[k]
  BY MapOnAt DEF KeysOf
<1>2. MapOn(L, key) = [k \in KeysOf(L, key) |-> MapOn(L, key)[k]]
  BY DEF MapOn
<1>3. QED
  BY <1>1, <1>2

LEMMA MapAdds ==
    ASSUME NEW key, NEW L, KeysDiffer(L, key), NEW n, \A m \in L : key[m] # key[n]
    PROVE  MapOn(L \cup {n}, key) =
             [k \in DOMAIN MapOn(L, key) \cup {key[n]} |->
                IF k = key[n] THEN n ELSE MapOn(L, key)[k]]
<1> DEFINE M == L \cup {n}
           f == [k \in DOMAIN MapOn(L, key) \cup {key[n]} |->
                   IF k = key[n] THEN n ELSE MapOn(L, key)[k]]
<1>1. KeysDiffer(M, key)
  BY DEF KeysDiffer
<1>2. KeysOf(M, key) = DOMAIN MapOn(L, key) \cup {key[n]}
  <2>1. KeysOf(L, key) \cup {key[n]} = KeysOf(M, key)
    BY DEF KeysOf
  <2>2. QED
    BY <2>1, MapOnDomain
<1>3. f = [k \in KeysOf(M, key) |-> f[k]]
  BY <1>2
<1>4. \A m \in M : f[key[m]] = m
  BY MapOnAt, MapOnDomain
<1> HIDE DEF f, M
<1>5. MapOn(M, key) = f
  BY <1>1, <1>3, <1>4, MapOnIs
<1>6. QED
  BY <1>5 DEF f, M

LEMMA MapDrops ==
    ASSUME NEW key, NEW L, KeysDiffer(L, key), NEW n \in L
    PROVE  MapOn(L \ {n}, key) = [k \in DOMAIN MapOn(L, key) \ {key[n]} |-> MapOn(L, key)[k]]
<1> DEFINE M == L \ {n}
           f == [k \in DOMAIN MapOn(L, key) \ {key[n]} |-> MapOn(L, key)[k]]
<1>1. KeysDiffer(M, key)
  BY DEF KeysDiffer
<1>2. KeysOf(M, key) = DOMAIN MapOn(L, key) \ {key[n]}
  <2>1. KeysOf(L, key) \ {key[n]} = KeysOf(M, key)
    BY DEF KeysOf, KeysDiffer
  <2>2. QED
    BY <2>1, MapOnDomain
<1>3. f = [k \in KeysOf(M, key) |-> f[k]]
  BY <1>2
<1>4. \A m \in M : f[key[m]] = m
  BY MapOnAt, MapOnDomain DEF KeysDiffer
<1> HIDE DEF f, M
<1>5. MapOn(M, key) = f
  BY <1>1, <1>3, <1>4, MapOnIs
<1>6. QED
  BY <1>5 DEF f, M
=============================================================================
