------------------------ MODULE FlowDispatch_proofs ------------------------
(***************************************************************************)
(* Processes that dispatch to different ops tables find what is theirs in  *)
(* the cache they share, for every set of processes, table, CPU and hash.  *)
(***************************************************************************)
EXTENDS FlowDispatch, RixCuckoo_proofs, TLAPS

-----------------------------------------------------------------------------
(* Finding *)

LEMMA DivMod ==
    ASSUME NEW s \in Nat, NEW w \in Nat \ {0}
    PROVE  /\ s \div w \in Nat /\ s % w \in 0 .. w - 1
           /\ s = w * (s \div w) + (s % w)
BY SMT

LEMMA TimesGrows ==
    ASSUME NEW w \in Nat, NEW a \in Nat, NEW b \in Nat, a <= b
    PROVE  w * a <= w * b
BY SMT

(* However many slots a vector register compares, find_u32x16 and          *)
(* find_u64x16 return the mask of the slots that hold the value: all four  *)
(* ops tables see the same table.                                          *)
THEOREM FindMaskExact ==
    ASSUME NEW w \in 1 .. EntrySz, EntrySz % w = 0, NEW arr, NEW val
    PROVE  FindMask(w, arr, val) = {s \in Slot : arr[s] = val}
<1> DEFINE q == EntrySz \div w
<1>1. EntrySz \in Nat \ {0} /\ w \in Nat \ {0}
  BY SizeAssumption
<1>2. q \in Nat /\ EntrySz = w * q
  BY <1>1, DivMod
<1> HIDE DEF q
<1>3. ASSUME NEW v \in 0 .. q - 1, NEW i \in 0 .. w - 1
      PROVE  w * v + i \in Slot
  <2>1. v + 1 \in Nat /\ v + 1 <= q
    BY <1>2
  <2>2. w * (v + 1) <= EntrySz
    BY <1>1, <1>2, <2>1, TimesGrows
  <2>3. w * (v + 1) = w * v + w /\ w * v \in Nat
    BY <1>1
  <2>4. QED
    <3> DEFINE x == w * v
    <3>1. x \in Nat /\ x + w <= EntrySz
      BY <2>2, <2>3
    <3> HIDE DEF x
    <3>2. x + i \in Slot
      BY <1>1, <3>1 DEF Slot
    <3>3. QED
      BY <3>2 DEF x
<1>4. ASSUME NEW s \in Slot
      PROVE  \E v \in 0 .. q - 1 : \E i \in 0 .. w - 1 : s = w * v + i
  <2>1. s \in Nat /\ s < EntrySz
    BY <1>1 DEF Slot
  <2> DEFINE v == s \div w
             i == s % w
  <2>2. v \in Nat /\ i \in 0 .. w - 1 /\ s = w * v + i
    BY <1>1, <2>1, DivMod
  <2> HIDE DEF v, i
  <2>3. v < q
    <3>1. CASE q <= v
      <4>1. w * q <= w * v
        BY <1>1, <1>2, <2>2, <3>1, TimesGrows
      <4> DEFINE x == w * v
      <4>2. x \in Nat /\ EntrySz <= x /\ s = x + i
        BY <1>1, <1>2, <2>2, <4>1
      <4> HIDE DEF x
      <4>3. QED
        BY <1>1, <2>1, <2>2, <4>2
    <3>2. QED
      BY <1>2, <2>2, <3>1
  <2>4. QED
    BY <1>2, <2>2, <2>3
<1>5. FindMask(w, arr, val) =
        UNION {{w * v + i : i \in {j \in 0 .. w - 1 : arr[w * v + j] = val}} :
                  v \in 0 .. q - 1}
  BY DEF FindMask, q
<1>6. FindMask(w, arr, val) \subseteq {s \in Slot : arr[s] = val}
  BY <1>3, <1>5
<1>7. {s \in Slot : arr[s] = val} \subseteq FindMask(w, arr, val)
  <2>1. SUFFICES ASSUME NEW s \in Slot, arr[s] = val
                 PROVE  s \in FindMask(w, arr, val)
    OBVIOUS
  <2>2. PICK v \in 0 .. q - 1 : \E i \in 0 .. w - 1 : s = w * v + i
    BY <1>4
  <2>3. PICK i \in 0 .. w - 1 : s = w * v + i
    BY <2>2
  <2> DEFINE part(u) == {w * u + j : j \in {k \in 0 .. w - 1 : arr[w * u + k] = val}}
  <2>4. s \in part(v)
    BY <2>1, <2>3
  <2>5. FindMask(w, arr, val) = UNION {part(u) : u \in 0 .. q - 1}
    BY <1>5
  <2> HIDE DEF part
  <2>6. QED
    BY <2>4, <2>5
<1>8. QED
  BY <1>6, <1>7

LEMMA HashTable ==
    /\ HashOf("gen") = "fnv1a"
    /\ \A o \in Ops \ {"gen"} : HashOf(o) = "crc32c"
<1>1. HashOf("gen") = "fnv1a"
  BY DEF HashOf, Compiled
<1>2. HashOf("sse") = "crc32c"
  BY DEF HashOf, Compiled
<1>3. HashOf("avx2") = "crc32c"
  BY DEF HashOf, Compiled
<1>4. HashOf("avx512") = "crc32c"
  BY DEF HashOf, Compiled, Level
<1>5. QED
  BY <1>1, <1>2, <1>3, <1>4 DEF Ops

LEMMA TableTypes ==
    /\ \A e, c : Best(e, c) \in Ops
    /\ \A o \in Ops : HashOf(o) \in HashFn
BY HashTable DEF Best, Ops, HashFn

(* Any level that is enabled changes the hash if SSE4.2 is there, and none *)
(* does if it is not.                                                      *)
LEMMA SelectedHash ==
    ASSUME NEW e \in SUBSET Level, NEW c \in Cpus
    PROVE  HashOf(Select(e, c)) =
             IF e # {} /\ "sse" \in c THEN "crc32c" ELSE "fnv1a"
<1>1. Select(e, c) \in Ops /\ (Select(e, c) = "gen" <=> e = {} \/ "sse" \notin c)
  BY LevelAssumption DEF Select, Best, Ops, Level
<1>2. QED
  BY <1>1, HashTable

LEMMA HitsExact ==
    ASSUME TypeOK, NEW p \in Procs, NEW t, NEW b, NEW f
    PROVE  Hits(p, t, b, f) =
             {s \in Slot : FpRow(t, b)[s] = Fp(KeyFor(p, f)) /\ Flow(t[b][s]) = f}
<1> DEFINE w == Lanes[ArchOf(active[p], cpu)]
<1>1. w \in 1 .. EntrySz /\ EntrySz % w = 0
  BY LanesAssumption, TableTypes DEF ArchOf
<1> HIDE DEF w
<1>2. FindMask(w, FpRow(t, b), Fp(KeyFor(p, f))) =
        {s \in Slot : FpRow(t, b)[s] = Fp(KeyFor(p, f))}
  BY <1>1, FindMaskExact
<1>3. QED
  BY <1>2 DEF Hits, w

-----------------------------------------------------------------------------
(* Lookups *)

(* What a lookup returns is linked, of the flow, and has its fingerprint.  *)
LEMMA FoundIs ==
    ASSUME TypeOK, NEW p \in Procs, NEW t \in Table, NEW f \in Flows,
           Found(p, t, f) # NIL
    PROVE  /\ Found(p, t, f) \in LinkedIn(t)
           /\ Flow(Found(p, t, f)) = f
           /\ Fp(key[Found(p, t, f)]) = Fp(KeyFor(p, f))
<1> DEFINE k == KeyFor(p, f)
           h(b) == Hits(p, t, b, f)
<1>1. k \in Keys /\ Bk0(k) \in Bucket /\ Bk1(k) \in Bucket /\ Fp(k) # {}
  <2>1. k \in Keys
    BY KeysAssumption, TableTypes DEF KeyFor, TypeOK
  <2>2. QED
    BY <2>1, HashTypes
<1>2. ASSUME NEW b \in Bucket, h(b) # {}
      PROVE  LET e == t[b][LowestSlot(h(b))]
             IN  e \in LinkedIn(t) /\ Flow(e) = f /\ Fp(key[e]) = Fp(k)
  <2> DEFINE s == LowestSlot(h(b))
  <2>1. h(b) = {r \in Slot : FpRow(t, b)[r] = Fp(k) /\ Flow(t[b][r]) = f}
    BY HitsExact
  <2>2. s \in h(b)
    <3>1. h(b) \in SUBSET Slot
      BY <2>1
    <3> HIDE DEF h
    <3>2. QED
      BY <1>2, <3>1, LowestSlotIn
  <2> HIDE DEF s, h
  <2>3. s \in Slot /\ FpRow(t, b)[s] = Fp(k) /\ Flow(t[b][s]) = f
    BY <2>1, <2>2
  <2>4. t[b][s] # NIL /\ Fp(key[t[b][s]]) = Fp(k)
    BY <1>1, <2>3 DEF FpRow
  <2>5. t[b][s] \in LinkedIn(t)
    BY <2>3, <2>4, LinkedAt
  <2>6. QED
    BY <2>3, <2>4, <2>5 DEF s
<1>3. Found(p, t, f) = IF h(Bk0(k)) # {} THEN t[Bk0(k)][LowestSlot(h(Bk0(k)))]
                       ELSE IF h(Bk1(k)) # {} THEN t[Bk1(k)][LowestSlot(h(Bk1(k)))]
                       ELSE NIL
  BY DEF Found
<1> HIDE DEF h, k
<1>4. CASE h(Bk0(k)) # {}
  BY <1>1, <1>2, <1>3, <1>4 DEF k
<1>5. CASE h(Bk0(k)) = {} /\ h(Bk1(k)) # {}
  BY <1>1, <1>2, <1>3, <1>5 DEF k
<1>6. QED
  BY <1>3, <1>4, <1>5

(* An entry in one of the buckets of its key is seen by all who hash alike.*)
LEMMA FoundIf ==
    ASSUME TypeOK, NEW p \in Procs, NEW t \in Table, InCands(t, key),
           NEW n \in LinkedIn(t), key[n] = KeyFor(p, Flow(n))
    PROVE  Found(p, t, Flow(n)) # NIL
<1> DEFINE f == Flow(n)
           k == KeyFor(p, f)
           h(b) == Hits(p, t, b, f)
<1>1. n \in Nodes /\ n # NIL
  BY LinkedTypes, NilAssumption
<1>2. k \in Keys /\ f \in Flows
  BY <1>1, KeysAssumption DEF TypeOK, Flow
<1>3. Bk0(k) \in Bucket /\ Bk1(k) \in Bucket
  BY <1>2, HashTypes
<1>4. PICK b \in Bucket, s \in Slot : t[b][s] = n
  BY DEF LinkedIn
<1>5. b = Bk0(k) \/ b = Bk1(k)
  BY <1>1, <1>4 DEF InCands, Cands
<1>6. s \in h(b)
  <2>1. FpRow(t, b)[s] = Fp(k)
    BY <1>1, <1>4 DEF FpRow
  <2>2. QED
    BY <1>4, <2>1, HitsExact
<1>7. ASSUME NEW c \in Bucket, h(c) # {}
      PROVE  t[c][LowestSlot(h(c))] # NIL
  <2> DEFINE r == LowestSlot(h(c))
  <2>1. h(c) = {x \in Slot : FpRow(t, c)[x] = Fp(k) /\ Flow(t[c][x]) = f}
    BY HitsExact, <1>2
  <2>2. r \in h(c)
    <3>1. h(c) \in SUBSET Slot
      BY <2>1
    <3> HIDE DEF h
    <3>2. QED
      BY <1>7, <3>1, LowestSlotIn
  <2> HIDE DEF r, h
  <2>3. r \in Slot /\ FpRow(t, c)[r] = Fp(k)
    BY <2>1, <2>2
  <2>4. t[c][r] # NIL
    BY <1>2, <2>3, HashTypes DEF FpRow
  <2>5. QED
    BY <2>4 DEF r
<1>8. Found(p, t, f) = IF h(Bk0(k)) # {} THEN t[Bk0(k)][LowestSlot(h(Bk0(k)))]
                       ELSE IF h(Bk1(k)) # {} THEN t[Bk1(k)][LowestSlot(h(Bk1(k)))]
                       ELSE NIL
  BY DEF Found
<1>9. h(Bk0(k)) # {} \/ h(Bk1(k)) # {}
  <2> HIDE DEF h, k
  <2>1. QED
    BY <1>5, <1>6
<1>10. Found(p, t, f) # NIL
  <2> HIDE DEF h, k, f
  <2>1. QED
    BY <1>3, <1>7, <1>8, <1>9
<1>11. QED
  BY <1>10

-----------------------------------------------------------------------------
(* The table *)

(* Table t, whose entries hold the keys ks, may be one the processes of u  *)
(* have filled.                                                            *)
Sound(t, ks, u) ==
    /\ t \in Table /\ OneSlot(t) /\ InCands(t, ks)
    /\ \A m, n \in LinkedIn(t) : ks[m] = ks[n] => m = n
    /\ \A n \in LinkedIn(t) : \E q \in u : ks[n][2] = HashOf(active[q])

LEMMA SoundParts ==
    DispatchInv <=> TypeOK /\ Selected /\ Sound(tbl, key, used)
BY DEF DispatchInv, TypeOK, Sound, Housed, OnePerKey, AddedByUsers, InCands, Table

LEMMA SoundSmaller ==
    ASSUME NEW t, NEW ks, NEW u, Sound(t, ks, u),
           NEW v \in Table, OneSlot(v), InCands(v, ks), LinkedIn(v) \subseteq LinkedIn(t),
           NEW w, u \subseteq w
    PROVE  Sound(v, ks, w)
BY DEF Sound

LEMMA SoundWithout ==
    ASSUME NEW t, NEW ks, NEW u, Sound(t, ks, u), NEW n \in Nodes
    PROVE  Sound(Without(t, n), ks, u)
<1>1. /\ Without(t, n) \in Table /\ OneSlot(Without(t, n))
      /\ LinkedIn(Without(t, n)) \subseteq LinkedIn(t)
  BY WithoutRemoves DEF Sound
<1>2. InCands(Without(t, n), ks)
  BY DEF Sound, InCands, Without
<1>3. QED
  BY <1>1, <1>2, SoundSmaller

LEMMA SoundAlloc ==
    ASSUME TypeOK, NEW u \in SUBSET Procs, NEW t, Sound(t, key, u),
           NEW p \in u, NEW f \in Flows, AllocInsert(p, t, f)
    PROVE  /\ key' \in [Nodes -> Keys]
           /\ Sound(tbl', key', u)
<1> DEFINE k == KeyFor(p, f)
<1>1. k \in Keys /\ k[1] = f /\ k[2] = HashOf(active[p]) /\ key \in [Nodes -> Keys]
  BY KeysAssumption, TableTypes DEF KeyFor, TypeOK
<1>2. /\ t \in Table /\ OneSlot(t) /\ InCands(t, key) /\ LinkedIn(t) \subseteq Nodes
      /\ \A m, n \in LinkedIn(t) : key[m] = key[n] => m = n
      /\ \A n \in LinkedIn(t) : \E q \in u : key[n][2] = HashOf(active[q])
  BY LinkedTypes DEF Sound
<1>3. CASE tbl' = t /\ UNCHANGED key
  BY <1>1, <1>3
<1>4. ASSUME NEW n \in Nodes \ LinkedIn(t), key' = [key EXCEPT ![n] = k]
      PROVE  /\ key' \in [Nodes -> Keys]
             /\ Sound(t, key', u)
             /\ key'[n] = k
             /\ \A m \in LinkedIn(t) : key'[m] = key[m]
  <2> HIDE DEF k
  <2>1. /\ key' \in [Nodes -> Keys] /\ key'[n] = k
        /\ \A m \in LinkedIn(t) : key'[m] = key[m]
    BY <1>1, <1>2, <1>4
  <2>2. InCands(t, key')
    BY <1>2, <2>1, LinkedAt DEF InCands
  <2>3. QED
    BY <1>2, <2>1, <2>2 DEF Sound
<1>5. ASSUME NEW n \in Nodes \ LinkedIn(t), key' = [key EXCEPT ![n] = k],
             Found(p, t, f) = NIL, tbl' \in InsertedIn(t, key', n)
      PROVE  Sound(tbl', key', u)
  <2>1. /\ Sound(t, key', u) /\ key'[n] = k
        /\ \A m \in LinkedIn(t) : key'[m] = key[m]
    BY <1>4, <1>5
  <2>2. tbl' \in Table /\ OneSlot(tbl') /\ LinkedIn(tbl') = LinkedIn(t) \cup {n}
    <3>1. n \in Nodes /\ n \notin LinkedIn(t) /\ key'[n] \in Keys
      BY <1>1, <1>5, <2>1
    <3> DEFINE ks == key'
               v == tbl'
    <3>2. ks[n] \in Keys /\ v \in InsertedIn(t, ks, n)
      BY <1>5, <3>1
    <3> HIDE DEF ks, v
    <3>3. v \in Table /\ OneSlot(v) /\ LinkedIn(v) = LinkedIn(t) \cup {n}
      BY <1>2, <3>1, <3>2, InsertedAdds
    <3>4. QED
      BY <3>3 DEF v
  <2>3. InCands(tbl', key')
    BY <1>1, <1>2, <1>5, <2>1, InsertedInCands DEF Sound
  <2>4. \A m \in LinkedIn(t) : key'[m] # k
    <3>1. SUFFICES ASSUME NEW m \in LinkedIn(t), key[m] = k
                   PROVE  FALSE
      BY <2>1
    <3>2. key[m] = KeyFor(p, Flow(m)) /\ Flow(m) = f
      BY <1>1, <3>1 DEF Flow
    <3>3. Found(p, t, Flow(m)) # NIL
      BY <1>2, <3>2, FoundIf
    <3>4. QED
      BY <1>5, <3>2, <3>3
  <2> HIDE DEF k
  <2>5. \A m, o \in LinkedIn(tbl') : key'[m] = key'[o] => m = o
    BY <2>1, <2>2, <2>4 DEF Sound
  <2>6. \A m \in LinkedIn(tbl') : \E q \in u : key'[m][2] = HashOf(active[q])
    BY <1>1, <2>1, <2>2 DEF Sound
  <2>7. QED
    BY <2>2, <2>3, <2>5, <2>6 DEF Sound
<1>6. QED
  <2>1. CASE tbl' = t /\ UNCHANGED key
    BY <1>3, <2>1
  <2>2. CASE \E n \in Nodes \ LinkedIn(t) :
               /\ key' = [key EXCEPT ![n] = k]
               /\ \/ tbl' = t
                  \/ Found(p, t, f) = NIL /\ tbl' \in InsertedIn(t, key', n)
    BY <1>4, <1>5, <2>2
  <2>3. QED
    BY <2>1, <2>2 DEF AllocInsert

LEMMA SoundInit ==
    ASSUME NEW ks, NEW u
    PROVE  Sound(EmptyTable, ks, u)
<1>1. EmptyTable \in Table /\ \A b \in Bucket, s \in Slot : EmptyTable[b][s] = NIL
  BY DEF EmptyTable, Table, NodeOrNil
<1>2. LinkedIn(EmptyTable) = {}
  BY <1>1 DEF LinkedIn
<1> HIDE DEF EmptyTable
<1>3. QED
  BY <1>1, <1>2 DEF Sound, OneSlot, InCands

-----------------------------------------------------------------------------
(* The invariant *)

LEMMA InitDispatch == Init => DispatchInv
<1> SUFFICES ASSUME Init PROVE DispatchInv
  OBVIOUS
<1>1. TypeOK
  <2>1. tbl \in [Bucket -> [Slot -> NodeOrNil]]
    BY DEF Init, EmptyTable, NodeOrNil
  <2>2. (CHOOSE k \in Keys : TRUE) \in Keys
    <3>1. PICK f \in Flows : TRUE
      BY KeysAssumption
    <3>2. <<f, "fnv1a">> \in Keys
      BY <3>1, KeysAssumption DEF HashFn
    <3>3. QED
      BY <3>2
  <2>3. key \in [Nodes -> Keys]
    BY <2>2 DEF Init
  <2>4. QED
    BY <2>1, <2>3 DEF Init, TypeOK, Ops
<1>2. Selected
  BY DEF Init, Selected, Select, Best
<1>3. Sound(tbl, key, used)
  BY SoundInit DEF Init
<1>4. QED
  BY <1>1, <1>2, <1>3, SoundParts

(* What a call must restore: it selects nothing.                           *)
LEMMA CallKeeps ==
    ASSUME DispatchInv, NEW p \in Procs, Call(p),
           key' \in [Nodes -> Keys], Sound(tbl', key', used')
    PROVE  DispatchInv'
<1>1. TypeOK'
  BY DEF DispatchInv, TypeOK, Call, dispatch, Sound, Table
<1>2. Selected'
  BY DEF DispatchInv, Selected, Call, dispatch
<1>3. OneSlot(tbl)' /\ Housed' /\ OnePerKey'
  BY DEF Sound, InCands, Housed, OnePerKey
<1>4. AddedByUsers'
  BY DEF Sound, AddedByUsers, Call, dispatch
<1>5. QED
  BY <1>1, <1>2, <1>3, <1>4 DEF DispatchInv

LEMMA StepDispatch == DispatchInv /\ [Next]_vars => DispatchInv'
<1> SUFFICES ASSUME DispatchInv, [Next]_vars
             PROVE  DispatchInv'
  OBVIOUS
<1>1. TypeOK /\ Selected /\ Sound(tbl, key, used)
  BY SoundParts
<1>2. key \in [Nodes -> Keys] /\ used \subseteq Procs /\ LinkedIn(tbl) \subseteq Nodes
  BY <1>1, LinkedTypes DEF TypeOK, Sound
<1>3. ASSUME NEW p \in Procs, Call(p)
      PROVE  /\ p \in used' /\ used' \in SUBSET Procs
             /\ Sound(tbl, key, used')
             /\ \A n \in Nodes : Sound(Without(tbl, n), key, used')
  <2>1. p \in used' /\ used' \in SUBSET Procs /\ used \subseteq used'
    BY <1>2, <1>3 DEF Call
  <2>2. Sound(tbl, key, used')
    BY <1>1, <2>1 DEF Sound
  <2>3. QED
    BY <2>1, <2>2, SoundWithout
<1>4. ASSUME NEW p \in Procs, NEW e \in Enables, ArchInit(p, e)
      PROVE  DispatchInv'
  <2>1. TypeOK'
    BY <1>1, <1>4, TableTypes, LevelAssumption DEF ArchInit, TypeOK, Select
  <2>2. Selected'
    BY <1>1, <1>4 DEF ArchInit, Selected, TypeOK
  <2>3. \A q \in used : active'[q] = active[q]
    BY <1>1, <1>4 DEF ArchInit, TypeOK
  <2>4. AddedByUsers'
    BY <1>4, <2>3 DEF DispatchInv, ArchInit, AddedByUsers
  <2>5. OneSlot(tbl)' /\ Housed' /\ OnePerKey'
    BY <1>4 DEF ArchInit, DispatchInv, Housed, OnePerKey
  <2>6. QED
    BY <2>1, <2>2, <2>4, <2>5 DEF DispatchInv
<1>5. ASSUME NEW p \in Procs, Find(p)
      PROVE  DispatchInv'
  <2>1. Sound(tbl', key', used') /\ key' \in [Nodes -> Keys]
    BY <1>2, <1>3, <1>5 DEF Find
  <2>2. QED
    BY <1>5, <2>1, CallKeeps DEF Find
<1>6. ASSUME NEW p \in Procs, NEW f \in Flows, Add(p, f)
      PROVE  DispatchInv'
  <2>1. Sound(tbl', key', used') /\ key' \in [Nodes -> Keys]
    BY <1>1, <1>3, <1>6, SoundAlloc DEF Add
  <2>2. QED
    BY <1>6, <2>1, CallKeeps DEF Add
<1>7. ASSUME NEW p \in Procs, NEW f \in Flows, FindAdd(p, f)
      PROVE  DispatchInv'
  <2>1. Call(p)
    BY <1>7 DEF FindAdd
  <2>2. CASE UNCHANGED <<tbl, key>>
    BY <1>2, <1>3, <2>1, <2>2, CallKeeps
  <2>3. CASE AllocInsert(p, tbl, f)
    <3>1. Sound(tbl', key', used') /\ key' \in [Nodes -> Keys]
      BY <1>1, <1>3, <2>1, <2>3, SoundAlloc
    <3>2. QED
      BY <2>1, <3>1, CallKeeps
  <2>4. ASSUME NEW b \in Cands(KeyFor(p, f)), NEW s \in Slot, tbl[b][s] # NIL,
               AllocInsert(p, Without(tbl, tbl[b][s]), f)
        PROVE  DispatchInv'
    <3>1. tbl[b][s] \in Nodes
      <4>1. KeyFor(p, f) \in Keys
        BY <1>1, KeysAssumption, TableTypes DEF KeyFor, TypeOK
      <4>2. b \in Bucket
        BY <4>1, HashTypes DEF Cands
      <4>3. QED
        BY <1>1, <2>4, <4>2 DEF TypeOK, NodeOrNil
    <3>2. Sound(Without(tbl, tbl[b][s]), key, used')
      BY <1>3, <2>1, <3>1
    <3>3. Sound(tbl', key', used') /\ key' \in [Nodes -> Keys]
      BY <1>1, <1>3, <2>1, <2>4, <3>2, SoundAlloc
    <3>4. QED
      BY <2>1, <3>3, CallKeeps
  <2>5. QED
    BY <1>7, <2>2, <2>3, <2>4 DEF FindAdd
<1>8. ASSUME NEW p \in Procs, NEW f \in Flows, Del(p, f)
      PROVE  DispatchInv'
  <2>1. Found(p, tbl, f) \in Nodes
    BY <1>1, <1>2, <1>8, FoundIs DEF Del, Sound
  <2>2. Sound(tbl', key', used') /\ key' \in [Nodes -> Keys]
    BY <1>2, <1>3, <1>8, <2>1 DEF Del
  <2>3. QED
    BY <1>8, <2>2, CallKeeps DEF Del
<1>9. ASSUME NEW p \in Procs, NEW n \in Nodes, Evict(p, n)
      PROVE  DispatchInv'
  <2>1. Sound(tbl', key', used') /\ key' \in [Nodes -> Keys]
    BY <1>2, <1>3, <1>9 DEF Evict
  <2>2. QED
    BY <1>9, <2>1, CallKeeps DEF Evict
<1>10. ASSUME NEW p \in Procs, Flush(p)
      PROVE  DispatchInv'
  <2>1. Sound(tbl', key', used') /\ key' \in [Nodes -> Keys]
    BY <1>2, <1>10, SoundInit DEF Flush
  <2>2. QED
    BY <1>10, <2>1, CallKeeps DEF Flush
<1>11. CASE UNCHANGED vars
  BY <1>11 DEF vars, DispatchInv, TypeOK, Selected, Housed, OnePerKey, AddedByUsers,
     OneSlot, LinkedIn, Select
<1>12. QED
  BY <1>4, <1>5, <1>6, <1>7, <1>8, <1>9, <1>10, <1>11 DEF Next

(* Whatever calls the processes make, in any order and whichever ops table *)
(* each has, the table holds every entry once, in a bucket its own hash    *)
(* leads to, and no flow twice under one hash.                             *)
THEOREM DispatchInvHolds == Spec => []DispatchInv
BY InitDispatch, StepDispatch, PTL DEF Spec

(* The state stays what the fields can hold.                               *)
THEOREM TypeCorrect == Spec => []TypeOK
<1>1. DispatchInv => TypeOK
  BY DEF DispatchInv
<1>2. QED
  BY <1>1, DispatchInvHolds, PTL

LEMMA DispatchFound == DispatchInv => FoundByItsHash
<1> SUFFICES ASSUME DispatchInv, NEW n \in LinkedIn(tbl), NEW p \in Procs,
                    HashOf(active[p]) = key[n][2]
             PROVE  LET e == Found(p, tbl, Flow(n))
                    IN  e = n \/ (e # NIL /\ \A h, g \in HashFn :
                                     Fp(<<Flow(n), h>>) = Fp(<<Flow(n), g>>))
  BY DEF FoundByItsHash
<1> DEFINE f == Flow(n)
           e == Found(p, tbl, f)
<1>1. TypeOK /\ Sound(tbl, key, used) /\ OnePerKey
  BY SoundParts DEF DispatchInv
<1>2. n \in Nodes /\ tbl \in Table /\ InCands(tbl, key)
  BY <1>1, LinkedTypes DEF Sound
<1>3. key[n] = <<f, key[n][2]>> /\ f \in Flows /\ key[n][2] \in HashFn
  BY <1>1, <1>2, KeysAssumption DEF TypeOK, Flow
<1>4. key[n] = KeyFor(p, f)
  BY <1>3 DEF KeyFor
<1>5. e # NIL
  BY <1>1, <1>2, <1>4, FoundIf
<1>6. e \in LinkedIn(tbl) /\ Flow(e) = f /\ Fp(key[e]) = Fp(key[n])
  BY <1>1, <1>2, <1>3, <1>4, <1>5, FoundIs
<1> HIDE DEF e
<1>7. key[e] = <<f, key[e][2]>> /\ key[e][2] \in HashFn
  BY <1>1, <1>6, LinkedTypes, <1>2, KeysAssumption DEF TypeOK, Flow
<1>8. CASE key[e][2] = key[n][2]
  BY <1>1, <1>3, <1>6, <1>7, <1>8 DEF OnePerKey, e
<1>9. CASE key[e][2] # key[n][2]
  <2>1. HashFn = {key[e][2], key[n][2]}
    BY <1>3, <1>7, <1>9 DEF HashFn
  <2>2. Fp(<<f, key[e][2]>>) = Fp(<<f, key[n][2]>>)
    BY <1>3, <1>6, <1>7
  <2>3. \A h, g \in HashFn : Fp(<<f, h>>) = Fp(<<f, g>>)
    BY <2>1, <2>2
  <2>4. QED
    BY <1>5, <2>3 DEF e
<1>10. QED
  BY <1>8, <1>9

(* Nothing is lost to the processes that can see it: see FoundByItsHash.   *)
THEOREM FoundByItsHashHolds == Spec => []FoundByItsHash
BY DispatchFound, DispatchInvHolds, PTL

LEMMA DispatchOne == DispatchInv => OneEntryPerFlow
<1> SUFFICES ASSUME DispatchInv, NEW m \in LinkedIn(tbl), NEW n \in LinkedIn(tbl),
                    m # n, Flow(m) = Flow(n)
             PROVE  key[m][2] # key[n][2] /\ ~Agreed
  BY DEF OneEntryPerFlow
<1>1. TypeOK /\ Selected /\ OnePerKey /\ AddedByUsers /\ tbl \in Table
  BY DEF DispatchInv, TypeOK, Table
<1>2. key[m][2] # key[n][2]
  <2>1. key[m] \in Flows \X HashFn /\ key[n] \in Flows \X HashFn
    BY <1>1, LinkedTypes, KeysAssumption DEF TypeOK
  <2>2. key[m] # key[n]
    BY <1>1 DEF OnePerKey
  <2>3. QED
    BY <2>1, <2>2 DEF Flow
<1>3. ASSUME Agreed PROVE FALSE
  <2>1. PICK p \in used : key[m][2] = HashOf(active[p])
    BY <1>1 DEF AddedByUsers
  <2>2. PICK q \in used : key[n][2] = HashOf(active[q])
    BY <1>1 DEF AddedByUsers
  <2>3. p \in Procs /\ q \in Procs /\ cpu \in Cpus
        /\ enabled[p] \in SUBSET Level /\ enabled[q] \in SUBSET Level
        /\ (enabled[p] = {} <=> enabled[q] = {})
    BY <1>1, <1>3 DEF TypeOK, Agreed
  <2>4. active[p] = Select(enabled[p], cpu) /\ active[q] = Select(enabled[q], cpu)
    BY <1>1, <2>3 DEF Selected
  <2>5. HashOf(active[p]) = HashOf(active[q])
    BY <2>3, <2>4, SelectedHash
  <2>6. QED
    BY <1>2, <2>1, <2>2, <2>5
<1>4. QED
  BY <1>2, <1>3

(* OneEntryPerFlow: findadd and add link no flow twice under one hash, and *)
(* none twice at all as long as the processes agree on whether to enable   *)
(* anything in fc_arch_init, whichever levels each enables and the CPU has.*)
THEOREM OneEntryPerFlowHolds == Spec => []OneEntryPerFlow
BY DispatchOne, DispatchInvHolds, PTL
=============================================================================
