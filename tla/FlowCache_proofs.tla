--------------------------- MODULE FlowCache_proofs ---------------------------
(***************************************************************************)
(* The flow cache neither loses an entry nor frees one twice, and what its *)
(* batches report holds until they end, for every pool, table and batch.   *)
(***************************************************************************)
EXTENDS FlowCache, RixCuckoo_proofs, FiniteSetTheorems, SequenceTheorems

-----------------------------------------------------------------------------
(* The free list *)

LEMMA JoinOnce ==
    ASSUME NEW q \in Seq(Nodes), NEW f \in Seq(Nodes), Once(q), Once(f),
           Entries(q) \cap Entries(f) = {}
    PROVE  /\ q \o f \in Seq(Nodes)
           /\ Once(q \o f)
           /\ Entries(q \o f) = Entries(q) \cup Entries(f)
<1> DEFINE g == q \o f
<1>1. /\ g \in Seq(Nodes)
      /\ Len(g) = Len(q) + Len(f)
      /\ \A i \in 1 .. Len(q) + Len(f) :
           g[i] = IF i <= Len(q) THEN q[i] ELSE f[i - Len(q)]
  BY ConcatProperties
<1>2. /\ Len(q) \in Nat /\ DOMAIN q = 1 .. Len(q)
      /\ Len(f) \in Nat /\ DOMAIN f = 1 .. Len(f)
      /\ DOMAIN g = 1 .. Len(g)
  BY <1>1, LenProperties
<1> HIDE DEF g
<1>3. \A i \in DOMAIN q, j \in DOMAIN f : q[i] # f[j]
  BY DEF Entries
<1>0. \A i \in DOMAIN g :
         \/ i \in DOMAIN q /\ g[i] = q[i]
         \/ i > Len(q) /\ i - Len(q) \in DOMAIN f /\ g[i] = f[i - Len(q)]
  BY <1>1, <1>2
<1>4. Once(g)
  <2>1. SUFFICES ASSUME NEW i \in DOMAIN g, NEW j \in DOMAIN g, g[i] = g[j]
                 PROVE  i = j
    BY DEF Once
  <2>2. CASE i \in DOMAIN q /\ g[i] = q[i] /\ j \in DOMAIN q /\ g[j] = q[j]
    BY <2>1, <2>2 DEF Once
  <2>3. CASE /\ i - Len(q) \in DOMAIN f /\ g[i] = f[i - Len(q)]
             /\ j - Len(q) \in DOMAIN f /\ g[j] = f[j - Len(q)]
    <3>1. i - Len(q) = j - Len(q)
      BY <2>1, <2>3 DEF Once
    <3>2. QED
      BY <1>1, <1>2, <3>1
  <2>4. QED
    BY <1>0, <1>3, <2>1, <2>2, <2>3
<1>5. Entries(g) \subseteq Entries(q) \cup Entries(f)
  BY <1>0 DEF Entries
<1>6. Entries(q) \subseteq Entries(g)
  BY <1>1, <1>2 DEF Entries
<1>7. Entries(f) \subseteq Entries(g)
  <2>1. \A j \in DOMAIN f : j + Len(q) \in DOMAIN g /\ g[j + Len(q)] = f[j]
    BY <1>1, <1>2
  <2>2. QED
    BY <2>1 DEF Entries
<1>8. QED
  BY <1>1, <1>4, <1>5, <1>6, <1>7 DEF g

LEMMA PushOnce ==
    ASSUME NEW f \in Seq(Nodes), NEW e \in Nodes, Once(f), e \notin Entries(f)
    PROVE  /\ FreeEntry(f, e) \in Seq(Nodes)
           /\ Once(FreeEntry(f, e))
           /\ Entries(FreeEntry(f, e)) = Entries(f) \cup {e}
<1>1. <<e>> \in Seq(Nodes) /\ DOMAIN <<e>> = {1} /\ <<e>>[1] = e
  OBVIOUS
<1>2. Once(<<e>>) /\ Entries(<<e>>) = {e}
  BY <1>1 DEF Once, Entries
<1>3. Entries(<<e>>) \cap Entries(f) = {}
  BY <1>2
<1>4. Entries(<<e>>) \cup Entries(f) = Entries(f) \cup {e}
  BY <1>2
<1>5. /\ <<e>> \o f \in Seq(Nodes)
      /\ Once(<<e>> \o f)
      /\ Entries(<<e>> \o f) = Entries(<<e>>) \cup Entries(f)
  BY <1>1, <1>2, <1>3, JoinOnce, Zenon
<1>6. QED
  BY <1>4, <1>5 DEF FreeEntry

LEMMA PopOnce ==
    ASSUME NEW f \in Seq(Nodes), f # <<>>, Once(f)
    PROVE  /\ Head(f) \in Entries(f) /\ Head(f) \in Nodes
           /\ Tail(f) \in Seq(Nodes)
           /\ Once(Tail(f))
           /\ Entries(Tail(f)) = Entries(f) \ {Head(f)}
<1> DEFINE g == Tail(f)
<1>1. /\ g \in Seq(Nodes)
      /\ Len(g) = Len(f) - 1
      /\ \A i \in 1 .. Len(g) : g[i] = f[i + 1]
  BY HeadTailProperties
<1>2. /\ Len(f) \in Nat \ {0} /\ DOMAIN f = 1 .. Len(f)
      /\ DOMAIN g = 1 .. Len(g)
  BY <1>1, LenProperties, EmptySeq
<1>3. Head(f) = f[1]
  OBVIOUS
<1>4. Head(f) \in Entries(f) /\ Head(f) \in Nodes
  BY <1>2, <1>3, HeadTailProperties DEF Entries
<1> HIDE DEF g
<1>5. Once(g)
  BY <1>1, <1>2 DEF Once
<1>6. Entries(g) \subseteq Entries(f) \ {Head(f)}
  BY <1>1, <1>2, <1>3 DEF Entries, Once
<1>7. Entries(f) \ {Head(f)} \subseteq Entries(g)
  <2>1. \A j \in DOMAIN f : j # 1 => j - 1 \in DOMAIN g /\ g[j - 1] = f[j]
    BY <1>1, <1>2
  <2>2. QED
    BY <1>3, <2>1 DEF Entries
<1>8. QED
  BY <1>1, <1>4, <1>5, <1>6, <1>7 DEF g

(* init and flush put every entry on the free list once. *)
LEMMA AllFreeOnce ==
    /\ AllFree \in Seq(Nodes)
    /\ Once(AllFree)
    /\ Entries(AllFree) = Nodes
<1> DEFINE g == AllFree
<1>1. /\ Len(Pool) \in Nat /\ DOMAIN Pool = 1 .. Len(Pool)
      /\ Pool \in [1 .. Len(Pool) -> Nodes]
  BY PoolAssumption, LenProperties
<1>2. /\ g \in [1 .. Len(Pool) -> Nodes]
      /\ DOMAIN g = 1 .. Len(Pool)
      /\ \A i \in 1 .. Len(Pool) : g[i] = Pool[Len(Pool) + 1 - i]
  BY <1>1 DEF AllFree
<1>3. g \in Seq(Nodes)
  BY <1>1, <1>2
<1> HIDE DEF g
<1>4. Once(g)
  <2>1. \A i, j \in 1 .. Len(Pool) : Pool[i] = Pool[j] => i = j
    BY <1>1, PoolAssumption
  <2>2. QED
    BY <1>1, <1>2, <2>1 DEF Once
<1>5. Entries(g) \subseteq Nodes
  BY <1>2 DEF Entries
<1>6. Nodes \subseteq Entries(g)
  <2>1. \A j \in 1 .. Len(Pool) :
          Len(Pool) + 1 - j \in DOMAIN g /\ g[Len(Pool) + 1 - j] = Pool[j]
    BY <1>1, <1>2
  <2>2. QED
    BY <1>1, <2>1, PoolAssumption DEF Entries
<1>7. QED
  BY <1>3, <1>4, <1>5, <1>6 DEF g

LEMMA NodesFinite == IsFiniteSet(Nodes)
<1>1. /\ Len(Pool) \in Nat /\ DOMAIN Pool = 1 .. Len(Pool)
      /\ Pool \in [1 .. Len(Pool) -> Nodes]
  BY PoolAssumption, LenProperties
<1>2. Pool \in Surjection(1 .. Len(Pool), Nodes)
  BY <1>1, PoolAssumption DEF Surjection
<1>3. IsFiniteSet(1 .. Len(Pool))
  BY <1>1, FS_Interval
<1>4. QED
  BY <1>2, <1>3, FS_Surjection

(* An enumeration of a set of entries is a list of them. *)
LEMMA ListingOnce ==
    ASSUME NEW E \in SUBSET Nodes, NEW q \in Listings(E)
    PROVE  q \in Seq(Nodes) /\ Once(q) /\ Entries(q) = E
<1>1. Cardinality(E) \in Nat
  BY NodesFinite, FS_Subset, FS_CardinalityType
<1>2. q \in [1 .. Cardinality(E) -> E] /\ DOMAIN q = 1 .. Cardinality(E)
  BY DEF Listings
<1>3. q \in Seq(Nodes)
  BY <1>1, <1>2
<1>4. Once(q) /\ Entries(q) = E
  BY <1>2 DEF Listings, Once, Entries
<1>5. QED
  BY <1>3, <1>4
-----------------------------------------------------------------------------
(* Moving entries between the table and the free list *)

(* The table, the free list and the times of last use agree. *)
Cells(t, f, ts) ==
    /\ t \in Table
    /\ f \in Seq(Nodes)
    /\ ts \in [Nodes -> 0 .. MaxTsc]
    /\ Partition(t, f)
    /\ \A n \in Nodes : ts[n] # 0 <=> n \in LinkedIn(t)

LEMMA MaxTscNat == MaxTsc \in Nat \ {0}
BY BatchAssumption

(* Evict moves one entry from the table to the free list. *)
LEMMA EvictCells ==
    ASSUME NEW t, NEW f, NEW ts, Cells(t, f, ts), NEW e \in LinkedIn(t)
    PROVE  Cells(Without(t, e), FreeEntry(f, e), [ts EXCEPT ![e] = 0])
<1>1. t \in Table /\ f \in Seq(Nodes) /\ ts \in [Nodes -> 0 .. MaxTsc]
      /\ OneSlot(t) /\ Once(f) /\ LinkedIn(t) \cap Entries(f) = {}
      /\ LinkedIn(t) \cup Entries(f) = Nodes
      /\ \A n \in Nodes : ts[n] # 0 <=> n \in LinkedIn(t)
  BY DEF Cells, Partition
<1>2. e \in Nodes /\ e \notin Entries(f)
  BY <1>1
<1> DEFINE u == Without(t, e)
           g == FreeEntry(f, e)
           us == [ts EXCEPT ![e] = 0]
<1>3. u \in Table /\ OneSlot(u) /\ LinkedIn(u) = LinkedIn(t) \ {e}
  BY <1>1, <1>2, WithoutRemoves
<1>4. g \in Seq(Nodes) /\ Once(g) /\ Entries(g) = Entries(f) \cup {e}
  BY <1>1, <1>2, PushOnce
<1>5. us \in [Nodes -> 0 .. MaxTsc]
      /\ \A n \in Nodes : us[n] = IF n = e THEN 0 ELSE ts[n]
  BY <1>1, <1>2, MaxTscNat
<1> HIDE DEF u, g, us
<1>6. LinkedIn(u) \cap Entries(g) = {} /\ LinkedIn(u) \cup Entries(g) = Nodes
  BY <1>1, <1>2, <1>3, <1>4
<1>7. \A n \in Nodes : us[n] # 0 <=> n \in LinkedIn(u)
  BY <1>1, <1>3, <1>5
<1>8. Cells(u, g, us)
  BY <1>3, <1>4, <1>5, <1>6, <1>7 DEF Cells, Partition
<1>9. QED
  BY <1>8 DEF u, g, us

(* insert moves the first free entry into the table. *)
LEMMA InsertCells ==
    ASSUME NEW t, NEW f, NEW ts, Cells(t, f, ts), f # <<>>,
           NEW ks, ks[Head(f)] \in Keys,
           NEW u \in InsertedIn(t, ks, Head(f)), NEW now \in 1 .. MaxTsc
    PROVE  /\ Cells(u, Tail(f), [ts EXCEPT ![Head(f)] = now])
           /\ LinkedIn(u) = LinkedIn(t) \cup {Head(f)}
<1>1. t \in Table /\ f \in Seq(Nodes) /\ ts \in [Nodes -> 0 .. MaxTsc]
      /\ OneSlot(t) /\ Once(f) /\ LinkedIn(t) \cap Entries(f) = {}
      /\ LinkedIn(t) \cup Entries(f) = Nodes
      /\ \A n \in Nodes : ts[n] # 0 <=> n \in LinkedIn(t)
  BY DEF Cells, Partition
<1> DEFINE e == Head(f)
           g == Tail(f)
           us == [ts EXCEPT ![e] = now]
<1>2. /\ e \in Entries(f) /\ e \in Nodes
      /\ g \in Seq(Nodes) /\ Once(g) /\ Entries(g) = Entries(f) \ {e}
  BY <1>1, PopOnce
<1>3. u \in Table /\ OneSlot(u) /\ LinkedIn(u) = LinkedIn(t) \cup {e}
  BY <1>1, <1>2, InsertedAdds
<1>4. us \in [Nodes -> 0 .. MaxTsc]
      /\ \A n \in Nodes : us[n] = IF n = e THEN now ELSE ts[n]
  BY <1>1, <1>2, MaxTscNat
<1> HIDE DEF e, g, us
<1>5. LinkedIn(u) \cap Entries(g) = {} /\ LinkedIn(u) \cup Entries(g) = Nodes
  BY <1>1, <1>2, <1>3
<1>6. \A n \in Nodes : us[n] # 0 <=> n \in LinkedIn(u)
  BY <1>1, <1>3, <1>4
<1>7. Cells(u, g, us)
  BY <1>2, <1>3, <1>4, <1>5, <1>6 DEF Cells, Partition
<1>8. QED
  BY <1>3, <1>7 DEF e, g, us

(* alloc_entry and free_entry in a row leave the free list as it was. *)
LEMMA PutBack ==
    ASSUME NEW f \in Seq(Nodes), f # <<>>
    PROVE  FreeEntry(Tail(f), Head(f)) = f
BY DEF FreeEntry

(* An entry that goes back to the free list was and stays free. *)
LEMMA GiveBackCells ==
    ASSUME NEW t, NEW f, NEW ts, Cells(t, f, ts), f # <<>>
    PROVE  Cells(t, FreeEntry(Tail(f), Head(f)), [ts EXCEPT ![Head(f)] = 0])
<1>1. f \in Seq(Nodes) /\ ts \in [Nodes -> 0 .. MaxTsc] /\ Once(f)
      /\ LinkedIn(t) \cap Entries(f) = {}
      /\ \A n \in Nodes : ts[n] # 0 <=> n \in LinkedIn(t)
  BY DEF Cells, Partition
<1>2. Head(f) \in Nodes /\ Head(f) \notin LinkedIn(t)
  BY <1>1, PopOnce
<1>3. [ts EXCEPT ![Head(f)] = 0] = ts
  BY <1>1, <1>2
<1>4. QED
  BY <1>1, <1>3, PutBack

(* A linked entry may be given any time of use but 0. *)
LEMMA TouchCells ==
    ASSUME NEW t, NEW f, NEW ts, Cells(t, f, ts), NEW e \in LinkedIn(t),
           NEW now \in 1 .. MaxTsc
    PROVE  Cells(t, f, [ts EXCEPT ![e] = now])
<1>1. ts \in [Nodes -> 0 .. MaxTsc] /\ e \in Nodes
      /\ \A n \in Nodes : ts[n] # 0 <=> n \in LinkedIn(t)
  BY LinkedTypes DEF Cells
<1>2. [ts EXCEPT ![e] = now] \in [Nodes -> 0 .. MaxTsc]
      /\ \A n \in Nodes : [ts EXCEPT ![e] = now][n] = IF n = e THEN now ELSE ts[n]
  BY <1>1, MaxTscNat
<1>3. \A n \in Nodes : [ts EXCEPT ![e] = now][n] # 0 <=> n \in LinkedIn(t)
  BY <1>1, <1>2
<1>4. QED
  BY <1>2, <1>3 DEF Cells
-----------------------------------------------------------------------------
(* The parts of the invariant *)

Keyed(t, ks) ==
    /\ InCands(t, ks)
    /\ \A m, n \in LinkedIn(t) : ks[m] = ks[n] => m = n

(* What the call in progress has reported in r holds of the table t. *)
Held(t, ks, ts, r) ==
    call.op \in {"find", "findadd", "add"} =>
      \A i \in DOMAIN r : r[i] # NIL =>
        /\ r[i] \in LinkedIn(t)
        /\ ks[r[i]] = call.args[i]
        /\ call.op # "find" => ts[r[i]] = call.now

(* The clock stands still during a call. *)
Timely == call.op \in {"findadd", "add"} => call.now = tsc

IInv ==
    /\ TypeOK
    /\ Cells(tbl, free, last_ts)
    /\ Keyed(tbl, key)
    /\ Held(tbl, key, last_ts, res)
    /\ Timely

LEMMA CallTypes ==
    ASSUME TypeOK
    PROVE  /\ call = NoCall \/ call.op \in KeyOps \cup {"delidx"}
           /\ call.op \in KeyOps => call.args \in Seq(Keys) /\ call.now \in 0 .. MaxTsc
           /\ call.op = "delidx" => call.args \in Seq(NodeOrNil)
           /\ Len(call.args) \in Nat /\ DOMAIN call.args = 1 .. Len(call.args)
<1>1. CASE call = NoCall
  BY <1>1 DEF NoCall, KeyOps
<1>2. CASE \E op \in KeyOps : call \in [op : {op}, args : KeyBatches[op], now : 0 .. MaxTsc]
  <2>1. PICK op \in KeyOps : call \in [op : {op}, args : KeyBatches[op], now : 0 .. MaxTsc]
    BY <1>2
  <2>2. call.op = op /\ call.args \in KeyBatches[op] /\ call.now \in 0 .. MaxTsc
    BY <2>1
  <2>3. call.args \in Seq(Keys)
    BY <2>2, BatchAssumption DEF KeyOps
  <2>4. op # "delidx"
    BY DEF KeyOps
  <2>5. QED
    BY <2>2, <2>3, <2>4, LenProperties
<1>3. CASE call \in [op : {"delidx"}, args : IdxBatches, now : {0}]
  <2>1. call.op = "delidx" /\ call.args \in Seq(NodeOrNil)
    BY <1>3, BatchAssumption
  <2>2. QED
    BY <2>1, LenProperties DEF KeyOps
<1>4. call \in CallRecord
  BY DEF TypeOK
<1>5. QED
  BY <1>1, <1>2, <1>3, <1>4 DEF CallRecord

LEMMA TurnTypes ==
    ASSUME TypeOK, NEW op, Running(op)
    PROVE  /\ Len(res) \in Nat /\ Turn = Len(res) + 1
           /\ Turn \in DOMAIN call.args /\ Turn \in DOMAIN ctx
           /\ op \in KeyOps => Arg \in Keys
           /\ op = "delidx" => Arg \in NodeOrNil
           /\ ctx[Turn].hits \subseteq Slot
<1>1. Len(res) \in Nat
  BY LenProperties DEF TypeOK
<1>2. Turn \in DOMAIN call.args
  BY <1>1, CallTypes DEF Turn, Running
<1>3. /\ op \in KeyOps => call.args \in Seq(Keys)
      /\ op = "delidx" => call.args \in Seq(NodeOrNil)
  BY CallTypes DEF Running
<1>4. Turn \in DOMAIN ctx /\ ctx[Turn].hits \subseteq Slot
  BY <1>2 DEF TypeOK
<1>5. /\ op \in KeyOps => Arg \in Keys
      /\ op = "delidx" => Arg \in NodeOrNil
  BY <1>2, <1>3, CallTypes, ElementOfSeq DEF Arg
<1>6. QED
  BY <1>1, <1>2, <1>4, <1>5 DEF Turn

LEMMA RoomCounts ==
    ASSUME NEW t, NEW b
    PROVE  Cardinality(Room(t, b)) \in 0 .. EntrySz
<1>1. IsFiniteSet(Slot) /\ Cardinality(Slot) = EntrySz
  BY SizeAssumption, FS_Interval DEF Slot
<1>2. Room(t, b) \in SUBSET Slot
  BY DEF Room
<1>3. IsFiniteSet(Room(t, b)) /\ Cardinality(Room(t, b)) <= EntrySz
  BY <1>1, <1>2, FS_Subset
<1>4. QED
  BY <1>3, FS_CardinalityType, SizeAssumption

LEMMA ScanTypes ==
    ASSUME NEW t, NEW ks, NEW k
    PROVE  ScanBk(t, ks, k) \in [hits : SUBSET Slot, empties : 0 .. EntrySz]
BY RoomCounts DEF ScanBk

LEMMA NoCtxTypes == NoCtx \in [hits : SUBSET Slot, empties : 0 .. EntrySz]
BY SizeAssumption DEF NoCtx

(* A key's step leaves the call, its results and its scans well-typed.     *)
LEMMA ResultTypes ==
    ASSUME TypeOK, NEW op, Running(op), NEW e \in NodeOrNil, Result(e)
    PROVE  /\ call' = call /\ tsc' = tsc
           /\ res' \in Seq(NodeOrNil) /\ Len(res') <= Len(call.args)
           /\ DOMAIN ctx' = DOMAIN call.args
           /\ \A i \in DOMAIN ctx' :
                ctx'[i] \in [hits : SUBSET Slot, empties : 0 .. EntrySz]
<1>1. res \in Seq(NodeOrNil) /\ Len(res) \in Nat /\ Len(res) + 1 <= Len(call.args)
  BY LenProperties DEF TypeOK, Running, Turn
<1>2. res' \in Seq(NodeOrNil) /\ Len(res') = Len(res) + 1
  BY <1>1, AppendProperties DEF Result
<1>3. DOMAIN ctx' = DOMAIN call.args
  BY DEF Result
<1>4. \A i \in DOMAIN call.args :
         \/ ctx'[i] = NoCtx
         \/ ctx'[i] = ScanBk(tbl', key', call.args[i])
         \/ ctx'[i] = ctx[i]
  BY DEF Result
<1>5. \A i \in DOMAIN call.args :
         ctx[i] \in [hits : SUBSET Slot, empties : 0 .. EntrySz]
  BY DEF TypeOK
<1>6. QED
  BY <1>1, <1>2, <1>3, <1>4, <1>5, ScanTypes, NoCtxTypes DEF Result

(* A step keeps what was reported if it reports what holds.                *)
LEMMA HeldNext ==
    ASSUME TypeOK, NEW op, Running(op), NEW e \in NodeOrNil, Result(e),
           NEW t, NEW ks, NEW ts, Held(t, ks, ts, res),
           e # NIL => Held(t, ks, ts, [i \in {Turn} |-> e])
    PROVE  Held(t, ks, ts, res')
<1>1. /\ res' \in Seq(NodeOrNil) /\ Len(res') = Len(res) + 1
      /\ \A i \in 1 .. Len(res) : res'[i] = res[i]
      /\ res'[Len(res) + 1] = e
      /\ Len(res) \in Nat /\ DOMAIN res = 1 .. Len(res)
  BY AppendProperties, LenProperties DEF TypeOK, Result
<1>2. DOMAIN res' = 1 .. Len(res) + 1
  BY <1>1, LenProperties
<1>3. \A i \in DOMAIN res' :
         (i \in DOMAIN res /\ res'[i] = res[i]) \/ (i = Turn /\ res'[i] = e)
  BY <1>1, <1>2 DEF Turn
<1>4. QED
  BY <1>3 DEF Held
-----------------------------------------------------------------------------
(* Looking up, and choosing a victim *)

(* cmp_key compares keys again: whatever the scan saw, it returns the      *)
(* linked entry of the key, or nothing.                                    *)
LEMMA FoundIsLinked ==
    ASSUME TypeOK, NEW op \in KeyOps, Running(op), Found # NIL
    PROVE  Found \in LinkedIn(tbl) /\ key[Found] = Arg
<1> DEFINE c == ctx[Turn]
           h0 == {s \in c.hits : tbl[Bk0(Arg)][s] # NIL /\ key[tbl[Bk0(Arg)][s]] = Arg}
           h1 == {s \in Slot : tbl[Bk1(Arg)][s] # NIL /\ key[tbl[Bk1(Arg)][s]] = Arg}
<1>1. Arg \in Keys /\ c.hits \subseteq Slot
  BY TurnTypes
<1>2. Bk0(Arg) \in Bucket /\ Bk1(Arg) \in Bucket
  BY <1>1, HashTypes
<1>3. h0 \in SUBSET Slot /\ h1 \in SUBSET Slot
  BY <1>1
<1>4. \/ \E s \in h0 : Found = tbl[Bk0(Arg)][s]
      \/ \E s \in h1 : Found = tbl[Bk1(Arg)][s]
  BY <1>3, LowestSlotIn DEF Found, CmpKey
<1>5. QED
  BY <1>2, <1>3, <1>4 DEF LinkedIn

LEMMA OldestIsExpired ==
    ASSUME TypeOK, NEW b \in Bucket, NEW before, Oldest(b, before) # NIL
    PROVE  /\ Oldest(b, before) \in LinkedIn(tbl)
           /\ last_ts[Oldest(b, before)] < before
<1> DEFINE E == ExpiredSlots(b, before)
           O == {s \in E : \A r \in E : last_ts[tbl[b][s]] <= last_ts[tbl[b][r]]}
           T == {last_ts[tbl[b][s]] : s \in E}
<1>1. E # {} /\ Oldest(b, before) = tbl[b][LowestSlot(O)]
  BY DEF Oldest
<1>2. E \subseteq Slot
  BY DEF ExpiredSlots
<1>3. \A s \in E : last_ts[tbl[b][s]] \in Nat
  <2>1. \A s \in E : tbl[b][s] \in Nodes
    BY DEF ExpiredSlots, TypeOK, NodeOrNil
  <2>2. QED
    BY <2>1 DEF TypeOK
<1>4. O # {}
  <2>1. T \in SUBSET Nat /\ T # {}
    BY <1>1, <1>3
  <2>2. PICK x \in T : \A y \in T : x <= y
    BY <2>1, LeastExists
  <2>3. QED
    BY <2>2
<1>5. LowestSlot(O) \in E
  <2>1. O \in SUBSET Slot
    BY <1>2
  <2>2. QED
    BY <1>4, <2>1, LowestSlotIn
<1>6. tbl[b][LowestSlot(O)] # NIL /\ last_ts[tbl[b][LowestSlot(O)]] < before
  BY <1>5 DEF ExpiredSlots
<1> HIDE DEF E, O, T
<1>7. QED
  BY <1>1, <1>2, <1>5, <1>6 DEF LinkedIn

(* The part (a / d) * c of a length c with a within 0 .. d.                *)
LEMMA Fraction ==
    ASSUME NEW a \in Nat, NEW d \in Nat, a < d, NEW c \in Nat
    PROVE  (a * c) \div d \in 0 .. c
<1> DEFINE q == (a * c) \div d
<1>1. a * c \in Nat /\ a * c <= d * c
  OBVIOUS
<1>2. q \in Int /\ d * q <= a * c /\ a * c < d * (q + 1)
  BY <1>1
<1> HIDE DEF q
<1>3. q >= 0
  BY <1>1, <1>2
<1>4. q <= c
  BY <1>1, <1>2
<1>5. QED
  BY <1>3, <1>4 DEF q

LEMMA LiveTypes ==
    ASSUME TypeOK, OneSlot(tbl)
    PROVE  Live \in Nat
<1> DEFINE P == {p \in Bucket \X Slot : tbl[p[1]][p[2]] # NIL}
           f == [p \in P |-> tbl[p[1]][p[2]]]
<1>1. f \in [P -> Nodes]
  BY DEF TypeOK, NodeOrNil
<1>2. \A p, q \in P : f[p] = f[q] => p = q
  BY DEF OneSlot
<1>3. f \in Injection(P, Nodes)
  BY <1>1, <1>2 DEF Injection, IsInjective
<1>4. IsFiniteSet(P)
  BY <1>3, NodesFinite, FS_Injection
<1>5. QED
  BY <1>4, FS_CardinalityType DEF Live

LEMMA ThresholdTypes ==
    ASSUME NEW parts \in Nat
    PROVE  Threshold64(parts) \in Nat
<1>1. IsFiniteSet(Bucket)
  BY FiniteAssumption, FS_SUBSET DEF Bucket
<1>2. TotalSlots \in Nat
  BY <1>1, FS_CardinalityType, SizeAssumption DEF TotalSlots
<1>3. TotalSlots * parts \in Nat
  BY <1>2
<1>4. QED
  BY <1>3 DEF Threshold64

(* However full the table, the timeout in force lies between the least one *)
(* and the configured one; with a configured timeout of 0 it is 0.         *)
LEMMA EffTimeoutRange ==
    ASSUME TypeOK, OneSlot(tbl)
    PROVE  /\ EffTimeout \in Nat
           /\ Timeout # 0 => EffTimeout >= TimeoutMin
           /\ TimeoutMin \in Nat
<1> DEFINE lo == Threshold64(38)
           hi == Threshold64(48)
           cut == ((Live - lo) * (Timeout - TimeoutMin)) \div (hi - lo)
           eff == IF Live <= lo THEN Timeout
                  ELSE IF Live >= hi THEN TimeoutMin ELSE Timeout - cut
<1>1. Live \in Nat /\ lo \in Nat /\ hi \in Nat
  BY LiveTypes, ThresholdTypes
<1>2. Timeout \in Nat
  BY TimeoutAssumption
<1>3. TimeoutMin \in Nat \ {0} /\ (Timeout # 0 => TimeoutMin <= Timeout)
  BY <1>2 DEF TimeoutMin
<1>4. EffTimeout = IF Timeout = 0 THEN 0 ELSE IF eff = 0 THEN 1 ELSE eff
  BY DEF EffTimeout
<1>5. ASSUME Timeout # 0, Live > lo, Live < hi
      PROVE  cut \in 0 .. Timeout - TimeoutMin
  <2>1. Live - lo \in Nat /\ hi - lo \in Nat /\ Live - lo < hi - lo
        /\ Timeout - TimeoutMin \in Nat
    BY <1>1, <1>2, <1>3, <1>5
  <2>2. QED
    BY <2>1, Fraction
<1> HIDE DEF cut, lo, hi
<1>6. Timeout # 0 => eff \in Nat /\ eff >= TimeoutMin
  BY <1>1, <1>2, <1>3, <1>5
<1> HIDE DEF eff
<1>7. QED
  BY <1>2, <1>3, <1>4, <1>6

(* What has expired was last used before the least timeout began to run.   *)
LEMMA ExpireBeforeRange ==
    ASSUME TypeOK, OneSlot(tbl), NEW now \in Nat, NEW ts \in Nat,
           ts < ExpireBefore(now)
    PROVE  /\ ts < now
           /\ ts + (IF Timeout = 0 THEN 0 ELSE TimeoutMin) < now
<1>1. /\ EffTimeout \in Nat /\ TimeoutMin \in Nat
      /\ Timeout # 0 => EffTimeout >= TimeoutMin
  BY EffTimeoutRange
<1>2. ts < now - EffTimeout
  BY <1>1 DEF ExpireBefore
<1>3. QED
  BY <1>1, <1>2

LEMMA VictimIsExpired ==
    ASSUME TypeOK, NEW op \in KeyOps, Running(op), Victim # NIL
    PROVE  /\ Victim \in LinkedIn(tbl)
           /\ last_ts[Victim] < ExpireBefore(call.now)
<1>1. Bk0(Arg) \in Bucket /\ Bk1(Arg) \in Bucket
  BY TurnTypes, HashTypes
<1>2. \/ Victim = Oldest(Bk0(Arg), ExpireBefore(call.now))
      \/ Victim = Oldest(Bk1(Arg), ExpireBefore(call.now))
  BY DEF Victim
<1>3. QED
  BY <1>1, <1>2, OldestIsExpired
-----------------------------------------------------------------------------
(* Operations on the table keep what is keyed and what is held *)

LEMMA EvictKeyed ==
    ASSUME NEW t \in Table, OneSlot(t), NEW ks, Keyed(t, ks), NEW e \in Nodes
    PROVE  Keyed(Without(t, e), ks)
<1>1. LinkedIn(Without(t, e)) = LinkedIn(t) \ {e}
  BY WithoutRemoves
<1>2. InCands(Without(t, e), ks)
  BY DEF Keyed, InCands, Without
<1>3. QED
  BY <1>1, <1>2 DEF Keyed

(* No linked entry has key k unless the duplicate scan of insert finds it. *)
LEMMA TwinFindsAll ==
    ASSUME NEW t \in Table, NEW ks, Keyed(t, ks), NEW k
    PROVE  /\ \A n \in LinkedIn(t) : ks[n] = k => n \in Twin(t, ks, k)
           /\ k \in Keys =>
                \A d \in Twin(t, ks, k) : d \in LinkedIn(t) /\ ks[d] = k
<1>1. ASSUME NEW n \in LinkedIn(t), ks[n] = k
      PROVE  n \in Twin(t, ks, k)
  <2>1. PICK b \in Bucket, s \in Slot : t[b][s] = n /\ n # NIL
    BY DEF LinkedIn
  <2>2. b \in Cands(k)
    BY <1>1, <2>1 DEF Keyed, InCands
  <2>3. n \in Nodes
    BY LinkedTypes
  <2>4. QED
    BY <1>1, <2>1, <2>2, <2>3 DEF Twin
<1>2. ASSUME k \in Keys, NEW d \in Twin(t, ks, k)
      PROVE  d \in LinkedIn(t) /\ ks[d] = k
  <2>1. Cands(k) \subseteq Bucket
    BY <1>2, HashTypes DEF Cands
  <2>2. d \in Nodes /\ d # NIL
    BY NilAssumption DEF Twin
  <2>3. QED
    BY <2>1, <2>2 DEF Twin, LinkedIn
<1>3. QED
  BY <1>1, <1>2

(* insert of a key that is not linked keeps the keys unique.               *)
LEMMA InsertKeyed ==
    ASSUME NEW t \in Table, OneSlot(t), NEW ks \in [Nodes -> Keys], Keyed(t, ks),
           NEW k \in Keys, Twin(t, ks, k) = {}, NEW n \in Nodes, n \notin LinkedIn(t),
           NEW u \in InsertedIn(t, [ks EXCEPT ![n] = k], n)
    PROVE  Keyed(u, [ks EXCEPT ![n] = k])
<1> DEFINE ls == [ks EXCEPT ![n] = k]
<1>1. /\ ls \in [Nodes -> Keys] /\ ls[n] = k
      /\ \A m \in LinkedIn(t) : ls[m] = ks[m]
  BY LinkedTypes
<1>2. u \in InsertedIn(t, ls, n)
  OBVIOUS
<1> HIDE DEF ls
<1>3. \A b \in Bucket, s \in Slot : t[b][s] # NIL => t[b][s] \in LinkedIn(t)
  BY DEF LinkedIn
<1>4. InCands(t, ls)
  BY <1>1, <1>3 DEF Keyed, InCands
<1>5. InCands(u, ls)
  BY <1>1, <1>2, <1>4, InsertedInCands
<1>6. LinkedIn(u) = LinkedIn(t) \cup {n}
  BY <1>1, <1>2, InsertedAdds
<1>7. \A m \in LinkedIn(t) : ls[m] # k
  BY <1>1, TwinFindsAll
<1>8. \A m, l \in LinkedIn(u) : ls[m] = ls[l] => m = l
  BY <1>1, <1>6, <1>7 DEF Keyed
<1>9. Keyed(u, ls)
  BY <1>5, <1>8 DEF Keyed
<1>10. QED
  BY <1>9 DEF ls

(* The invariant's parts that a step must restore.                         *)
Kept == /\ Cells(tbl', free', last_ts')
        /\ key' \in [Nodes -> Keys]
        /\ Keyed(tbl', key')
        /\ Held(tbl', key', last_ts', res')

Moved(t) == LinkedIn(t) \subseteq LinkedIn(tbl')

LEMMA AllocKeeps ==
    ASSUME TypeOK, NEW op \in {"findadd", "add"}, Running(op), call.now \in 1 .. MaxTsc,
           NEW t, NEW f, NEW ts, Cells(t, f, ts), Keyed(t, key),
           Held(t, key, ts, res), AllocInsert(t, f, ts)
    PROVE  Kept /\ Moved(t) /\ \E e \in NodeOrNil : Result(e)
<1>1. /\ t \in Table /\ f \in Seq(Nodes) /\ ts \in [Nodes -> 0 .. MaxTsc]
      /\ OneSlot(t) /\ Once(f) /\ LinkedIn(t) \cap Entries(f) = {}
      /\ key \in [Nodes -> Keys]
  BY DEF Cells, Partition, TypeOK
<1>2. Arg \in Keys /\ Turn \in DOMAIN call.args /\ call.op = op
  BY TurnTypes DEF KeyOps, Running
<1>3. CASE f = <<>> /\ tbl' = t /\ free' = f /\ last_ts' = ts /\ key' = key /\ Result(NIL)
  <2>1. Held(t, key, ts, res')
    BY <1>3, HeldNext DEF NodeOrNil
  <2>2. QED
    BY <1>1, <1>3, <2>1 DEF Kept, Moved, NodeOrNil
<1>4. ASSUME f # <<>>
      PROVE  /\ Head(f) \in Nodes /\ Head(f) \notin LinkedIn(t)
             /\ LinkedIn(t) \subseteq Nodes
  BY <1>1, <1>4, PopOnce, LinkedTypes
<1> DEFINE ls == [key EXCEPT ![Head(f)] = Arg]
<1>5. ASSUME f # <<>>
      PROVE  /\ ls \in [Nodes -> Keys] /\ ls[Head(f)] = Arg
             /\ \A n \in LinkedIn(t) : ls[n] = key[n]
             /\ Keyed(t, ls)
  <2>1. /\ ls \in [Nodes -> Keys] /\ ls[Head(f)] = Arg
        /\ \A n \in LinkedIn(t) : ls[n] = key[n]
    BY <1>1, <1>2, <1>4, <1>5
  <2>2. \A b \in Bucket, s \in Slot : t[b][s] # NIL => t[b][s] \in LinkedIn(t)
    BY DEF LinkedIn
  <2>3. QED
    BY <2>1, <2>2 DEF Keyed, InCands
<1>6. CASE /\ f # <<>> /\ key' = ls /\ Twin(t, key, Arg) = {}
           /\ tbl' \in InsertedIn(t, key', Head(f))
           /\ last_ts' = [ts EXCEPT ![Head(f)] = call.now]
           /\ free' = Tail(f)
           /\ Result(Head(f))
  <2>1. Cells(tbl', free', last_ts') /\ LinkedIn(tbl') = LinkedIn(t) \cup {Head(f)}
    BY <1>2, <1>5, <1>6, InsertCells
  <2>2. Keyed(tbl', key')
    BY <1>1, <1>2, <1>4, <1>6, InsertKeyed
  <2>3. /\ \A n \in LinkedIn(t) : last_ts'[n] = ts[n]
        /\ last_ts'[Head(f)] = call.now
    BY <1>1, <1>4, <1>6
  <2>4. Held(tbl', key', last_ts', res)
    BY <1>5, <1>6, <2>1, <2>3 DEF Held
  <2>5. Held(tbl', key', last_ts', [i \in {Turn} |-> Head(f)])
    BY <1>5, <1>6, <2>1, <2>3 DEF Held, Arg
  <2>6. Held(tbl', key', last_ts', res')
    BY <1>4, <1>6, <2>4, <2>5, HeldNext DEF NodeOrNil
  <2>7. QED
    BY <1>4, <1>5, <1>6, <2>1, <2>2, <2>6 DEF Kept, Moved, NodeOrNil
<1>7. CASE /\ f # <<>> /\ key' = ls
           /\ \E d \in Twin(t, key, Arg) :
                /\ tbl' = t
                /\ last_ts' = [ts EXCEPT ![Head(f)] = 0, ![d] = call.now]
                /\ free' = FreeEntry(Tail(f), Head(f))
                /\ Result(d)
  <2>1. PICK d \in Twin(t, key, Arg) :
          /\ tbl' = t
          /\ last_ts' = [[ts EXCEPT ![Head(f)] = 0] EXCEPT ![d] = call.now]
          /\ free' = FreeEntry(Tail(f), Head(f))
          /\ Result(d)
    BY <1>7
  <2>2. d \in LinkedIn(t) /\ key[d] = Arg /\ d \in NodeOrNil
    BY <1>1, <1>2, <1>4, <1>7, TwinFindsAll DEF NodeOrNil
  <2>3. Cells(tbl', free', last_ts')
    BY <1>7, <2>1, <2>2, GiveBackCells, TouchCells
  <2>4. /\ \A n \in LinkedIn(t) : last_ts'[n] = IF n = d THEN call.now ELSE ts[n]
        /\ key'[d] = Arg
    BY <1>1, <1>4, <1>5, <1>7, <2>1, <2>2
  <2>5. Held(tbl', key', last_ts', res)
    BY <1>5, <1>7, <2>1, <2>4 DEF Held
  <2>6. Held(tbl', key', last_ts', [i \in {Turn} |-> d])
    BY <2>1, <2>2, <2>4 DEF Held, Arg
  <2>7. Held(tbl', key', last_ts', res')
    BY <2>1, <2>2, <2>5, <2>6, HeldNext
  <2>8. QED
    BY <1>5, <1>7, <2>1, <2>2, <2>3, <2>7 DEF Kept, Moved
<1>8. CASE /\ f # <<>> /\ key' = ls
           /\ tbl' = t
           /\ last_ts' = [ts EXCEPT ![Head(f)] = 0]
           /\ free' = FreeEntry(Tail(f), Head(f))
           /\ Result(NIL)
  <2>1. Cells(tbl', free', last_ts')
    BY <1>8, GiveBackCells
  <2>2. \A n \in LinkedIn(t) : last_ts'[n] = ts[n]
    BY <1>1, <1>4, <1>8
  <2>3. Held(tbl', key', last_ts', res)
    BY <1>5, <1>8, <2>2 DEF Held
  <2>4. Held(tbl', key', last_ts', res')
    BY <1>8, <2>3, HeldNext DEF NodeOrNil
  <2>5. QED
    BY <1>5, <1>8, <2>1, <2>4 DEF Kept, Moved, NodeOrNil
<1>9. QED
  BY <1>3, <1>6, <1>7, <1>8 DEF AllocInsert
-----------------------------------------------------------------------------
(* The invariant is inductive *)

LEMMA InitInv == Init => IInv
<1> SUFFICES ASSUME Init PROVE IInv
  OBVIOUS
<1>1. tbl \in Table /\ OneSlot(tbl) /\ LinkedIn(tbl) = {} /\ InCands(tbl, key)
  BY DEF Init, EmptyTable, Table, OneSlot, LinkedIn, InCands, NodeOrNil
<1>2. free \in Seq(Nodes) /\ Once(free) /\ Entries(free) = Nodes
  BY AllFreeOnce DEF Init
<1>3. last_ts \in [Nodes -> 0 .. MaxTsc] /\ \A n \in Nodes : last_ts[n] = 0
  BY MaxTscNat DEF Init
<1>4. Cells(tbl, free, last_ts)
  BY <1>1, <1>2, <1>3 DEF Cells, Partition
<1>5. Keyed(tbl, key)
  BY <1>1 DEF Keyed
<1>6. Held(tbl, key, last_ts, res) /\ Timely
  BY DEF Init, Held, Timely, NoCall
<1>7. TypeOK
  <2>1. key \in [Nodes -> Keys]
    <3>1. \A n \in Nodes : ZeroKey \in Keys
      BY FiniteAssumption DEF ZeroKey
    <3>2. QED
      BY <3>1 DEF Init
  <2>2. tsc \in 1 .. MaxTsc /\ call \in CallRecord
    BY MaxTscNat DEF Init, CallRecord
  <2>3. /\ res \in Seq(NodeOrNil)
        /\ Len(res) <= Len(call.args)
        /\ DOMAIN ctx = DOMAIN call.args
        /\ \A i \in DOMAIN ctx : ctx[i] \in [hits : SUBSET Slot, empties : 0 .. EntrySz]
    BY DEF Init, NoCall
  <2>4. QED
    BY <1>1, <1>2, <1>3, <2>1, <2>2, <2>3 DEF TypeOK, Table
<1>8. QED
  BY <1>4, <1>5, <1>6, <1>7 DEF IInv

LEMMA TypeFacts ==
    ASSUME IInv
    PROVE  /\ TypeOK
           /\ tbl \in Table /\ OneSlot(tbl) /\ LinkedIn(tbl) \subseteq Nodes
           /\ key \in [Nodes -> Keys]
           /\ last_ts \in [Nodes -> 0 .. MaxTsc]
           /\ tsc \in 1 .. MaxTsc
           /\ Keyed(tbl, key)
           /\ Cells(tbl, free, last_ts)
           /\ Held(tbl, key, last_ts, res)
BY LinkedTypes DEF IInv, Cells, Partition, TypeOK

(* A key's step restores the invariant if it restores the parts in Kept.   *)
LEMMA StepInv ==
    ASSUME IInv, NEW op, Running(op), NEW e \in NodeOrNil, Result(e), Kept
    PROVE  IInv'
<1>1. /\ call' = call /\ tsc' = tsc
      /\ res' \in Seq(NodeOrNil) /\ Len(res') <= Len(call.args)
      /\ DOMAIN ctx' = DOMAIN call.args
      /\ \A i \in DOMAIN ctx' :
           ctx'[i] \in [hits : SUBSET Slot, empties : 0 .. EntrySz]
  BY TypeFacts, ResultTypes
<1>2. tbl' \in Table /\ free' \in Seq(Nodes) /\ last_ts' \in [Nodes -> 0 .. MaxTsc]
      /\ key' \in [Nodes -> Keys]
  BY DEF Kept, Cells
<1>3. TypeOK'
  BY <1>1, <1>2 DEF TypeOK, IInv, Table
<1>4. Held(tbl, key, last_ts, res)'
  BY <1>1 DEF Kept, Held
<1>5. Timely'
  BY <1>1 DEF Timely, IInv
<1>6. QED
  BY <1>3, <1>4, <1>5 DEF IInv, Kept

LEMMA BeginInv ==
    ASSUME IInv, NEW op, NEW args, NEW now, Begin(op, args, now),
           \/ op \in KeyOps /\ args \in KeyBatches[op] /\ now \in {0, tsc}
           \/ op = "delidx" /\ args \in IdxBatches /\ now = 0,
           op \in {"findadd", "add"} => now = tsc
    PROVE  IInv'
<1>1. call' = [op |-> op, args |-> args, now |-> now] /\ res' = <<>>
      /\ UNCHANGED cache /\ tsc' = tsc
  BY DEF Begin
<1>2. tbl' = tbl /\ key' = key /\ last_ts' = last_ts /\ free' = free
  BY <1>1 DEF cache
<1>3. now \in 0 .. MaxTsc
  BY TypeFacts, MaxTscNat
<1>4. call' \in CallRecord
  BY <1>1, <1>3 DEF CallRecord
<1>5. args \in Seq(Keys) \/ args \in Seq(NodeOrNil)
  BY BatchAssumption DEF KeyOps
<1>6. /\ DOMAIN ctx' = DOMAIN args
      /\ \A i \in DOMAIN args : \/ ctx'[i] = ScanBk(tbl, key, args[i])
                                \/ ctx'[i] = NoCtx
  BY DEF Begin
<1>7. /\ DOMAIN ctx' = DOMAIN call'.args
      /\ \A i \in DOMAIN ctx' :
           ctx'[i] \in [hits : SUBSET Slot, empties : 0 .. EntrySz]
  BY <1>1, <1>6, ScanTypes, NoCtxTypes
<1>8. res' \in Seq(NodeOrNil) /\ Len(res') <= Len(call'.args)
  BY <1>1, <1>5, EmptySeq, LenProperties
<1>9. TypeOK'
  BY <1>1, <1>2, <1>4, <1>7, <1>8 DEF TypeOK, IInv
<1>10. Held(tbl, key, last_ts, res)'
  BY <1>1 DEF Held
<1>11. Timely'
  BY <1>1 DEF Timely
<1>12. QED
  BY <1>2, <1>9, <1>10, <1>11 DEF IInv, Cells, Keyed

LEMMA ReturnInv == IInv /\ Return => IInv'
<1> SUFFICES ASSUME IInv, Return PROVE IInv'
  OBVIOUS
<1>1. call' = NoCall /\ res' = <<>> /\ ctx' = <<>> /\ tsc' = tsc
      /\ tbl' = tbl /\ key' = key /\ last_ts' = last_ts /\ free' = free
  BY DEF Return, cache
<1>2. TypeOK'
  BY <1>1 DEF TypeOK, IInv, CallRecord, NoCall
<1>3. Held(tbl, key, last_ts, res)' /\ Timely'
  BY <1>1 DEF Held, Timely, NoCall
<1>4. QED
  BY <1>1, <1>2, <1>3 DEF IInv, Cells, Keyed

(* A step between calls restores the invariant if it restores the cells.   *)
LEMMA IdleInv ==
    ASSUME IInv, Idle, UNCHANGED <<key, call, ctx, res>>, tsc' \in 1 .. MaxTsc,
           Cells(tbl', free', last_ts'), Keyed(tbl', key)
    PROVE  IInv'
<1>1. TypeOK'
  BY DEF TypeOK, IInv, Cells, Table
<1>2. Held(tbl, key, last_ts, res)' /\ Timely'
  BY DEF Held, Timely, Idle, NoCall
<1>3. QED
  BY <1>1, <1>2 DEF IInv

LEMMA RemoveIdxInv ==
    ASSUME IInv, NEW e \in Nodes, RemoveIdx(e)
    PROVE  IInv'
<1>1. e \in LinkedIn(tbl) /\ Evict(e)
  BY DEF RemoveIdx
<1>2. Cells(tbl', free', last_ts')
  BY <1>1, TypeFacts, EvictCells DEF Evict
<1>3. Keyed(tbl', key)
  BY <1>1, TypeFacts, EvictKeyed DEF Evict
<1>4. QED
  BY <1>2, <1>3, TypeFacts, IdleInv DEF RemoveIdx

LEMMA FlushInv == IInv /\ Flush => IInv'
<1> SUFFICES ASSUME IInv, Flush PROVE IInv'
  OBVIOUS
<1>1. tbl' \in Table /\ OneSlot(tbl') /\ LinkedIn(tbl') = {} /\ Keyed(tbl', key)
  BY DEF Flush, EmptyTable, Table, OneSlot, LinkedIn, InCands, NodeOrNil, Keyed
<1>2. free' \in Seq(Nodes) /\ Once(free') /\ Entries(free') = Nodes
  BY AllFreeOnce DEF Flush
<1>3. last_ts' \in [Nodes -> 0 .. MaxTsc] /\ \A n \in Nodes : last_ts'[n] = 0
  BY MaxTscNat DEF Flush
<1>4. Cells(tbl', free', last_ts')
  BY <1>1, <1>2, <1>3 DEF Cells, Partition
<1>5. QED
  BY <1>1, <1>4, TypeFacts, IdleInv DEF Flush

LEMMA TickInv == IInv /\ Tick => IInv'
<1> SUFFICES ASSUME IInv, Tick PROVE IInv'
  OBVIOUS
<1>1. tsc' \in 1 .. MaxTsc /\ Cells(tbl', free', last_ts') /\ Keyed(tbl', key)
  BY TypeFacts, MaxTscNat DEF Tick
<1>2. QED
  BY <1>1, IdleInv DEF Tick

(* maintain moves a set of linked entries to the free list. *)
LEMMA MaintainMoves ==
    ASSUME IInv, NEW B \in SUBSET Bucket, NEW skip, Maintain(B, skip)
    PROVE  /\ Cells(tbl', free', last_ts')
           /\ Keyed(tbl', key)
           /\ \A n \in LinkedIn(tbl) \ LinkedIn(tbl') : last_ts[n] < ExpireBefore(tsc)
<1> DEFINE swept == {b \in B : Cardinality(Slot \ Room(tbl, b)) > skip}
           E == {n \in Nodes : /\ \E b \in swept, s \in Slot : tbl[b][s] = n
                               /\ last_ts[n] < ExpireBefore(tsc)}
<1>1. /\ tbl' = [b \in Bucket |-> [s \in Slot |->
                   IF tbl[b][s] \in E THEN NIL ELSE tbl[b][s]]]
      /\ last_ts' = [n \in Nodes |-> IF n \in E THEN 0 ELSE last_ts[n]]
      /\ \E q \in Listings(E) : free' = q \o free
  BY DEF Maintain
<1>2. E \subseteq LinkedIn(tbl) /\ E \subseteq Nodes
  <2>1. SUFFICES ASSUME NEW n \in E PROVE n \in LinkedIn(tbl)
    OBVIOUS
  <2>2. PICK b \in Bucket, s \in Slot : tbl[b][s] = n
    OBVIOUS
  <2>3. n # NIL
    BY NilAssumption
  <2>4. QED
    BY <2>2, <2>3, LinkedAt, TypeFacts
<1>3. \A n \in E : last_ts[n] < ExpireBefore(tsc)
  OBVIOUS
<1> HIDE DEF E
<1>4. /\ tbl' \in Table /\ OneSlot(tbl')
      /\ LinkedIn(tbl') = LinkedIn(tbl) \ E
      /\ InCands(tbl', key)
  <2> DEFINE u == [b \in Bucket |-> [s \in Slot |->
                     IF tbl[b][s] \in E THEN NIL ELSE tbl[b][s]]]
  <2>1. tbl \in Table /\ OneSlot(tbl) /\ InCands(tbl, key) /\ E \in SUBSET Nodes
    BY <1>2, TypeFacts DEF Keyed
  <2>2. /\ u \in Table /\ OneSlot(u) /\ LinkedIn(u) = LinkedIn(tbl) \ E
        /\ InCands(u, key)
    BY <2>1, SweptRemoves, Zenon
  <2>3. QED
    BY <1>1, <2>2
<1>5. Keyed(tbl', key)
  BY <1>4, TypeFacts DEF Keyed
<1>6. /\ free \in Seq(Nodes) /\ Once(free)
      /\ LinkedIn(tbl) \cap Entries(free) = {}
      /\ LinkedIn(tbl) \cup Entries(free) = Nodes
      /\ last_ts \in [Nodes -> 0 .. MaxTsc]
      /\ \A n \in Nodes : last_ts[n] # 0 <=> n \in LinkedIn(tbl)
  BY TypeFacts DEF Cells, Partition
<1>7. free' \in Seq(Nodes) /\ Once(free') /\ Entries(free') = E \cup Entries(free)
  <2>1. PICK q \in Listings(E) : free' = q \o free
    BY <1>1
  <2>2. q \in Seq(Nodes) /\ Once(q) /\ Entries(q) = E
    BY <1>2, ListingOnce
  <2>3. Entries(q) \cap Entries(free) = {}
    BY <1>2, <1>6, <2>2
  <2>4. QED
    BY <1>6, <2>1, <2>2, <2>3, JoinOnce
<1>8. /\ LinkedIn(tbl') \cap Entries(free') = {}
      /\ LinkedIn(tbl') \cup Entries(free') = Nodes
  BY <1>2, <1>4, <1>6, <1>7
<1>9. /\ last_ts' \in [Nodes -> 0 .. MaxTsc]
      /\ \A n \in Nodes : last_ts'[n] # 0 <=> n \in LinkedIn(tbl')
  <2>1. \A n \in Nodes : last_ts'[n] = IF n \in E THEN 0 ELSE last_ts[n]
    BY <1>1
  <2>2. last_ts' \in [Nodes -> 0 .. MaxTsc]
    BY <1>1, <1>6, MaxTscNat
  <2>3. QED
    BY <1>2, <1>4, <1>6, <2>1, <2>2
<1>10. Cells(tbl', free', last_ts')
  BY <1>4, <1>7, <1>8, <1>9 DEF Cells, Partition
<1>11. QED
  BY <1>3, <1>4, <1>5, <1>10

LEMMA MaintainInv ==
    ASSUME IInv, NEW B \in SUBSET Bucket, NEW skip, Maintain(B, skip)
    PROVE  IInv'
BY MaintainMoves, TypeFacts, IdleInv DEF Maintain

(* A find or a hit of findadd only sets an entry's time of last use.       *)
LEMMA HitInv ==
    ASSUME IInv, NEW op \in {"find", "findadd"}, Running(op),
           UNCHANGED <<tbl, key, free>>, Result(Found),
           \/ Found # NIL /\ call.now # 0 /\ last_ts' = [last_ts EXCEPT ![Found] = call.now]
           \/ last_ts' = last_ts /\ (Found = NIL \/ op = "find")
    PROVE  IInv'
<1>1. op \in KeyOps /\ call.op = op /\ call.now \in 0 .. MaxTsc
  BY TypeFacts, CallTypes DEF KeyOps, Running
<1>2. Found # NIL => Found \in LinkedIn(tbl) /\ Found \in Nodes /\ key[Found] = Arg
  BY <1>1, TypeFacts, FoundIsLinked
<1>3. Cells(tbl', free', last_ts')
  BY <1>1, <1>2, TypeFacts, TouchCells
<1>4. Held(tbl', key', last_ts', res)
  BY <1>1, <1>2, TypeFacts DEF Held
<1>5. Found # NIL => Held(tbl', key', last_ts', [i \in {Turn} |-> Found])
  BY <1>1, <1>2, TypeFacts DEF Held, Arg
<1>6. Found \in NodeOrNil
  BY <1>2 DEF NodeOrNil
<1>7. Held(tbl', key', last_ts', res')
  BY <1>4, <1>5, <1>6, TypeFacts, HeldNext
<1>8. Kept
  BY <1>3, <1>7, TypeFacts DEF Kept
<1>9. QED
  BY <1>6, <1>8, StepInv

LEMMA FindStepInv == IInv /\ FindStep => IInv'
BY HitInv, Zenon DEF FindStep

LEMMA FindAddHitInv == IInv /\ FindAddHit => IInv'
<1> SUFFICES ASSUME IInv, FindAddHit PROVE IInv'
  OBVIOUS
<1>1. call.now # 0
  BY TypeFacts, MaxTscNat DEF FindAddHit, Running, IInv, Timely
<1>2. QED
  BY <1>1, HitInv, Zenon DEF FindAddHit

(* What a batch has reported is too young to be a victim.                  *)
LEMMA VictimNotHeld ==
    ASSUME IInv, Running("findadd"), Victim # NIL
    PROVE  /\ Victim \in LinkedIn(tbl) /\ Victim \in Nodes
           /\ last_ts[Victim] < ExpireBefore(tsc)
           /\ Held(Without(tbl, Victim), key, [last_ts EXCEPT ![Victim] = 0], res)
<1>1. call.op = "findadd" /\ call.now = tsc /\ tsc \in Nat /\ "findadd" \in KeyOps
  BY TypeFacts DEF Running, IInv, Timely, KeyOps
<1>2. Victim \in LinkedIn(tbl) /\ last_ts[Victim] < ExpireBefore(tsc)
  BY <1>1, TypeFacts, VictimIsExpired
<1>3. Victim \in Nodes /\ last_ts[Victim] \in Nat /\ last_ts \in [Nodes -> 0 .. MaxTsc]
  BY <1>2, TypeFacts
<1>4. last_ts[Victim] < tsc
  BY <1>1, <1>2, <1>3, TypeFacts, ExpireBeforeRange
<1>5. LinkedIn(Without(tbl, Victim)) = LinkedIn(tbl) \ {Victim}
  BY <1>3, TypeFacts, WithoutRemoves
<1>6. \A n \in LinkedIn(tbl) : last_ts[n] = tsc => n # Victim
  BY <1>1, <1>3, <1>4
<1>7. \A n \in LinkedIn(tbl) \ {Victim} :
         [last_ts EXCEPT ![Victim] = 0][n] = last_ts[n]
  BY <1>3, TypeFacts
<1>8. Held(Without(tbl, Victim), key, [last_ts EXCEPT ![Victim] = 0], res)
  BY <1>1, <1>5, <1>6, <1>7, TypeFacts DEF Held
<1>9. QED
  BY <1>2, <1>3, <1>8

(* A miss evicts at most its expired victim. *)
LEMMA FindAddMissKeeps ==
    ASSUME IInv, FindAddMiss
    PROVE  /\ Kept /\ \E e \in NodeOrNil : Result(e)
           /\ \A n \in LinkedIn(tbl) \ LinkedIn(tbl') : last_ts[n] < ExpireBefore(tsc)
<1>1. Running("findadd") /\ call.now \in 1 .. MaxTsc
  BY TypeFacts DEF FindAddMiss, Running, IInv, Timely
<1>2. CASE Victim = NIL
  <2>1. AllocInsert(tbl, free, last_ts)
    BY <1>2 DEF FindAddMiss
  <2>2. Kept /\ Moved(tbl) /\ \E e \in NodeOrNil : Result(e)
    BY <1>1, <2>1, TypeFacts, AllocKeeps
  <2>3. QED
    BY <2>2 DEF Moved
<1>3. CASE Victim # NIL
  <2> DEFINE t == Without(tbl, Victim)
             f == FreeEntry(free, Victim)
             ts == [last_ts EXCEPT ![Victim] = 0]
  <2>1. AllocInsert(t, f, ts)
    BY <1>3 DEF FindAddMiss
  <2>2. /\ Victim \in LinkedIn(tbl) /\ Victim \in Nodes
        /\ last_ts[Victim] < ExpireBefore(tsc)
        /\ Held(t, key, ts, res)
    BY <1>1, <1>3, VictimNotHeld
  <2>3. Cells(t, f, ts)
    BY <2>2, TypeFacts, EvictCells
  <2>4. Keyed(t, key) /\ LinkedIn(t) = LinkedIn(tbl) \ {Victim}
    BY <2>2, TypeFacts, EvictKeyed, WithoutRemoves
  <2> HIDE DEF t, f, ts
  <2>5. Kept /\ Moved(t) /\ \E e \in NodeOrNil : Result(e)
    BY <1>1, <2>1, <2>2, <2>3, <2>4, TypeFacts, AllocKeeps
  <2>6. QED
    BY <2>2, <2>4, <2>5 DEF Moved
<1>4. QED
  BY <1>2, <1>3

LEMMA FindAddMissInv == IInv /\ FindAddMiss => IInv'
BY FindAddMissKeeps, StepInv DEF FindAddMiss

LEMMA AddStepKeeps ==
    ASSUME IInv, AddStep
    PROVE  Kept /\ Moved(tbl) /\ \E e \in NodeOrNil : Result(e)
<1>1. Running("add") /\ call.now \in 1 .. MaxTsc /\ AllocInsert(tbl, free, last_ts)
  BY TypeFacts DEF AddStep, Running, IInv, Timely
<1>2. QED
  BY <1>1, TypeFacts, AllocKeeps

LEMMA AddStepInv == IInv /\ AddStep => IInv'
BY AddStepKeeps, StepInv DEF AddStep

(* A deletion evicts one linked entry or nothing.                          *)
LEMMA DeleteInv ==
    ASSUME IInv, NEW op \in {"del", "delidx"}, Running(op), key' = key, Result(NIL),
           \/ \E e \in LinkedIn(tbl) : Evict(e)
           \/ UNCHANGED <<tbl, last_ts, free>>
    PROVE  IInv'
<1>1. Cells(tbl', free', last_ts')
  BY TypeFacts, EvictCells DEF Evict
<1>2. Keyed(tbl', key')
  BY TypeFacts, EvictKeyed DEF Evict
<1>3. Held(tbl', key', last_ts', res')
  BY DEF Held, Running
<1>4. Kept
  BY <1>1, <1>2, <1>3, TypeFacts DEF Kept
<1>5. QED
  BY <1>4, StepInv DEF NodeOrNil

LEMMA DelStepInv == IInv /\ DelStep => IInv'
<1> SUFFICES ASSUME IInv, DelStep PROVE IInv'
  OBVIOUS
<1>1. Found # NIL => Found \in LinkedIn(tbl)
  BY TypeFacts, FoundIsLinked DEF DelStep, KeyOps
<1>2. QED
  BY <1>1, DeleteInv DEF DelStep

(* del_idx_bulk tells a linked entry by its time of last use.              *)
LEMMA DelIdxStepInv == IInv /\ DelIdxStep => IInv'
<1> SUFFICES ASSUME IInv, DelIdxStep PROVE IInv'
  OBVIOUS
<1>1. Arg # NIL /\ last_ts[Arg] # 0 => Arg \in LinkedIn(tbl)
  <2>1. Arg \in NodeOrNil
    BY TypeFacts, TurnTypes DEF DelIdxStep
  <2>2. QED
    BY <2>1 DEF NodeOrNil, IInv, Cells
<1>2. QED
  BY <1>1, DeleteInv DEF DelIdxStep

THEOREM InvHolds == Spec => []IInv
<1>1. IInv /\ [Next]_vars => IInv'
  <2> SUFFICES ASSUME IInv, [Next]_vars PROVE IInv'
    OBVIOUS
  <2>1. CASE BeginAny
    BY <2>1, BeginInv DEF BeginAny, KeyOps
  <2>2. CASE Step
    BY <2>2, FindStepInv, FindAddHitInv, FindAddMissInv, AddStepInv,
       DelStepInv, DelIdxStepInv DEF Step
  <2>3. CASE Return
    BY <2>3, ReturnInv
  <2>4. CASE \E e \in Nodes : RemoveIdx(e)
    BY <2>4, RemoveIdxInv
  <2>5. CASE \E B \in SUBSET Bucket, skip \in {0, Pressure} : Maintain(B, skip)
    BY <2>5, MaintainInv
  <2>6. CASE Flush
    BY <2>6, FlushInv
  <2>7. CASE Tick
    BY <2>7, TickInv
  <2>8. CASE UNCHANGED vars
    BY <2>8 DEF vars, IInv, TypeOK, Cells, Keyed, Held, Timely
  <2>9. QED
    BY <2>1, <2>2, <2>3, <2>4, <2>5, <2>6, <2>7, <2>8 DEF Next
<1>2. QED
  BY <1>1, InitInv, PTL DEF Spec

-----------------------------------------------------------------------------
(* The properties *)

(* Every variable has its type throughout, for every pool and batch.       *)
THEOREM TypeCorrect == Spec => []TypeOK
<1>1. IInv => TypeOK
  BY DEF IInv
<1>2. QED
  BY <1>1, InvHolds, PTL

(* Entries in the table and free entries always partition the pool: no     *)
(* operation of the cache loses an entry or frees one twice.               *)
THEOREM PoolIsPartitioned == Spec => []PoolPartition
<1>1. IInv => PoolPartition
  BY DEF IInv, Cells, PoolPartition
<1>2. QED
  BY <1>1, InvHolds, PTL

(* last_ts # 0 is the same as being linked, which del_idx_bulk and walk    *)
(* rely on.                                                                *)
THEOREM TsMarksLinked == Spec => []TsMarksLive
<1>1. IInv => TsMarksLive
  BY DEF IInv, Cells, TsMarksLive
<1>2. QED
  BY <1>1, InvHolds, PTL

(* No two linked entries share a key, and each is where lookups look.      *)
THEOREM KeysAreUnique == Spec => []UniqueKeys
<1>1. IInv => UniqueKeys
  BY DEF IInv, Keyed, InCands, UniqueKeys
<1>2. QED
  BY <1>1, InvHolds, PTL

(* Each entry a batch has reported is still its key's when the batch ends. *)
THEOREM ReportsHold == Spec => []ResultsHold
<1>1. IInv => ResultsHold
  BY DEF IInv, Held, ResultsHold
<1>2. QED
  BY <1>1, InvHolds, PTL

(* Only entries idle for the least timeout are evicted unasked.            *)
THEOREM FreshEntriesSurvive == Spec => FreshSurvive
<1> DEFINE Fresh == \A n \in LinkedIn(tbl) \ LinkedIn(tbl') :
                       \/ last_ts[n] + (IF Timeout = 0 THEN 0 ELSE TimeoutMin) < tsc
                       \/ DelStep \/ DelIdxStep \/ RemoveIdx(n) \/ Flush
<1>1. ASSUME IInv, NEW n \in LinkedIn(tbl), last_ts[n] < ExpireBefore(tsc)
      PROVE  last_ts[n] + (IF Timeout = 0 THEN 0 ELSE TimeoutMin) < tsc
  <2>1. TypeOK /\ OneSlot(tbl) /\ last_ts[n] \in Nat /\ tsc \in Nat
    BY <1>1, TypeFacts
  <2>2. QED
    BY <1>1, <2>1, ExpireBeforeRange
<1>2. IInv /\ [Next]_vars => [Fresh]_vars
  <2> SUFFICES ASSUME IInv, Next, NEW n \in LinkedIn(tbl) \ LinkedIn(tbl')
               PROVE  \/ last_ts[n] < ExpireBefore(tsc)
                      \/ DelStep \/ DelIdxStep \/ RemoveIdx(n) \/ Flush
    BY <1>1
  <2>1. CASE UNCHANGED tbl
    BY <2>1
  <2>2. CASE FindAddMiss
    BY <2>2, FindAddMissKeeps
  <2>3. CASE AddStep
    BY <2>3, AddStepKeeps DEF Moved
  <2>4. CASE \E e \in Nodes : RemoveIdx(e)
    <3>1. PICK e \in Nodes : RemoveIdx(e)
      BY <2>4
    <3>2. LinkedIn(tbl') = LinkedIn(tbl) \ {e}
      BY <3>1, TypeFacts, WithoutRemoves DEF RemoveIdx, Evict
    <3>3. QED
      BY <3>1, <3>2
  <2>5. CASE \E B \in SUBSET Bucket, skip \in {0, Pressure} : Maintain(B, skip)
    BY <2>5, MaintainMoves
  <2>6. BeginAny \/ Return \/ FindStep \/ FindAddHit \/ Tick => UNCHANGED tbl
    BY DEF BeginAny, Begin, Return, FindStep, FindAddHit, Tick, cache
  <2>7. QED
    BY <2>1, <2>2, <2>3, <2>4, <2>5, <2>6 DEF Next, Step
<1>3. QED
  BY <1>2, InvHolds, PTL DEF Spec, FreshSurvive
=============================================================================
