----------------------------- MODULE FlowCache -----------------------------
(***************************************************************************)
(* The flow cache (samples/fcache/src/fc_cache_generate.h): a slot hash    *)
(* table over a pool of entries, a free list of the entries that are not   *)
(* in the table, and the time of last use of each entry, by which entries  *)
(* are evicted.                                                            *)
(*                                                                         *)
(* The bulk operations are software pipelines: a key's first bucket is     *)
(* scanned while the keys before it are still to be looked up and          *)
(* inserted, so that what the scan saw may be out of date when it is used. *)
(* A bulk call is one Begin step and then one step for every key, in the   *)
(* pipeline's order; each such step ends with the scans that follow it.    *)
(*                                                                         *)
(* The hash table's own operations are those of RixCuckoo.                 *)
(***************************************************************************)
EXTENDS RixCuckoo, Sequences

CONSTANTS
    Pool,       (* fc->pool: a sequence of the entries.                     *)
    StepKeys,   (* FLOW_CACHE_LOOKUP_STEP_KEYS.                             *)
    AheadKeys,  (* FLOW_CACHE_LOOKUP_AHEAD_KEYS, a multiple of StepKeys.    *)
    Timeout,    (* fc->timeout_tsc.                                         *)
    Pressure,   (* fc->pressure_empty_slots.                                *)
    KeyBatches, (* KeyBatches[op]: the arrays of keys passed to op's bulk   *)
                (* call.                                                    *)
    IdxBatches, (* The arrays of indices passed to del_idx_bulk; NIL stands *)
                (* for 0 and for an index beyond the pool.                  *)
    MaxTsc      (* Bound: the last reading of the clock.                    *)

ASSUME PoolAssumption ==
    /\ Pool \in Seq(Nodes)
    /\ \A n \in Nodes : \E i \in DOMAIN Pool : Pool[i] = n
    /\ \A i, j \in DOMAIN Pool : Pool[i] = Pool[j] => i = j
ASSUME BatchAssumption ==
    /\ \A op \in {"find", "findadd", "add", "del"} : KeyBatches[op] \subseteq Seq(Keys)
    /\ IdxBatches \subseteq Seq(NodeOrNil)
    /\ {StepKeys, AheadKeys, MaxTsc} \subseteq Nat \ {0}
ASSUME FiniteAssumption == IsFiniteSet(Mask) /\ Keys # {}
ASSUME TimeoutAssumption == Timeout \in Nat /\ Pressure \in Nat \ {0}

VARIABLES
    tbl,        (* The buckets: fc->buckets[].idx[].                        *)
    key,        (* entry->key; what a free entry last held is left there.   *)
    last_ts,    (* entry->last_ts, 0 for a free entry.                      *)
    free,       (* fc->free_head: the free list, first entry first.         *)
    tsc,        (* The caller's clock.                                      *)
    call,       (* The bulk call in progress, or NoCall.                    *)
    ctx,        (* What stage 2 of the pipeline saw for each key.           *)
    res         (* results[]: the entry of each key done so far, or NIL.    *)

cache == <<tbl, key, last_ts, free>>
vars  == <<tbl, key, last_ts, free, tsc, call, ctx, res>>

-----------------------------------------------------------------------------
(* Timeouts and pressure *)

(* rhh_nb *)
Live == Cardinality({p \in Bucket \X Slot : tbl[p[1]][p[2]] # NIL})

TotalSlots == Cardinality(Bucket) * EntrySz

Threshold64(parts) == (TotalSlots * parts) \div 64

TimeoutMin == IF Timeout \div 8 = 0 THEN 1 ELSE Timeout \div 8

(* Mutant: the interpolation runs down to zero. *)
EffTimeoutToZero ==
    LET lo == Threshold64(38)
        hi == Threshold64(48)
    IN  IF Live <= lo THEN Timeout
        ELSE IF Live >= hi THEN 0
        ELSE Timeout - ((Live - lo) * Timeout) \div (hi - lo)

(* The timeout shrinks linearly from Timeout to TimeoutMin between 38/64   *)
(* and 48/64 of the slots.  update_eff_timeout runs before every use.      *)
EffTimeout ==
    LET lo == Threshold64(38)
        hi == Threshold64(48)
        eff == IF Live <= lo THEN Timeout
               ELSE IF Live >= hi THEN TimeoutMin
               ELSE Timeout - ((Live - lo) * (Timeout - TimeoutMin)) \div (hi - lo)
    IN  IF Timeout = 0 THEN 0 ELSE IF eff = 0 THEN 1 ELSE eff

(* Entries last used before this time have expired. *)
ExpireBefore(now) == IF now > EffTimeout THEN now - EffTimeout ELSE 0

(* A bucket with at most this many empty slots is relieved. *)
ReliefEmptySlots ==
    LET least == IF Live >= Threshold64(48) THEN 3
                 ELSE IF Live >= Threshold64(45) THEN 2 ELSE 0
    IN  IF Pressure < least THEN least ELSE Pressure

ExpiredSlots(b, before) ==
    {s \in Slot : tbl[b][s] # NIL /\ last_ts[tbl[b][s]] < before}

(* reclaim_bucket's victim: the oldest expired entry of b, the first such. *)
Oldest(b, before) ==
    LET E == ExpiredSlots(b, before)
        O == {s \in E : \A r \in E : last_ts[tbl[b][s]] <= last_ts[tbl[b][r]]}
    IN  IF E = {} THEN NIL ELSE tbl[b][LowestSlot(O)]

-----------------------------------------------------------------------------
(* The pipeline *)

NoCtx == [hits |-> {}, empties |-> 0]

(* scan_bk, scan_bk_empties: the slots of k's first bucket in t that hold  *)
(* its fingerprint, and the number of empty ones; ks are the entries' keys.*)
ScanBk(t, ks, k) ==
    [hits |-> {s \in Slot : t[Bk0(k)][s] # NIL /\ Fp(ks[t[Bk0(k)][s]]) = Fp(k)},
     empties |-> Cardinality(Room(t, Bk0(k)))]

(* Mutant: the entry of a hit is taken without looking at its key again. *)
CmpKeyTrustsScan(c, k) ==
    LET h1 == {s \in Slot : tbl[Bk1(k)][s] # NIL /\ key[tbl[Bk1(k)][s]] = k}
    IN  IF c.hits # {} THEN tbl[Bk0(k)][LowestSlot(c.hits)]
        ELSE IF h1 # {} THEN tbl[Bk1(k)][LowestSlot(h1)] ELSE NIL

(* cmp_key: the slots that were hits may since have changed hands; the     *)
(* second bucket is scanned only now.                                      *)
CmpKey(c, k) ==
    LET h0 == {s \in c.hits : tbl[Bk0(k)][s] # NIL /\ key[tbl[Bk0(k)][s]] = k}
        h1 == {s \in Slot : tbl[Bk1(k)][s] # NIL /\ key[tbl[Bk1(k)][s]] = k}
    IN  IF h0 # {} THEN tbl[Bk0(k)][LowestSlot(h0)]
        ELSE IF h1 # {} THEN tbl[Bk1(k)][LowestSlot(h1)] ELSE NIL

NoCall == [op |-> "none", args |-> <<>>, now |-> 0]

Idle == call = NoCall

Turn == Len(res) + 1

(* The keys whose scan lies between the step of key i and the step of key  *)
(* i + 1: when i ends a group of StepKeys, the group 2 * AheadKeys later.  *)
ScannedAfter(i) ==
    IF i % StepKeys = 0
      THEN (i + 2 * AheadKeys + 1) .. (i + 2 * AheadKeys + StepKeys)
      ELSE {}

(* The scans a pipeline does before its first key is looked up. *)
ScannedFirst == 1 .. (2 * AheadKeys + StepKeys)

(* The operations whose pipeline has a scan stage. *)
Staged == {"find", "findadd", "del"}

Begin(op, args, now) ==
    /\ Idle
    /\ call' = [op |-> op, args |-> args, now |-> now]
    /\ res' = <<>>
    /\ ctx' = [i \in DOMAIN args |->
                 IF op \in Staged /\ i \in ScannedFirst
                   THEN ScanBk(tbl, key, args[i]) ELSE NoCtx]
    /\ UNCHANGED cache
    /\ UNCHANGED tsc

(* The step of key Turn ends: its result is e, and the scans due by now    *)
(* are done.                                                               *)
Result(e) ==
    /\ res' = Append(res, e)
    /\ ctx' = [i \in DOMAIN call.args |->
                 IF i <= Turn THEN NoCtx
                 ELSE IF call.op \in Staged /\ i \in ScannedAfter(Turn)
                   THEN ScanBk(tbl', key', call.args[i]) ELSE ctx[i]]
    /\ UNCHANGED <<call, tsc>>

Running(op) == call.op = op /\ Turn <= Len(call.args)

Arg == call.args[Turn]

Return ==
    /\ ~Idle
    /\ Turn > Len(call.args)
    /\ call' = NoCall
    /\ res' = <<>>
    /\ ctx' = <<>>
    /\ UNCHANGED cache
    /\ UNCHANGED tsc
-----------------------------------------------------------------------------
(* Entries *)

ZeroKey == CHOOSE k \in Keys : TRUE

(* The free list as init and flush build it: the last of the pool first. *)
AllFree == [i \in DOMAIN Pool |-> Pool[Len(Pool) + 1 - i]]

Init ==
    /\ tbl = EmptyTable
    /\ key = [n \in Nodes |-> ZeroKey]
    /\ last_ts = [n \in Nodes |-> 0]
    /\ free = AllFree
    /\ tsc = 1
    /\ call = NoCall
    /\ ctx = <<>>
    /\ res = <<>>

(* free_entry, on a free list f.  It also clears the entry's last_ts. *)
FreeEntry(f, e) == <<e>> \o f

(* remove, or remove_at, and free_entry of a linked entry. *)
Evict(e) ==
    /\ tbl' = Without(tbl, e)
    /\ last_ts' = [last_ts EXCEPT ![e] = 0]
    /\ free' = FreeEntry(free, e)

(* Mutants: a miss is believed; only the first bucket is scanned. *)
TwinUnlooked(t, ks, k) == {}

TwinInFirst(t, ks, k) ==
    {n \in Nodes : ks[n] = k /\ \E s \in Slot : t[Bk0(k)][s] = n}

(* The entry the duplicate scan of insert finds under key k in t. *)
Twin(t, ks, k) ==
    {n \in Nodes : ks[n] = k /\ \E b \in Cands(k), s \in Slot : t[b][s] = n}

(* The insert of a miss, and all of add: take an entry off the free list f *)
(* and insert it into t; if its key is linked after all, that entry is the *)
(* result.  An entry that was not inserted goes back, its key overwritten. *)
AllocInsert(t, f, ts) ==
    \/ /\ f = <<>>
       /\ tbl' = t
       /\ free' = f
       /\ last_ts' = ts
       /\ UNCHANGED key
       /\ Result(NIL)
    \/ /\ f # <<>>
       /\ key' = [key EXCEPT ![Head(f)] = Arg]
       /\ \/ /\ Twin(t, key, Arg) = {}
             /\ tbl' \in InsertedIn(t, key', Head(f))
             /\ last_ts' = [ts EXCEPT ![Head(f)] = call.now]
             /\ free' = Tail(f)
             /\ Result(Head(f))
          \/ \E d \in Twin(t, key, Arg) :
                /\ tbl' = t
                /\ last_ts' = [ts EXCEPT ![Head(f)] = 0, ![d] = call.now]
                /\ free' = FreeEntry(Tail(f), Head(f))
                /\ Result(d)
          \/ /\ Twin(t, key, Arg) = {}
             /\ BothFull(t, Arg)
             /\ tbl' = t
             /\ last_ts' = [ts EXCEPT ![Head(f)] = 0]
             /\ free' = FreeEntry(Tail(f), Head(f))
             /\ Result(NIL)

-----------------------------------------------------------------------------
(* Bulk operations, one key at a time *)

Found == CmpKey(ctx[Turn], Arg)

(* find_bulk; now = 0 leaves the time of last use alone. *)
FindStep ==
    /\ Running("find")
    /\ last_ts' = IF Found # NIL /\ call.now # 0
                    THEN [last_ts EXCEPT ![Found] = call.now] ELSE last_ts
    /\ UNCHANGED <<tbl, key, free>>
    /\ Result(Found)

FindAddHit ==
    /\ Running("findadd")
    /\ Found # NIL
    /\ last_ts' = [last_ts EXCEPT ![Found] = call.now]
    /\ UNCHANGED <<tbl, key, free>>
    /\ Result(Found)

(* The entry a miss evicts before it inserts, or NIL.  The first bucket's  *)
(* empty slots were counted by the scan, the second's are counted now.     *)
Victim ==
    LET before == ExpireBefore(call.now)
        v0 == Oldest(Bk0(Arg), before)
    IN  IF ctx[Turn].empties > ReliefEmptySlots THEN NIL
        ELSE IF v0 # NIL THEN v0
        ELSE IF Cardinality(Room(tbl, Bk1(Arg))) <= ReliefEmptySlots
          THEN Oldest(Bk1(Arg), before) ELSE NIL

(* Mutant: the victim is freed but stays in the table. *)
FindAddMissKeepsVictim ==
    /\ Running("findadd")
    /\ Found = NIL
    /\ IF Victim = NIL THEN AllocInsert(tbl, free, last_ts)
       ELSE AllocInsert(tbl, FreeEntry(free, Victim),
                        [last_ts EXCEPT ![Victim] = 0])

FindAddMiss ==
    /\ Running("findadd")
    /\ Found = NIL
    /\ IF Victim = NIL THEN AllocInsert(tbl, free, last_ts)
       ELSE AllocInsert(Without(tbl, Victim), FreeEntry(free, Victim),
                        [last_ts EXCEPT ![Victim] = 0])

AddStep == Running("add") /\ AllocInsert(tbl, free, last_ts)

(* Mutant: a key that is not found is deleted all the same. *)
DelStepUnchecked ==
    /\ Running("del")
    /\ Evict(Found)
    /\ UNCHANGED key
    /\ Result(NIL)

(* del_bulk *)
DelStep ==
    /\ Running("del")
    /\ IF Found # NIL THEN Evict(Found) ELSE UNCHANGED <<tbl, last_ts, free>>
    /\ UNCHANGED key
    /\ Result(NIL)

(* del_idx_bulk takes last_ts = 0 for a free entry and the rest for linked *)
(* ones: what remove returns is not looked at.                             *)
DelIdxStep ==
    /\ Running("delidx")
    /\ IF Arg # NIL /\ last_ts[Arg] # 0
         THEN Evict(Arg) ELSE UNCHANGED <<tbl, last_ts, free>>
    /\ UNCHANGED key
    /\ Result(NIL)

Step == \/ FindStep \/ FindAddHit \/ FindAddMiss
        \/ AddStep \/ DelStep \/ DelIdxStep

-----------------------------------------------------------------------------
(* Calls that are one step *)

(* remove_idx: nothing unless the entry is linked. *)
RemoveIdx(e) ==
    /\ Idle
    /\ e \in LinkedIn(tbl)
    /\ Evict(e)
    /\ UNCHANGED <<key, tsc, call, ctx, res>>

(* The sequences that list each element of S once. *)
Listings(S) == {q \in [1 .. Cardinality(S) -> S] :
                  /\ \A i, j \in DOMAIN q : q[i] = q[j] => i = j
                  /\ \A n \in S : \E i \in DOMAIN q : q[i] = n}

(* maintain, maintain_step_ex and maintain_step: evict all expired entries *)
(* of the buckets B that hold more than skip entries.  Which buckets a     *)
(* call sweeps, its cursor and throttle decide; here any may be swept, and *)
(* the entries are freed in any order.                                     *)
Maintain(B, skip) ==
    LET swept == {b \in B : Cardinality(Slot \ Room(tbl, b)) > skip}
        E == {n \in Nodes : /\ \E b \in swept, s \in Slot : tbl[b][s] = n
                            /\ last_ts[n] < ExpireBefore(tsc)}
    IN  /\ Idle
        /\ E # {}
        /\ tbl' = [b \in Bucket |-> [s \in Slot |->
                      IF tbl[b][s] \in E THEN NIL ELSE tbl[b][s]]]
        /\ last_ts' = [n \in Nodes |-> IF n \in E THEN 0 ELSE last_ts[n]]
        /\ \E q \in Listings(E) : free' = q \o free
        /\ UNCHANGED <<key, tsc, call, ctx, res>>

(* Mutant: the entries keep their times. *)
FlushKeepsTimes ==
    /\ Idle
    /\ tbl' = EmptyTable
    /\ free' = AllFree
    /\ UNCHANGED <<key, last_ts, tsc, call, ctx, res>>

Flush ==
    /\ Idle
    /\ tbl' = EmptyTable
    /\ last_ts' = [n \in Nodes |-> 0]
    /\ free' = AllFree
    /\ UNCHANGED <<key, tsc, call, ctx, res>>

Tick ==
    /\ Idle
    /\ tsc < MaxTsc
    /\ tsc' = tsc + 1
    /\ UNCHANGED <<tbl, key, last_ts, free, call, ctx, res>>

BeginAny ==
    \/ \E args \in KeyBatches["find"], now \in {0, tsc} : Begin("find", args, now)
    \/ \E args \in KeyBatches["findadd"] : Begin("findadd", args, tsc)
    \/ \E args \in KeyBatches["add"] : Begin("add", args, tsc)
    \/ \E args \in KeyBatches["del"] : Begin("del", args, 0)
    \/ \E args \in IdxBatches : Begin("delidx", args, 0)

Next ==
    \/ BeginAny \/ Step \/ Return
    \/ \E e \in Nodes : RemoveIdx(e)
    \/ \E B \in SUBSET Bucket, skip \in {0, Pressure} : Maintain(B, skip)
    \/ Flush \/ Tick

Spec == Init /\ [][Next]_vars

-----------------------------------------------------------------------------
(* Properties *)

KeyOps == {"find", "findadd", "add", "del"}

CallRecord ==
    {NoCall}
    \cup (UNION {[op : {op}, args : KeyBatches[op], now : 0 .. MaxTsc] : op \in KeyOps})
    \cup [op : {"delidx"}, args : IdxBatches, now : {0}]

(* Every variable has its type, and the results never outnumber the keys.  *)
TypeOK ==
    /\ tbl \in [Bucket -> [Slot -> NodeOrNil]]
    /\ key \in [Nodes -> Keys]
    /\ last_ts \in [Nodes -> 0 .. MaxTsc]
    /\ free \in Seq(Nodes)
    /\ tsc \in 1 .. MaxTsc
    /\ call \in CallRecord
    /\ res \in Seq(NodeOrNil)
    /\ Len(res) <= Len(call.args)
    /\ DOMAIN ctx = DOMAIN call.args
    /\ \A i \in DOMAIN ctx : ctx[i] \in [hits : SUBSET Slot, empties : 0 .. EntrySz]

Once(f) == \A i, j \in DOMAIN f : f[i] = f[j] => i = j

Entries(f) == {f[i] : i \in DOMAIN f}

(* Each entry is once in the table t or once on the free list f.           *)
Partition(t, f) ==
    /\ OneSlot(t)
    /\ Once(f)
    /\ LinkedIn(t) \cap Entries(f) = {}
    /\ LinkedIn(t) \cup Entries(f) = Nodes

(* The entries in the table and those on the free list partition the pool, *)
(* each once, between any two keys of a batch: allocation, insertion that  *)
(* fails or finds a duplicate, relief, deletion and maintenance neither    *)
(* lose an entry nor free one twice.                                       *)
PoolPartition == Partition(tbl, free)

(* "Last-access TSC; 0 = free": del_idx_bulk and walk tell a linked entry  *)
(* from a free one by last_ts alone.                                       *)
TsMarksLive == \A n \in Nodes : last_ts[n] # 0 <=> n \in LinkedIn(tbl)

(* A linked entry is in one of its key's buckets and no other entry has    *)
(* its key, though findadd inserts upon a miss that an out-of-date scan    *)
(* reported.                                                               *)
UniqueKeys ==
    /\ \A b \in Bucket, s \in Slot :
         tbl[b][s] # NIL => b \in Cands(key[tbl[b][s]])
    /\ \A m, n \in LinkedIn(tbl) : key[m] = key[n] => m = n

(* An entry a batch has reported for a key is still that key's entry when  *)
(* the batch ends: the relief and the kickouts of later keys do not evict  *)
(* or reuse it.                                                            *)
ResultsHold ==
    call.op \in {"find", "findadd", "add"} =>
      \A i \in DOMAIN res : res[i] # NIL =>
        res[i] \in LinkedIn(tbl) /\ key[res[i]] = call.args[i]

(* An entry leaves the table only at the user's request or after it has    *)
(* been idle for longer than the least timeout, however full the table is  *)
(* and however old the scan behind the decision.                           *)
FreshSurvive ==
    [][\A n \in LinkedIn(tbl) \ LinkedIn(tbl') :
         \/ last_ts[n] + (IF Timeout = 0 THEN 0 ELSE TimeoutMin) < tsc
         \/ DelStep \/ DelIdxStep \/ RemoveIdx(n) \/ Flush]_vars
=============================================================================
