---------------------------- MODULE FlowDispatch ----------------------------
(***************************************************************************)
(* One flow cache used by several processes, each of which dispatches its  *)
(* calls through an ops table of its own (samples/fcache/src/fc_dispatch.c,*)
(* fc_ops.h; include/rix/rix_hash_arch.h).                                 *)
(*                                                                         *)
(* The cache is compiled four times.  A process that has called            *)
(* fc_arch_init uses the best of the four that it enabled and the CPU      *)
(* runs, one that has not uses the generic one; and the generic one is     *)
(* compiled without SSE4.2, where the hash of a key is FNV-1a, the others  *)
(* with it, where it is CRC32C.  Hence processes may look one flow up in   *)
(* different buckets of the table they share.  A key is therefore a flow   *)
(* together with the hash that the call which added it used: <<flow,       *)
(* hash>>; the keys of entries are compared by their flow alone.           *)
(*                                                                         *)
(* The calls are serialized ("external coordination"), so each is a step;  *)
(* times are left out: an entry may have expired whenever one is looked    *)
(* for.  What a step does to the buckets is RixCuckoo's.                   *)
(***************************************************************************)
EXTENDS RixCuckoo

CONSTANTS
    Procs,
    Flows,      (* What the caller's keys are.                              *)
    Enables,    (* The masks fc_arch_init is called with.                   *)
    Cpus,       (* What __builtin_cpu_supports says of a machine.           *)
    Lanes       (* Lanes[o]: the slots one vector register of o compares.   *)

Ops   == {"gen", "sse", "avx2", "avx512"}
Level == {"sse", "avx2", "avx512"}
HashFn == {"fnv1a", "crc32c"}

ASSUME KeysAssumption == Flows # {} /\ Keys = Flows \X HashFn
(* A CPU with one level has those below it.                                *)
ASSUME LevelAssumption ==
    /\ Enables \subseteq SUBSET Level
    /\ Cpus \subseteq SUBSET Level
    /\ \A c \in Cpus : /\ "avx512" \in c => "avx2" \in c
                       /\ "avx2" \in c => "sse" \in c
ASSUME LanesAssumption ==
    /\ Lanes \in [Ops -> 1 .. EntrySz]
    /\ \A o \in Ops : EntrySz % Lanes[o] = 0

VARIABLES
    cpu,        (* The machine's levels; never changes.                     *)
    enabled,    (* enabled[p]: what p passed to fc_arch_init, or {}.        *)
    active,     (* active[p]: p's _fc_flow4_active.                         *)
    used,       (* The processes that have called the cache.                *)
    tbl,        (* The buckets they share: fc->buckets[].idx[].             *)
    key         (* What each entry of the pool holds.                       *)

dispatch == <<cpu, enabled, active>>
vars == <<cpu, enabled, active, used, tbl, key>>

-----------------------------------------------------------------------------
(* Selection *)

(* The ladder of FC_OPS_SELECT and of rix_hash_arch_init: a level is taken *)
(* if it, or one above it, is enabled and it is there.                     *)
Best(enable, there) ==
    IF "avx512" \in enable /\ "avx512" \in there THEN "avx512"
    ELSE IF enable \cap {"avx2", "avx512"} # {} /\ "avx2" \in there THEN "avx2"
    ELSE IF enable # {} /\ "sse" \in there THEN "sse"
    ELSE "gen"

(* Mutant: a level is taken only if it is itself enabled.                  *)
SelectExact(enable, c) ==
    IF "avx512" \in enable \cap c THEN "avx512"
    ELSE IF "avx2" \in enable \cap c THEN "avx2"
    ELSE IF "sse" \in enable \cap c THEN "sse" ELSE "gen"

(* FC_OPS_SELECT *)
Select(enable, c) == Best(enable, c)

(* The instruction sets ops table o is compiled with.                      *)
Compiled(o) ==
    CASE o = "gen"    -> {}
      [] o = "sse"    -> {"sse"}
      [] o = "avx2"   -> {"sse", "avx2"}
      [] o = "avx512" -> Level

(* The constructor's rix_hash_arch_init(RIX_HASH_ARCH_AUTO) in o's unit.   *)
ArchOf(o, c) == Best(Level, Compiled(o) \cap c)

(* hash_bytes: with SSE4.2 every table of the unit, also its generic one,  *)
(* has CRC32C.                                                             *)
HashOf(o) == IF "sse" \in Compiled(o) THEN "crc32c" ELSE "fnv1a"

(* find_u32x16: the vectors' compare masks, each shifted to its place. *)
FindMask(w, arr, val) ==
    UNION {{w * v + i : i \in {j \in 0 .. w - 1 : arr[w * v + j] = val}} :
              v \in 0 .. (EntrySz \div w) - 1}

-----------------------------------------------------------------------------
(* Looking up *)

Flow(n) == key[n][1]

KeyFor(p, f) == <<f, HashOf(active[p])>>

(* bucket->hash[] *)
FpRow(t, b) == [s \in Slot |-> IF t[b][s] = NIL THEN {} ELSE Fp(key[t[b][s]])]

(* The slots of bucket b whose fingerprint and flow p takes for f.         *)
Hits(p, t, b, f) ==
    {s \in FindMask(Lanes[ArchOf(active[p], cpu)], FpRow(t, b), Fp(KeyFor(p, f))) :
        Flow(t[b][s]) = f}

(* What p finds of flow f in t: find, and the duplicate scan of insert.    *)
Found(p, t, f) ==
    LET k == KeyFor(p, f)
        h0 == Hits(p, t, Bk0(k), f)
        h1 == Hits(p, t, Bk1(k), f)
    IN  IF h0 # {} THEN t[Bk0(k)][LowestSlot(h0)]
        ELSE IF h1 # {} THEN t[Bk1(k)][LowestSlot(h1)] ELSE NIL

-----------------------------------------------------------------------------
(* Calls *)

Init ==
    /\ cpu \in Cpus
    /\ enabled = [p \in Procs |-> {}]
    /\ active = [p \in Procs |-> "gen"]
    /\ used = {}
    /\ tbl = EmptyTable
    /\ key \in [Nodes -> {CHOOSE k \in Keys : TRUE}]

(* "Call once at startup before any cache operations." *)
ArchInit(p, enable) ==
    /\ p \notin used
    /\ enabled' = [enabled EXCEPT ![p] = enable]
    /\ active' = [active EXCEPT ![p] = Select(enable, cpu)]
    /\ UNCHANGED <<cpu, used, tbl, key>>

Call(p) == used' = used \cup {p} /\ UNCHANGED dispatch

(* find_bulk: changes no bucket. *)
Find(p) == Call(p) /\ UNCHANGED <<tbl, key>>

(* Mutant: the kickout finds an occupant's other bucket by hashing its key *)
(* again.                                                                  *)
AllocInsertRehashes(p, t, f) ==
    \/ /\ Nodes \subseteq LinkedIn(t)
       /\ tbl' = t
       /\ UNCHANGED key
    \/ \E n \in Nodes \ LinkedIn(t) :
         /\ key' = [key EXCEPT ![n] = KeyFor(p, f)]
         /\ \/ Found(p, t, f) # NIL /\ tbl' = t
            \/ Found(p, t, f) = NIL /\ tbl' \in InsertedIn(t, [m \in Nodes |-> KeyFor(p, key'[m][1])], n)
            \/ Found(p, t, f) = NIL /\ BothFull(t, KeyFor(p, f)) /\ tbl' = t

(* Take a free entry for flow f, any one, and insert it into t; a kickout  *)
(* moves the occupants by the hash values their own adders stored.  An     *)
(* entry that is not inserted is free again, its key overwritten.          *)
AllocInsert(p, t, f) ==
    \/ /\ Nodes \subseteq LinkedIn(t)
       /\ tbl' = t
       /\ UNCHANGED key
    \/ \E n \in Nodes \ LinkedIn(t) :
         /\ key' = [key EXCEPT ![n] = KeyFor(p, f)]
         /\ \/ Found(p, t, f) # NIL /\ tbl' = t
            \/ Found(p, t, f) = NIL /\ tbl' \in InsertedIn(t, key', n)
            \/ Found(p, t, f) = NIL /\ BothFull(t, KeyFor(p, f)) /\ tbl' = t

(* findadd_bulk on a miss: at most one expired entry of the two buckets    *)
(* gives way first.  A hit changes no bucket.                              *)
FindAdd(p, f) ==
    /\ Call(p)
    /\ \/ Found(p, tbl, f) # NIL /\ UNCHANGED <<tbl, key>>
       \/ /\ Found(p, tbl, f) = NIL
          /\ \/ AllocInsert(p, tbl, f)
             \/ \E b \in Cands(KeyFor(p, f)), s \in Slot :
                  tbl[b][s] # NIL /\ AllocInsert(p, Without(tbl, tbl[b][s]), f)

Add(p, f) == Call(p) /\ AllocInsert(p, tbl, f)

Del(p, f) ==
    /\ Call(p)
    /\ Found(p, tbl, f) # NIL
    /\ tbl' = Without(tbl, Found(p, tbl, f))
    /\ UNCHANGED key

(* del_idx_bulk through p's table; del_idx, through the generic one's      *)
(* remove_idx; and an entry that maintain and its variants find expired.   *)
(* The entry's own hash_field and slot lead to it, whoever added it.       *)
Evict(p, n) ==
    /\ Call(p)
    /\ n \in LinkedIn(tbl)
    /\ tbl' = Without(tbl, n)
    /\ UNCHANGED key

(* flush, always the generic one *)
Flush(p) == Call(p) /\ tbl' = EmptyTable /\ UNCHANGED key

Next ==
    \E p \in Procs :
       \/ \E e \in Enables : ArchInit(p, e)
       \/ Find(p)
       \/ \E f \in Flows : FindAdd(p, f) \/ Add(p, f) \/ Del(p, f)
       \/ \E n \in Nodes : Evict(p, n)
       \/ Flush(p)

Spec == Init /\ [][Next]_vars

-----------------------------------------------------------------------------
(* Properties *)

TypeOK ==
    /\ cpu \in Cpus
    /\ enabled \in [Procs -> SUBSET Level]
    /\ active \in [Procs -> Ops]
    /\ used \subseteq Procs
    /\ tbl \in [Bucket -> [Slot -> NodeOrNil]]
    /\ key \in [Nodes -> Keys]

(* Every entry is found by every process that hashes as its adder did,     *)
(* whatever the calls and kickouts of processes that hash differently have *)
(* done to the buckets since: nothing is lost to those who can see it.     *)
(* Only an entry of the same flow can be found in its stead, and only if   *)
(* the two hashes happen to give the flow the same fingerprint.            *)
FoundByItsHash ==
    \A n \in LinkedIn(tbl), p \in Procs :
       HashOf(active[p]) = key[n][2] =>
         LET e == Found(p, tbl, Flow(n))
         IN  e = n \/ (e # NIL /\ \A h, g \in HashFn : Fp(<<Flow(n), h>>) = Fp(<<Flow(n), g>>))

(* Whatever ops tables the processes use, and however their calls kick each*)
(* other's entries out, no flow is in the table twice under one hash.  And *)
(* as long as they agree on whether to enable any level at all, on any CPU *)
(* and with different levels, it is not in the table twice at all.         *)
Agreed == \A p, q \in used : enabled[p] = {} <=> enabled[q] = {}

OneEntryPerFlow ==
    \A m, n \in LinkedIn(tbl) :
       m # n /\ Flow(m) = Flow(n) => key[m][2] # key[n][2] /\ ~Agreed

(* What the proofs need besides: each process runs what it selected, one   *)
(* slot for each linked entry, in a bucket its key leads to, and one entry *)
(* for each flow and hash.                                                 *)
Selected == \A p \in Procs : active[p] = Select(enabled[p], cpu)

Housed == \A b \in Bucket, s \in Slot : tbl[b][s] # NIL => b \in Cands(key[tbl[b][s]])

OnePerKey == \A m, n \in LinkedIn(tbl) : key[m] = key[n] => m = n

AddedByUsers ==
    \A n \in LinkedIn(tbl) : \E p \in used : key[n][2] = HashOf(active[p])

DispatchInv ==
    TypeOK /\ Selected /\ OneSlot(tbl) /\ Housed /\ OnePerKey /\ AddedByUsers
=============================================================================
