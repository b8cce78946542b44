# Formal models of librix

TLA+ specifications of the index-based containers of librix (`include/rix`) and of
the flow cache built on them (`samples/fcache`), the TLC runs that model-check them
and the proofs that TLAPS checks. Paths are relative to the repository.

Contents: [The system](#the-system) - [Plan](#plan) - [Modules](#modules) -
[Runs](#runs) - [Bounds](#bounds) - [Fairness](#fairness) - [Findings](#findings) -
[Proofs](#proofs) - [What is not modelled](#what-is-not-modelled)

## The system

librix is a header-only C library of containers whose links are 32-bit indices into an
array the caller owns (`RIX_NIL` is no element), so that they survive in shared memory.
Nothing in it allocates, blocks, or synchronises: README.md ("Concurrency") asks for one
thread or a caller's lock. What is hard in it is therefore not the interleaving of
threads but what happens *inside* an operation (a recursive search that moves other
callers' elements while it runs), *between* the stages of a pipelined batch (a value
computed by one stage and used by a later one), and across long histories of legal calls.

| component | state | operations | what makes it correct | what is hard |
|---|---|---|---|---|
| hash common (`rix_hash_common.h`) | none | hash to two buckets and a fingerprint | candidate buckets differ; fp = h0 ^ h1 leads from one to the other | the hash contract everything else uses |
| SIMD dispatch (`rix_hash_arch.h`) | one function table per compilation unit | select a table by CPU and mask; find in 16 or 8 slots; hash by CRC32C or FNV-1a | every table finds the same slots | the units are compiled for different CPUs and hash differently |
| fingerprint table (`rix_hash_fp.h`) | `bk[].hash[]`, `bk[].idx[]`, `rhh_nb`, each element's `hash_field` | init, staged find, insert (duplicate scan, fast path, recursive kickout), remove, remove_at, walk | finite map with the documented return values; `hash_field` names the element's bucket; count exact; failed insert changes nothing | kickout: stale saved occupant, ignored results, partial failure, termination |
| slot table (`rix_hash_slot.h`) | + each element's `slot_field` | the same | `slot_field` names the element's slot; equivalent to the fingerprint table | two back references to keep right through kickout |
| key-only table (`rix_hash_keyonly.h`) | no field in the element | the same | as above | alternate bucket from rehashing the occupant's key |
| keyed tables (`rix_hash32.h`, `rix_hash64.h`) | `bk[].key[]`, `bk[].idx[]`, `invalid_key` | the same | as above; the bucket's key is the element's | an unchecked `find_empty` after kickout; hits not compared again |
| queues (`rix_queue.h`) | head, per-element links | SLIST, LIST, STAILQ, TAILQ, CIRCLEQ | each represents a sequence | safe iteration while removing |
| red-black tree (`rix_tree.h`) | root, parent/left/right/colour | insert, remove, find, nfind, next, prev, min, max | search order, black height | removal fix-up |
| flow cache (`fc_cache_generate.h`) | slot table + free list (SLIST) + `last_ts` of each entry + timeouts, cursors, stats | bulk find, findadd, add, del; maintain, maintain_step, flush, walk | entries live in the table and free entries partition the pool; a batch's results denote live entries; no live key is lost but by timeout | pipelined stages with stale hit masks and empty counts; reclaim inside a batch |
| flow cache maintenance (`maintain*` of `fc_cache_generate.h`) | cursor, `last_maint_tsc`, `last_maint_fills`, `last_maint_start_bk`, `last_maint_sweep_bk` | maintain, maintain_step(_ex) | every bucket is checked once a lap, in bounded time; what has expired goes | a throttle by two ratios, varying widths, chunks, kickouts behind the cursor, 32-bit arithmetic |
| flow cache dispatch and front ends (`fc_dispatch.c`, `fc_ops.h`, `flow{4,6,u}.c`) | one ops table pointer per process | `fc_arch_init`, calls through the pointer | a shared cache shows every process what it added | four builds of the cache, two hash functions, one table |

Interactions. The flow cache owns an instance of the slot table (through the generator in
`rix_hash.h`) and a free list from `rix_queue.h`; the table's kickout writes fields of
entries (`hash_field`, `slot_field`) that the cache's deletion and maintenance later read. The
slot table is the fingerprint table with one more back reference. The generator
macros (`RIX_HASH_GENERATE`...) produce per-type copies of the same code. The flow cache itself is compiled
four times (generic, SSE4.2, AVX2, AVX-512; `samples/fcache/Makefile`), each with a
`rix_hash_arch` table of its own, and `fc_dispatch.c` calls one of the four. Processes that map one cache
("when multiple processes share the same `flow_cache` instance", `samples/README.md:1086`) each make that choice.

## Plan

In the order of importance; each step ends with its runs, mutants and theorems.

1. `RixHashFp`: insert with kickout as a step machine, remove, find; `RixMap`, the map it
   implements; inductive invariant and proof. *(done)*
2. `RixHashSlot`: the slot variant, shown and proved to implement `RixHashFp`. *(done)*
3. `RixCuckoo` and `RixTable`: a whole insert or remove as one step, shown to be implemented by
   `RixHashFp`, so that larger systems can be built on them. *(done)*
4. `FlowCache`: the table, the free list, the times of last use and the pipelined bulk operations;
   all its safety properties as theorems. *(done)*
5. `FlowMaint` and `FlowMaintLap`: the cursor, throttle, sweep width and narrowing of `maintain_step`, with integer
   widths; the safety properties as theorems. *(done)*
6. `RixSlist`, `RixStailq`, `RixList`, `RixTailq`, `RixCircleq`: the queues against sequences, and safe iteration while
   its body changes them. *(done)*
7. `RixHashRehash`: the keyed tables (32 and 64 bit), with their unchecked empty slot after a
   kickout, and the key-only variant. *(done)*
8. `RixTree` and `RixOrderedSet`: the tree against an ordered set, and red-black up to the fix-up in progress;
   its safety properties and the refinement as theorems. *(done)*
9. `FlowDispatch`: processes with different ops tables on one cache, on the operators of `RixCuckoo`; all as
   theorems. *(done)*
10. Staged find with mutations between its stages on the bare table; `walk` with a callback that changes the table.
    *(left; `FlowCache` has the stages)*

Every safety property that a passing run checks is also a theorem.

## Modules

`RixHashCommon` - hash values, buckets, fingerprints. A hash is the *set of its one bits*, so
`^`, `&` and `0` are symmetric difference, intersection and `{}`; the bucket
numbers are the subsets of `Mask`. The hash functions are constants `Hash0`, `Hash1` with the only
promise the code relies on: a key's two candidate buckets differ
(`HashContract`; the code redraws the second hash until they do).

`RixHashFp` - the fingerprint table.

| code | model |
|---|---|
| `bk->hash[s]`, `bk->idx[s]` | `bkt_hash[b][s]`, `bkt_idx[b][s]` |
| `elm->hash_field`, `head->rhh_nb` | `hash_field[n]`, `nb` |
| C call stack of `kickout` | `frame[d]` by depth argument, with `phase`, `depth`, `pos` (return value) |
| `insert` up to its kickout | `InsertDuplicate`, `InsertFast`, `InsertSlow` |
| `kickout` pass 1 / pass 2 | `KickFlip` / `KickScan`, `KickSkip`, `KickDescend`, `KickExhausted` |
| return into a caller | `KickNext`, `KickUnwind`, `KickRecheck` |
| `insert` after its kickout | `InsertAfterKickout`, `InsertTryBk1`, `InsertFull` |
| `find`, `remove`, `remove_at` called by it and by a caller | `Find`, `Remove`, `RemoveAt`, `RemoveAtCall` |

The recursion is modelled by an explicit stack for two reasons: the interesting states are those in
which several activations wait with a saved fingerprint and index while
the one below moves elements, and the proofs need a definition without recursion.
Each state is the memory between two steps of one activation. Callers insert an element that is
not linked (`Spec`), or also one that already is (`RelinkSpec` and `GrowFairSpec`, as `test_rix_hash.c` does).

`RixMap` - what every table promises: a finite map, with the documented return values.
`RixHashFp!RefinesMap` maps the table to it: the map is what `find` shows.

`RixHashSlot` - the slot table: the actions of `RixHashFp` conjoined with the writes to
`slot_field`, and a `remove` of its own that goes to the slot the two fields name (`SlotRemoveAtCall` is `remove_at`).

`RixHashRehash` - the three tables whose elements keep no field. `rix_hash64.h` is `rix_hash32.h` with wider keys, and
`rix_hash_keyonly.h` has the same kickout, insert and remove with a fingerprint in place of the key; so there is one module, and
`build.keyed` says which text is meant. `tab.mark` is `bk[].key[]` or `bk[].hash[]`, `tab.idx` is `bk[].idx[]`, and
`tab.stray` records a write to slot -1, which the code would make if `find_empty` failed after a recursive call. A whole call is
one step here and `Kickout` a recursive function of the table (`RixHashFp` shows what the same recursion does write by
write). Any element may be inserted at any time, linked or not: with no field in the element
nothing is overwritten before the duplicate check. `RemoveAt` is `remove_at`, which the keyed tables do not have.

`RixCuckoo` - what one whole call does to the array of indices: `Without` is `remove`, `InsertedIn` the set of tables an
insert may leave. A kickout appears as *any* rearrangement of the linked elements within their candidate buckets.
`RixTable` makes a specification of these operators; `RixHashFpAtomic!RefinesTable` says that `RixHashFp` implements it when each
insert is seen at its return: the history variable `before` of `RixHashFpAtomic`, the table as it was when the insert began,
stands in for the states between.

`FlowCache` - the flow cache, on the operators of `RixCuckoo`.

| code | model |
|---|---|
| `fc->buckets[].idx[]` | `tbl` |
| `entry->key`, `entry->last_ts` | `key[n]`, `last_ts[n]` |
| `fc->free_head` (SLIST) | `free`, a sequence |
| local `ctx[]` of a bulk call | `ctx[i]`: `hits` and `empties` as the scan stage saw them |
| `keys[]`, `now`, `results[]` of the call in progress | `call`, `res` |
| stages 1 and 2, before the first key | `Begin`: scans the keys `ScannedFirst` |
| stage 4 for one key, and the scans up to the next key | one `...Step`, ended by `Result`: scans the keys `ScannedAfter` |
| `find_bulk` | `FindStep` |
| `findadd_bulk`: hit / miss with relief, `alloc_entry`, `insert` | `FindAddHit` / `FindAddMiss` (`Victim`, `AllocInsert`) |
| `add_bulk`, `del_bulk`, `del_idx_bulk` | `AddStep`, `DelStep`, `DelIdxStep` |
| `remove_idx`, `flush` | `RemoveIdx`, `Flush` |
| `maintain`, `maintain_step(_ex)` | `Maintain(B, skip)`: sweeps any set of buckets (which one: `FlowMaint`) |
| `update_eff_timeout`, `relief_empty_slots` | `EffTimeout`, `ReliefEmptySlots`, computed where they are used |
| the caller's clock | `tsc`, which stands still during a call |

What this leaves out, and why that is sound: the prefetch and hash stages write nothing another stage reads
but the hash of the key. `eff_timeout_tsc` is a field in the code, but `update_eff_timeout` runs just before
each use of it, so here it is computed where it is used. `Maintain` chooses the
buckets freely and frees entries in any order, a superset of what cursor, throttle and grouping choose (`FlowMaint`).
`findadd` and `add` are called with `now # 0`, as the header says ("0 = free"). `add_bulk`'s
pipeline has no scan stage, so its keys have none here. The header puts duplicates on its caller ("no duplicate check", "caller must
ensure no duplicate exists", `flow4_cache.h:276-279`); the code it calls, `insert_hashed`, does check, frees the new entry and reports the linked
one, and so does `AddStep`. The runs call `add` with linked keys too, and `UniqueKeys` holds without the header's condition.

`FlowMaint` - which buckets a maintenance call looks at, and when. The table is reduced to the bucket and the age of each
entry, times to distances from now (`elapsed` is `now - last_maint_tsc`, `added` is `fills - last_maint_fills`).

| code | model |
|---|---|
| `maint_time_scale`, `maint_entry_scale`, the larger, times `maint_base_bk`, cap | `TimeRatio`, `FillRatio`, `Scale`, `Width`, `Capped`; unsigned values are reduced modulo `UintRange` |
| `maintain_step` up to its sweep | `MaintainStep(idle)` |
| `maintain_step_ex` up to its sweep | `MaintainStepEx` |
| one turn of `maintain_step_grouped`'s loop (filter, then reclaim) | `Chunk` |
| its end | `SweepEnd` |
| `maintain` | `Maintain` |
| findadd, add with their kickouts; hits; deletions; flush | `Fill`, `Hit`, `Delete`, `Flush` |
| the poll loop's clock | `Tick` |

`FlowMaintLap` adds history variables that follow one bucket, any one, round the laps of the cursor: the buckets checked, the sweeps begun
and the time passed since it was last checked. The properties are stated on them.

`FlowDispatch` - one cache, several processes, an ops table each. A key is a flow *together with the hash its adder used*; two
keys of one flow may lead to different buckets, and lookups compare the flow alone. `Select` is the ladder of `FC_OPS_SELECT`,
`ArchOf` that of `rix_hash_arch_init` in each compiled unit, `HashOf` the hash the unit is compiled with, `FindMask` the
vector compare of 16 slots in registers of `Lanes[o]`. Calls are whole steps ("external coordination") and times are left
out: `FindAdd` may evict any entry of the two buckets first, `Evict` may remove any entry. Note that
`rix_hash_arch.h:60` calls CRC32C the hash "always on x86_64 builds"; the generic unit of the flow cache is built without
`-msse4.2` and gets FNV-1a, as `HashOf` has it. `struct fc_flow4_cache` keeps pointers to its buckets and pool, so that sharing
processes must map it at one address; the model takes that for granted.

`RixSeqs` - what the queues stand for: sequences of elements, and each call as an operation on them. `RixLinks` - what
the queues have in common: `first[h]` is `rsh_first`, `rlh_first`, ... of head `h`, `next[e]` the next index in element `e`,
and `loop` the safe iteration in progress with its locals `var` and `tvar`. `RixSlist`, `RixStailq`, `RixList`,
`RixTailq` and `RixCircleq` have one action per macro, named like it, on `first`, `next`, `prev` and `last`. Where the
code of STAILQ is that of SLIST plus a last index, and that of TAILQ that of LIST plus a last index, so are the
actions. An iteration is two actions, `LoopBegin` and `LoopNext` (`LapBegin` and `LapNext` for the circle, in both
directions), and its body is whatever calls come between them. The body may remove any element but the one
whose index the iteration has already read, and may insert what it removed anywhere. `REMOVE`'s `UNCHANGED vars`
is the search that finds nothing.

`RixTree` - the red-black tree; `RixOrderedSet` - the set of elements with different keys that it promises.

| code | model |
|---|---|
| `head->rrh_root`, `rbe_left` / `rbe_right`, `rbe_parent`, `rbe_color` | `tree.root`, `tree.child[side][n]`, `tree.parent[n]`, `tree.color[n]` |
| `..._left` / `..._right` helpers, mirrored branches | one operator with the side as a parameter |
| descent of `INSERT` and its link, or its early return | `InsertLink`, `InsertTaken` |
| its fix-up loop: red uncle / inner child / outer child / exit | `InsertRecolor` / `InsertStraighten` / `InsertRotate` / `InsertDone` |
| `REMOVE` up to its fix-up: one child or none / two children | `RemoveUnlink` (`RemoveEdge` / `RemoveInner`) |
| its fix-up loop: red sibling / black nephews / near nephew red / far nephew red / exit | `RemoveLift` / `RemoveRecolor` / `RemoveStraighten` / `RemoveRotate` / `RemoveDone` |
| `FIND`, `NFIND`, `MINMAX`, `NEXT` / `PREV` | `FIND`, `NFIND`, `MINMAX`, `Beside` |
| their loops: the elements met, the last of some kind among them | `Passed`, `LastOf`, `EndOf`: recursive functions along a turn chosen at each element |
| locals `z`, `xi`, `xpi`, `elm` of a fix-up | `fix.at`, `fix.at`, `fix.above`, `fix.elm` |

A round of a fix-up loop may rotate twice; each rotation is a step, and what the round tests after the first is what
the loop's condition and its branches would test again, so that the steps compose to the code's round. The
refinement maps `members` to the elements below the root: a call takes effect when it links or unlinks, and its fix-up stutters.

`RixCuckoo_proofs` - lemmas; `RixHashFp_proofs` (the fingerprint and the slot table),
`RixHashRehash_proofs`, `FlowCache_proofs`, `FlowMaint_proofs`, `FlowDispatch_proofs`, `Queues_proofs`, `RixTree_proofs` - the theorems. `MCRixHashFp`, `MCRixHashSlot`, `MCFlowCache`, `MCFlowMaint`, `MCFlowDispatch`,
`MCQueues`, `MCRixHashRehash`, `MCRixTree` - instances for TLC. Definitions
commented as *mutants* are variants of the definition that follows them with a plausible bug; no
specification uses them. They document which mistake each property catches.

## Runs

| run | question | answer |
|---|---|---|
| `fp_reinsert` | does the documented `hash_field` invariant survive it? | no: see Findings |
| `slot_table` | is the table in order after every single write of inserts with deep kickouts, of removes, and of inserts of linked elements? does `slot_field` lead to the element? does trusting it equal searching? does an insert end? | yes: back references, find, empty marks, count, freed slot, no dropped element; yes; yes: the slot table implements the fingerprint table, whose properties are checked on the same states; yes |
| `fp_atomic` | does the fingerprint table implement a map? is every insert, kickout included, one atomic step, and a failed one none? | yes: it implements `RixMap` (one slot a bucket, long chains, two elements of one key); and yes: it implements `RixTable`, in which linked elements stay in their candidate buckets, and only a key whose two buckets are full is refused, with nothing changed |
| `rehash` | keyed and key-only tables: can what find, kickout and remove trust be wrong? can the unchecked slot be -1? does a failed insert change anything? | no; no; no: they implement `RixMap` |
| `flow_cache` | all operations of the flow cache, with timeouts, relief, a full table, an exhausted pool and scans that are out of date | the pool stays partitioned, keys unique, results valid, fresh entries linked |
| `flow_stale` | can a `findadd` miss a linked key, because a kickout moved it behind the scan, and link it twice? | it can miss it; the duplicate scan of `insert` catches it |
| `maint` | does the sweep of `maintain_step` pass over a bucket, or check one twice in a lap? how long may a bucket wait while fills keep triggering sweeps? can an expired entry stay in its bucket for ever, while fills and kickouts go on? do the recorded start and width tell what was swept? | no; no longer than a lap of the narrowest sweeps; not in a bucket that is not sparse, and an idle call leaves none anywhere (kickouts may move an entry behind the cursor in every lap, which nothing in the code prevents); yes |
| `maint_width` | "The sweep width scales with the trigger ratio"? | not where the product overflows: see Findings |
| `dispatch` | processes with different ops tables on one cache: does each find what it can see? can a flow be linked twice? | yes; not under one hash, and not at all if all of them, or none, enable a level, whichever levels those are. If some do and others do not, the code links a flow once for each hash |
| `queues` | does each call on each of the five queues do what it does to a sequence? do the last index and the back links follow? what does a safe iteration visit? | yes; yes; exactly once what stays in the queue, whatever its body removes, inserts and moves to another queue |
| `queue_lap` | is a safe iteration of a circle one full lap? | no: see Findings |
| `tree` | do INSERT and REMOVE keep an ordered set? is the tree red-black after every call, and off only where the fix-up is during one? are both ends of each link written? do fix-ups end? | yes to all |

## Bounds

- *Buckets.* Four (two mask bits), the least number in which a kickout chain can leave the
  two candidate buckets of the inserted key; the third hash bit, outside the mask, tells equal
  buckets with different hashes and fingerprints apart.
- *Slots.* One or two instead of 16. One gives the longest chains and a failing table from few elements; two
  gives the choice between slots, partly empty buckets and the case in which a recursive
  call moves its caller's own element.
- *Keys.* Five to seven, with hash functions chosen so that some buckets overflow
  (a failing insert), some inserts need a chain of two or three moves, and two keys share both hashes or a
  fingerprint. `ChainKeyOf` gives two elements one key.
- *`rehash`.* Two instances chosen by `build.depth`: six elements at the code's depth of 4, with failing inserts, and seven at depth
  8, the fewest with which a recursive call moves its caller's own element and the re-check fires (at depth 4 it
  never does, as the proof of `RehashFullLeavesTable` shows). One of the two mutants of `SlotsInOrder`, and one of `FreedSlotIsEmpty` (depth 5), drops the
  re-check and needs these depths; the other ones (`MovedIndexOnly`, `KickUnwindPassesPos`) show within the code's depth. Of the seven only the one whose insert needs that kickout is removed again, and `remove_at` runs with the six only.
- *Flow cache.* Three entries in four one-slot buckets (`flow_cache`), four of them in `flow_stale`: enough for a full bucket pair,
  a relief, a kickout and an exhausted pool. `StepKeys = AheadKeys = 1`, so that a batch of four keys has one that is scanned
  only after the first key's step; the code's 8 and 32 differ in how many keys are ahead, not in what can happen between a scan and its use.
  `Timeout = 2` and `MaxTsc = 4` let an entry expire at the configured timeout, and earlier under load; with four slots
  the thresholds are 2 and 3 entries. The theorems do not depend on these.
- *Queues.* Three elements: a first, a middle and a last one, so that each macro meets every combination of neighbours;
  two heads, so that an element can move to another queue and CONCAT and SWAP have two arguments. The run
  uses the symmetry of elements and heads (all its properties are safety properties).
- *Tree.* Eight keys and a ninth element with the key of the fourth: enough for every step of both fix-ups on both sides, for a
  clash or a shortage that moves up and is then rotated away, and for a refused insert.
- *Depth.* 4, the code's `RIX_HASH_FOLLOW_DEPTH`; 5 in `slot_table`, where more of the search
  can come back to a bucket on the stack. `slot_table` removes, by `remove` or `remove_at`, only the elements whose return makes kickouts run deep again.
- *`maint`.* Four buckets and chunks of two, so that sweeps are narrower than the table, wrap, and take several chunks, the last one a short one
  (base width 3); interval 2 with polls up to one tick late and two fills that trigger a sweep early. The entries are two, one in a sparse
  bucket and two in one that is not. `UintRange` is 16: it is never reached in `maint` and is in `maint_width` (8).
- *`dispatch`.* Two processes, four entries in four one-slot buckets, three flows, of which one has the same fingerprint under
  both hashes; all four CPUs and three masks. Entries and processes are symmetric.

## Fairness

Only one kind is assumed: an operation that has begun runs on (`WF` of the kickout step, or of the
step taken while `phase # "idle"`, of the tree's fix-up, of a sweep's `Chunk` and `SweepEnd`). The code has no blocking point: no lock, no
allocation, no system call, and the caller excludes other threads from the table. Starting an operation is not fair, with one
exception: `maint` assumes that the poll loop goes on calling `maintain_step` and that time passes ("Call unconditionally from
the main loop", `flow4_cache.h:372`). It does not assume that the loop is ever idle.

## Findings

`fp_reinsert`: `insert_hashed` writes the element's `hash_field` before it looks for a duplicate
(`rix_hash_fp.h:408`). Inserting an element that is already linked in its *second* bucket returns that element, as
documented, but leaves its `hash_field` with the hash of the first bucket. This contradicts the node invariant of
`rix_hash_common.h:166-168`, and a later `remove` looks in the first bucket only and returns NULL for a
linked element. Re-inserting is exercised by the repository's own test ("Re-insert the same node",
`test_rix_hash.c:271`), with a key still in its first bucket. The flow cache only inserts entries from
its free list and is not affected.

`maint_width`: `maintain_step` multiplies two 32-bit values before it caps the product at the number of buckets
(`fc_cache_generate.h:871`), and narrows the time ratio to 32 bits before that. Its comment says "The sweep width scales with
the trigger ratio". If the ratio times `maint_base_bk` reaches 2^32 the width is the remainder, and may be 0: the interval is then
restarted with no bucket checked. With a short interval in TSC ticks and a first call long after start-up (`last_maint_tsc` is 0 then, so
the first elapsed time is the clock's whole reading) that is possible; `WidthsFit` states when it is not, and
`LapIsTimely` holds on that condition.

`queue_lap`: `RIX_CIRCLEQ_FOREACH_SAFE` and its reverse take the element they are at for the start of the lap: `__rq_start`
moves to the next element whenever it equals the current one (`rix_queue.h:673`), and so it always does. The test for the
end (`rix_queue.h:666`) is then true only for an element that is alone. README.md:316 promises "one full lap". An
iteration that removes nothing goes round for ever; one that removes the current element ends there, with
the others unvisited, which is the behaviour the run shows. What does hold is that it stays on its circle (`SafeLapStays`).

## Proofs

`RixHashFp_proofs` proves, for every set of hash bits, mask, keys, elements, hash functions satisfying the contract, bucket size and
depth: type correctness, `HashFieldTracksBucket`, `EveryLinkedIsFound`,
`LinkedOnce`, `EmptyBothWays`, `CountExact`, `FreedSlotIsEmpty` (as invariants of `Spec`) and
`KickoutKeepsElements` (as an action property). Assumptions: `HashAssumption`,
`NilAssumption`, `KeyAssumption`, `SizeAssumption`, `DepthAssumption`, all evaluated by TLC on the instances.

The inductive invariant is `Inv`, the conjunction of

- `TypeOK`;
- `TableInv`: each slot is empty in both arrays, or holds its element's fingerprint in the bucket of the one of
  its key's two hashes that `hash_field` keeps;
- `KeyOnce`: no key in two slots; `NewKey`: the key being inserted is in none;
- `StackInv`: the activation waiting at depth `d` saved an occupant whose other candidate
  bucket is the one the activation below is freeing;
- `FreedSlotIsEmpty`.

None of the checked invariants is inductive alone. Even `TypeOK` needs `StackInv`: without it
a waiting frame might be at slot `EntrySz`. The crux is the step `KickUnwind`, in which the code moves the
saved occupant and drops `flipflop`'s result ("guaranteed to succeed"): the slot still holds the saved
fingerprint and index (`Unmoved`), so by `StackInv` the occupant's alternate bucket, computed from its
*current* `hash_field`, is the bucket the call below has just freed a slot in, so by
`FreedSlotIsEmpty` there is room and the flip really happens: lemma
`UnwindFlips`. `KickRecheck` covers the other case. Without that argument `Place` might overwrite a linked
element, which is what `KeepsElements` excludes.

The same module proves that the slot table implements the fingerprint table (`RefinesFp`), whatever the constants. The invariant is `Inv` and
`SlotFieldTracksSlot`. Every action but `remove` is a conjunction with one of `RixHashFp`; `remove` looks at one slot where the
fingerprint table searches a bucket, and finds the same because `slot_field` is right (and `KeyOnce` makes the slot unique). Hence
all that is proved of the fingerprint table holds of the slot table.

It proves `RefinesMap`: what `find` shows is the linked elements under their keys (`ShownIs`), so
that each call's effect on the map is its effect on the set of linked elements. It also proves `RefinesTable`, for every constant but a depth
of at most 4, the code's `RIX_HASH_FOLLOW_DEPTH`. This is what joins the two levels: `FlowCache` and `FlowDispatch` are built on
the operators of `RixCuckoo`, and whole calls of `RixHashFp` do what those say. The question it turns on is whether a
kickout that gave up has left anything changed. `PathInv` answers it, in two phases:

- until the first element moves (`Still`), every bucket a waiting activation works on is *stuck*: pass 1 found nothing in it to move;
- from then on the waiting activations are at different slots, each of which still holds what was saved (`Unmoved`), so that each
  can complete its move: nothing fails any more, and `KickRecheck` is never taken (`RecheckNeverRuns`).

That they are at different slots is where the depth enters. Two activations `d > e` at one slot saved the same element, so the calls below
them work on the same bucket. Then `d` is not `e + 1`, for the bucket below differs from the one above; and `e - 1` is not the activation that
just moved an element, for that one's bucket is not stuck and that of `d - 1` is. So `e` is at least 3 and `d` at least 5. At depth 5 it does happen, as `slot_table` shows: whoever
raises `RIX_HASH_FOLLOW_DEPTH` (`rix_hash_arch.h:93`) has to make this argument anew.
`BeforeInv` carries the rest: the table an insert began with has the same elements, and no room in either bucket of the new key.

`CountExact` follows from `Inv` with the finiteness of the occupied slots carried along (`CountInv`),
so that the key and element sets need not be finite.

`FlowCache_proofs` proves all six properties of the flow cache: `TypeOK`, `PoolPartition`, `TsMarksLive`, `UniqueKeys` and
`ResultsHold` as invariants and `FreshSurvive` as an action property, for every pool, hash function, bucket count and size,
timeout, pressure, batch and clock. Besides the assumptions above it uses `PoolAssumption` (the pool lists each
entry once), `BatchAssumption`, `TimeoutAssumption` and `FiniteAssumption` (finitely many buckets).

Its inductive invariant `IInv` is the conjunction of

- `TypeOK`;
- `Cells`: table and free list partition the pool, and `last_ts` is 0 on free entries exactly;
- `Keyed`: every linked entry is in one of its key's buckets, and keys are unique;
- `Held`: what the running batch has reported is linked, has its key and, for `findadd` and `add`, was last used now;
- `Timely`: the `now` of a running `findadd` or `add` is the clock's reading.

`PoolPartition` is not inductive: `del_idx_bulk` frees whatever has `last_ts # 0`, so freeing twice is excluded only together with
`TsMarksLive`; and `TsMarksLive` needs `Timely`, or a hit might store 0. `ResultsHold` needs the
last part of `Held`: relief does not evict a reported entry because that entry's time is `now`, which is not before
`ExpireBefore(now)` (`EffTimeoutRange`: the interpolated timeout never falls below the least one, and is never negative).
`UniqueKeys` rests on `TwinFindsAll`: since every linked entry is in a candidate bucket of its key, the duplicate scan of
`insert` sees it even when the pipeline's scan did not. Kickout enters through `InsertedAdds` and `InsertedInCands` of `RixCuckoo_proofs`.

`FlowMaint_proofs` proves the types and `LapsAreEven`, `LastSweepTells`, `LapIsTimely` as invariants of `LapSpec` and `IdleSweepsAll` as an action
property, for every table size, width, interval, threshold, chunk size and integer width, from `TableAssumption`,
`ConfigAssumption` and `BoundAssumption`. The inductive invariant `LapInv` adds to them

- `SweepInv`: a running sweep stands `swept - left` buckets past the cursor, and if it skips none, what has expired is ahead of it
  or outside its range; between sweeps the cursor is where the last one ended;
- `PassInv`: each sweep begun since the watched bucket's turn has brought the cursor on by at least the base width, and the time since then is at
  most one longest interval for each of them.

`LapsAreEven` alone is not inductive, for it needs the sweep to be no wider than the table, or a bucket would be checked twice in one sweep. `LapIsTimely` combines
both halves of `PassInv` with `LapsAreEven`; the products of two variables in it are split off into lemmas, since the provers
do not multiply variables. The sums modulo the number of buckets rest on `ModStep` and its relatives.

`FlowDispatch_proofs` proves both of its properties for every set of processes, flows, CPUs, masks, vector widths and hash functions. `FindMaskExact`
says that a find in any number of vector registers returns the mask of exactly the matching slots, so that what a process finds
depends only on its hash. The inductive invariant `DispatchInv` has, besides the types, that every entry is in a bucket *its own* key
leads to (`Housed`), that no key, a flow with a hash, is linked twice (`OnePerKey`), and that every entry's hash is that of a process
in use (`AddedByUsers`). Kickouts enter through the lemmas of `RixCuckoo_proofs`, which rely on the hash stored with an entry
and never on what the running process would compute: that is the reason why mixing hashes loses nothing. That a flow is linked at most once under one hash is `OnePerKey`, whatever the processes enabled; that it is linked once at all while they agree follows with
`SelectedHash`: on one CPU any mask but the empty one selects the same hash.

`RixHashRehash_proofs` proves all that the run `rehash` checks: `SlotsInOrder`, `CountExact` and `NoStrayWrite` as invariants,
`FullLeavesTable` as an action property and `RefinesMap`. It covers both texts, keyed and key-only, every depth (for
`FullLeavesTable` up to the code's 4), and every set of keys and elements; the assumptions are those of `RixHashFp_proofs`. Here the
kickout is a recursive function of a whole table. The library's induction theorems cannot be used, so the module proves induction for sets of
naturals (`NatInduct`, from a least counterexample) and that iterating a function gives a function (`Iterates`); `KickoutIs`, the
equation of `Kickout`, follows. The inductive invariant `IInv` says that every slot is in order (`InOrder`: empty in both
arrays, or its mark is that of its element and the bucket one of the element's key), that `nb` counts the linked
elements, which are finitely many, and that no two of them share a key. `CountExact` needs `KeysDiffer`, for an insert that overlooked a
twin would link an element a second time. Two facts about the kickout are proved by induction on its depth:

- `KickoutKeeps`: it keeps the table in order and the set of linked elements, and slot `pos` of its bucket is free when it
  succeeds. So the slot that the code does not check again after a recursive call is there: `NoStrayWrite`.
- `KickoutWithin`: a kickout that fails has changed nothing. The buckets that matter are the *stuck* ones (full, and nothing
  in them can move at once): a call of depth 1 changes no stuck bucket, one of depth 2 only slots of its own bucket that lead out of the stuck ones, one of
  depth 3 only its own bucket or slots that lead out. So the occupant a waiting call of depth up to 4 saved is still where it was.

`Queues_proofs` proves all that the run `queues` checks, for every set of heads and every finite set of
elements (`NodesFinite`; the array of a queue is finite), with `NIL` no element (`NilNotNode`): `EndsAndBackLinksAgree`,
`SafeLoopCovers` as invariants, `CallsAreSequenceCalls`, `SafeLapStays` as action properties. What a walk along `next` collects is a
recursive function (`Chain`). `ChainIs` gives its value: if a sequence of distinct elements has its first one at `first`, and each element's `next` names the one
behind it, the walk collects exactly that sequence. The inductive invariant `IInv` says so for all heads at once, with all elements
of all queues distinct, and per kind of queue:

- `LineInv` (SLIST): `first` and `next` spell out the sequences, and `LoopIn`: the safe iteration has a place in the sequence, the one of the next
  element it has read or its end, and of what has been in the queue since it began it has seen exactly what stands before that place;
- `EndInv` (STAILQ) adds that `last` is the last element; `MirrorInv` (LIST) that `prev` is the element in front; `BothInv` (TAILQ) adds both;
- `CircleInv` (CIRCLEQ): the same with `next` and `prev` closed to a ring, and `LapIn`, the iteration's place on it.

None of the checked properties is inductive alone: that `prev` mirrors `next` between neighbours says nothing of what a call
reaches through them unless both spell out one sequence, and an element could be in two queues if they were not distinct.
Each call then has one lemma: it keeps the invariant, with the sequences changed as `RixSeqs` says.

`RixTree_proofs` proves the safety of the tree, for every finite set of elements (`NodesFinite`; the pool is an array), every
assignment of integer keys to them (`KeysCompare`), and `NIL` no element (`NilNotNode`): `LinksMirror`, `LookupsAgree`,
`RedBlackButForFix` as invariants, in every state of every fix-up, and `RefinesSet`. Its inductive invariants have two layers.

`InShape` is about the links. It says that there are a set `M` of elements and, for each of them, the set `S[n]` of those from `n`
on down, such that

- `Shape`: `S[root]` is `M`; `S[n]` is `n`, what is below its left child and what is below its right, disjoint; each
  child has `n` as its parent and the root has none; the keys below either child are on that side of `n`'s key;
- `Loose`: an element outside `M` has no links, except the one that a running `REMOVE` has unlinked and not yet reset;
- `Working`: the locals of the fix-up name elements of `M`, or nothing where the code tests for it, and the root is black
  unless the fix-up stands on it.

`LinksMirror` and `LookupsAgree` are not inductive: links that mirror each other may close a ring beside the tree, and that every
key is found says nothing of what stands below a child after a rotation. With `S` they follow. The walks of the lookups are
recursive functions, whose equations hold because every walk ends (`WalkExists`, by induction on the elements from which it does); what they meet is proved by induction on the
size of `S[n]` (`BottomUp`, `TopDown`). `RotateIs`,
`TransplantIs`, `RemoveInnerIs` and their like say what the code's sequence of writes leaves in the links, `ShapeTurns`, `ShapeSplices`,
`ShapeReplaces` and `ShapeGrows` what that does to `S`, and each action has a lemma that it keeps `InShape` and says how `M` changes. The
refinement is read off that: `InsertLink` adds an element to `M`, `RemoveUnlink` takes one out, nothing else changes it.

`RedBlack` adds the colours:

- `Colored`: a red element is not the root and its parent is black, except the element the fix-up stands on and, during a `REMOVE`, its children;
- `Even`: `b[n]` counts the black elements on every way down from `n`, where the place of `xi` is owed one (`Debt`).

The debt is what `REMOVE`'s fix-up moves up or pays: a rotation or a recolouring pays it, hands it to the place above, or leaves it (`TurnPays`, `PaintPays`, `MoveBalances`).
`DebtIs` shows that the sibling of a short `xi` exists, which the code takes for granted (its helpers would read a missing one as a black leaf); and
`RemoveUnlink` needs that an element with a free side has no black child (`SpliceBalances`), so that a child taking its place is red and pays by turning black. `RedBlackButForFix` counts from the root down and
`Even` from the leaves up; `HeightsAre` says that the one count and the other add up to `b[root]`.

Only model-checked:

- liveness, which the provers cannot do: `KickoutEnds`, `DenseExpiredGoes`, `FixEnds` of the tree, and that sweeps end;
- the three violations under Findings, which are counterexamples.

## What is not modelled

- The bits of CRC32C and FNV-1a, and the code around the compares that turns vector masks into numbers; `FindMask` has what they compute.
  That the loops in `rix_hash_arch.h` which draw a second hash until it leads to another bucket end is a question
  about the 2^32 values of the functions, not about states; the models assume their result (`HashContract`).
- A bare table's find is one step. Its stages exist as separate calls, and a caller that changes the table between
  scan and compare gets whatever the slot holds by then; only the flow cache does so, and `FlowCache` models that.
- Prefetching, alignment, statistics output, the `flow4`/`flow6`/`flowu` key layouts: no state.
- In the flow cache: `walk`, statistics counters other than `fills`, a `findadd` or `add` with `now = 0`. `FlowMaint` and `FlowDispatch` are
  separate from `FlowCache`: the first abstracts the table, the second the times and the pipeline.
- `fc_cache_body.h`: no file includes it.
- The generator front ends `rix_hash.h` and `librix.h`: they choose among the texts modelled here and contain no code of their own.
- `RIX_SLIST_FOREACH_PREVINDEX`, which changes nothing and visits what `RIX_SLIST_FOREACH` visits.
- `RIX_RB_FOREACH` and its reverse, which are MIN or MAX followed by NEXT or PREV.
- What is marked as planned above.
