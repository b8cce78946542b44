----------------------------- MODULE FlowMaint -----------------------------
(***************************************************************************)
(* The maintenance of the flow cache: which buckets a call of maintain,    *)
(* maintain_step or maintain_step_ex looks at, and when                    *)
(* (samples/fcache/src/fc_cache_generate.h).                               *)
(*                                                                         *)
(* maintain_step is called from a poll loop.  It throttles itself by the   *)
(* time and by the number of fills since it last ran, and goes round the   *)
(* buckets with a cursor.  FlowCache!Maintain lets a call sweep any set    *)
(* of buckets; here the choice is the code's, and the table is reduced to  *)
(* the bucket and the age of each entry.                                   *)
(*                                                                         *)
(* Times are distances from now: what the code keeps as last_ts and        *)
(* last_maint_tsc appears as the time since then.                          *)
(***************************************************************************)
EXTENDS Integers, FiniteSets

CONSTANTS
    Entries,        (* The entries of fc->pool.                             *)
    FREE,           (* The place of an entry that is not in the table.      *)
    NbBk,           (* fc->nb_bk; the mask is NbBk - 1.                     *)
    EntrySz,        (* RIX_HASH_BUCKET_ENTRY_SZ.                            *)
    Timeout,        (* fc->timeout_tsc, the effective timeout when the      *)
    TimeoutMin,     (* table is not full; fc->timeout_min_tsc when it is.   *)
    Interval,       (* fc->maint_interval_tsc; 0 is every call.             *)
    BaseBk,         (* fc->maint_base_bk.                                   *)
    FillThreshold,  (* fc->maint_fill_threshold; 0 is disabled.             *)
    SkipThreshold,  (* fc->pressure_empty_slots.                            *)
    MaxBks,         (* _FC_MAINT_STEP_MAX_BKS.                              *)
    UintRange,      (* The number of values of unsigned, 2^32.              *)
    ExCalls,        (* The start_bk, bucket_count and skip_threshold that   *)
                    (* maintain_step_ex and maintain are called with.       *)
    Late,           (* How late a poll may be when an interval has passed.  *)
    MaxAdded        (* Bound: the fills between two sweeps.                 *)

Bucket == 0 .. NbBk - 1

ASSUME TableAssumption ==
    /\ NbBk \in Nat \ {0}
    /\ EntrySz \in Nat \ {0}
    /\ FREE \notin Bucket
    /\ IsFiniteSet(Entries)
ASSUME ConfigAssumption ==
    /\ TimeoutMin \in Nat /\ Timeout \in Nat /\ TimeoutMin <= Timeout
    /\ Interval \in Nat
    /\ BaseBk \in Nat \ {0}
    /\ FillThreshold \in Nat
    /\ SkipThreshold \in Nat
    /\ MaxBks \in Nat \ {0}
    /\ UintRange \in Nat \ {0}
    /\ NbBk < UintRange
    /\ \A c \in ExCalls : c \in [start : Nat, count : Nat, skip : Nat]
ASSUME BoundAssumption == Late \in Nat /\ MaxAdded \in Nat

VARIABLES
    place,          (* The bucket of each entry, or FREE.                   *)
    age,            (* now - entry->last_ts, up to OldAge.                  *)
    elapsed,        (* now - fc->last_maint_tsc.                            *)
    added,          (* fc->stats.fills - fc->last_maint_fills.              *)
    maint_cursor,   (* fc->maint_cursor.                                    *)
    last_sweep,     (* fc->last_maint_start_bk and last_maint_sweep_bk.     *)
    sweep           (* The locals of the sweep in progress, or NoSweep.     *)

table == <<place, age>>
vars == <<place, age, elapsed, added, maint_cursor, last_sweep, sweep>>

-----------------------------------------------------------------------------
(* Buckets *)

Masked(x) == x % NbBk

(* The count buckets from start on, round the end of the table. *)
From(start, count) == {Masked(start + i) : i \in 0 .. count - 1}

Used(pl, b) == Cardinality({n \in Entries : pl[n] = b})

(* An age at which an entry has expired under every effective timeout; it  *)
(* stands for all greater ones.                                            *)
OldAge == Timeout + 1

(* now > eff, and last_ts < now - eff: reclaim_bucket_all's victims.       *)
Expired(n, eff) == place[n] # FREE /\ age[n] > eff

(* reclaim_bucket_all, bucket after bucket. *)
Reclaim(B, eff) ==
    place' = [n \in Entries |->
                IF place[n] \in B /\ Expired(n, eff) THEN FREE ELSE place[n]]

-----------------------------------------------------------------------------
(* Throttle and width *)

Uint(x) == x % UintRange

TimeRatio(e) == IF Interval = 0 THEN 1 ELSE e \div Interval
FillRatio(a) == IF FillThreshold = 0 THEN 0 ELSE a \div FillThreshold

(* time_scale, entry_scale and the larger of them, as unsigned values.     *)
Scale(e, a) ==
    LET time == Uint(TimeRatio(e))
        entry == Uint(FillRatio(a))
    IN  IF time > entry THEN time ELSE entry

Capped(w) == IF w > NbBk THEN NbBk ELSE w

(* sweep: the product is an unsigned one too. *)
Width(e, a) == Capped(Uint(BaseBk * Scale(e, a)))

-----------------------------------------------------------------------------
(* maintain_step, maintain_step_ex and maintain *)

NoSweep == [cur |-> 0, left |-> 0, swept |-> 0, skip |-> 0, eff |-> 0,
            running |-> FALSE]

Idle == ~sweep.running

(* The effective timeout is between its least and its configured value, as *)
(* the load of the table has it (FlowCache!EffTimeout).                    *)
Start(cursor, width, skip) ==
    \E eff \in TimeoutMin .. Timeout :
       sweep' = [cur |-> Masked(cursor), left |-> Capped(width),
                 swept |-> Capped(width), skip |-> skip, eff |-> eff,
                 running |-> TRUE]

(* Mutant: a call that finds the throttle closed restarts the interval.    *)
MaintainStepRestarts(idle) ==
    /\ Idle
    /\ elapsed' = 0
    /\ added' = 0
    /\ IF idle THEN Start(maint_cursor, NbBk, 0)
       ELSE IF Scale(elapsed, added) # 0
         THEN Start(maint_cursor, Width(elapsed, added), SkipThreshold)
         ELSE UNCHANGED sweep
    /\ UNCHANGED <<table, maint_cursor, last_sweep>>

(* maintain_step up to its sweep.  A call that finds the throttle closed   *)
(* changes nothing.                                                        *)
MaintainStep(idle) ==
    /\ Idle
    /\ idle \/ Scale(elapsed, added) # 0
    /\ elapsed' = 0
    /\ added' = 0
    /\ IF idle THEN Start(maint_cursor, NbBk, 0)
       ELSE Start(maint_cursor, Width(elapsed, added), SkipThreshold)
    /\ UNCHANGED <<table, maint_cursor, last_sweep>>

(* maintain_step_ex up to its sweep: the throttle is neither asked nor     *)
(* restarted.                                                              *)
MaintainStepEx(start, count, skip) ==
    /\ Idle
    /\ maint_cursor' = Masked(start)
    /\ Start(start, count, skip)
    /\ UNCHANGED <<table, elapsed, added, last_sweep>>

(* One turn of maintain_step_grouped's loop: maintain_step_filter_reclaim  *)
(* collects the buckets that are not sparse, then reclaims in them.        *)
ChunkLen == IF sweep.left > MaxBks THEN MaxBks ELSE sweep.left

(* Mutants: the next chunk starts beyond the table, at the last bucket of   *)
(* this one, or behind all that were left.                                 *)
ChunkUnmasked ==
    LET work == {b \in From(sweep.cur, ChunkLen) : Used(place, b) > sweep.skip}
    IN  /\ sweep.left > 0
        /\ Reclaim(work, sweep.eff)
        /\ sweep' = [sweep EXCEPT !.cur = @ + ChunkLen, !.left = @ - ChunkLen]
        /\ UNCHANGED <<age, elapsed, added, maint_cursor, last_sweep>>

ChunkOverlaps ==
    LET work == {b \in From(sweep.cur, ChunkLen) : Used(place, b) > sweep.skip}
    IN  /\ sweep.left > 0
        /\ Reclaim(work, sweep.eff)
        /\ sweep' = [sweep EXCEPT !.cur = Masked(@ + ChunkLen - 1), !.left = @ - ChunkLen]
        /\ UNCHANGED <<age, elapsed, added, maint_cursor, last_sweep>>

ChunkIsAll ==
    LET work == {b \in From(sweep.cur, ChunkLen) : Used(place, b) > sweep.skip}
    IN  /\ sweep.left > 0
        /\ Reclaim(work, sweep.eff)
        /\ sweep' = [sweep EXCEPT !.cur = Masked(@ + sweep.left), !.left = 0]
        /\ UNCHANGED <<age, elapsed, added, maint_cursor, last_sweep>>

Chunk ==
    LET work == {b \in From(sweep.cur, ChunkLen) : Used(place, b) > sweep.skip}
    IN  /\ sweep.left > 0
        /\ Reclaim(work, sweep.eff)
        /\ sweep' = [sweep EXCEPT !.cur = Masked(@ + ChunkLen), !.left = @ - ChunkLen]
        /\ UNCHANGED <<age, elapsed, added, maint_cursor, last_sweep>>

(* Mutants: the cursor stays where the sweep began; the count that the     *)
(* loop has used up is reported.                                           *)
SweepEndStays ==
    /\ sweep.running
    /\ sweep.left = 0
    /\ last_sweep' = [start |-> maint_cursor, bks |-> sweep.swept]
    /\ sweep' = NoSweep
    /\ UNCHANGED <<table, elapsed, added, maint_cursor>>

SweepEndTellsRest ==
    /\ sweep.running
    /\ sweep.left = 0
    /\ maint_cursor' = sweep.cur
    /\ last_sweep' = [start |-> maint_cursor, bks |-> sweep.left]
    /\ sweep' = NoSweep
    /\ UNCHANGED <<table, elapsed, added>>

(* The end of maintain_step_grouped; the sweep began at the cursor. *)
SweepEnd ==
    /\ sweep.running
    /\ sweep.left = 0
    /\ maint_cursor' = sweep.cur
    /\ last_sweep' = [start |-> maint_cursor, bks |-> sweep.swept]
    /\ sweep' = NoSweep
    /\ UNCHANGED <<table, elapsed, added>>

(* maintain: the caller's own range, in one pass that skips nothing. *)
Maintain(start, count) ==
    /\ Idle
    /\ \E eff \in TimeoutMin .. Timeout : Reclaim(From(start, count), eff)
    /\ UNCHANGED <<age, elapsed, added, maint_cursor, last_sweep, sweep>>

-----------------------------------------------------------------------------
(* The rest of the cache *)

(* findadd and add insert an entry; a kickout may move linked entries to   *)
(* other buckets.  A bucket has EntrySz slots.                             *)
Fill(n) ==
    /\ Idle
    /\ place[n] = FREE
    /\ added < MaxAdded
    /\ \E pl \in [Entries -> Bucket \cup {FREE}] :
         /\ \A m \in Entries : pl[m] = FREE <=> (place[m] = FREE /\ m # n)
         /\ \A b \in Bucket : Used(pl, b) <= EntrySz
         /\ place' = pl
    /\ age' = [age EXCEPT ![n] = 0]
    /\ added' = added + 1
    /\ UNCHANGED <<elapsed, maint_cursor, last_sweep, sweep>>

(* A hit of find or findadd. *)
Hit(n) ==
    /\ Idle
    /\ place[n] # FREE
    /\ age' = [age EXCEPT ![n] = 0]
    /\ UNCHANGED <<place, elapsed, added, maint_cursor, last_sweep, sweep>>

(* del, del_idx, remove_idx and relief: an entry leaves the table.        *)
Delete(n) ==
    /\ Idle
    /\ place' = [place EXCEPT ![n] = FREE]
    /\ UNCHANGED <<age, elapsed, added, maint_cursor, last_sweep, sweep>>

(* flush leaves the cursor, the throttle and the statistics alone. *)
Flush ==
    /\ Idle
    /\ place' = [n \in Entries |-> FREE]
    /\ UNCHANGED <<age, elapsed, added, maint_cursor, last_sweep, sweep>>

(* Time passes between calls.  The poll loop calls maintain_step at most   *)
(* Late ticks after an interval has passed.                                *)
MaxElapsed == Interval + Late

Tick ==
    /\ Idle
    /\ elapsed < MaxElapsed
    /\ elapsed' = elapsed + 1
    /\ age' = [n \in Entries |-> IF age[n] < OldAge THEN age[n] + 1 ELSE OldAge]
    /\ UNCHANGED <<place, added, maint_cursor, last_sweep, sweep>>

-----------------------------------------------------------------------------
(* last_maint_tsc is 0 after init: the first elapsed time is the clock's   *)
(* reading.                                                                *)
Init ==
    /\ place = [n \in Entries |-> FREE]
    /\ age = [n \in Entries |-> 0]
    /\ elapsed \in 0 .. MaxElapsed
    /\ added = 0
    /\ maint_cursor = 0
    /\ last_sweep = [start |-> 0, bks |-> 0]
    /\ sweep = NoSweep

Use == (\E n \in Entries : Fill(n) \/ Hit(n) \/ Delete(n)) \/ Flush

Poll == \E idle \in BOOLEAN : MaintainStep(idle)

Next ==
    \/ Poll \/ Chunk \/ SweepEnd
    \/ \E c \in ExCalls : MaintainStepEx(c.start, c.count, c.skip)
    \/ \E c \in ExCalls : Maintain(c.start, c.count)
    \/ Use \/ Tick

Spec == Init /\ [][Next]_vars

(* A sweep that has begun runs on.  The loop goes on polling: "Call        *)
(* unconditionally from the main loop"; it need never find itself idle.    *)
Fairness == /\ WF_vars(Chunk) /\ WF_vars(SweepEnd)
            /\ WF_vars(MaintainStep(FALSE)) /\ WF_vars(Tick)

FairSpec == Spec /\ Fairness
=============================================================================
