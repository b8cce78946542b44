---------------------------- MODULE FlowMaintLap ----------------------------
(***************************************************************************)
(* FlowMaint with history variables that follow one bucket, any one, round *)
(* the laps of maintain_step's cursor, and the properties of the sweeps.   *)
(***************************************************************************)
EXTENDS FlowMaint

VARIABLES
    watched,    (* A bucket; it never changes.                              *)
    lag,        (* The buckets checked since watched was last checked.      *)
    passes,     (* The sweeps begun since then.                             *)
    wait        (* The time since then.                                     *)

lap == <<lag, passes, wait>>
lapVars == <<vars, watched, lap>>

(* How far b is ahead of the cursor c: the buckets checked before it.      *)
Ahead(b, c) == IF b >= c THEN b - c ELSE b - c + NbBk

LapInit ==
    /\ Init
    /\ watched \in Bucket
    /\ lag = NbBk - 1 - watched
    /\ passes = 0
    /\ wait = 0

(* A caller of maintain_step_ex moves the cursor; the lap begins anew.     *)
LapRestart ==
    \E c \in ExCalls :
       /\ MaintainStepEx(c.start, c.count, c.skip)
       /\ lag' = NbBk - 1 - Ahead(watched, Masked(c.start))
       /\ passes' = 0
       /\ wait' = 0

LapPoll == Poll /\ passes' = passes + 1 /\ UNCHANGED <<lag, wait>>

LapChunk ==
    /\ Chunk
    /\ IF Ahead(watched, sweep.cur) < ChunkLen
         THEN /\ lag' = ChunkLen - 1 - Ahead(watched, sweep.cur)
              /\ passes' = 0
              /\ wait' = 0
         ELSE lag' = lag + ChunkLen /\ UNCHANGED <<passes, wait>>

LapTick == Tick /\ wait' = wait + 1 /\ UNCHANGED <<lag, passes>>

LapRest ==
    /\ \/ SweepEnd \/ Use
       \/ \E c \in ExCalls : Maintain(c.start, c.count)
    /\ UNCHANGED lap

LapNext ==
    /\ LapRestart \/ LapPoll \/ LapChunk \/ LapTick \/ LapRest
    /\ UNCHANGED watched

LapSpec == LapInit /\ [][LapNext]_lapVars

LapFairSpec == LapSpec /\ Fairness

-----------------------------------------------------------------------------
(* Properties *)

(* Every variable has its type; the passes and the time are bounded below. *)
TypeOK ==
    /\ place \in [Entries -> Bucket \cup {FREE}]
    /\ age \in [Entries -> 0 .. OldAge]
    /\ elapsed \in 0 .. MaxElapsed
    /\ added \in 0 .. MaxAdded
    /\ maint_cursor \in Bucket
    /\ last_sweep \in [start : Bucket, bks : 0 .. NbBk]
    /\ sweep \in [cur : Bucket, left : 0 .. NbBk, swept : 0 .. NbBk, skip : Nat,
                  eff : 0 .. Timeout, running : BOOLEAN]
    /\ watched \in Bucket
    /\ lag \in Nat /\ passes \in Nat /\ wait \in Nat

Cursor == IF Idle THEN maint_cursor ELSE sweep.cur

(* Between two checks of a bucket every other bucket is checked exactly    *)
(* once: whatever widths the throttle chooses, however a sweep is cut into *)
(* chunks and wherever it wraps, no bucket is passed over or checked twice *)
(* in a lap.                                                               *)
LapsAreEven == lag = NbBk - 1 - Ahead(watched, Cursor)

(* What a sweep leaves in last_maint_start_bk and last_maint_sweep_bk is   *)
(* the range of the buckets it checked, up to where the next one begins.   *)
LastSweepTells ==
    Idle =>
      /\ watched \in From(last_sweep.start, last_sweep.bks) <=> lag < last_sweep.bks
      /\ maint_cursor = Masked(last_sweep.start + last_sweep.bks)

(* No unsigned product or quotient overflows on the times and fills that   *)
(* can occur between two polls.                                            *)
WidthsFit ==
    /\ \A e \in 0 .. MaxElapsed : TimeRatio(e) < UintRange
    /\ \A a \in 0 .. MaxAdded : FillRatio(a) < UintRange
    /\ \A e \in 0 .. MaxElapsed, a \in 0 .. MaxAdded : BaseBk * Scale(e, a) < UintRange

(* The width of a sweep is at least this one. *)
LeastWidth == Capped(BaseBk)

(* While the loop keeps polling, no bucket goes unchecked for longer than  *)
(* the intervals a lap of the narrowest sweeps takes: a sweep that the     *)
(* fills trigger restarts the interval, but never delays a bucket's turn.  *)
LapIsTimely ==
    Idle /\ WidthsFit =>
      wait * LeastWidth <= MaxElapsed * (NbBk - 1 + LeastWidth)

(* A call with idle set leaves no entry in the table that has expired      *)
(* under the timeout it used, wherever kickouts moved them before.         *)
IdleSweepsAll ==
    [][SweepEnd /\ sweep.swept = NbBk /\ sweep.skip = 0 =>
         \A n \in Entries : ~Expired(n, sweep.eff)]_lapVars

(* An entry that has expired does not stay for ever in a bucket that is    *)
(* not sparse, although no call may ever be an idle one; unless the caller *)
(* goes on moving the cursor with maintain_step_ex.                        *)
CursorMoved == \E c \in ExCalls : MaintainStepEx(c.start, c.count, c.skip)

DenseExpiredGoes ==
    <>[][~CursorMoved]_vars =>
      \A n \in Entries, b \in Bucket :
        []<>~(place[n] = b /\ Expired(n, Timeout) /\ Used(place, b) > SkipThreshold)

(* What the proofs of these properties need: where a sweep is between two  *)
(* chunks and what it has left behind it, what the last one left in        *)
(* last_sweep, and how far each pass has brought the cursor.               *)
SweepInv ==
    IF sweep.running
      THEN /\ sweep.left <= sweep.swept
           /\ sweep.cur = Masked(maint_cursor + (sweep.swept - sweep.left))
           /\ sweep.skip = 0 =>
                \A n \in Entries : Expired(n, sweep.eff) =>
                   \/ place[n] \in From(sweep.cur, sweep.left)
                   \/ place[n] \notin From(maint_cursor, sweep.swept)
      ELSE /\ sweep = NoSweep
           /\ maint_cursor = Masked(last_sweep.start + last_sweep.bks)

PassInv ==
    WidthsFit =>
      /\ passes * LeastWidth <= lag + sweep.left
      /\ wait <= MaxElapsed * passes + elapsed

LapInv == TypeOK /\ LapsAreEven /\ SweepInv /\ PassInv

(* "The sweep width scales with the trigger ratio": a sweep is as wide as  *)
(* the base width times the ratio by which the throttle was exceeded, or   *)
(* the whole table.                                                        *)
WidthFollowsRatio ==
    [][MaintainStep(FALSE) =>
         \A r \in {TimeRatio(elapsed), FillRatio(added)} :
            sweep'.swept >= Capped(BaseBk * r)]_lapVars
=============================================================================
