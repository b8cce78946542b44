--------------------------- MODULE FlowMaint_proofs ---------------------------
(***************************************************************************)
(* The laps of the flow cache's maintenance are even and timely, for every *)
(* table, configuration and sequence of calls.                             *)
(***************************************************************************)
EXTENDS FlowMaintLap, FiniteSetTheorems, TLAPS

-----------------------------------------------------------------------------
(* Going round *)

LEMMA MaskedOnce ==
    ASSUME NEW x \in Nat, x < 2 * NbBk
    PROVE  Masked(x) = IF x < NbBk THEN x ELSE x - NbBk
<1>1. NbBk \in Nat \ {0}
  BY TableAssumption
<1>2. CASE x < NbBk
  BY <1>1, <1>2 DEF Masked
<1>3. CASE x >= NbBk
  <2>1. x = NbBk * 1 + (x - NbBk) /\ x - NbBk \in 0 .. NbBk - 1
    BY <1>1, <1>3
  <2>2. QED
    BY <1>1, <1>3, <2>1 DEF Masked
<1>4. QED
  BY <1>1, <1>2, <1>3

LEMMA MaskedIn ==
    ASSUME NEW x \in Nat
    PROVE  Masked(x) \in Bucket
  BY TableAssumption DEF Masked, Bucket

LEMMA AheadIn ==
    \A b, c \in Bucket : Ahead(b, c) \in Bucket /\ Ahead(b, c) \in 0 .. NbBk - 1
  BY TableAssumption DEF Ahead, Bucket

(* A range from a bucket on holds the buckets less far ahead than its size. *)
LEMMA InRange ==
    ASSUME NEW b \in Bucket, NEW c \in Bucket, NEW k \in 0 .. NbBk
    PROVE  b \in From(c, k) <=> Ahead(b, c) < k
<1>1. NbBk \in Nat \ {0} /\ b \in Nat /\ c \in Nat /\ b < NbBk /\ c < NbBk /\ k \in Nat
  BY TableAssumption DEF Bucket
<1>2. ASSUME b \in From(c, k) PROVE Ahead(b, c) < k
  <2>1. PICK i \in 0 .. k - 1 : b = Masked(c + i)
    BY <1>2 DEF From
  <2> DEFINE x == c + i
  <2>2. x \in Nat /\ x < 2 * NbBk /\ c <= x /\ x - c < k
    BY <1>1
  <2>3. b = Masked(x)
    BY <2>1
  <2> HIDE DEF x
  <2>4. b = IF x < NbBk THEN x ELSE x - NbBk
    BY <2>2, <2>3, MaskedOnce
  <2>5. QED
    BY <1>1, <2>2, <2>4 DEF Ahead
<1>3. ASSUME Ahead(b, c) < k PROVE b \in From(c, k)
  <2> DEFINE x == c + Ahead(b, c)
  <2>1. Ahead(b, c) \in 0 .. k - 1 /\ x \in Nat /\ x < 2 * NbBk
    BY <1>1, <1>3 DEF Ahead
  <2>2. b = IF x < NbBk THEN x ELSE x - NbBk
    BY <1>1 DEF Ahead
  <2>3. b = Masked(x)
    <3> HIDE DEF x
    <3>1. QED
      BY <2>1, <2>2, MaskedOnce
  <2>4. QED
    BY <2>1, <2>3 DEF From
<1>4. QED
  BY <1>2, <1>3

(* When the cursor goes on by k, what was k or more ahead is k nearer, and *)
(* what was nearer is ahead by what the cursor has not yet gone round.     *)
LEMMA Advance ==
    ASSUME NEW b \in Bucket, NEW c \in Bucket, NEW k \in 0 .. NbBk
    PROVE  /\ Masked(c + k) \in Bucket
           /\ Ahead(b, c) >= k => Ahead(b, Masked(c + k)) = Ahead(b, c) - k
           /\ Ahead(b, c) < k => Ahead(b, Masked(c + k)) = Ahead(b, c) - k + NbBk
<1>1. NbBk \in Nat \ {0} /\ b \in Nat /\ c \in Nat /\ b < NbBk /\ c < NbBk /\ k \in Nat /\ k <= NbBk
  BY TableAssumption DEF Bucket
<1>2. Masked(c + k) = IF c + k < NbBk THEN c + k ELSE c + k - NbBk
  BY <1>1, MaskedOnce
<1>3. QED
  BY <1>1, <1>2 DEF Ahead, Bucket
-----------------------------------------------------------------------------
(* Widths *)

LEMMA Bounds ==
    /\ NbBk \in Nat \ {0} /\ 0 \in Bucket
    /\ MaxElapsed \in Nat /\ MaxAdded \in Nat /\ Timeout \in Nat /\ TimeoutMin \in Nat
    /\ LeastWidth \in 1 .. NbBk
    /\ OldAge \in Nat /\ Timeout < OldAge
  BY TableAssumption, ConfigAssumption, BoundAssumption
  DEF MaxElapsed, LeastWidth, Capped, OldAge, Bucket

LEMMA RatiosNat ==
    ASSUME NEW e \in Nat, NEW a \in Nat
    PROVE  TimeRatio(e) \in Nat /\ FillRatio(a) \in Nat
<1>1. ASSUME NEW x \in Nat, NEW d \in Nat \ {0} PROVE x \div d \in Nat
  OBVIOUS
<1>2. TimeRatio(e) \in Nat
  BY <1>1, ConfigAssumption DEF TimeRatio
<1>3. FillRatio(a) \in Nat
  BY <1>1, ConfigAssumption DEF FillRatio
<1>4. QED
  BY <1>2, <1>3

LEMMA UintNat ==
    ASSUME NEW x \in Nat
    PROVE  Uint(x) \in Nat /\ (x < UintRange => Uint(x) = x)
  BY ConfigAssumption DEF Uint

LEMMA ScaleNat ==
    ASSUME NEW e \in Nat, NEW a \in Nat
    PROVE  Scale(e, a) \in Nat
<1> DEFINE t == TimeRatio(e)
           f == FillRatio(a)
<1>1. Uint(t) \in Nat /\ Uint(f) \in Nat
  BY RatiosNat, UintNat
<1>2. QED
  BY <1>1 DEF Scale

LEMMA WidthIn ==
    ASSUME NEW e \in Nat, NEW a \in Nat
    PROVE  Width(e, a) \in 0 .. NbBk
<1> DEFINE sc == Scale(e, a)
           p == BaseBk * sc
<1>0. sc \in Nat /\ BaseBk \in Nat
  BY ScaleNat, ConfigAssumption
<1>1. p \in Nat
  <2> HIDE DEF sc
  <2>1. QED
    BY <1>0
<1>2. Uint(p) \in Nat
  <2> HIDE DEF p
  <2>1. QED
    BY <1>1, UintNat
<1>3. Width(e, a) = Capped(Uint(p))
  BY DEF Width
<1>4. QED
  <2> HIDE DEF p
  <2>1. QED
    BY <1>2, <1>3, Bounds DEF Capped

(* Where nothing overflows an open throttle gives at least the base width. *)
LEMMA WidthLeast ==
    ASSUME WidthsFit, NEW e \in 0 .. MaxElapsed, NEW a \in 0 .. MaxAdded,
           Scale(e, a) # 0
    PROVE  Width(e, a) >= LeastWidth
<1> DEFINE sc == Scale(e, a)
           p == BaseBk * sc
<1>1. sc \in Nat /\ sc >= 1
  BY ScaleNat, Bounds
<1>2. BaseBk \in Nat
  BY ConfigAssumption
<1>3. p \in Nat /\ p >= BaseBk
  <2> HIDE DEF sc
  <2>1. \A x, y \in Nat : y >= 1 => x * y \in Nat /\ x * y >= x
    OBVIOUS
  <2>2. QED
    BY <1>1, <1>2, <2>1
<1>4. p < UintRange
  BY DEF WidthsFit
<1>5. Uint(p) = p
  <2> HIDE DEF p
  <2>1. QED
    BY <1>3, <1>4, UintNat
<1>6. Width(e, a) = Capped(p)
  BY <1>5 DEF Width
<1>7. QED
  <2> HIDE DEF p
  <2>1. QED
    BY <1>2, <1>3, <1>6, Bounds DEF Capped, LeastWidth

-----------------------------------------------------------------------------
(* What the steps do *)

SweepRecord ==
    [cur : Bucket, left : 0 .. NbBk, swept : 0 .. NbBk, skip : Nat,
     eff : 0 .. Timeout, running : BOOLEAN]

LEMMA Started ==
    ASSUME NEW c \in Nat, NEW w \in Nat, NEW skip \in Nat, Start(c, w, skip)
    PROVE  /\ sweep' \in SweepRecord
           /\ sweep'.running /\ sweep'.cur = Masked(c) /\ sweep'.skip = skip
           /\ sweep'.left = Capped(w) /\ sweep'.swept = Capped(w)
<1>1. PICK eff \in TimeoutMin .. Timeout :
        sweep' = [cur |-> Masked(c), left |-> Capped(w), swept |-> Capped(w),
                  skip |-> skip, eff |-> eff, running |-> TRUE]
  BY DEF Start
<1>2. Masked(c) \in Bucket /\ Capped(w) \in 0 .. NbBk /\ eff \in 0 .. Timeout
  BY MaskedIn, Bounds DEF Capped
<1>3. QED
  BY <1>1, <1>2 DEF SweepRecord

(* The calls that are not about maintain_step's sweeps. *)
Quiet == Use \/ \E c \in ExCalls : Maintain(c.start, c.count)

LEMMA QuietStep ==
    ASSUME TypeOK, Quiet
    PROVE  /\ Idle
           /\ UNCHANGED <<elapsed, maint_cursor, last_sweep, sweep>>
           /\ place' \in [Entries -> Bucket \cup {FREE}]
           /\ age' \in [Entries -> 0 .. OldAge]
           /\ added' \in 0 .. MaxAdded
<1> DEFINE Goal == /\ Idle
                   /\ UNCHANGED <<elapsed, maint_cursor, last_sweep, sweep>>
                   /\ place' \in [Entries -> Bucket \cup {FREE}]
                   /\ age' \in [Entries -> 0 .. OldAge]
                   /\ added' \in 0 .. MaxAdded
<1>1. CASE Flush
  BY <1>1, Bounds DEF Flush, TypeOK
<1>2. ASSUME NEW n \in Entries, Fill(n) PROVE Goal
  BY <1>2, Bounds DEF Fill, TypeOK
<1>3. ASSUME NEW n \in Entries, Hit(n) PROVE Goal
  BY <1>3, Bounds DEF Hit, TypeOK
<1>4. ASSUME NEW n \in Entries, Delete(n) PROVE Goal
  BY <1>4, Bounds DEF Delete, TypeOK
<1>5. ASSUME NEW c \in ExCalls, Maintain(c.start, c.count) PROVE Goal
  BY <1>5, Bounds DEF Maintain, Reclaim, TypeOK
<1>6. QED
  BY <1>1, <1>2, <1>3, <1>4, <1>5 DEF Quiet, Use

LEMMA ChunkStep ==
    ASSUME TypeOK, Chunk, SweepInv
    PROVE  /\ sweep.running
           /\ ChunkLen \in 1 .. sweep.left
           /\ ChunkLen \in 0 .. NbBk /\ sweep.cur \in Bucket
           /\ sweep'.cur = Masked(sweep.cur + ChunkLen)
           /\ sweep'.left = sweep.left - ChunkLen
           /\ sweep'.swept = sweep.swept /\ sweep'.skip = sweep.skip
           /\ sweep'.eff = sweep.eff /\ sweep'.running
           /\ sweep' \in SweepRecord
           /\ place' \in [Entries -> Bucket \cup {FREE}]
           /\ UNCHANGED <<age, elapsed, added, maint_cursor, last_sweep>>
<1>1. sweep \in SweepRecord /\ sweep.left > 0
  BY DEF TypeOK, Chunk, SweepRecord
<1>2. sweep.running
  BY <1>1 DEF SweepInv, NoSweep
<1>3. sweep.left \in 0 .. NbBk /\ sweep.cur \in Bucket
  BY <1>1 DEF SweepRecord
<1>4. ChunkLen \in 1 .. sweep.left
  BY <1>1, <1>3, ConfigAssumption, Bounds DEF ChunkLen
<1>5. ChunkLen \in 0 .. NbBk
  BY <1>3, <1>4, Bounds
<1>6. Masked(sweep.cur + ChunkLen) \in Bucket
  BY <1>3, <1>5, Advance
<1>7. sweep.left - ChunkLen \in 0 .. NbBk
  BY <1>3, <1>4, Bounds
<1> DEFINE k == ChunkLen
<1>8. sweep' = [sweep EXCEPT !.cur = Masked(@ + k), !.left = @ - k]
  BY DEF Chunk
<1>9. /\ sweep'.cur = Masked(sweep.cur + k) /\ sweep'.left = sweep.left - k
      /\ sweep'.swept = sweep.swept /\ sweep'.skip = sweep.skip
      /\ sweep'.eff = sweep.eff /\ sweep'.running = sweep.running
      /\ sweep' \in SweepRecord
  <2> HIDE DEF k
  <2> DEFINE c == Masked(sweep.cur + k)
  <2>1. c \in Bucket /\ sweep.left - k \in 0 .. NbBk
    BY <1>6, <1>7 DEF k
  <2>2. sweep' = [sweep EXCEPT !.cur = c, !.left = sweep.left - k]
    BY <1>8
  <2> HIDE DEF c
  <2>3. /\ sweep'.cur = c /\ sweep'.left = sweep.left - k
        /\ sweep'.swept = sweep.swept /\ sweep'.skip = sweep.skip
        /\ sweep'.eff = sweep.eff /\ sweep'.running = sweep.running
        /\ sweep' \in SweepRecord
    BY <1>1, <2>1, <2>2 DEF SweepRecord
  <2>4. QED
    BY <2>3 DEF c
<1>10. place' \in [Entries -> Bucket \cup {FREE}]
  BY DEF Chunk, Reclaim, TypeOK
<1>11. QED
  BY <1>2, <1>3, <1>4, <1>5, <1>9, <1>10 DEF Chunk

-----------------------------------------------------------------------------
(* The invariant *)

LEMMA InitInv == LapInit => LapInv
<1> SUFFICES ASSUME LapInit PROVE LapInv
  OBVIOUS
<1>1. watched \in Bucket /\ watched \in Nat /\ watched < NbBk
  BY Bounds DEF LapInit, Bucket
<1>2. TypeOK
  BY <1>1, Bounds DEF LapInit, Init, TypeOK, NoSweep, Bucket
<1>3. LapsAreEven
  BY <1>1 DEF LapInit, Init, LapsAreEven, Cursor, Idle, NoSweep, Ahead
<1>4. SweepInv
  <2>1. Masked(0 + 0) = 0
    BY MaskedOnce, Bounds
  <2>2. QED
    BY <2>1 DEF LapInit, Init, SweepInv, NoSweep
<1>5. PassInv
  BY <1>1, <1>2, Bounds DEF LapInit, Init, PassInv, NoSweep, TypeOK
<1>6. QED
  BY <1>2, <1>3, <1>4, <1>5 DEF LapInv

LEMMA TypeStep == TypeOK /\ SweepInv /\ [LapNext]_lapVars => TypeOK'
<1> SUFFICES ASSUME TypeOK, SweepInv, [LapNext]_lapVars PROVE TypeOK'
  OBVIOUS
<1> USE Bounds
<1>1. ASSUME NEW c \in ExCalls, MaintainStepEx(c.start, c.count, c.skip),
             watched' = watched, passes' = 0, wait' = 0,
             lag' = NbBk - 1 - Ahead(watched, Masked(c.start))
      PROVE  TypeOK'
  <2>1. c.start \in Nat /\ c.count \in Nat /\ c.skip \in Nat
    BY ConfigAssumption
  <2>2. sweep' \in SweepRecord
    BY <1>1, <2>1, Started DEF MaintainStepEx
  <2>3. Masked(c.start) \in Bucket
    BY <2>1, MaskedIn
  <2>4. Ahead(watched, Masked(c.start)) \in Bucket
    BY <2>3, AheadIn DEF TypeOK
  <2>5. lag' \in Nat
    BY <1>1, <2>4 DEF Bucket
  <2>6. QED
    BY <1>1, <2>2, <2>3, <2>5 DEF MaintainStepEx, TypeOK, SweepRecord, table
<1>2. ASSUME NEW idle \in BOOLEAN, MaintainStep(idle), passes' = passes + 1,
             UNCHANGED <<lag, wait, watched>>
      PROVE  TypeOK'
  <2>1. elapsed \in Nat /\ added \in Nat /\ maint_cursor \in Nat
    BY DEF TypeOK, Bucket
  <2>2. Width(elapsed, added) \in Nat
    BY <2>1, WidthIn
  <2>3. sweep' \in SweepRecord
    BY <1>2, <2>1, <2>2, Started, ConfigAssumption DEF MaintainStep
  <2>4. QED
    BY <1>2, <2>3 DEF MaintainStep, TypeOK, SweepRecord, table
<1>3. ASSUME LapChunk, watched' = watched PROVE TypeOK'
  <2>1. ChunkLen \in 1 .. sweep.left /\ sweep.left \in Nat
    BY <1>3, ChunkStep DEF LapChunk, TypeOK
  <2>2. Ahead(watched, sweep.cur) \in Nat
    <3>1. watched \in Bucket /\ sweep.cur \in Bucket
      BY DEF TypeOK
    <3>2. QED
      BY <3>1, AheadIn
  <2>3. lag' \in Nat /\ passes' \in Nat /\ wait' \in Nat
    BY <1>3, <2>1, <2>2 DEF LapChunk, TypeOK
  <2>4. QED
    BY <1>3, <2>3, ChunkStep DEF LapChunk, TypeOK, SweepRecord
<1>4. ASSUME LapTick, watched' = watched PROVE TypeOK'
  BY <1>4 DEF LapTick, Tick, TypeOK
<1>5. ASSUME SweepEnd, UNCHANGED lap, watched' = watched PROVE TypeOK'
  BY <1>5 DEF SweepEnd, lap, table, TypeOK, NoSweep
<1>6. ASSUME Quiet, UNCHANGED lap, watched' = watched PROVE TypeOK'
  BY <1>6, QuietStep DEF lap, TypeOK
<1>7. CASE UNCHANGED lapVars
  BY <1>7 DEF lapVars, vars, lap, TypeOK
<1>8. QED
  BY <1>1, <1>2, <1>3, <1>4, <1>5, <1>6, <1>7
  DEF LapNext, LapRestart, LapPoll, Poll, LapRest, Quiet

LEMMA MaskedSelf == \A b \in Bucket : Masked(b) = b
<1>1. ASSUME NEW b \in Bucket PROVE Masked(b) = b
  BY Bounds, MaskedOnce DEF Bucket
<1>2. QED
  BY <1>1

LEMMA LapStep == LapInv /\ [LapNext]_lapVars => LapsAreEven'
<1> SUFFICES ASSUME LapInv, [LapNext]_lapVars PROVE LapsAreEven'
  OBVIOUS
<1>0. TypeOK /\ LapsAreEven /\ SweepInv /\ maint_cursor \in Bucket /\ watched \in Bucket
  BY DEF LapInv, TypeOK
<1>1. ASSUME NEW c \in ExCalls, MaintainStepEx(c.start, c.count, c.skip),
             watched' = watched,
             lag' = NbBk - 1 - Ahead(watched, Masked(c.start))
      PROVE  LapsAreEven'
  <2>1. c.start \in Nat /\ c.count \in Nat /\ c.skip \in Nat
    BY ConfigAssumption
  <2>2. sweep'.running /\ sweep'.cur = Masked(c.start)
    BY <1>1, <2>1, Started DEF MaintainStepEx
  <2>3. QED
    BY <1>1, <2>2 DEF LapsAreEven, Cursor, Idle
<1>2. ASSUME NEW idle \in BOOLEAN, MaintainStep(idle), UNCHANGED <<lag, watched>>
      PROVE  LapsAreEven'
  <2>1. elapsed \in Nat /\ added \in Nat /\ maint_cursor \in Nat
    BY <1>0 DEF TypeOK, Bucket
  <2>2. Width(elapsed, added) \in Nat /\ NbBk \in Nat /\ SkipThreshold \in Nat
    BY <2>1, WidthIn, Bounds, ConfigAssumption
  <2>3. sweep'.running /\ sweep'.cur = Masked(maint_cursor)
    BY <1>2, <2>1, <2>2, Started DEF MaintainStep
  <2>4. sweep'.cur = maint_cursor
    BY <1>0, <2>3, MaskedSelf
  <2>5. QED
    BY <1>0, <1>2, <2>3, <2>4 DEF LapsAreEven, Cursor, Idle, MaintainStep
<1>3. ASSUME LapChunk, watched' = watched PROVE LapsAreEven'
  <2> DEFINE c == sweep.cur
             k == ChunkLen
  <2>1. Chunk
    BY <1>3 DEF LapChunk
  <2>2. /\ sweep.running /\ sweep'.running /\ sweep'.cur = Masked(c + k)
        /\ k \in 0 .. NbBk /\ c \in Bucket
    BY <1>0, <2>1, ChunkStep
  <2>3. lag = NbBk - 1 - Ahead(watched, c) /\ Cursor' = Masked(c + k)
    BY <1>0, <2>2 DEF LapsAreEven, Cursor, Idle
  <2>4. Ahead(watched, c) \in Nat /\ NbBk \in Nat /\ k \in Nat
    <3> HIDE DEF c, k
    <3>1. QED
      BY <1>0, <2>2, AheadIn, Bounds
  <2>5. lag' = IF Ahead(watched, c) < k THEN k - 1 - Ahead(watched, c) ELSE lag + k
    BY <1>3 DEF LapChunk
  <2>6. /\ Ahead(watched, c) >= k => Ahead(watched, Masked(c + k)) = Ahead(watched, c) - k
        /\ Ahead(watched, c) < k => Ahead(watched, Masked(c + k)) = Ahead(watched, c) - k + NbBk
    <3> HIDE DEF c, k
    <3>1. QED
      BY <1>0, <2>2, Advance
  <2>7. lag' = NbBk - 1 - Ahead(watched, Masked(c + k))
    <3> HIDE DEF c, k
    <3>1. QED
      BY <2>3, <2>4, <2>5, <2>6
  <2>8. QED
    BY <1>3, <2>3, <2>7 DEF LapsAreEven
<1>4. ASSUME LapTick, watched' = watched PROVE LapsAreEven'
  BY <1>0, <1>4 DEF LapTick, Tick, LapsAreEven, Cursor, Idle
<1>5. ASSUME SweepEnd, UNCHANGED lap, watched' = watched PROVE LapsAreEven'
  BY <1>0, <1>5 DEF SweepEnd, lap, LapsAreEven, Cursor, Idle, NoSweep
<1>6. ASSUME Quiet, UNCHANGED lap, watched' = watched PROVE LapsAreEven'
  BY <1>0, <1>6, QuietStep DEF lap, LapsAreEven, Cursor, Idle
<1>7. CASE UNCHANGED lapVars
  BY <1>0, <1>7 DEF lapVars, vars, lap, LapsAreEven, Cursor, Idle
<1>8. QED
  BY <1>1, <1>2, <1>3, <1>4, <1>5, <1>6, <1>7
  DEF LapNext, LapRestart, LapPoll, Poll, LapRest, Quiet, lap

LEMMA PassStep == LapInv /\ [LapNext]_lapVars => PassInv'
<1> SUFFICES ASSUME LapInv, [LapNext]_lapVars, WidthsFit
             PROVE  /\ passes' * LeastWidth <= lag' + sweep'.left
                    /\ wait' <= MaxElapsed * passes' + elapsed'
  BY DEF PassInv, WidthsFit
<1> DEFINE L == LeastWidth
           M == MaxElapsed
           Goal == /\ passes' * L <= lag' + sweep'.left
                   /\ wait' <= M * passes' + elapsed'
<1>0. /\ TypeOK /\ SweepInv /\ LapsAreEven
      /\ L \in 1 .. NbBk /\ M \in Nat /\ NbBk \in Nat
      /\ passes * L <= lag + sweep.left
      /\ wait <= M * passes + elapsed
      /\ passes \in Nat /\ lag \in Nat /\ wait \in Nat
      /\ elapsed \in 0 .. M /\ added \in 0 .. MaxAdded /\ sweep.left \in Nat
  BY Bounds DEF LapInv, PassInv, TypeOK
<1> HIDE DEF L, M
<1>1. ASSUME NEW c \in ExCalls, MaintainStepEx(c.start, c.count, c.skip),
             passes' = 0, wait' = 0, lag' = NbBk - 1 - Ahead(watched, Masked(c.start))
      PROVE  Goal
  <2>1. c.start \in Nat /\ c.count \in Nat /\ c.skip \in Nat
    BY ConfigAssumption
  <2>2. sweep'.left \in Nat
    BY <1>1, <2>1, Started, Bounds DEF MaintainStepEx, SweepRecord
  <2>3. Ahead(watched, Masked(c.start)) \in 0 .. NbBk - 1
    <3>1. watched \in Bucket /\ Masked(c.start) \in Bucket
      BY <1>0, <2>1, MaskedIn DEF TypeOK
    <3>2. QED
      BY <3>1, AheadIn
  <2>4. elapsed' = elapsed
    BY <1>1 DEF MaintainStepEx
  <2>5. QED
    BY <1>0, <1>1, <2>2, <2>3, <2>4
<1>2. ASSUME NEW idle \in BOOLEAN, MaintainStep(idle), passes' = passes + 1,
             UNCHANGED <<lag, wait>>
      PROVE  Goal
  <2>1. /\ elapsed \in Nat /\ added \in Nat /\ maint_cursor \in Nat
        /\ elapsed \in 0 .. MaxElapsed
    BY <1>0, Bounds DEF TypeOK, Bucket
  <2>2. Width(elapsed, added) \in 0 .. NbBk /\ SkipThreshold \in Nat
    BY <2>1, WidthIn, ConfigAssumption
  <2>3. Capped(NbBk) = NbBk /\ Capped(Width(elapsed, added)) = Width(elapsed, added)
    BY <2>2, Bounds DEF Capped
  <2>4. sweep'.left = IF idle THEN NbBk ELSE Width(elapsed, added)
    BY <1>0, <1>2, <2>1, <2>2, <2>3, Started DEF MaintainStep
  <2>5. ~idle => Width(elapsed, added) >= LeastWidth
    BY <1>0, <1>2, <2>1, WidthLeast DEF MaintainStep
  <2>6. sweep'.left \in Nat /\ sweep'.left >= L
    BY <1>0, <2>2, <2>4, <2>5 DEF L
  <2>7. sweep.left = 0
    BY <1>0, <1>2 DEF MaintainStep, Idle, SweepInv, NoSweep
  <2>8. (passes + 1) * L = passes * L + L /\ M * (passes + 1) = M * passes + M
    BY <1>0
  <2>9. elapsed' = 0
    BY <1>2 DEF MaintainStep
  <2>10. passes * L \in Nat /\ M * passes \in Nat
    BY <1>0
  <2>11. QED
    BY <1>0, <1>2, <2>6, <2>7, <2>8, <2>9, <2>10
<1>3. ASSUME LapChunk PROVE Goal
  <2> DEFINE k == ChunkLen
             a == Ahead(watched, sweep.cur)
  <2>1. /\ k \in 1 .. sweep.left /\ sweep'.left = sweep.left - k /\ elapsed' = elapsed
    BY <1>0, <1>3, ChunkStep DEF LapChunk, TypeOK
  <2>2. a \in Nat
    <3>1. watched \in Bucket /\ sweep.cur \in Bucket
      BY <1>0 DEF TypeOK
    <3>2. QED
      BY <3>1, AheadIn
  <2>3. IF a < k THEN lag' = k - 1 - a /\ passes' = 0 /\ wait' = 0
        ELSE lag' = lag + k /\ UNCHANGED <<passes, wait>>
    BY <1>3 DEF LapChunk
  <2> HIDE DEF k, a
  <2>4. CASE a < k
    BY <1>0, <2>1, <2>2, <2>3, <2>4
  <2>5. CASE a >= k
    <3>1. passes * L \in Nat
      BY <1>0
    <3>2. QED
      BY <1>0, <2>1, <2>2, <2>3, <2>5, <3>1
  <2>6. QED
    BY <2>1, <2>2, <2>4, <2>5
<1>4. ASSUME LapTick PROVE Goal
  <2>1. /\ elapsed' = elapsed + 1 /\ wait' = wait + 1
        /\ UNCHANGED <<lag, passes, sweep>>
    BY <1>4 DEF LapTick, Tick
  <2>2. M * passes \in Nat
    BY <1>0
  <2>3. QED
    BY <1>0, <2>1, <2>2
<1>5. ASSUME SweepEnd, UNCHANGED lap PROVE Goal
  BY <1>0, <1>5 DEF SweepEnd, lap, NoSweep
<1>6. ASSUME Quiet, UNCHANGED lap PROVE Goal
  BY <1>0, <1>6, QuietStep DEF lap
<1>7. ASSUME UNCHANGED lapVars PROVE Goal
  BY <1>0, <1>7 DEF lapVars, vars, lap
<1>8. QED
  <2>1. Goal
    BY <1>1, <1>2, <1>3, <1>4, <1>5, <1>6, <1>7
    DEF LapNext, LapRestart, LapPoll, Poll, LapRest, Quiet, lap
  <2>2. QED
    BY <2>1 DEF L, M

LEMMA StartInv ==
    ASSUME maint_cursor' \in Bucket, sweep'.running, sweep'.cur = maint_cursor',
           sweep'.left \in 0 .. NbBk, sweep'.swept = sweep'.left
    PROVE  SweepInv'
<1>1. maint_cursor' + (sweep'.swept - sweep'.left) = maint_cursor' /\ sweep'.left <= sweep'.swept
  BY Bounds DEF Bucket
<1>2. sweep'.cur = Masked(maint_cursor' + (sweep'.swept - sweep'.left))
  BY <1>1, MaskedSelf
<1>3. QED
  BY <1>1, <1>2 DEF SweepInv, From, Masked, Expired

LEMMA MaskedTwice ==
    ASSUME NEW m \in Bucket, NEW d \in 0 .. NbBk, NEW k \in 0 .. NbBk,
           d + k \in 0 .. NbBk
    PROVE  Masked(Masked(m + d) + k) = Masked(m + (d + k))
<1> DEFINE c == IF m + d < NbBk THEN m + d ELSE m + d - NbBk
           u == c + k
           v == m + (d + k)
<1>1. /\ NbBk \in Nat /\ m \in Nat /\ d \in Nat /\ k \in Nat /\ c \in Nat
      /\ m < NbBk /\ c < NbBk /\ d + k <= NbBk
  BY Bounds DEF Bucket
<1>2. Masked(m + d) = c
  BY <1>1, MaskedOnce
<1>3. u \in Nat /\ u < 2 * NbBk /\ v \in Nat /\ v < 2 * NbBk
  BY <1>1
<1>4. /\ Masked(u) = IF u < NbBk THEN u ELSE u - NbBk
      /\ Masked(v) = IF v < NbBk THEN v ELSE v - NbBk
  <2> HIDE DEF u, v
  <2>1. QED
    BY <1>3, MaskedOnce
<1>5. (IF u < NbBk THEN u ELSE u - NbBk) = (IF v < NbBk THEN v ELSE v - NbBk)
  BY <1>1
<1>6. QED
  BY <1>2, <1>4, <1>5

(* The expired entries a sweep that skips nothing has left behind it. *)
LEMMA ChunkInv ==
    ASSUME TypeOK, SweepInv, Chunk
    PROVE  SweepInv'
<1> DEFINE c == sweep.cur
           k == ChunkLen
           m == maint_cursor
           d == sweep.swept - sweep.left
           e == sweep.eff
<1>1. /\ sweep.running /\ k \in 1 .. sweep.left /\ k \in 0 .. NbBk /\ c \in Bucket
      /\ sweep'.cur = Masked(c + k) /\ sweep'.left = sweep.left - k
      /\ sweep'.swept = sweep.swept /\ sweep'.skip = sweep.skip
      /\ sweep'.eff = e /\ sweep'.running
      /\ age' = age /\ maint_cursor' = m
  BY ChunkStep
<1>2. /\ sweep.left \in 0 .. NbBk /\ sweep.swept \in 0 .. NbBk /\ m \in Bucket
      /\ sweep.left <= sweep.swept /\ c = Masked(m + d)
      /\ d \in 0 .. NbBk /\ d + k \in 0 .. NbBk
  <2>1. /\ sweep.left \in 0 .. NbBk /\ sweep.swept \in 0 .. NbBk /\ m \in Bucket
        /\ sweep.left <= sweep.swept /\ c = Masked(m + d)
    BY <1>1 DEF TypeOK, SweepInv
  <2>2. QED
    BY <1>1, <2>1, Bounds
<1>3. sweep'.left <= sweep'.swept /\ sweep'.swept - sweep'.left = d + k
  BY <1>1, <1>2, Bounds
<1>4. Masked(c + k) = Masked(m + (d + k))
  <2> HIDE DEF c, k, m, d
  <2>1. QED
    BY <1>1, <1>2, MaskedTwice
<1>5. ASSUME sweep.skip = 0, NEW n \in Entries, place'[n] # FREE, age[n] > e
      PROVE  \/ place'[n] \in From(Masked(c + k), sweep.left - k)
             \/ place'[n] \notin From(m, sweep.swept)
  <2> DEFINE p == place[n]
  <2>1. place'[n] = p /\ p \notin {b \in From(c, k) : Used(place, b) > sweep.skip}
    BY <1>5 DEF Chunk, Reclaim, Expired
  <2>2. p \in Bucket
    BY <1>5, <2>1 DEF TypeOK
  <2>3. Used(place, p) \in Nat \ {0}
    <3> DEFINE S == {x \in Entries : place[x] = p}
    <3>1. IsFiniteSet(S) /\ n \in S
      BY TableAssumption, FS_Subset
    <3>2. Cardinality(S) \in Nat /\ Cardinality(S) # 0
      <4> HIDE DEF S
      <4>1. QED
        BY <3>1, FS_CardinalityType, FS_EmptySet
    <3>3. QED
      BY <3>2 DEF Used
  <2>4. Used(place, p) > sweep.skip
    BY <1>5, <2>3
  <2>5. p \notin From(c, k)
    BY <2>1, <2>4
  <2>6. p \in From(c, sweep.left) \/ p \notin From(m, sweep.swept)
    <3>1. Expired(n, sweep.eff)
      BY <1>5, <2>1 DEF Expired
    <3>2. QED
      BY <1>1, <1>5, <3>1 DEF SweepInv
  <2>7. ASSUME p \in From(c, sweep.left) PROVE p \in From(Masked(c + k), sweep.left - k)
    <3> HIDE DEF p, c, k
    <3>1. Ahead(p, c) < sweep.left /\ ~(Ahead(p, c) < k) /\ Ahead(p, c) \in 0 .. NbBk - 1
      BY <1>1, <1>2, <2>2, <2>5, <2>7, InRange, AheadIn
    <3>2. sweep.left - k \in 0 .. NbBk /\ Ahead(p, c) >= k
      BY <1>1, <1>2, <3>1, Bounds
    <3>6. Masked(c + k) \in Bucket
      BY <1>1, <2>2, Advance
    <3>3. Ahead(p, Masked(c + k)) = Ahead(p, c) - k
      BY <1>1, <2>2, <3>2, Advance
    <3>4. Ahead(p, Masked(c + k)) < sweep.left - k
      BY <1>1, <1>2, <3>1, <3>3, Bounds
    <3>5. QED
      BY <2>2, <3>2, <3>4, <3>6, InRange
  <2>8. QED
    BY <2>1, <2>6, <2>7
<1>6. ASSUME sweep'.skip = 0, NEW n \in Entries, Expired(n, sweep.eff)'
      PROVE  \/ place'[n] \in From(sweep.cur, sweep.left)'
             \/ place'[n] \notin From(maint_cursor, sweep.swept)'
  <2>1. place'[n] # FREE /\ age[n] > e /\ sweep.skip = 0
    BY <1>1, <1>6 DEF Expired
  <2>2. QED
    BY <1>1, <1>5, <2>1 DEF From, Masked
<1>7. sweep'.cur = Masked(maint_cursor' + (sweep'.swept - sweep'.left))
  BY <1>1, <1>3, <1>4
<1>8. QED
  BY <1>1, <1>3, <1>6, <1>7 DEF SweepInv, Masked

LEMMA SweepStep == LapInv /\ [LapNext]_lapVars => SweepInv'
<1> SUFFICES ASSUME LapInv, [LapNext]_lapVars PROVE SweepInv'
  OBVIOUS
<1>0. TypeOK /\ SweepInv /\ maint_cursor \in Bucket
  BY DEF LapInv, TypeOK
<1>1. ASSUME NEW c \in ExCalls, MaintainStepEx(c.start, c.count, c.skip) PROVE SweepInv'
  <2>1. c.start \in Nat /\ c.count \in Nat /\ c.skip \in Nat
    BY ConfigAssumption
  <2>2. Masked(c.start) \in Bucket /\ Capped(c.count) \in 0 .. NbBk
    BY <2>1, MaskedIn, Bounds DEF Capped
  <2>3. QED
    BY <1>1, <2>1, <2>2, Started, StartInv DEF MaintainStepEx
<1>2. ASSUME NEW idle \in BOOLEAN, MaintainStep(idle) PROVE SweepInv'
  <2>1. elapsed \in Nat /\ added \in Nat /\ maint_cursor \in Nat
    BY <1>0, Bounds DEF TypeOK, Bucket
  <2> DEFINE w == IF idle THEN NbBk ELSE Width(elapsed, added)
             s == IF idle THEN 0 ELSE SkipThreshold
  <2>2. w \in Nat /\ s \in Nat /\ Capped(w) \in 0 .. NbBk
    <3>1. Width(elapsed, added) \in 0 .. NbBk
      BY <2>1, WidthIn
    <3>2. w \in Nat /\ s \in Nat
      BY <3>1, Bounds, ConfigAssumption
    <3>3. QED
      <4> HIDE DEF w
      <4>1. QED
        BY <3>2, Bounds DEF Capped
  <2>3. Start(maint_cursor, w, s) /\ maint_cursor' = maint_cursor
    BY <1>2 DEF MaintainStep
  <2>4. /\ sweep'.running /\ sweep'.cur = Masked(maint_cursor)
        /\ sweep'.left = Capped(w) /\ sweep'.swept = Capped(w)
    <3> HIDE DEF w, s
    <3>1. QED
      BY <2>1, <2>2, <2>3, Started
  <2>5. QED
    BY <1>0, <2>2, <2>3, <2>4, MaskedSelf, StartInv
<1>3. CASE Chunk
  BY <1>0, <1>3, ChunkInv
<1>4. CASE Tick
  BY <1>0, <1>4 DEF Tick, Idle, SweepInv
<1>5. CASE SweepEnd
  <2>1. /\ sweep.running /\ sweep.left = 0 /\ maint_cursor' = sweep.cur
        /\ last_sweep' = [start |-> maint_cursor, bks |-> sweep.swept] /\ sweep' = NoSweep
    BY <1>5 DEF SweepEnd
  <2>2. sweep.swept - sweep.left = sweep.swept
    BY <1>0, <2>1 DEF TypeOK
  <2>3. sweep.cur = Masked(maint_cursor + sweep.swept)
    BY <1>0, <2>1, <2>2 DEF SweepInv
  <2>4. ~sweep'.running
    BY <2>1 DEF NoSweep
  <2>5. QED
    BY <2>1, <2>3, <2>4 DEF SweepInv, Masked, NoSweep
<1>6. CASE Quiet
  BY <1>0, <1>6, QuietStep DEF Idle, SweepInv
<1>7. CASE UNCHANGED lapVars
  BY <1>0, <1>7 DEF lapVars, vars, SweepInv, Expired
<1>8. QED
  BY <1>1, <1>2, <1>3, <1>4, <1>5, <1>6, <1>7
  DEF LapNext, LapRestart, LapPoll, LapChunk, LapTick, Poll, LapRest, Quiet

(* The inductive invariant: the types, the lap of a bucket, where a sweep  *)
(* stands and what it has left behind it, and how far the passes brought   *)
(* the cursor.                                                             *)
THEOREM LapInvHolds == LapSpec => []LapInv
<1>1. LapInv /\ [LapNext]_lapVars => LapInv'
  BY TypeStep, LapStep, SweepStep, PassStep DEF LapInv
<1>2. QED
  BY InitInv, <1>1, PTL DEF LapSpec

(* Every variable keeps its type: the cursor and the recorded start are    *)
(* buckets and no sweep is wider than the table, whatever range            *)
(* maintain_step_ex is called with and whatever the width overflows to.    *)
THEOREM TypeCorrect == LapSpec => []TypeOK
<1>1. LapInv => TypeOK
  BY DEF LapInv
<1>2. QED
  BY LapInvHolds, <1>1, PTL

(* A lap checks every bucket exactly once, whatever widths maintain_step   *)
(* chooses and however maintain_step_grouped cuts and wraps its sweeps.    *)
THEOREM EvenLaps == LapSpec => []LapsAreEven
<1>1. LapInv => LapsAreEven
  BY DEF LapInv
<1>2. QED
  BY LapInvHolds, <1>1, PTL

(* last_maint_start_bk and last_maint_sweep_bk tell which buckets the last *)
(* sweep checked.                                                          *)
THEOREM SweepTold == LapSpec => []LastSweepTells
<1>1. LapInv => LastSweepTells
  <2> SUFFICES ASSUME LapInv, Idle
               PROVE  watched \in From(last_sweep.start, last_sweep.bks) <=> lag < last_sweep.bks
    BY DEF LastSweepTells, LapInv, SweepInv, Idle
  <2> DEFINE c == last_sweep.start
             k == last_sweep.bks
             a == Ahead(watched, c)
  <2>1. watched \in Bucket /\ c \in Bucket /\ k \in 0 .. NbBk
    BY DEF LapInv, TypeOK
  <2>2. maint_cursor = Masked(c + k) /\ lag = NbBk - 1 - Ahead(watched, Masked(c + k))
    BY DEF LapInv, SweepInv, LapsAreEven, Cursor, Idle
  <2>3. /\ a \in 0 .. NbBk - 1
        /\ watched \in From(c, k) <=> a < k
        /\ a >= k => Ahead(watched, Masked(c + k)) = a - k
        /\ a < k => Ahead(watched, Masked(c + k)) = a - k + NbBk
    <3> HIDE DEF c, k
    <3>1. QED
      BY <2>1, AheadIn, InRange, Advance
  <2>4. QED
    <3> HIDE DEF c, k, a
    <3>1. watched \in From(c, k) <=> lag < k
      BY <2>1, <2>2, <2>3, Bounds
    <3>2. QED
      BY <3>1 DEF c, k
<1>2. QED
  BY LapInvHolds, <1>1, PTL

(* While the loop polls at most Late after an interval has passed, no      *)
(* bucket waits longer than the passes of a lap of base widths take.       *)
THEOREM TimelyLaps == LapSpec => []LapIsTimely
<1>1. LapInv => LapIsTimely
  <2> SUFFICES ASSUME LapInv, Idle, WidthsFit
               PROVE  wait * LeastWidth <= MaxElapsed * (NbBk - 1 + LeastWidth)
    BY DEF LapIsTimely
  <2> DEFINE L == LeastWidth
             M == MaxElapsed
             p == passes
             w == wait
  <2>1. /\ L \in Nat /\ M \in Nat /\ p \in Nat /\ w \in Nat
        /\ NbBk - 1 \in Nat /\ elapsed \in 0 .. M
        /\ p * L <= lag + sweep.left
        /\ w <= M * p + elapsed
    BY Bounds DEF LapInv, TypeOK, PassInv
  <2>2. sweep.left = 0
    BY DEF LapInv, SweepInv, Idle, NoSweep
  <2>3. lag <= NbBk - 1 /\ lag \in Nat
    <3>1. watched \in Bucket /\ maint_cursor \in Bucket /\ lag \in Nat
      BY DEF LapInv, TypeOK
    <3>2. Ahead(watched, maint_cursor) \in 0 .. NbBk - 1
      BY <3>1, AheadIn
    <3>3. lag = NbBk - 1 - Ahead(watched, maint_cursor)
      BY DEF LapInv, LapsAreEven, Cursor
    <3>4. QED
      BY <3>1, <3>2, <3>3, Bounds
  <2>4. \A x, y, z \in Nat : x <= y => x * z <= y * z /\ z * x <= z * y
    OBVIOUS
  <2>5. QED
    <3> HIDE DEF L, M, p, w
    <3>1. p * L <= NbBk - 1 /\ w <= M * p + M
      BY <2>1, <2>2, <2>3
    <3>2. p * L \in Nat /\ M * p + M \in Nat
      BY <2>1
    <3>3. w * L <= (M * p + M) * L
      BY <2>1, <2>4, <3>1, <3>2
    <3>4. M * (p * L) <= M * (NbBk - 1)
      BY <2>1, <2>4, <3>1, <3>2
    <3>5. \A x, y, z \in Nat : (x * y + x) * z = x * (y * z) + x * z
      OBVIOUS
    <3>6. (M * p + M) * L = M * (p * L) + M * L
      BY <2>1, <3>5
    <3>7. M * (NbBk - 1 + L) = M * (NbBk - 1) + M * L
      BY <2>1
    <3>8. /\ M * (p * L) \in Nat /\ M * (NbBk - 1) \in Nat /\ M * L \in Nat /\ w * L \in Nat
      BY <2>1, <3>2
    <3>9. w * L <= M * (NbBk - 1 + L)
      <4> DEFINE u == w * L
                 f == M * (p * L)
                 g == M * (NbBk - 1)
                 h == M * L
      <4>1. u <= f + h /\ f <= g
        BY <3>3, <3>4, <3>6
      <4>2. u <= g + h
        <5>1. u \in Nat /\ f \in Nat /\ g \in Nat /\ h \in Nat
          BY <3>8
        <5> HIDE DEF u, f, g, h
        <5>2. QED
          BY <4>1, <5>1
      <4>3. QED
        BY <4>2, <3>7
    <3>10. QED
      BY <3>9 DEF L, M, w
<1>2. QED
  BY LapInvHolds, <1>1, PTL

(* A maintain_step with idle set leaves no expired entry in the table.     *)
THEOREM IdleSweepsEverything == LapSpec => IdleSweepsAll
<1> DEFINE Swept == SweepEnd /\ sweep.swept = NbBk /\ sweep.skip = 0 =>
                      \A n \in Entries : ~Expired(n, sweep.eff)
<1>1. ASSUME LapInv, SweepEnd, sweep.swept = NbBk, sweep.skip = 0,
             NEW n \in Entries, Expired(n, sweep.eff)
      PROVE  FALSE
  <2>1. sweep.running /\ sweep.left = 0
    BY <1>1 DEF SweepEnd
  <2>2. place[n] \in Bucket /\ maint_cursor \in Bucket
    BY <1>1 DEF LapInv, TypeOK, Expired
  <2>3. place[n] \in From(sweep.cur, 0) \/ place[n] \notin From(maint_cursor, NbBk)
    BY <1>1, <2>1 DEF LapInv, SweepInv
  <2>4. From(sweep.cur, 0) = {}
    BY DEF From
  <2>5. Ahead(place[n], maint_cursor) < NbBk /\ NbBk \in 0 .. NbBk
    BY <2>2, AheadIn, Bounds
  <2>6. place[n] \in From(maint_cursor, NbBk)
    BY <2>2, <2>5, InRange
  <2>7. QED
    BY <2>3, <2>4, <2>6
<1>2. LapInv /\ [LapNext]_lapVars => [Swept]_lapVars
  BY <1>1
<1>3. QED
  BY LapInvHolds, <1>2, PTL DEF LapSpec, IdleSweepsAll
=============================================================================
