--------------------------- MODULE RixHashRehash ---------------------------
(***************************************************************************)
(* The tables that keep nothing in their elements: rix_hash32.h,           *)
(* rix_hash64.h (the same text for wider keys) and rix_hash_keyonly.h.     *)
(* Kickout and remove hash the key of an element again to know its two     *)
(* buckets.  The first two keep the key itself in the bucket, the last the *)
(* fingerprint; the rest of their text is the same.                        *)
(*                                                                         *)
(* Nothing runs between the writes of one call, so that a call is one step *)
(* and the recursive kickout a function of the table.                      *)
(***************************************************************************)
EXTENDS RixCuckoo

CONSTANTS
    KeyOf,          (* KeyOf[n]: the key field of element n.                *)
    FollowDepths,   (* Values of RIX_HASH_FOLLOW_DEPTH.                     *)
    INVALID         (* invalid_key, which no caller uses.                   *)

ASSUME KeyAssumption == KeyOf \in [Nodes -> Keys]
ASSUME DepthAssumption == FollowDepths \subseteq Nat
ASSUME InvalidAssumption == INVALID \notin Keys

VARIABLES
    build,  (* Which text, and the depth it is compiled with.               *)
    tab,    (* bk[].key[] or bk[].hash[] as mark, bk[].idx[] as idx, and    *)
            (* whether a write went to slot -1 of a bucket.                 *)
    nb,     (* head->rhh_nb                                                 *)
    ret     (* The last call and what it returned.                          *)

vars == <<build, tab, nb, ret>>

Mark(k) == IF build.keyed THEN k ELSE Fp(k)

NoMark == IF build.keyed THEN INVALID ELSE {}

(* What a bucket may keep of a key, and the contents of the two arrays.    *)
Marks == IF build.keyed THEN Keys \cup {INVALID} ELSE Hash

Tables == [mark  : [Bucket -> [Slot -> Marks]],
           idx   : [Bucket -> [Slot -> NodeOrNil]],
           stray : BOOLEAN]

FindEmpty(t, b) == {s \in Slot : t.mark[b][s] = NoMark}

KeyAt(t, b, s) == IF build.keyed THEN t.mark[b][s] ELSE KeyOf[t.idx[b][s]]

AltOf(t, b, s) == LET k == KeyAt(t, b, s)
                  IN IF b = Bk0(k) THEN Bk1(k) ELSE Bk0(k)

Written(t, b, s, mark, n) == [t EXCEPT !.mark[b][s] = mark, !.idx[b][s] = n]

(* For a mutant: the key or fingerprint does not move with the index.      *)
MovedIndexOnly(t, u, b, s, c) ==
    LET room == FindEmpty(u, c)
        to == IF room = {} THEN [u EXCEPT !.stray = TRUE]
              ELSE [u EXCEPT !.idx[c][LowestSlot(room)] = t.idx[b][s]]
    IN Written(to, b, s, NoMark, NIL)

(* What was in a slot of b, as read from table t, is written to bucket c   *)
(* of table u and the slot cleared.  find_empty returns -1 for a full      *)
(* bucket, which is not checked after a recursive call.                    *)
Moved(t, u, b, s, c) ==
    LET room == FindEmpty(u, c)
        to == IF room = {} THEN [u EXCEPT !.stray = TRUE]
              ELSE Written(u, c, LowestSlot(room), t.mark[b][s], t.idx[b][s])
    IN Written(to, b, s, NoMark, NIL)

Freed(t, s) == [pos |-> s, tab |-> t]

Failed(t) == [pos |-> -1, tab |-> t]

Changed(t, u, b, s) == t.mark[b][s] # u.mark[b][s] \/ t.idx[b][s] # u.idx[b][s]

(* Pass 1: the slots of b whose other bucket has room.                     *)
Direct(t, b) == {s \in Slot : /\ t.idx[b][s] # NIL
                              /\ FindEmpty(t, AltOf(t, b, s)) # {}}

(* For a mutant: if (kickout(...)) instead of kickout(...) >= 0.           *)
TriedTruthy(below, t, b, s) ==
    LET a == AltOf(t, b, s)
        sub == below[t][a]
    IN IF t.idx[b][s] = NIL THEN Failed(t)
       ELSE IF sub.pos = 0 THEN Failed(sub.tab)
       ELSE Freed(Moved(t, sub.tab, b, s, a), s)

(* For a mutant: no re-check of the slot after the recursive call.         *)
TriedTrusting(below, t, b, s) ==
    LET a == AltOf(t, b, s)
        sub == below[t][a]
    IN IF t.idx[b][s] = NIL THEN Failed(t)
       ELSE IF sub.pos = -1 THEN Failed(sub.tab)
       ELSE Freed(Moved(t, sub.tab, b, s, a), s)

(* Pass 2 at slot s, where below is the kickout of one level less.         *)
Tried(below, t, b, s) ==
    LET a == AltOf(t, b, s)
        sub == below[t][a]
        u == sub.tab
    IN IF t.idx[b][s] = NIL THEN Failed(t)
       ELSE IF sub.pos = -1 THEN Failed(u)
       ELSE IF ~Changed(t, u, b, s) THEN Freed(Moved(t, u, b, s, a), s)
       ELSE IF FindEmpty(u, b) # {} THEN Freed(u, LowestSlot(FindEmpty(u, b)))
       ELSE Failed(u)

(* Pass 2: the outcome of slots 0 .. n-1, which the first success ends.    *)
Scanned(below, t, b) ==
    LET upTo[n \in 0 .. EntrySz] ==
            IF n = 0 THEN Failed(t)
            ELSE LET r == upTo[n - 1]
                 IN IF r.pos >= 0 THEN r ELSE Tried(below, r.tab, b, n - 1)
    IN upTo[EntrySz]

(* The kickout of each depth is a function of the table and the bucket.    *)
Kickout[depth \in Nat] ==
    [t \in Tables |-> [b \in Bucket |->
        LET s == LowestSlot(Direct(t, b))
        IN IF depth = 0 THEN Failed(t)
           ELSE IF Direct(t, b) # {}
             THEN Freed(Moved(t, t, b, s, AltOf(t, b, s)), s)
           ELSE Scanned(Kickout[depth - 1], t, b)]]

(* The keyed tables compare no more than the key in the bucket.            *)
Hits(t, b, k) == {s \in Slot : /\ t.mark[b][s] = Mark(k)
                               /\ build.keyed \/ KeyOf[t.idx[b][s]] = k}

Find(t, k) ==
    LET b == IF Hits(t, Bk0(k), k) # {} THEN Bk0(k) ELSE Bk1(k)
    IN IF Hits(t, b, k) = {} THEN NIL ELSE t.idx[b][LowestSlot(Hits(t, b, k))]

Answer(op, n, r) == ret' = [op |-> op, elm |-> n, out |-> r]

Place(t, b, s, n) ==
    /\ tab' = Written(t, b, s, Mark(KeyOf[n]), n)
    /\ nb' = nb + 1
    /\ Answer("insert", n, NIL)

(* For a mutant: a duplicate is counted. *)
InsertDuplicateCounts(n) ==
    /\ Find(tab, KeyOf[n]) # NIL
    /\ Answer("insert", n, Find(tab, KeyOf[n]))
    /\ nb' = nb + 1
    /\ UNCHANGED tab

InsertDuplicate(n) ==
    /\ Find(tab, KeyOf[n]) # NIL
    /\ Answer("insert", n, Find(tab, KeyOf[n]))
    /\ UNCHANGED <<tab, nb>>

InsertFast(n) ==
    LET k == KeyOf[n]
        b == IF FindEmpty(tab, Bk0(k)) # {} THEN Bk0(k) ELSE Bk1(k)
    IN /\ Find(tab, k) = NIL
       /\ FindEmpty(tab, b) # {}
       /\ Place(tab, b, LowestSlot(FindEmpty(tab, b)), n)

(* For a mutant: the new element takes an occupant's place all the same. *)
InsertSlowEvicts(n) ==
    LET k == KeyOf[n]
        in0 == Kickout[build.depth][tab][Bk0(k)]
        in1 == Kickout[build.depth][in0.tab][Bk1(k)]
    IN /\ Find(tab, k) = NIL
       /\ FindEmpty(tab, Bk0(k)) \cup FindEmpty(tab, Bk1(k)) = {}
       /\ \/ in0.pos >= 0 /\ Place(in0.tab, Bk0(k), in0.pos, n)
          \/ in0.pos < 0 /\ in1.pos >= 0 /\ Place(in1.tab, Bk1(k), in1.pos, n)
          \/ /\ in0.pos < 0 /\ in1.pos < 0
             /\ tab' = Written(in1.tab, Bk1(k), 0, Mark(k), n)
             /\ Answer("insert", n, n)
             /\ UNCHANGED nb

InsertSlow(n) ==
    LET k == KeyOf[n]
        in0 == Kickout[build.depth][tab][Bk0(k)]
        in1 == Kickout[build.depth][in0.tab][Bk1(k)]
    IN /\ Find(tab, k) = NIL
       /\ FindEmpty(tab, Bk0(k)) \cup FindEmpty(tab, Bk1(k)) = {}
       /\ \/ in0.pos >= 0 /\ Place(in0.tab, Bk0(k), in0.pos, n)
          \/ in0.pos < 0 /\ in1.pos >= 0 /\ Place(in1.tab, Bk1(k), in1.pos, n)
          \/ /\ in0.pos < 0 /\ in1.pos < 0
             /\ tab' = in1.tab
             /\ Answer("insert", n, n)
             /\ UNCHANGED nb

Insert(n) ==
    /\ InsertDuplicate(n) \/ InsertFast(n) \/ InsertSlow(n)
    /\ UNCHANGED build

(* For a mutant: only the first bucket is searched.                        *)
RemoveFromFirst(n) ==
    LET k == KeyOf[n]
        at == {s \in Slot : tab.idx[Bk0(k)][s] = n}
    IN /\ IF at # {}
          THEN /\ tab' = Written(tab, Bk0(k), LowestSlot(at), NoMark, NIL)
               /\ nb' = nb - 1
               /\ Answer("remove", n, n)
          ELSE Answer("remove", n, NIL) /\ UNCHANGED <<tab, nb>>
       /\ UNCHANGED build

Remove(n) ==
    LET k == KeyOf[n]
        at(b) == {s \in Slot : tab.idx[b][s] = n}
        b == IF at(Bk0(k)) # {} THEN Bk0(k) ELSE Bk1(k)
    IN /\ IF at(b) # {}
          THEN /\ tab' = Written(tab, b, LowestSlot(at(b)), NoMark, NIL)
               /\ nb' = nb - 1
               /\ Answer("remove", n, n)
          ELSE Answer("remove", n, NIL) /\ UNCHANGED <<tab, nb>>
       /\ UNCHANGED build

(* remove_at(bk, slot), which only the key-only table has. *)
RemoveAt(b, s) ==
    /\ ~build.keyed
    /\ \/ /\ tab.idx[b][s] # NIL
          /\ tab' = Written(tab, b, s, NoMark, NIL)
          /\ nb' = nb - 1
          /\ Answer("remove", tab.idx[b][s], tab.idx[b][s])
       \/ tab.idx[b][s] = NIL /\ UNCHANGED <<tab, nb, ret>>
    /\ UNCHANGED build

Init ==
    /\ build \in [keyed : BOOLEAN, depth : FollowDepths]
    /\ tab = [mark |-> [b \in Bucket |-> [s \in Slot |-> NoMark]],
              idx |-> EmptyTable, stray |-> FALSE]
    /\ nb = 0
    /\ ret = [op |-> "none", elm |-> NIL, out |-> NIL]

Next == \/ \E n \in Nodes : Insert(n) \/ Remove(n)
        \/ \E b \in Bucket, s \in Slot : RemoveAt(b, s)

Spec == Init /\ [][Next]_vars

-----------------------------------------------------------------------------
(* Every slot is empty in both arrays, or holds an element in one of its   *)
(* key's two buckets with what the bucket keeps of that key; no element is *)
(* in two slots.  Find, kickout and remove trust this: a keyed find        *)
(* compares nothing more, and remove looks in these two buckets only.      *)
SlotsInOrder ==
    /\ OneSlot(tab.idx)
    /\ \A b \in Bucket, s \in Slot :
         LET n == tab.idx[b][s]
         IN IF n = NIL THEN tab.mark[b][s] = NoMark
            ELSE /\ tab.mark[b][s] = Mark(KeyOf[n])
                 /\ b \in Cands(KeyOf[n])

CountExact == nb = Cardinality(LinkedIn(tab.idx))

(* "return elm: table full - no modification".                             *)
FullLeavesTable ==
    [][LET n == ret'.elm
       IN ret'.op = "insert" /\ ret'.out = n /\ Find(tab, KeyOf[n]) = NIL
          => tab' = tab]_vars

(* After a recursive call has made room in the other bucket, kickout       *)
(* writes to the slot that find_empty returns without looking whether it   *)
(* is -1.  It never is.                                                    *)
NoStrayWrite == ~tab.stray

AsMap == INSTANCE RixMap WITH
           map <- [k \in {KeyOf[n] : n \in LinkedIn(tab.idx)} |-> Find(tab, k)]
RefinesMap == AsMap!Spec
=============================================================================
