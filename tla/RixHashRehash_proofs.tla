------------------------ MODULE RixHashRehash_proofs ------------------------
(***************************************************************************)
(* Theorems about the tables that keep nothing in their elements.          *)
(*                                                                         *)
(* The recursive kickout is a function over the naturals.  That it has the *)
(* values its equation says (KickoutIs), and what it does at every depth   *)
(* (KickoutGood, KickoutWithin), are proved by induction in the form of a  *)
(* set of naturals that holds 0 and every successor.                       *)
(***************************************************************************)
EXTENDS RixHashRehash, RixCuckoo_proofs, FiniteSetTheorems

-----------------------------------------------------------------------------
(* Induction and recursion over the naturals *)

LEMMA NatInduct ==
    ASSUME NEW S \in SUBSET Nat, 0 \in S, \A n \in S : n + 1 \in S
    PROVE  S = Nat
<1>1. SUFFICES ASSUME Nat \ S # {} PROVE FALSE
  OBVIOUS
<1>2. Nat \ S \in SUBSET Nat
  OBVIOUS
<1>3. PICK x \in Nat \ S : \A y \in Nat \ S : x <= y
  BY <1>1, <1>2, LeastExists
<1>4. x - 1 \in Nat /\ x - 1 < x
  BY <1>3
<1>5. x - 1 \in S
  BY <1>3, <1>4
<1>6. (x - 1) + 1 \in S
  BY <1>5
<1>7. QED
  BY <1>3, <1>4, <1>6

(* A value that is computed from the one before, starting with a, exists.  *)
Steps(X) == [Nat -> [X -> X]]

Iterated(X, a, G) ==
    \E f \in [Nat -> X] : f[0] = a /\ \A n \in Nat : f[n + 1] = G[n][f[n]]

LEMMA Iterates ==
    ASSUME NEW X, NEW a \in X, NEW G \in Steps(X)
    PROVE  Iterated(X, a, G)
<1> USE DEF Steps
<1> DEFINE Prefix(n, g) == /\ g \in [0 .. n -> X]
                           /\ g[0] = a
                           /\ \A i \in 0 .. n : i < n => g[i + 1] = G[i][g[i]]
           f == [n \in Nat |-> (CHOOSE g : Prefix(n, g))[n]]
<1>1. \A n \in Nat : \E g : Prefix(n, g)
  <2> DEFINE S == {n \in Nat : \E g : Prefix(n, g)}
  <2>1. 0 \in S
    <3>1. Prefix(0, [i \in 0 .. 0 |-> a])
      OBVIOUS
    <3>2. QED
      BY <3>1
  <2>2. ASSUME NEW n \in S PROVE n + 1 \in S
    <3>1. PICK g : Prefix(n, g)
      OBVIOUS
    <3> DEFINE h == [i \in 0 .. n + 1 |-> IF i = n + 1 THEN G[n][g[n]] ELSE g[i]]
    <3>2. n \in Nat /\ g[n] \in X /\ G[n][g[n]] \in X
      BY <3>1
    <3>3. h \in [0 .. n + 1 -> X]
      BY <3>1, <3>2
    <3>4. h[0] = a
      BY <3>1, <3>2
    <3>5. ASSUME NEW i \in 0 .. n + 1, i < n + 1
          PROVE  h[i + 1] = G[i][h[i]]
      <4>1. i \in 0 .. n /\ h[i] = g[i]
        BY <3>2, <3>5
      <4>2. CASE i = n
        BY <3>2, <4>1, <4>2
      <4>3. CASE i # n
        <5>1. i < n /\ i + 1 \in 0 .. n /\ i + 1 # n + 1
          BY <3>2, <4>1, <4>3
        <5>2. g[i + 1] = G[i][g[i]]
          BY <3>1, <4>1, <5>1
        <5>3. h[i + 1] = g[i + 1]
          BY <3>2, <5>1
        <5>4. QED
          BY <4>1, <5>2, <5>3
      <4>4. QED
        BY <4>2, <4>3
    <3>6. Prefix(n + 1, h)
      BY <3>3, <3>4, <3>5
    <3> HIDE DEF Prefix, h
    <3>7. QED
      BY <3>2, <3>6
  <2>3. S = Nat
    <3>1. S \in SUBSET Nat
      OBVIOUS
    <3> HIDE DEF S
    <3>2. QED
      BY <2>1, <2>2, <3>1, NatInduct
  <2>4. QED
    BY <2>3
<1>2. ASSUME NEW n \in Nat, NEW g, Prefix(n, g), NEW h, Prefix(n + 1, h)
      PROVE  g[n] = h[n]
  <2> DEFINE S == {i \in Nat : i <= n => g[i] = h[i]}
  <2>1. 0 \in S
    BY <1>2
  <2>2. ASSUME NEW i \in S PROVE i + 1 \in S
    <3>1. CASE i + 1 <= n
      <4>1. /\ i \in Nat /\ i <= n /\ i < n /\ i < n + 1
            /\ i \in 0 .. n /\ i \in 0 .. n + 1
        BY <3>1
      <4>2. g[i] = h[i]
        BY <4>1
      <4>3. g[i + 1] = G[i][g[i]] /\ h[i + 1] = G[i][h[i]]
        BY <1>2, <4>1
      <4>4. QED
        BY <4>1, <4>2, <4>3
    <3>2. QED
      BY <3>1
  <2>3. S = Nat
    <3>1. S \in SUBSET Nat
      OBVIOUS
    <3> HIDE DEF S
    <3>2. QED
      BY <2>1, <2>2, <3>1, NatInduct
  <2>4. QED
    BY <2>3
<1>3. \A n \in Nat : Prefix(n, CHOOSE g : Prefix(n, g))
  BY <1>1
<1> HIDE DEF Prefix
<1>4. f \in [Nat -> X]
  <2>1. \A n \in Nat : f[n] \in X
    <3>1. \A n \in Nat : (CHOOSE g : Prefix(n, g)) \in [0 .. n -> X]
      BY <1>3 DEF Prefix
    <3>2. QED
      BY <3>1
  <2>2. QED
    BY <2>1
<1>5. f[0] = a
  BY <1>3 DEF Prefix
<1>6. ASSUME NEW n \in Nat PROVE f[n + 1] = G[n][f[n]]
  <2> DEFINE g == CHOOSE x : Prefix(n, x)
             h == CHOOSE x : Prefix(n + 1, x)
  <2>1. Prefix(n, g) /\ Prefix(n + 1, h)
    BY <1>3
  <2>2. f[n] = g[n] /\ f[n + 1] = h[n + 1]
    OBVIOUS
  <2> HIDE DEF g, h
  <2>3. h[n + 1] = G[n][h[n]]
    BY <2>1 DEF Prefix
  <2>4. g[n] = h[n]
    BY <1>2, <2>1
  <2>5. QED
    BY <2>2, <2>3, <2>4
<1>7. QED
  BY <1>4, <1>5, <1>6 DEF Iterated

-----------------------------------------------------------------------------
(* Types, and the equations of the kickout *)

Results == [pos : {-1} \cup Slot, tab : Tables]

Kickouts == [Tables -> [Bucket -> Results]]

LEMMA AltIn ==
    ASSUME NEW t, NEW b, NEW s
    PROVE  AltOf(t, b, s) \in Bucket
BY DEF AltOf, Bk0, Bk1, Bucket

LEMMA WrittenIs ==
    ASSUME NEW t \in Tables, NEW b \in Bucket, NEW s \in Slot,
           NEW mark \in Marks, NEW n \in NodeOrNil
    PROVE  LET v == Written(t, b, s, mark, n)
           IN /\ v \in Tables
              /\ v.stray = t.stray
              /\ \A c \in Bucket, r \in Slot :
                   /\ v.idx[c][r] = IF c = b /\ r = s THEN n ELSE t.idx[c][r]
                   /\ v.mark[c][r] = IF c = b /\ r = s THEN mark ELSE t.mark[c][r]
BY DEF Written, Tables

(* Table v is u with slot s of b cleared and what t has there in slot r of *)
(* c.                                                                      *)
MovedTo(v, t, u, b, s, c, r) ==
    /\ v.stray = u.stray
    /\ \A d \in Bucket, q \in Slot :
         /\ v.idx[d][q] = IF d = b /\ q = s THEN NIL
                          ELSE IF d = c /\ q = r THEN t.idx[b][s]
                          ELSE u.idx[d][q]
         /\ v.mark[d][q] = IF d = b /\ q = s THEN NoMark
                           ELSE IF d = c /\ q = r THEN t.mark[b][s]
                           ELSE u.mark[d][q]

LEMMA MovedIs ==
    ASSUME NEW t \in Tables, NEW u \in Tables, NEW b \in Bucket,
           NEW s \in Slot, NEW c \in Bucket
    PROVE  /\ Moved(t, u, b, s, c) \in Tables
           /\ FindEmpty(u, c) # {} =>
                \E r \in FindEmpty(u, c) :
                  MovedTo(Moved(t, u, b, s, c), t, u, b, s, c, r)
<1> DEFINE room == FindEmpty(u, c)
           to == IF room = {} THEN [u EXCEPT !.stray = TRUE]
                 ELSE Written(u, c, LowestSlot(room), t.mark[b][s], t.idx[b][s])
<1>1. NoMark \in Marks /\ NIL \in NodeOrNil
  BY DEF NoMark, Marks, NodeOrNil, Hash
<1>2. t.mark[b][s] \in Marks /\ t.idx[b][s] \in NodeOrNil
  BY DEF Tables
<1>3. room # {} => LowestSlot(room) \in room /\ LowestSlot(room) \in Slot
  BY LowestSlotIn DEF FindEmpty
<1>4. to \in Tables
  <2>1. CASE room = {}
    BY <2>1 DEF Tables
  <2>2. CASE room # {}
    BY <1>2, <1>3, <2>2, WrittenIs
  <2>3. QED
    BY <2>1, <2>2
<1>5. Moved(t, u, b, s, c) = Written(to, b, s, NoMark, NIL)
  BY DEF Moved
<1> HIDE DEF to
<1>6. Moved(t, u, b, s, c) \in Tables
  BY <1>1, <1>4, <1>5, WrittenIs
<1>7. ASSUME room # {}
      PROVE  \E r \in room : MovedTo(Moved(t, u, b, s, c), t, u, b, s, c, r)
  <2> DEFINE r == LowestSlot(room)
  <2>1. to = Written(u, c, r, t.mark[b][s], t.idx[b][s])
    BY <1>7 DEF to
  <2>2. r \in room /\ r \in Slot
    BY <1>3, <1>7
  <2> HIDE DEF r, room
  <2>3. /\ to.stray = u.stray
        /\ \A d \in Bucket, q \in Slot :
             /\ to.idx[d][q] = IF d = c /\ q = r THEN t.idx[b][s] ELSE u.idx[d][q]
             /\ to.mark[d][q] = IF d = c /\ q = r THEN t.mark[b][s] ELSE u.mark[d][q]
    BY <1>2, <2>1, <2>2, WrittenIs
  <2>4. LET v == Moved(t, u, b, s, c)
        IN /\ v.stray = to.stray
           /\ \A d \in Bucket, q \in Slot :
                /\ v.idx[d][q] = IF d = b /\ q = s THEN NIL ELSE to.idx[d][q]
                /\ v.mark[d][q] = IF d = b /\ q = s THEN NoMark ELSE to.mark[d][q]
    BY <1>1, <1>4, <1>5, WrittenIs
  <2>5. QED
    BY <2>2, <2>3, <2>4 DEF MovedTo
<1>8. QED
  BY <1>6, <1>7

LEMMA TriedType ==
    ASSUME NEW below \in Kickouts, NEW t \in Tables, NEW b \in Bucket, NEW s \in Slot
    PROVE  Tried(below, t, b, s) \in Results
<1> DEFINE a == AltOf(t, b, s)
           sub == below[t][a]
           u == sub.tab
<1>1. a \in Bucket
  BY AltIn
<1> HIDE DEF a
<1>2. sub \in Results
  BY <1>1 DEF Kickouts
<1> HIDE DEF sub
<1>3. u \in Tables
  BY <1>2 DEF Results
<1>4. Moved(t, u, b, s, a) \in Tables
  BY <1>1, <1>3, MovedIs
<1>5. FindEmpty(u, b) # {} => LowestSlot(FindEmpty(u, b)) \in Slot
  BY LowestSlotIn DEF FindEmpty
<1>6. \A v \in Tables : Failed(v) \in Results /\ \A q \in Slot : Freed(v, q) \in Results
  BY DEF Failed, Freed, Results
<1>7. QED
  BY <1>3, <1>4, <1>5, <1>6 DEF Tried, a, sub

(* Pass 2 ends in whatever holds before its first slot and is handed on by *)
(* every slot that is tried.                                               *)
LEMMA ScannedIn ==
    ASSUME NEW below \in Kickouts, NEW t \in Tables, NEW b \in Bucket,
           NEW P \in SUBSET Results, Failed(t) \in P,
           \A r \in P, s \in Slot : ~(r.pos >= 0) => Tried(below, r.tab, b, s) \in P
    PROVE  Scanned(below, t, b) \in P
<1> DEFINE After(r, n) == IF r.pos >= 0 THEN r ELSE Tried(below, r.tab, b, n)
           G == [n \in Nat |-> [r \in P |-> IF n \in Slot THEN After(r, n) ELSE r]]
           Eqn(g) == g = [n \in 0 .. EntrySz |->
                            IF n = 0 THEN Failed(t)
                            ELSE IF g[n - 1].pos >= 0 THEN g[n - 1]
                                 ELSE Tried(below, g[n - 1].tab, b, n - 1)]
<1>1. G \in [Nat -> [P -> P]]
  OBVIOUS
<1>2. PICK f \in [Nat -> P] : f[0] = Failed(t) /\ \A n \in Nat : f[n + 1] = G[n][f[n]]
  <2>1. G \in Steps(P)
    BY <1>1 DEF Steps
  <2> HIDE DEF G
  <2>2. Iterated(P, Failed(t), G)
    BY <2>1, Iterates
  <2>3. QED
    BY <2>2 DEF Iterated
<1>3. ASSUME NEW s \in Slot PROVE f[s + 1] = After(f[s], s)
  <2> HIDE DEF After
  <2>1. s \in Nat /\ f[s] \in P
    BY SizeAssumption DEF Slot
  <2>2. G[s][f[s]] = After(f[s], s)
    BY <2>1
  <2>3. QED
    BY <1>2, <2>1, <2>2
<1>4. Eqn([n \in 0 .. EntrySz |-> f[n]])
  <2> DEFINE g == [n \in 0 .. EntrySz |-> f[n]]
  <2>1. g[0] = Failed(t)
    BY <1>2, SizeAssumption
  <2>2. ASSUME NEW n \in 0 .. EntrySz, n # 0
        PROVE  g[n] = After(g[n - 1], n - 1)
    <3>1. n - 1 \in Slot /\ n - 1 \in 0 .. EntrySz /\ (n - 1) + 1 = n
      BY <2>2, SizeAssumption DEF Slot
    <3>2. f[(n - 1) + 1] = After(f[n - 1], n - 1)
      BY <1>3, <3>1
    <3>3. QED
      BY <3>1, <3>2
  <2>3. g = [n \in 0 .. EntrySz |-> IF n = 0 THEN Failed(t) ELSE After(g[n - 1], n - 1)]
    <3> HIDE DEF After
    <3>1. \A n \in 0 .. EntrySz :
             g[n] = IF n = 0 THEN Failed(t) ELSE After(g[n - 1], n - 1)
      BY <2>1, <2>2
    <3>2. QED
      BY <3>1
  <2>4. QED
    BY <2>3
<1>5. PICK g : Eqn(g) /\ Scanned(below, t, b) = g[EntrySz]
  BY <1>4, Zenon DEF Scanned
<1>6. g[0] = Failed(t)
  BY <1>5, SizeAssumption
<1>7. ASSUME NEW n \in Nat, n < EntrySz
      PROVE  g[n + 1] = After(g[n], n)
  <2>1. n + 1 \in 0 .. EntrySz /\ n + 1 # 0 /\ (n + 1) - 1 = n
    BY <1>7, SizeAssumption
  <2>2. g[n + 1] = IF g[(n + 1) - 1].pos >= 0 THEN g[(n + 1) - 1]
                   ELSE Tried(below, g[(n + 1) - 1].tab, b, (n + 1) - 1)
    BY <1>5, <2>1
  <2>3. QED
    BY <2>1, <2>2
<1> HIDE DEF Eqn, After
<1> DEFINE S == {n \in Nat : n <= EntrySz => g[n] \in P}
<1>8. 0 \in S
  BY <1>6
<1>9. ASSUME NEW n \in S PROVE n + 1 \in S
  <2>1. CASE n + 1 <= EntrySz
    <3>1. n \in Nat /\ n < EntrySz /\ n \in Slot /\ g[n] \in P
      BY <2>1, SizeAssumption DEF Slot
    <3>2. After(g[n], n) \in P
      BY <3>1 DEF After
    <3>3. QED
      BY <1>7, <3>1, <3>2
  <2>2. QED
    BY <2>1
<1>10. S = Nat
  <2>1. S \in SUBSET Nat
    OBVIOUS
  <2> HIDE DEF S
  <2>2. QED
    BY <1>8, <1>9, <2>1, NatInduct
<1>11. QED
  BY <1>5, <1>10, SizeAssumption

(* One level of the kickout on top of the one below. *)
Level(d, below, t, b) ==
    LET s == LowestSlot(Direct(t, b))
    IN IF d = 0 THEN Failed(t)
       ELSE IF Direct(t, b) # {}
         THEN Freed(Moved(t, t, b, s, AltOf(t, b, s)), s)
       ELSE Scanned(below, t, b)

LevelOf(d, below) == [t \in Tables |-> [b \in Bucket |-> Level(d, below, t, b)]]

LEMMA DirectIn ==
    ASSUME NEW t, NEW b
    PROVE  Direct(t, b) # {} => /\ LowestSlot(Direct(t, b)) \in Direct(t, b)
                                /\ LowestSlot(Direct(t, b)) \in Slot
BY LowestSlotIn DEF Direct

LEMMA LevelType ==
    ASSUME NEW d \in Nat, NEW below \in Kickouts
    PROVE  LevelOf(d, below) \in Kickouts
<1>1. SUFFICES ASSUME NEW t \in Tables, NEW b \in Bucket
               PROVE  Level(d, below, t, b) \in Results
  BY DEF LevelOf, Kickouts
<1>2. Failed(t) \in Results
  BY DEF Failed, Results
<1>3. Scanned(below, t, b) \in Results
  <2>1. \A r \in Results, s \in Slot : Tried(below, r.tab, b, s) \in Results
    BY TriedType DEF Results
  <2> DEFINE P == Results
  <2>2. P \in SUBSET Results /\ Failed(t) \in P
    BY <1>2
  <2>3. \A r \in P, s \in Slot : ~(r.pos >= 0) => Tried(below, r.tab, b, s) \in P
    BY <2>1
  <2> HIDE DEF P
  <2>4. Scanned(below, t, b) \in P
    BY <2>2, <2>3, ScannedIn
  <2>5. QED
    BY <2>4 DEF P
<1>4. ASSUME Direct(t, b) # {}
      PROVE  LET s == LowestSlot(Direct(t, b))
             IN Freed(Moved(t, t, b, s, AltOf(t, b, s)), s) \in Results
  <2> DEFINE s == LowestSlot(Direct(t, b))
  <2>1. s \in Slot
    BY <1>4, DirectIn
  <2> HIDE DEF s
  <2>2. Moved(t, t, b, s, AltOf(t, b, s)) \in Tables
    BY <2>1, AltIn, MovedIs
  <2>3. QED
    BY <2>1, <2>2 DEF Freed, Results, s
<1>5. QED
  BY <1>2, <1>3, <1>4 DEF Level

(* The recursive definition of the kickout has a solution, and so Kickout  *)
(* is one.                                                                 *)
LEMMA KickoutIs ==
    /\ \A d \in Nat : Kickout[d] \in Kickouts
    /\ \A t \in Tables, b \in Bucket : Kickout[0][t][b] = Failed(t)
    /\ \A d \in Nat : \A t \in Tables, b \in Bucket :
         Kickout[d + 1][t][b] = Level(d + 1, Kickout[d], t, b)
<1> DEFINE G == [n \in Nat |-> [g \in Kickouts |-> LevelOf(n + 1, g)]]
           Start == [t \in Tables |-> [b \in Bucket |-> Failed(t)]]
           Eqn(g) == g = [d \in Nat |-> LevelOf(d, g[d - 1])]
<1>1. G \in Steps(Kickouts)
  BY LevelType DEF Steps
<1>2. Start \in Kickouts
  BY DEF Kickouts, Results, Failed
<1>3. PICK f \in [Nat -> Kickouts] :
         f[0] = Start /\ \A n \in Nat : f[n + 1] = G[n][f[n]]
  <2> HIDE DEF G, Start
  <2>1. Iterated(Kickouts, Start, G)
    BY <1>1, <1>2, Iterates
  <2>2. QED
    BY <2>1 DEF Iterated
<1>4. Eqn(f)
  <2>1. \A below : LevelOf(0, below) = Start
    BY DEF LevelOf, Level
  <2>2. ASSUME NEW d \in Nat, d # 0
        PROVE  f[d] = LevelOf(d, f[d - 1])
    <3>1. d - 1 \in Nat /\ (d - 1) + 1 = d
      BY <2>2
    <3>2. f[d - 1] \in Kickouts /\ f[d] = G[d - 1][f[d - 1]]
      BY <1>3, <3>1
    <3>3. QED
      BY <3>1, <3>2
  <2>3. \A d \in Nat : f[d] = LevelOf(d, f[d - 1])
    BY <1>3, <2>1, <2>2
  <2>4. QED
    BY <2>3
<1>5. Eqn(Kickout)
  BY <1>4, Zenon DEF Kickout, LevelOf, Level
<1>6. \A d \in Nat : Kickout[d] = LevelOf(d, Kickout[d - 1])
  BY <1>5
<1>7. Kickout[0] = Start
  BY <1>6 DEF LevelOf, Level
<1>8. ASSUME NEW d \in Nat
      PROVE  Kickout[d + 1] = LevelOf(d + 1, Kickout[d])
  <2>1. d + 1 \in Nat /\ (d + 1) - 1 = d
    OBVIOUS
  <2>2. Kickout[d + 1] = LevelOf(d + 1, Kickout[(d + 1) - 1])
    BY <1>6, <2>1
  <2>3. QED
    BY <2>1, <2>2
<1> DEFINE S == {d \in Nat : Kickout[d] \in Kickouts}
<1>9. 0 \in S
  BY <1>2, <1>7
<1>10. ASSUME NEW d \in S PROVE d + 1 \in S
  BY <1>8, LevelType
<1>11. S = Nat
  <2>1. S \in SUBSET Nat
    OBVIOUS
  <2> HIDE DEF S
  <2>2. QED
    BY <1>9, <1>10, <2>1, NatInduct
<1>12. \A t \in Tables, b \in Bucket : Kickout[0][t][b] = Failed(t)
  BY <1>7
<1>13. ASSUME NEW d \in Nat, NEW t \in Tables, NEW b \in Bucket
       PROVE  Kickout[d + 1][t][b] = Level(d + 1, Kickout[d], t, b)
  <2>1. LevelOf(d + 1, Kickout[d])[t][b] = Level(d + 1, Kickout[d], t, b)
    BY DEF LevelOf
  <2>2. QED
    BY <1>8, <2>1
<1>14. \A d \in Nat : Kickout[d] \in Kickouts
  BY <1>11
<1>15. QED
  BY <1>12, <1>13, <1>14

-----------------------------------------------------------------------------
(* The order of a table *)

InOrder(t) ==
    /\ t \in Tables
    /\ ~t.stray
    /\ OneSlot(t.idx)
    /\ \A b \in Bucket, s \in Slot :
         LET n == t.idx[b][s]
         IN IF n = NIL THEN t.mark[b][s] = NoMark
            ELSE /\ t.mark[b][s] = Mark(KeyOf[n])
                 /\ b \in Cands(KeyOf[n])

LEMMA InOrderType ==
    ASSUME NEW t, InOrder(t)
    PROVE  t \in Tables /\ t.idx \in Table
BY DEF InOrder, Tables, Table

LEMMA NodeKeys ==
    ASSUME NEW n \in Nodes
    PROVE  /\ KeyOf[n] \in Keys
           /\ Mark(KeyOf[n]) # NoMark
           /\ Mark(KeyOf[n]) \in Marks
           /\ Cands(KeyOf[n]) \subseteq Bucket
<1>1. KeyOf[n] \in Keys
  BY KeyAssumption
<1>2. QED
  BY <1>1, HashTypes, InvalidAssumption DEF Mark, NoMark, Marks, Cands

LEMMA OccupantIs ==
    ASSUME NEW t, InOrder(t), NEW b \in Bucket, NEW s \in Slot,
           t.idx[b][s] # NIL
    PROVE  /\ t.idx[b][s] \in Nodes
           /\ t.mark[b][s] = Mark(KeyOf[t.idx[b][s]])
           /\ b \in Cands(KeyOf[t.idx[b][s]])
           /\ AltOf(t, b, s) = IF b = Bk0(KeyOf[t.idx[b][s]])
                                THEN Bk1(KeyOf[t.idx[b][s]])
                                ELSE Bk0(KeyOf[t.idx[b][s]])
           /\ AltOf(t, b, s) \in Cands(KeyOf[t.idx[b][s]])
           /\ AltOf(t, b, s) # b
<1>1. t.idx[b][s] \in Nodes
  BY DEF InOrder, Tables, NodeOrNil
<1>2. /\ t.mark[b][s] = Mark(KeyOf[t.idx[b][s]])
      /\ b \in Cands(KeyOf[t.idx[b][s]])
  BY DEF InOrder
<1>3. KeyAt(t, b, s) = KeyOf[t.idx[b][s]]
  BY <1>2 DEF KeyAt, Mark
<1>4. Bk0(KeyOf[t.idx[b][s]]) # Bk1(KeyOf[t.idx[b][s]])
  BY <1>1, NodeKeys, HashTypes
<1>5. QED
  BY <1>1, <1>2, <1>3, <1>4 DEF AltOf, Cands

(* A slot that keeps no mark keeps no element, and the other way round.    *)
LEMMA RoomIs ==
    ASSUME NEW t, InOrder(t), NEW b \in Bucket
    PROVE  FindEmpty(t, b) = Room(t.idx, b)
<1>1. SUFFICES ASSUME NEW s \in Slot
               PROVE  t.mark[b][s] = NoMark <=> t.idx[b][s] = NIL
  BY DEF FindEmpty, Room
<1>2. CASE t.idx[b][s] = NIL
  BY <1>2 DEF InOrder
<1>3. CASE t.idx[b][s] # NIL
  BY <1>3, OccupantIs, NodeKeys
<1>4. QED
  BY <1>2, <1>3

(* An occupant that has not moved since u came from t goes to the room in  *)
(* its other bucket.                                                       *)
LEMMA MovedKeeps ==
    ASSUME NEW t, InOrder(t), NEW u, InOrder(u),
           NEW b \in Bucket, NEW s \in Slot, t.idx[b][s] # NIL,
           u.idx[b][s] = t.idx[b][s], FindEmpty(u, AltOf(t, b, s)) # {}
    PROVE  LET v == Moved(t, u, b, s, AltOf(t, b, s))
           IN /\ InOrder(v)
              /\ LinkedIn(v.idx) = LinkedIn(u.idx)
              /\ v.idx[b][s] = NIL
              /\ \E r \in Room(u.idx, AltOf(t, b, s)) :
                   \A d \in Bucket, q \in Slot :
                     v.idx[d][q] = IF d = b /\ q = s THEN NIL
                                   ELSE IF d = AltOf(t, b, s) /\ q = r
                                     THEN t.idx[b][s]
                                   ELSE u.idx[d][q]
<1> DEFINE a == AltOf(t, b, s)
           n == t.idx[b][s]
           v == Moved(t, u, b, s, a)
<1>1. /\ n \in Nodes /\ n # NIL
      /\ t.mark[b][s] = Mark(KeyOf[n])
      /\ a \in Cands(KeyOf[n]) /\ a # b
  BY OccupantIs
<1>2. a \in Bucket
  BY AltIn
<1>3. t \in Tables /\ u \in Tables
  BY InOrderType
<1>4. v \in Tables
  BY <1>2, <1>3, MovedIs
<1>5. PICK r \in FindEmpty(u, a) : MovedTo(v, t, u, b, s, a, r)
  BY <1>2, <1>3, MovedIs
<1>at. /\ v.stray = u.stray
       /\ \A d \in Bucket, q \in Slot :
            /\ v.idx[d][q] = IF d = b /\ q = s THEN NIL
                             ELSE IF d = a /\ q = r THEN n ELSE u.idx[d][q]
            /\ v.mark[d][q] = IF d = b /\ q = s THEN NoMark
                              ELSE IF d = a /\ q = r THEN Mark(KeyOf[n])
                              ELSE u.mark[d][q]
  BY <1>1, <1>5 DEF MovedTo
<1>6. r \in Room(u.idx, a) /\ r \in Slot /\ u.idx[a][r] = NIL
  BY <1>2, <1>5, RoomIs DEF Room
<1>0. u.idx[b][s] = n
  OBVIOUS
<1> HIDE DEF a, n, v
<1>7. OneSlot(v.idx)
  BY <1>0, <1>1, <1>2, <1>at, <1>6 DEF OneSlot, InOrder
<1>8. ASSUME NEW d \in Bucket, NEW q \in Slot
      PROVE  LET m == v.idx[d][q]
             IN IF m = NIL THEN v.mark[d][q] = NoMark
                ELSE v.mark[d][q] = Mark(KeyOf[m]) /\ d \in Cands(KeyOf[m])
  BY <1>1, <1>at DEF InOrder
<1>9. InOrder(v)
  BY <1>4, <1>at, <1>7, <1>8 DEF InOrder
<1>10. LinkedIn(v.idx) \subseteq LinkedIn(u.idx)
  BY <1>0, <1>1, <1>at DEF LinkedIn
<1>11. LinkedIn(u.idx) \subseteq LinkedIn(v.idx)
  <2>1. SUFFICES ASSUME NEW d \in Bucket, NEW q \in Slot, u.idx[d][q] # NIL
                 PROVE  \E c \in Bucket, p \in Slot : v.idx[c][p] = u.idx[d][q]
    BY DEF LinkedIn
  <2>2. CASE d = b /\ q = s
    BY <1>0, <1>1, <1>2, <1>at, <1>6, <2>2
  <2>3. CASE ~(d = b /\ q = s)
    BY <1>at, <1>6, <2>1, <2>3
  <2>4. QED
    BY <2>2, <2>3
<1>12. v.idx[b][s] = NIL
  BY <1>at
<1>13. QED
  BY <1>at, <1>6, <1>9, <1>10, <1>11, <1>12 DEF a, n, v

(* What a kickout of bucket b may make of table t: the same elements, in   *)
(* order, and on success an empty slot of b.                               *)
Kept(t, b, r) ==
    /\ InOrder(r.tab)
    /\ LinkedIn(r.tab.idx) = LinkedIn(t.idx)
    /\ \/ r.pos = -1
       \/ r.pos \in Slot /\ r.tab.idx[b][r.pos] = NIL

LEMMA FailedKeeps ==
    ASSUME NEW t, NEW u, InOrder(u), LinkedIn(u.idx) = LinkedIn(t.idx), NEW b
    PROVE  Kept(t, b, Failed(u))
BY DEF Kept, Failed

LEMMA FreedKeeps ==
    ASSUME NEW t, NEW u, InOrder(u), LinkedIn(u.idx) = LinkedIn(t.idx),
           NEW b, NEW s \in Slot, u.idx[b][s] = NIL
    PROVE  Kept(t, b, Freed(u, s))
BY DEF Kept, Freed

LEMMA TriedKeeps ==
    ASSUME NEW below \in Kickouts,
           \A u \in Tables, a \in Bucket : InOrder(u) => Kept(u, a, below[u][a]),
           NEW t, InOrder(t), NEW b \in Bucket, NEW s \in Slot
    PROVE  Kept(t, b, Tried(below, t, b, s))
<1> DEFINE a == AltOf(t, b, s)
           sub == below[t][a]
           u == sub.tab
<1>1. CASE t.idx[b][s] = NIL
  <2>1. Tried(below, t, b, s) = Failed(t)
    BY <1>1 DEF Tried
  <2>2. QED
    BY <2>1, FailedKeeps
<1>2. CASE t.idx[b][s] # NIL
  <2>1. a \in Bucket /\ t \in Tables
    BY AltIn, InOrderType
  <2> HIDE DEF a
  <2>2. Kept(t, a, sub)
    BY <2>1
  <2> HIDE DEF sub
  <2>3. InOrder(u) /\ LinkedIn(u.idx) = LinkedIn(t.idx)
    BY <2>2 DEF Kept
  <2>4. CASE sub.pos = -1
    <3>1. Tried(below, t, b, s) = Failed(u)
      BY <1>2, <2>4 DEF Tried, a, sub
    <3> HIDE DEF u
    <3>2. QED
      BY <2>3, <3>1, FailedKeeps
  <2>5. CASE sub.pos # -1 /\ ~Changed(t, u, b, s)
    <3>1. Tried(below, t, b, s) = Freed(Moved(t, u, b, s, a), s)
      BY <1>2, <2>5 DEF Tried, a, sub
    <3>2. sub.pos \in Slot /\ u.idx[a][sub.pos] = NIL
      BY <2>2, <2>5 DEF Kept
    <3>3. FindEmpty(u, a) # {}
      BY <2>1, <2>3, <3>2, RoomIs DEF Room
    <3>4. u.idx[b][s] = t.idx[b][s]
      BY <2>5 DEF Changed
    <3> HIDE DEF u
    <3>5. /\ InOrder(Moved(t, u, b, s, a))
          /\ LinkedIn(Moved(t, u, b, s, a).idx) = LinkedIn(u.idx)
          /\ Moved(t, u, b, s, a).idx[b][s] = NIL
      BY <1>2, <2>3, <3>3, <3>4, MovedKeeps DEF a
    <3>6. QED
      BY <2>3, <3>1, <3>5, FreedKeeps
  <2>6. CASE sub.pos # -1 /\ Changed(t, u, b, s) /\ FindEmpty(u, b) # {}
    <3>1. Tried(below, t, b, s) = Freed(u, LowestSlot(FindEmpty(u, b)))
      BY <1>2, <2>6 DEF Tried, a, sub
    <3>2. LowestSlot(FindEmpty(u, b)) \in Room(u.idx, b)
      <4>1. FindEmpty(u, b) \in SUBSET Slot
        BY DEF FindEmpty
      <4>2. LowestSlot(FindEmpty(u, b)) \in FindEmpty(u, b)
        BY <2>6, <4>1, LowestSlotIn
      <4>3. QED
        BY <2>3, <4>2, RoomIs
    <3> HIDE DEF u
    <3>3. QED
      BY <2>3, <3>1, <3>2, FreedKeeps DEF Room
  <2>7. CASE sub.pos # -1 /\ Changed(t, u, b, s) /\ FindEmpty(u, b) = {}
    <3>1. Tried(below, t, b, s) = Failed(u)
      BY <1>2, <2>7 DEF Tried, a, sub
    <3> HIDE DEF u
    <3>2. QED
      BY <2>3, <3>1, FailedKeeps
  <2>8. QED
    BY <2>4, <2>5, <2>6, <2>7
<1>3. QED
  BY <1>1, <1>2

LEMMA ScannedKeeps ==
    ASSUME NEW below \in Kickouts,
           \A u \in Tables, a \in Bucket : InOrder(u) => Kept(u, a, below[u][a]),
           NEW t, InOrder(t), NEW b \in Bucket
    PROVE  Kept(t, b, Scanned(below, t, b))
<1> DEFINE P == {r \in Results : Kept(t, b, r)}
<1>1. P \in SUBSET Results
  OBVIOUS
<1>2. Failed(t) \in P
  BY FailedKeeps, InOrderType DEF Failed, Results
<1>3. ASSUME NEW r \in P, NEW s \in Slot
      PROVE  Tried(below, r.tab, b, s) \in P
  <2>1. InOrder(r.tab) /\ LinkedIn(r.tab.idx) = LinkedIn(t.idx)
    BY DEF Kept
  <2>2. Kept(r.tab, b, Tried(below, r.tab, b, s))
    BY <2>1, TriedKeeps
  <2>3. Tried(below, r.tab, b, s) \in Results
    BY <2>1, InOrderType, TriedType
  <2>4. QED
    BY <2>1, <2>2, <2>3 DEF Kept
<1> HIDE DEF P
<1>4. t \in Tables
  BY InOrderType
<1>5. Scanned(below, t, b) \in P
  BY <1>1, <1>2, <1>3, <1>4, ScannedIn
<1>6. QED
  BY <1>5 DEF P

LEMMA DirectKeeps ==
    ASSUME NEW t, InOrder(t), NEW b \in Bucket, NEW s \in Direct(t, b)
    PROVE  Kept(t, b, Freed(Moved(t, t, b, s, AltOf(t, b, s)), s))
<1>1. s \in Slot /\ t.idx[b][s] # NIL /\ FindEmpty(t, AltOf(t, b, s)) # {}
  BY DEF Direct
<1> DEFINE v == Moved(t, t, b, s, AltOf(t, b, s))
<1>2. InOrder(v) /\ LinkedIn(v.idx) = LinkedIn(t.idx) /\ v.idx[b][s] = NIL
  BY <1>1, MovedKeeps
<1> HIDE DEF v
<1>3. Kept(t, b, Freed(v, s))
  BY <1>1, <1>2, FreedKeeps
<1>4. QED
  BY <1>3 DEF v

(* At every depth a kickout keeps the elements and the order of the table. *)
LEMMA KickoutKeeps ==
    \A d \in Nat : \A t \in Tables, b \in Bucket :
       InOrder(t) => Kept(t, b, Kickout[d][t][b])
<1> DEFINE Good(d) == \A t \in Tables, b \in Bucket :
                         InOrder(t) => Kept(t, b, Kickout[d][t][b])
           S == {d \in Nat : Good(d)}
<1>1. 0 \in S
  BY KickoutIs, FailedKeeps
<1>2. ASSUME NEW d \in S PROVE d + 1 \in S
  <2>1. d \in Nat /\ d + 1 \in Nat /\ d + 1 # 0 /\ Good(d)
    OBVIOUS
  <2>2. ASSUME NEW t \in Tables, NEW b \in Bucket, InOrder(t)
        PROVE  Kept(t, b, Level(d + 1, Kickout[d], t, b))
    <3>1. CASE Direct(t, b) # {}
      <4> DEFINE s == LowestSlot(Direct(t, b))
      <4>1. s \in Direct(t, b)
        BY <3>1, DirectIn
      <4>2. Level(d + 1, Kickout[d], t, b) = Freed(Moved(t, t, b, s, AltOf(t, b, s)), s)
        BY <2>1, <3>1 DEF Level
      <4> HIDE DEF s
      <4>3. QED
        BY <2>2, <4>1, <4>2, DirectKeeps
    <3>2. CASE Direct(t, b) = {}
      <4>1. Level(d + 1, Kickout[d], t, b) = Scanned(Kickout[d], t, b)
        BY <2>1, <3>2 DEF Level
      <4>2. Kickout[d] \in Kickouts
        BY <2>1, KickoutIs
      <4>3. QED
        BY <2>1, <2>2, <4>1, <4>2, ScannedKeeps
    <3>3. QED
      BY <3>1, <3>2
  <2>3. Good(d + 1)
    BY <2>1, <2>2, KickoutIs
  <2>4. QED
    BY <2>1, <2>3
<1>3. S = Nat
  <2>1. S \in SUBSET Nat
    OBVIOUS
  <2> HIDE DEF S
  <2>2. QED
    BY <1>1, <1>2, <2>1, NatInduct
<1>4. QED
  BY <1>3

-----------------------------------------------------------------------------
(* A failed kickout of the code's depth leaves the table as it was.  The   *)
(* buckets that matter are those from which nothing can be moved at once:  *)
(* what a kickout waits for, and could find changed, lies in them.         *)

Stuck(t, b) == FindEmpty(t, b) = {} /\ Direct(t, b) = {}

(* The slots q of a stuck bucket c that a successful kickout of bucket a   *)
(* may change with d levels: none with one, those of a whose occupants     *)
(* lead out of the stuck buckets with two, and with three any of a and     *)
(* the others that lead out.                                               *)
Disturbs(d, t, a, c, q) ==
    /\ Stuck(t, a)
    /\ \/ d = 2 /\ c = a /\ ~Stuck(t, AltOf(t, c, q))
       \/ d = 3 /\ (c = a \/ ~Stuck(t, AltOf(t, c, q)))

Within(d, t, a, r) ==
    /\ d = 0 => r.pos = -1
    /\ r.pos = -1 => r.tab = t
    /\ r.pos # -1 /\ d = 1 => ~Stuck(t, a)
    /\ r.pos # -1 /\ d <= 3 =>
         \A c \in Bucket, q \in Slot :
           Stuck(t, c) /\ r.tab.idx[c][q] # t.idx[c][q] => Disturbs(d, t, a, c, q)

LEMMA FailedWithin ==
    ASSUME NEW d, NEW t, NEW a
    PROVE  Within(d, t, a, Failed(t))
BY DEF Within, Failed

LEMMA TriedWithin ==
    ASSUME NEW d \in 0 .. 3, NEW below \in Kickouts,
           NEW t \in Tables, InOrder(t),
           \A a \in Bucket : Kept(t, a, below[t][a]),
           \A a \in Bucket : FindEmpty(t, a) = {} => Within(d, t, a, below[t][a]),
           NEW b \in Bucket, Stuck(t, b), NEW s \in Slot
    PROVE  Within(d + 1, t, b, Tried(below, t, b, s))
<1> DEFINE a == AltOf(t, b, s)
           sub == below[t][a]
           u == sub.tab
           v == Moved(t, u, b, s, a)
<1>1. CASE t.idx[b][s] = NIL
  <2>1. Tried(below, t, b, s) = Failed(t)
    BY <1>1 DEF Tried
  <2>2. QED
    BY <2>1, FailedWithin
<1>2. CASE t.idx[b][s] # NIL
  <2>1. a \in Bucket /\ a # b
    BY <1>2, AltIn, OccupantIs
  <2>2. FindEmpty(t, a) = {}
    BY <1>2 DEF Stuck, Direct
  <2>3. Within(d, t, a, sub) /\ Kept(t, a, sub)
    BY <2>1, <2>2
  <2>4. CASE sub.pos = -1
    <3>1. Tried(below, t, b, s) = Failed(t)
      BY <1>2, <2>3, <2>4 DEF Tried, Within
    <3>2. QED
      BY <3>1, FailedWithin
  <2>5. CASE sub.pos # -1
    <3>1. InOrder(u) /\ sub.pos \in Slot /\ u.idx[a][sub.pos] = NIL
      BY <2>3, <2>5 DEF Kept
    <3>2. d # 0 /\ d \in {1, 2, 3}
      BY <2>3, <2>5 DEF Within
    <3>3. \A c \in Bucket, q \in Slot :
             Stuck(t, c) /\ u.idx[c][q] # t.idx[c][q] => Disturbs(d, t, a, c, q)
      BY <2>3, <2>5 DEF Within
    <3>4. u.idx[b][s] = t.idx[b][s]
      BY <2>1, <3>2, <3>3 DEF Disturbs
    <3>5. u.mark[b][s] = t.mark[b][s]
      BY <1>2, <3>1, <3>4, OccupantIs
    <3>6. Tried(below, t, b, s) = Freed(v, s)
      BY <1>2, <2>5, <3>4, <3>5 DEF Tried, Changed
    <3>7. FindEmpty(u, a) # {}
      <4> HIDE DEF a, u, sub
      <4>1. QED
        BY <2>1, <3>1, RoomIs DEF Room
    <3>8. PICK r \in Room(u.idx, a) :
             \A c \in Bucket, q \in Slot :
               v.idx[c][q] = IF c = b /\ q = s THEN NIL
                             ELSE IF c = a /\ q = r THEN t.idx[b][s]
                             ELSE u.idx[c][q]
      <4> HIDE DEF u, sub
      <4>1. QED
        BY <1>2, <3>1, <3>4, <3>7, MovedKeeps
    <3>9. r \in Slot /\ u.idx[a][r] = NIL
      BY DEF Room
    <3>10. t.idx[a][r] # NIL
      <4> HIDE DEF a
      <4>1. QED
        BY <2>1, <2>2, <3>9, RoomIs DEF Room
    <3>11. d = 1 => ~Stuck(t, a)
      BY <2>3, <2>5 DEF Within
    <3> HIDE DEF u, v, sub
    <3>12. ASSUME d + 1 <= 3, NEW c \in Bucket, NEW q \in Slot,
                  Stuck(t, c), v.idx[c][q] # t.idx[c][q]
           PROVE  Disturbs(d + 1, t, b, c, q)
      <4>1. d = 1 \/ d = 2
        BY <3>2, <3>12
      <4>2. CASE c = b /\ q = s
        BY <3>11, <4>1, <4>2 DEF Disturbs
      <4>3. CASE c = a /\ q = r
        <5>1. d = 2
          BY <3>11, <3>12, <4>1, <4>3
        <5>2. Disturbs(d, t, a, a, r)
          BY <2>1, <3>3, <3>9, <3>10, <3>12, <4>3
        <5>3. QED
          BY <4>3, <5>1, <5>2 DEF Disturbs
      <4>4. CASE ~(c = b /\ q = s) /\ ~(c = a /\ q = r)
        <5>1. u.idx[c][q] # t.idx[c][q]
          BY <3>8, <3>12, <4>4
        <5>2. Disturbs(d, t, a, c, q)
          BY <3>3, <3>12, <5>1
        <5>3. QED
          BY <4>1, <5>2 DEF Disturbs
      <4>5. QED
        BY <4>2, <4>3, <4>4
    <3>13. s # -1
      BY SizeAssumption DEF Slot
    <3>14. d + 1 # 0 /\ d + 1 # 1
      BY <3>2
    <3>15. Freed(v, s).pos = s /\ Freed(v, s).tab = v
      BY DEF Freed
    <3>16. QED
      BY <3>6, <3>12, <3>13, <3>14, <3>15 DEF Within
  <2>6. QED
    BY <2>4, <2>5
<1>3. QED
  BY <1>1, <1>2

LEMMA DirectWithin ==
    ASSUME NEW d \in Nat, d # 0, NEW t, InOrder(t), NEW b \in Bucket,
           NEW s \in Direct(t, b)
    PROVE  Within(d, t, b, Freed(Moved(t, t, b, s, AltOf(t, b, s)), s))
<1> DEFINE a == AltOf(t, b, s)
           v == Moved(t, t, b, s, a)
<1>1. s \in Slot /\ t.idx[b][s] # NIL /\ FindEmpty(t, a) # {}
  BY DEF Direct
<1>2. ~Stuck(t, b) /\ ~Stuck(t, a)
  BY <1>1 DEF Stuck
<1>3. PICK r \in Room(t.idx, a) :
         \A c \in Bucket, q \in Slot :
           v.idx[c][q] = IF c = b /\ q = s THEN NIL
                         ELSE IF c = a /\ q = r THEN t.idx[b][s]
                         ELSE t.idx[c][q]
  BY <1>1, MovedKeeps
<1> HIDE DEF a, v
<1>4. ASSUME NEW c \in Bucket, NEW q \in Slot, Stuck(t, c)
      PROVE  v.idx[c][q] = t.idx[c][q]
  BY <1>2, <1>3, <1>4
<1>5. Freed(v, s).pos = s /\ Freed(v, s).tab = v /\ s # -1
  BY <1>1, SizeAssumption DEF Freed, Slot
<1>6. Within(d, t, b, Freed(v, s))
  BY <1>2, <1>4, <1>5 DEF Within
<1>7. QED
  BY <1>6 DEF a, v

LEMMA KickoutWithin ==
    \A d \in 0 .. 4 : \A t \in Tables, b \in Bucket :
       InOrder(t) /\ FindEmpty(t, b) = {} => Within(d, t, b, Kickout[d][t][b])
<1> DEFINE Holds(d) == \A t \in Tables, b \in Bucket :
                          InOrder(t) /\ FindEmpty(t, b) = {}
                            => Within(d, t, b, Kickout[d][t][b])
           S == {d \in Nat : d <= 4 => Holds(d)}
<1>1. 0 \in S
  BY KickoutIs, FailedWithin
<1>2. ASSUME NEW d \in S PROVE d + 1 \in S
  <2>1. SUFFICES ASSUME d + 1 <= 4 PROVE Holds(d + 1)
    OBVIOUS
  <2>2. d \in 0 .. 3 /\ d \in Nat /\ d + 1 \in Nat /\ d + 1 # 0 /\ Holds(d)
    BY <2>1
  <2>3. SUFFICES ASSUME NEW t \in Tables, NEW b \in Bucket,
                        InOrder(t), FindEmpty(t, b) = {}
                 PROVE  Within(d + 1, t, b, Level(d + 1, Kickout[d], t, b))
    BY <2>2, KickoutIs
  <2>4. CASE Direct(t, b) # {}
    <3> DEFINE s == LowestSlot(Direct(t, b))
    <3>1. s \in Direct(t, b)
      BY <2>4, DirectIn
    <3>2. Level(d + 1, Kickout[d], t, b) = Freed(Moved(t, t, b, s, AltOf(t, b, s)), s)
      BY <2>2, <2>4 DEF Level
    <3> HIDE DEF s
    <3>3. QED
      BY <2>2, <2>3, <3>1, <3>2, DirectWithin
  <2>5. CASE Direct(t, b) = {}
    <3>1. Level(d + 1, Kickout[d], t, b) = Scanned(Kickout[d], t, b)
      BY <2>2, <2>5 DEF Level
    <3>2. Kickout[d] \in Kickouts
      BY <2>2, KickoutIs
    <3>3. Stuck(t, b)
      BY <2>3, <2>5 DEF Stuck
    <3>4. \A a \in Bucket : Kept(t, a, Kickout[d][t][a])
      BY <2>2, <2>3, KickoutKeeps
    <3>5. \A a \in Bucket : FindEmpty(t, a) = {} => Within(d, t, a, Kickout[d][t][a])
      BY <2>2, <2>3
    <3> DEFINE P == {r \in Results : Within(d + 1, t, b, r)}
    <3>6. P \in SUBSET Results
      OBVIOUS
    <3>7. Failed(t) \in P
      BY FailedWithin DEF Failed, Results
    <3>8. ASSUME NEW r \in P, NEW s \in Slot, ~(r.pos >= 0)
          PROVE  Tried(Kickout[d], r.tab, b, s) \in P
      <4>1. r.pos = -1
        BY <3>8, SizeAssumption DEF Results, Slot
      <4>2. r.tab = t
        BY <4>1 DEF Within
      <4>3. Within(d + 1, t, b, Tried(Kickout[d], t, b, s))
        BY <2>2, <2>3, <3>2, <3>3, <3>4, <3>5, TriedWithin
      <4>4. Tried(Kickout[d], t, b, s) \in Results
        BY <3>2, TriedType
      <4>5. QED
        BY <4>2, <4>3, <4>4
    <3> HIDE DEF P
    <3>9. Scanned(Kickout[d], t, b) \in P
      BY <3>2, <3>6, <3>7, <3>8, ScannedIn
    <3>10. QED
      BY <3>1, <3>9 DEF P
  <2>6. QED
    BY <2>4, <2>5
<1>3. S = Nat
  <2>1. S \in SUBSET Nat
    OBVIOUS
  <2> HIDE DEF S
  <2>2. QED
    BY <1>1, <1>2, <2>1, NatInduct
<1>4. QED
  BY <1>3

-----------------------------------------------------------------------------
(* What find, insert and remove do to a table in order *)

(* find returns the linked element of its key, or NIL if there is none.    *)
LEMMA FindIs ==
    ASSUME NEW t, InOrder(t), NEW k \in Keys
    PROVE  \/ Find(t, k) \in LinkedIn(t.idx) /\ KeyOf[Find(t, k)] = k
           \/ Find(t, k) = NIL /\ \A n \in LinkedIn(t.idx) : KeyOf[n] # k
<1>1. ASSUME NEW b \in Bucket, NEW s \in Slot
      PROVE  s \in Hits(t, b, k) <=> t.idx[b][s] # NIL /\ KeyOf[t.idx[b][s]] = k
  <2>1. CASE t.idx[b][s] = NIL
    <3>1. t.mark[b][s] = NoMark
      BY <2>1 DEF InOrder
    <3>2. Mark(k) # NoMark
      BY HashTypes, InvalidAssumption DEF Mark, NoMark
    <3>3. QED
      BY <2>1, <3>1, <3>2 DEF Hits
  <2>2. CASE t.idx[b][s] # NIL
    <3>1. t.mark[b][s] = Mark(KeyOf[t.idx[b][s]])
      BY <2>2, OccupantIs
    <3>2. QED
      BY <2>2, <3>1 DEF Hits, Mark
  <2>3. QED
    BY <2>1, <2>2
<1> DEFINE b == IF Hits(t, Bk0(k), k) # {} THEN Bk0(k) ELSE Bk1(k)
<1>2. Bk0(k) \in Bucket /\ Bk1(k) \in Bucket /\ b \in Bucket
  BY HashTypes
<1>3. CASE Hits(t, b, k) # {}
  <2> DEFINE s == LowestSlot(Hits(t, b, k))
  <2>1. Hits(t, b, k) \in SUBSET Slot
    BY DEF Hits
  <2>2. s \in Slot /\ s \in Hits(t, b, k)
    <3> HIDE DEF b
    <3>1. QED
      BY <1>3, <2>1, LowestSlotIn
  <2>3. Find(t, k) = t.idx[b][s]
    BY <1>3 DEF Find
  <2> HIDE DEF b, s
  <2>4. QED
    BY <1>1, <1>2, <2>2, <2>3 DEF LinkedIn
<1>4. CASE Hits(t, b, k) = {}
  <2>1. Hits(t, Bk0(k), k) = {} /\ Hits(t, Bk1(k), k) = {}
    BY <1>4
  <2>2. Find(t, k) = NIL
    BY <1>4 DEF Find
  <2>3. ASSUME NEW n \in LinkedIn(t.idx), KeyOf[n] = k PROVE FALSE
    <3>1. PICK c \in Bucket, s \in Slot : t.idx[c][s] = n /\ n # NIL
      BY DEF LinkedIn
    <3>2. c \in Cands(k)
      BY <2>3, <3>1, OccupantIs
    <3>3. s \in Hits(t, c, k)
      BY <1>1, <2>3, <3>1
    <3>4. QED
      BY <2>1, <3>2, <3>3 DEF Cands
  <2>4. QED
    BY <2>2, <2>3
<1>5. QED
  BY <1>3, <1>4

LEMMA WrittenLinks ==
    ASSUME NEW t, InOrder(t), NEW n \in Nodes, n \notin LinkedIn(t.idx),
           NEW b \in Cands(KeyOf[n]), NEW s \in Slot, t.idx[b][s] = NIL
    PROVE  LET v == Written(t, b, s, Mark(KeyOf[n]), n)
           IN InOrder(v) /\ LinkedIn(v.idx) = LinkedIn(t.idx) \cup {n}
<1> DEFINE v == Written(t, b, s, Mark(KeyOf[n]), n)
<1>1. t \in Tables /\ b \in Bucket /\ n \in NodeOrNil /\ n # NIL
  BY InOrderType, NodeKeys, NilAssumption DEF NodeOrNil
<1>2. /\ v \in Tables /\ v.stray = t.stray
      /\ \A c \in Bucket, r \in Slot :
           /\ v.idx[c][r] = IF c = b /\ r = s THEN n ELSE t.idx[c][r]
           /\ v.mark[c][r] = IF c = b /\ r = s THEN Mark(KeyOf[n]) ELSE t.mark[c][r]
  BY <1>1, NodeKeys, WrittenIs
<1> HIDE DEF v
<1>3. \A c \in Bucket, r \in Slot : t.idx[c][r] # n
  BY <1>1 DEF LinkedIn
<1>4. OneSlot(v.idx)
  BY <1>2, <1>3 DEF OneSlot, InOrder
<1>5. ASSUME NEW d \in Bucket, NEW q \in Slot
      PROVE  LET m == v.idx[d][q]
             IN IF m = NIL THEN v.mark[d][q] = NoMark
                ELSE v.mark[d][q] = Mark(KeyOf[m]) /\ d \in Cands(KeyOf[m])
  BY <1>1, <1>2 DEF InOrder
<1>6. InOrder(v)
  BY <1>2, <1>4, <1>5 DEF InOrder
<1>7. LinkedIn(v.idx) \subseteq LinkedIn(t.idx) \cup {n}
  BY <1>2 DEF LinkedIn
<1>8. n \in LinkedIn(v.idx)
  BY <1>1, <1>2 DEF LinkedIn
<1>9. LinkedIn(t.idx) \subseteq LinkedIn(v.idx)
  BY <1>2 DEF LinkedIn
<1>10. QED
  BY <1>6, <1>7, <1>8, <1>9 DEF v

LEMMA WrittenClears ==
    ASSUME NEW t, InOrder(t), NEW b \in Bucket, NEW s \in Slot, t.idx[b][s] # NIL
    PROVE  LET v == Written(t, b, s, NoMark, NIL)
           IN InOrder(v) /\ LinkedIn(v.idx) = LinkedIn(t.idx) \ {t.idx[b][s]}
<1> DEFINE v == Written(t, b, s, NoMark, NIL)
           n == t.idx[b][s]
<1>1. t \in Tables /\ NIL \in NodeOrNil /\ NoMark \in Marks
  BY InOrderType DEF NodeOrNil, NoMark, Marks, Hash
<1>2. /\ v \in Tables /\ v.stray = t.stray
      /\ \A c \in Bucket, r \in Slot :
           /\ v.idx[c][r] = IF c = b /\ r = s THEN NIL ELSE t.idx[c][r]
           /\ v.mark[c][r] = IF c = b /\ r = s THEN NoMark ELSE t.mark[c][r]
  BY <1>1, WrittenIs
<1> HIDE DEF v
<1>3. \A c \in Bucket, r \in Slot : t.idx[c][r] = n => c = b /\ r = s
  BY DEF InOrder, OneSlot
<1>4. OneSlot(v.idx)
  BY <1>2 DEF OneSlot, InOrder
<1>5. ASSUME NEW d \in Bucket, NEW q \in Slot
      PROVE  LET m == v.idx[d][q]
             IN IF m = NIL THEN v.mark[d][q] = NoMark
                ELSE v.mark[d][q] = Mark(KeyOf[m]) /\ d \in Cands(KeyOf[m])
  BY <1>2 DEF InOrder
<1>6. InOrder(v)
  BY <1>2, <1>4, <1>5 DEF InOrder
<1>7. LinkedIn(v.idx) \subseteq LinkedIn(t.idx) \ {n}
  BY <1>2, <1>3 DEF LinkedIn
<1>8. LinkedIn(t.idx) \ {n} \subseteq LinkedIn(v.idx)
  BY <1>2 DEF LinkedIn
<1>9. QED
  BY <1>6, <1>7, <1>8 DEF v, n

-----------------------------------------------------------------------------
(* The inductive invariant *)

L == LinkedIn(tab.idx)

IInv ==
    /\ build \in [keyed : BOOLEAN, depth : FollowDepths]
    /\ InOrder(tab)
    /\ IsFiniteSet(L)
    /\ nb = Cardinality(L)
    /\ KeysDiffer(L, KeyOf)

Absent(n) == \A m \in L : KeyOf[m] # KeyOf[n]

(* What a call may come to. *)
Links(n) ==
    /\ Absent(n)
    /\ InOrder(tab') /\ LinkedIn(tab'.idx) = L \cup {n}
    /\ nb' = nb + 1
    /\ Answer("insert", n, NIL)

Unlinks(n) ==
    /\ n \in L
    /\ InOrder(tab') /\ LinkedIn(tab'.idx) = L \ {n}
    /\ nb' = nb - 1
    /\ Answer("remove", n, n)

Stays(n) ==
    /\ InOrder(tab') /\ LinkedIn(tab'.idx) = L
    /\ nb' = nb
    /\ \/ \E d \in L : KeyOf[d] = KeyOf[n] /\ Answer("insert", n, d)
       \/ Absent(n) /\ Answer("insert", n, n)
       \/ n \notin L /\ Answer("remove", n, NIL)

LEMMA LinkedNodes ==
    ASSUME InOrder(tab)
    PROVE  L \subseteq Nodes /\ NIL \notin L
BY InOrderType, LinkedTypes DEF L, LinkedIn

LEMMA AbsentIs ==
    ASSUME InOrder(tab), NEW n \in Nodes, Find(tab, KeyOf[n]) = NIL
    PROVE  Absent(n) /\ n \notin L
<1>1. KeyOf[n] \in Keys
  BY NodeKeys
<1>2. NIL \notin L
  BY LinkedNodes
<1>3. QED
  BY <1>1, <1>2, FindIs DEF Absent, L

LEMMA PlaceLinks ==
    ASSUME InOrder(tab), NEW n \in Nodes, Absent(n), n \notin L,
           NEW t, InOrder(t), LinkedIn(t.idx) = L,
           NEW b \in Cands(KeyOf[n]), NEW s \in Slot, t.idx[b][s] = NIL,
           Place(t, b, s, n)
    PROVE  Links(n)
BY WrittenLinks DEF Place, Links

(* The paths of the slow insert, at whatever depth. *)
LEMMA SlowIs ==
    ASSUME IInv, NEW n \in Nodes, InsertSlow(n)
    PROVE  Links(n) \/ Stays(n)
<1> DEFINE k == KeyOf[n]
           in0 == Kickout[build.depth][tab][Bk0(k)]
           in1 == Kickout[build.depth][in0.tab][Bk1(k)]
<1>1. /\ build.depth \in Nat /\ InOrder(tab) /\ tab \in Tables
      /\ Bk0(k) \in Bucket /\ Bk1(k) \in Bucket
      /\ Bk0(k) \in Cands(k) /\ Bk1(k) \in Cands(k)
  BY DepthAssumption, InOrderType, NodeKeys, HashTypes DEF IInv, Cands
<1>2. Absent(n) /\ n \notin L
  BY <1>1, AbsentIs DEF InsertSlow
<1>3. Kept(tab, Bk0(k), in0)
  BY <1>1, KickoutKeeps
<1>4. InOrder(in0.tab) /\ in0.tab \in Tables /\ LinkedIn(in0.tab.idx) = L
  <2> HIDE DEF in0
  <2>1. QED
    BY <1>3, InOrderType DEF Kept, L
<1>5. Kept(in0.tab, Bk1(k), in1)
  <2> HIDE DEF in0
  <2>1. QED
    BY <1>1, <1>4, KickoutKeeps
<1>6. \/ in0.pos >= 0 /\ Place(in0.tab, Bk0(k), in0.pos, n)
      \/ in1.pos >= 0 /\ Place(in1.tab, Bk1(k), in1.pos, n)
      \/ tab' = in1.tab /\ Answer("insert", n, n) /\ UNCHANGED nb
  BY DEF InsertSlow
<1> HIDE DEF in0, in1, k
<1>7. CASE in0.pos >= 0 /\ Place(in0.tab, Bk0(k), in0.pos, n)
  <2>1. in0.pos \in Slot /\ in0.tab.idx[Bk0(k)][in0.pos] = NIL
    BY <1>3, <1>7 DEF Kept
  <2>2. QED
    BY <1>1, <1>2, <1>4, <1>7, <2>1, PlaceLinks DEF k
<1>8. InOrder(in1.tab) /\ LinkedIn(in1.tab.idx) = L
  BY <1>4, <1>5 DEF Kept
<1>9. CASE in1.pos >= 0 /\ Place(in1.tab, Bk1(k), in1.pos, n)
  <2>1. in1.pos \in Slot /\ in1.tab.idx[Bk1(k)][in1.pos] = NIL
    BY <1>5, <1>9 DEF Kept
  <2>2. QED
    BY <1>1, <1>2, <1>8, <1>9, <2>1, PlaceLinks DEF k
<1>10. CASE tab' = in1.tab /\ Answer("insert", n, n) /\ UNCHANGED nb
  BY <1>2, <1>8, <1>10 DEF Stays
<1>11. QED
  BY <1>6, <1>7, <1>9, <1>10

LEMMA InsertIs ==
    ASSUME IInv, NEW n \in Nodes, Insert(n)
    PROVE  Links(n) \/ Stays(n)
<1>1. InOrder(tab) /\ KeyOf[n] \in Keys
  BY NodeKeys DEF IInv
<1>2. CASE InsertDuplicate(n)
  BY <1>1, <1>2, FindIs DEF InsertDuplicate, Stays, L
<1>3. CASE InsertFast(n)
  <2> DEFINE k == KeyOf[n]
             b == IF FindEmpty(tab, Bk0(k)) # {} THEN Bk0(k) ELSE Bk1(k)
             s == LowestSlot(FindEmpty(tab, b))
  <2>1. /\ Find(tab, k) = NIL /\ FindEmpty(tab, b) # {}
        /\ Place(tab, b, s, n)
    BY <1>3 DEF InsertFast
  <2>2. b \in Cands(k) /\ b \in Bucket
    BY <1>1, HashTypes DEF Cands
  <2>3. FindEmpty(tab, b) \in SUBSET Slot
    BY DEF FindEmpty
  <2> HIDE DEF b
  <2>4. s \in FindEmpty(tab, b) /\ s \in Slot
    BY <2>1, <2>3, LowestSlotIn
  <2> HIDE DEF s
  <2>5. tab.idx[b][s] = NIL
    BY <1>1, <2>2, <2>4, RoomIs DEF Room
  <2>6. Absent(n) /\ n \notin L
    BY <1>1, <2>1, AbsentIs
  <2>7. QED
    BY <1>1, <2>1, <2>2, <2>4, <2>5, <2>6, PlaceLinks DEF L
<1>4. CASE InsertSlow(n)
  BY <1>4, SlowIs
<1>5. QED
  BY <1>2, <1>3, <1>4 DEF Insert

LEMMA RemoveIs ==
    ASSUME IInv, NEW n \in Nodes, Remove(n)
    PROVE  Unlinks(n) \/ Stays(n)
<1> DEFINE k == KeyOf[n]
           at(c) == {s \in Slot : tab.idx[c][s] = n}
           b == IF at(Bk0(k)) # {} THEN Bk0(k) ELSE Bk1(k)
           s == LowestSlot(at(b))
<1>1. /\ InOrder(tab) /\ k \in Keys /\ n # NIL
      /\ Bk0(k) \in Bucket /\ Bk1(k) \in Bucket /\ b \in Bucket
  BY NodeKeys, HashTypes, NilAssumption DEF IInv
<1>2. CASE at(b) # {}
  <2>1. /\ tab' = Written(tab, b, s, NoMark, NIL)
        /\ nb' = nb - 1 /\ Answer("remove", n, n)
    BY <1>2 DEF Remove
  <2>2. at(b) \in SUBSET Slot
    OBVIOUS
  <2>3. s \in at(b)
    <3> HIDE DEF at, b
    <3>1. QED
      BY <1>2, <2>2, LowestSlotIn
  <2>4. s \in Slot /\ tab.idx[b][s] = n
    BY <2>3
  <2> HIDE DEF b, s
  <2>5. n \in L
    BY <1>1, <2>4 DEF L, LinkedIn
  <2>6. InOrder(tab') /\ LinkedIn(tab'.idx) = L \ {n}
    BY <1>1, <2>1, <2>4, WrittenClears DEF L
  <2>7. QED
    BY <2>1, <2>5, <2>6 DEF Unlinks
<1>3. CASE at(b) = {}
  <2>1. Answer("remove", n, NIL) /\ UNCHANGED <<tab, nb>>
    BY <1>3 DEF Remove
  <2>2. at(Bk0(k)) = {} /\ at(Bk1(k)) = {}
    BY <1>3
  <2>3. ASSUME n \in L PROVE FALSE
    <3>1. PICK c \in Bucket, r \in Slot : tab.idx[c][r] = n
      BY <2>3 DEF L, LinkedIn
    <3>2. c \in Cands(k)
      BY <1>1, <3>1, OccupantIs
    <3>3. QED
      BY <2>2, <3>1, <3>2 DEF Cands
  <2>4. QED
    BY <1>1, <2>1, <2>3 DEF Stays, L
<1>4. QED
  BY <1>2, <1>3

LEMMA RemoveAtIs ==
    ASSUME IInv, NEW b \in Bucket, NEW s \in Slot, RemoveAt(b, s)
    PROVE  (\E n \in Nodes : Unlinks(n)) \/ UNCHANGED <<tab, nb, ret>>
<1>1. InOrder(tab) /\ L \subseteq Nodes
  BY LinkedNodes DEF IInv
<1>2. CASE tab.idx[b][s] # NIL
  <2> DEFINE n == tab.idx[b][s]
  <2>1. /\ tab' = Written(tab, b, s, NoMark, NIL)
        /\ nb' = nb - 1 /\ Answer("remove", n, n)
    BY <1>2 DEF RemoveAt
  <2>2. n \in L
    BY <1>2 DEF L, LinkedIn
  <2>3. InOrder(tab') /\ LinkedIn(tab'.idx) = L \ {n}
    BY <1>1, <1>2, <2>1, WrittenClears DEF L
  <2> HIDE DEF n
  <2>4. Unlinks(n)
    BY <2>1, <2>2, <2>3 DEF Unlinks
  <2>5. QED
    BY <1>1, <2>2, <2>4
<1>3. CASE tab.idx[b][s] = NIL
  BY <1>3 DEF RemoveAt
<1>4. QED
  BY <1>2, <1>3

LEMMA StepIs ==
    ASSUME IInv, [Next]_vars
    PROVE  /\ build' = build
           /\ \/ \E n \in Nodes : Links(n) \/ Unlinks(n) \/ Stays(n)
              \/ UNCHANGED <<tab, nb, ret>>
<1>1. ASSUME NEW n \in Nodes, Insert(n) PROVE Links(n) \/ Stays(n)
  BY <1>1, InsertIs
<1>2. ASSUME NEW n \in Nodes, Remove(n) PROVE Unlinks(n) \/ Stays(n)
  BY <1>2, RemoveIs
<1>3. ASSUME NEW b \in Bucket, NEW s \in Slot, RemoveAt(b, s)
      PROVE  (\E n \in Nodes : Unlinks(n)) \/ UNCHANGED <<tab, nb, ret>>
  BY <1>3, RemoveAtIs
<1>4. build' = build
  BY DEF Next, vars, Insert, Remove, RemoveAt
<1>5. CASE UNCHANGED vars
  BY <1>5 DEF vars
<1>6. QED
  BY <1>1, <1>2, <1>3, <1>4, <1>5 DEF Next

LEMMA InvInit == Init => IInv
<1> SUFFICES ASSUME Init PROVE IInv
  OBVIOUS
<1>1. /\ tab = [mark |-> [b \in Bucket |-> [s \in Slot |-> NoMark]],
                idx |-> EmptyTable, stray |-> FALSE]
      /\ nb = 0 /\ build \in [keyed : BOOLEAN, depth : FollowDepths]
  BY DEF Init
<1>2. NIL \in NodeOrNil /\ NoMark \in Marks
  BY DEF NodeOrNil, NoMark, Marks, Hash
<1>3. tab \in Tables
  BY <1>1, <1>2 DEF Tables, EmptyTable
<1>4. \A b \in Bucket, s \in Slot : tab.idx[b][s] = NIL /\ tab.mark[b][s] = NoMark
  BY <1>1 DEF EmptyTable
<1>5. InOrder(tab)
  BY <1>1, <1>3, <1>4 DEF InOrder, OneSlot
<1>6. L = {}
  BY <1>4 DEF L, LinkedIn
<1>7. IsFiniteSet(L) /\ Cardinality(L) = 0
  BY <1>6, FS_EmptySet
<1>8. QED
  BY <1>1, <1>5, <1>6, <1>7 DEF IInv, KeysDiffer

LEMMA InOrderNext ==
    ASSUME build' = build, InOrder(tab')
    PROVE  InOrder(tab)'
BY DEF InOrder, Tables, Marks, Mark, NoMark

LEMMA InvNext ==
    ASSUME IInv, [Next]_vars
    PROVE  IInv'
<1>1. /\ build' = build
      /\ \/ \E n \in Nodes : Links(n) \/ Unlinks(n) \/ Stays(n)
         \/ UNCHANGED <<tab, nb, ret>>
  BY StepIs
<1>2. /\ L' = LinkedIn(tab'.idx) /\ IsFiniteSet(L) /\ nb = Cardinality(L)
      /\ Cardinality(L) \in Nat
      /\ KeysDiffer(L, KeyOf)
      /\ build \in [keyed : BOOLEAN, depth : FollowDepths]
  BY FS_CardinalityType DEF IInv, L
<1>3. ASSUME NEW n \in Nodes, Links(n) PROVE IInv'
  <2>1. L' = L \cup {n} /\ n \notin L
    BY <1>2, <1>3 DEF Links, Absent
  <2>2. IsFiniteSet(L') /\ Cardinality(L') = Cardinality(L) + 1
    BY <1>2, <2>1, FS_AddElement
  <2>3. KeysDiffer(L', KeyOf)
    BY <1>2, <1>3, <2>1 DEF Links, Absent, KeysDiffer
  <2>4. InOrder(tab)'
    BY <1>1, <1>3, InOrderNext DEF Links
  <2>5. nb' = nb + 1
    BY <1>3 DEF Links
  <2>6. QED
    BY <1>1, <1>2, <2>2, <2>3, <2>4, <2>5 DEF IInv
<1>4. ASSUME NEW n \in Nodes, Unlinks(n) PROVE IInv'
  <2>1. L' = L \ {n} /\ n \in L
    BY <1>2, <1>4 DEF Unlinks
  <2>2. IsFiniteSet(L') /\ Cardinality(L') = Cardinality(L) - 1
    BY <1>2, <2>1, FS_RemoveElement
  <2>3. KeysDiffer(L', KeyOf)
    BY <1>2, <2>1 DEF KeysDiffer
  <2>4. InOrder(tab)'
    BY <1>1, <1>4, InOrderNext DEF Unlinks
  <2>5. nb' = nb - 1
    BY <1>4 DEF Unlinks
  <2>6. QED
    BY <1>1, <1>2, <2>2, <2>3, <2>4, <2>5 DEF IInv
<1>5. ASSUME NEW n \in Nodes, Stays(n) PROVE IInv'
  <2>1. L' = L /\ nb' = nb
    BY <1>2, <1>5 DEF Stays
  <2>2. InOrder(tab)'
    BY <1>1, <1>5, InOrderNext DEF Stays
  <2>3. QED
    BY <1>1, <1>2, <2>1, <2>2 DEF IInv
<1>6. CASE UNCHANGED <<tab, nb, ret>>
  <2>1. L' = L /\ nb' = nb
    BY <1>2, <1>6 DEF L
  <2>2. InOrder(tab)'
    BY <1>1, <1>6, InOrderNext DEF IInv
  <2>3. QED
    BY <1>1, <1>2, <2>1, <2>2 DEF IInv
<1>7. QED
  BY <1>1, <1>3, <1>4, <1>5, <1>6

(* The inductive invariant: the table is in order at every call, whatever  *)
(* the depth, the hash functions and the number of slots.                  *)
THEOREM RehashInvariance == Spec => []IInv
<1>1. IInv /\ [Next]_vars => IInv'
  BY InvNext
<1>2. QED
  BY <1>1, InvInit, PTL DEF Spec

(* Every slot is empty in both arrays, or holds an element in one of its   *)
(* key's two buckets with what the bucket keeps of that key: what find,    *)
(* kickout and remove of the three tables trust.                           *)
THEOREM RehashSlotsInOrder == Spec => []SlotsInOrder
<1>1. IInv => SlotsInOrder
  BY DEF IInv, InOrder, SlotsInOrder
<1>2. QED
  BY <1>1, RehashInvariance, PTL

(* rhh_nb is the number of linked elements. *)
THEOREM RehashCountExact == Spec => []CountExact
<1>1. IInv => CountExact
  BY DEF IInv, CountExact, L
<1>2. QED
  BY <1>1, RehashInvariance, PTL

(* No kickout, however deep, writes to slot -1. *)
THEOREM RehashNoStrayWrite == Spec => []NoStrayWrite
<1>1. IInv => NoStrayWrite
  BY DEF IInv, InOrder, NoStrayWrite
<1>2. QED
  BY <1>1, RehashInvariance, PTL

-----------------------------------------------------------------------------
(* A refused insert *)

LEMMA FullStep ==
    ASSUME FollowDepths \subseteq 0 .. 4, IInv, Next,
           ret'.op = "insert", NEW n, ret'.elm = n, ret'.out = n,
           Find(tab, KeyOf[n]) = NIL
    PROVE  tab' = tab
<1>1. ASSUME NEW m \in Nodes, Insert(m) PROVE tab' = tab
  <2>1. m # NIL
    BY NilAssumption
  <2>2. CASE InsertDuplicate(m)
    BY <2>1, <2>2 DEF InsertDuplicate
  <2>3. CASE InsertFast(m)
    BY <2>1, <2>3 DEF InsertFast, Place, Answer
  <2>4. CASE InsertSlow(m)
    <3> DEFINE k == KeyOf[m]
               in0 == Kickout[build.depth][tab][Bk0(k)]
               in1 == Kickout[build.depth][in0.tab][Bk1(k)]
    <3>1. /\ build.depth \in 0 .. 4 /\ InOrder(tab) /\ tab \in Tables
          /\ Bk0(k) \in Bucket /\ Bk1(k) \in Bucket
      BY InOrderType, NodeKeys, HashTypes DEF IInv
    <3>2. FindEmpty(tab, Bk0(k)) = {} /\ FindEmpty(tab, Bk1(k)) = {}
      BY <2>4 DEF InsertSlow
    <3>3. in0.pos = -1 => in0.tab = tab
      BY <3>1, <3>2, KickoutWithin DEF Within
    <3>4. in0.tab = tab => (in1.pos = -1 => in1.tab = tab)
      BY <3>1, <3>2, KickoutWithin DEF Within
    <3>5. Kept(tab, Bk0(k), in0)
      BY <3>1, KickoutKeeps
    <3>6. in0.pos < 0 => in0.pos = -1
      <4> HIDE DEF in0
      <4>1. QED
        BY <3>5, SizeAssumption DEF Kept, Slot
    <3>7. in0.tab = tab => (in1.pos < 0 => in1.pos = -1)
      <4>1. ASSUME in0.tab = tab PROVE Kept(tab, Bk1(k), in1)
        BY <3>1, <4>1, KickoutKeeps
      <4> HIDE DEF in0, in1
      <4>2. QED
        BY <4>1, SizeAssumption DEF Kept, Slot
    <3>8. \/ Place(in0.tab, Bk0(k), in0.pos, m)
          \/ Place(in1.tab, Bk1(k), in1.pos, m)
          \/ in0.pos < 0 /\ in1.pos < 0 /\ tab' = in1.tab
      BY <2>4 DEF InsertSlow
    <3> HIDE DEF in0, in1
    <3>9. QED
      BY <2>1, <3>3, <3>4, <3>6, <3>7, <3>8 DEF Place, Answer
  <2>5. QED
    BY <1>1, <2>2, <2>3, <2>4 DEF Insert
<1>2. ASSUME NEW m \in Nodes, Remove(m) PROVE tab' = tab
  BY <1>2 DEF Remove, Answer
<1>3. ASSUME NEW b \in Bucket, NEW s \in Slot, RemoveAt(b, s) PROVE tab' = tab
  BY <1>3 DEF RemoveAt, Answer
<1>4. QED
  BY <1>1, <1>2, <1>3 DEF Next

(* "return elm: table full - no modification" is true at the code's depth  *)
(* of 4: an insert that is refused has moved nothing, though its kickouts  *)
(* write before they know whether they will succeed.                       *)
THEOREM RehashFullLeavesTable ==
    ASSUME FollowDepths \subseteq 0 .. 4
    PROVE  Spec => FullLeavesTable
<1>1. ASSUME IInv, [Next]_vars
      PROVE  [LET n == ret'.elm
              IN ret'.op = "insert" /\ ret'.out = n /\ Find(tab, KeyOf[n]) = NIL
                 => tab' = tab]_vars
  BY <1>1, FullStep
<1>2. QED
  BY <1>1, RehashInvariance, PTL DEF Spec, FullLeavesTable

-----------------------------------------------------------------------------
(* The map *)

(* What find shows of the linked elements' keys.                           *)
Shown == [k \in {KeyOf[n] : n \in LinkedIn(tab.idx)} |-> Find(tab, k)]

LEMMA ShownIs ==
    ASSUME IInv
    PROVE  Shown = MapOn(L, KeyOf)
<1>1. KeysDiffer(L, KeyOf) /\ InOrder(tab) /\ L \subseteq Nodes
  BY LinkedNodes DEF IInv
<1>2. ASSUME NEW n \in L PROVE Find(tab, KeyOf[n]) = n
  <2>1. KeyOf[n] \in Keys
    BY <1>1, NodeKeys
  <2>2. Find(tab, KeyOf[n]) \in L /\ KeyOf[Find(tab, KeyOf[n])] = KeyOf[n]
    BY <1>1, <2>1, FindIs DEF L
  <2>3. QED
    BY <1>1, <2>2 DEF KeysDiffer
<1>3. Shown = [k \in KeysOf(L, KeyOf) |-> Shown[k]]
  BY DEF Shown, KeysOf, L
<1>4. \A n \in L : Shown[KeyOf[n]] = n
  BY <1>2 DEF Shown, L
<1> HIDE DEF Shown
<1>5. QED
  BY <1>1, <1>3, <1>4, MapOnIs

LEMMA ShownNext == IInv' => Shown' = MapOn(L', KeyOf)
<1>1. IInv => Shown = MapOn(L, KeyOf)
  BY ShownIs
<1>2. (IInv => Shown = MapOn(L, KeyOf))'
  BY <1>1, PTL
<1>3. QED
  BY <1>2

LEMMA ShownKeys ==
    ASSUME IInv, NEW k
    PROVE  k \in DOMAIN Shown <=> \E m \in L : KeyOf[m] = k
BY DEF Shown, L

LEMMA MapInit == Init => AsMap!Init
<1> SUFFICES ASSUME Init PROVE AsMap!Init
  OBVIOUS
<1>1. tab.idx = EmptyTable
  BY DEF Init
<1>2. LinkedIn(tab.idx) = {}
  BY <1>1 DEF LinkedIn, EmptyTable
<1>3. Shown = <<>>
  BY <1>2 DEF Shown
<1>4. QED
  BY <1>3 DEF Init, AsMap!Init, Shown

(* ret never says that an insert has begun: a call is one step.            *)
RetInv == ret.op # "begun"

LEMMA MapStep ==
    ASSUME IInv, RetInv, [Next]_vars
    PROVE  RetInv' /\ [AsMap!Next]_(AsMap!vars)
<1>1. IInv' /\ L' = LinkedIn(tab'.idx) /\ L \subseteq Nodes
  BY InvNext, LinkedNodes DEF L, IInv
<1>2. /\ Shown = MapOn(L, KeyOf) /\ Shown' = MapOn(L', KeyOf)
      /\ KeysDiffer(L, KeyOf)
  BY <1>1, ShownIs, ShownNext DEF IInv
<1>3. ASSUME NEW n \in Nodes, Links(n)
      PROVE  RetInv' /\ AsMap!Inserted(n)
  <2>1. /\ L' = L \cup {n} /\ Answer("insert", n, NIL)
        /\ \A m \in L : KeyOf[m] # KeyOf[n]
    BY <1>1, <1>3 DEF Links, Absent
  <2>2. KeyOf[n] \notin DOMAIN Shown
    BY <2>1, ShownKeys
  <2>3. Shown' = [k \in DOMAIN Shown \cup {KeyOf[n]} |->
                    IF k = KeyOf[n] THEN n ELSE Shown[k]]
    BY <1>2, <2>1, MapAdds
  <2>4. QED
    BY <2>1, <2>2, <2>3
       DEF AsMap!Inserted, AsMap!Answer, Answer, AsMap!MayRun, RetInv, Shown
<1>4. ASSUME NEW n \in Nodes, Unlinks(n)
      PROVE  RetInv' /\ AsMap!Remove(n)
  <2>1. L' = L \ {n} /\ n \in L /\ Answer("remove", n, n)
    BY <1>1, <1>4 DEF Unlinks
  <2>2. Shown' = [k \in DOMAIN Shown \ {KeyOf[n]} |-> Shown[k]]
    BY <1>2, <2>1, MapDrops
  <2>3. KeyOf[n] \in DOMAIN Shown /\ Shown[KeyOf[n]] = n
    BY <1>2, <2>1, MapOnAt, MapOnDomain
  <2>4. QED
    BY <2>1, <2>2, <2>3
       DEF AsMap!Remove, AsMap!Answer, Answer, AsMap!IsIn, RetInv, Shown
<1>5. ASSUME NEW n \in Nodes, Stays(n)
      PROVE  RetInv' /\ (AsMap!Duplicate(n) \/ AsMap!Full(n) \/ AsMap!Remove(n))
  <2>1. Shown' = Shown
    BY <1>1, <1>2, <1>5 DEF Stays
  <2>2. CASE \E d \in L : KeyOf[d] = KeyOf[n] /\ Answer("insert", n, d)
    <3>1. PICK d \in L : KeyOf[d] = KeyOf[n] /\ Answer("insert", n, d)
      BY <2>2
    <3>2. d \in Nodes /\ KeyOf[d] \in DOMAIN Shown /\ Shown[KeyOf[d]] = d
      BY <1>1, <1>2, MapOnAt, MapOnDomain
    <3>3. QED
      BY <2>1, <3>1, <3>2
         DEF AsMap!Duplicate, AsMap!Answer, Answer, AsMap!MayRun, AsMap!IsIn, RetInv, Shown
  <2>3. CASE Absent(n) /\ Answer("insert", n, n)
    <3>1. KeyOf[n] \notin DOMAIN Shown
      BY <2>3, ShownKeys DEF Absent
    <3>2. QED
      BY <2>1, <2>3, <3>1 DEF AsMap!Full, AsMap!Answer, Answer, AsMap!MayRun, RetInv, Shown
  <2>4. CASE n \notin L /\ Answer("remove", n, NIL)
    <3>1. ASSUME KeyOf[n] \in DOMAIN Shown, Shown[KeyOf[n]] = n PROVE FALSE
      <4>1. PICK m \in L : KeyOf[m] = KeyOf[n]
        BY <3>1, ShownKeys
      <4>2. Shown[KeyOf[m]] = m
        BY <1>2, MapOnAt
      <4>3. QED
        BY <2>4, <3>1, <4>1, <4>2
    <3>2. QED
      BY <2>1, <2>4, <3>1 DEF AsMap!Remove, AsMap!Answer, Answer, AsMap!IsIn, RetInv, Shown
  <2>5. QED
    BY <1>5, <2>2, <2>3, <2>4 DEF Stays
<1>6. CASE UNCHANGED <<tab, nb, ret>>
  <2>1. L' = L
    BY <1>1, <1>6 DEF L
  <2>2. Shown' = Shown
    BY <1>2, <2>1
  <2>3. QED
    BY <1>6, <2>2 DEF AsMap!vars, Shown, RetInv
<1>7. QED
  BY <1>3, <1>4, <1>5, <1>6, StepIs DEF AsMap!Next

(* The key-only, 32-bit and 64-bit tables are a finite map with the        *)
(* documented return values, at every kickout depth.                       *)
THEOREM RehashImplementsMap == Spec => RefinesMap
<1>1. Init => RetInv
  BY DEF Init, RetInv
<1>2. IInv /\ RetInv /\ [Next]_vars => RetInv' /\ [AsMap!Next]_(AsMap!vars)
  BY MapStep
<1>3. IInv /\ [Next]_vars => IInv'
  BY InvNext
<1>4. QED
  BY <1>1, <1>2, <1>3, MapInit, InvInit, PTL DEF Spec, RefinesMap, AsMap!Spec
=============================================================================
