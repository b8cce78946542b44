---------------------------- MODULE Queues_proofs ----------------------------
(***************************************************************************)
(* Theorems about the queues of rix_queue.h, for every set of heads and    *)
(* every finite set of elements.  Each queue stands for a sequence of its  *)
(* own elements per head (Lines; Circles for RIX_CIRCLEQ): the first and   *)
(* next indices spell it out, last and prev agree with it, and a safe      *)
(* iteration has its place in it.  One lemma per call shows that the call  *)
(* keeps this, and does to the sequences what RixSeqs says.                *)
(***************************************************************************)
EXTENDS MCQueues, TLAPS, FiniteSetTheorems, SequenceTheorems,
        NaturalsInduction, WellFoundedInduction

-----------------------------------------------------------------------------
(* Sequences with an element more or less *)

(* The element at place i of a queue, and NIL beyond its ends.             *)
Item(q, i) == IF i \in DOMAIN q THEN q[i] ELSE NIL

Queues == [Heads -> Seq(Nodes)]

(* No element is in two places.                                            *)
Distinct(Q) ==
    \A g, h \in Heads : \A i \in DOMAIN Q[g], j \in DOMAIN Q[h] :
        Q[g][i] = Q[h][j] => g = h /\ i = j

Absent(Q, e) == \A h \in Heads : \A i \in DOMAIN Q[h] : Q[h][i] # e

Inserted(q, i, e) == SubSeq(q, 1, i - 1) \o <<e>> \o SubSeq(q, i, Len(q))

Removed(q, i) == SubSeq(q, 1, i - 1) \o SubSeq(q, i + 1, Len(q))

Put(Q, h, i, e) == [Q EXCEPT ![h] = Inserted(@, i, e)]

Drop(Q, h, i) == [Q EXCEPT ![h] = Removed(@, i)]

(* r is q with e at place i.                                               *)
Longer(S, q, i, e, r) ==
    /\ r \in Seq(S)
    /\ Len(r) = Len(q) + 1
    /\ \A k \in 1 .. Len(q) + 1 :
          r[k] = IF k < i THEN q[k] ELSE IF k = i THEN e ELSE q[k - 1]

LEMMA InsertedIs ==
    ASSUME NEW S, NEW q \in Seq(S), NEW e \in S, NEW i \in 1 .. Len(q) + 1
    PROVE  Longer(S, q, i, e, Inserted(q, i, e))
<1> DEFINE a == SubSeq(q, 1, i - 1)
           c == SubSeq(q, i, Len(q))
           ab == a \o <<e>>
<1>1. /\ a \in Seq(S) /\ Len(a) = i - 1
      /\ \A k \in 1 .. i - 1 : a[k] = q[k]
  <2>1. \A k \in 1 .. i - 1 : q[k] \in S
    OBVIOUS
  <2>2. QED
    BY <2>1, SubSeqProperties
<1>2. /\ c \in Seq(S) /\ Len(c) = Len(q) + 1 - i
      /\ \A k \in 1 .. Len(q) + 1 - i : c[k] = q[i + k - 1]
  <2>1. \A k \in i .. Len(q) : q[k] \in S
    OBVIOUS
  <2>2. QED
    BY <2>1, SubSeqProperties
<1>3. <<e>> \in Seq(S) /\ Len(<<e>>) = 1 /\ <<e>>[1] = e
  OBVIOUS
<1> HIDE DEF a, c
<1>4. /\ ab \in Seq(S) /\ Len(ab) = i
      /\ \A k \in 1 .. i : ab[k] = IF k < i THEN q[k] ELSE e
  BY <1>1, <1>3, ConcatProperties
<1> HIDE DEF ab
<1>5. /\ ab \o c \in Seq(S) /\ Len(ab \o c) = Len(ab) + Len(c)
      /\ \A k \in 1 .. Len(ab) + Len(c) :
            (ab \o c)[k] = IF k <= Len(ab) THEN ab[k] ELSE c[k - Len(ab)]
  BY <1>2, <1>4, ConcatProperties
<1>6. Len(q) \in Nat
  OBVIOUS
<1>7. ASSUME NEW k \in 1 .. Len(q) + 1
      PROVE  (ab \o c)[k] = IF k < i THEN q[k] ELSE IF k = i THEN e ELSE q[k - 1]
  <2>1. CASE k <= i
    <3>1. k \in 1 .. i /\ k <= Len(ab) /\ k \in 1 .. Len(ab) + Len(c)
      BY <1>2, <1>4, <1>6, <2>1
    <3>2. (ab \o c)[k] = ab[k]
      BY <1>5, <3>1
    <3>3. QED
      BY <1>4, <2>1, <3>1, <3>2
  <2>2. CASE ~(k <= i)
    <3>1. /\ k - i \in 1 .. Len(q) + 1 - i /\ ~(k <= Len(ab))
          /\ k \in 1 .. Len(ab) + Len(c)
          /\ i + (k - i) - 1 = k - 1
      BY <1>2, <1>4, <1>6, <2>2
    <3>2. (ab \o c)[k] = c[k - i]
      BY <1>4, <1>5, <3>1
    <3>3. c[k - i] = q[i + (k - i) - 1]
      BY <1>2, <3>1
    <3>4. QED
      BY <2>2, <3>1, <3>2, <3>3
  <2>3. QED
    BY <2>1, <2>2
<1>8. Len(ab \o c) = Len(q) + 1
  BY <1>2, <1>4, <1>5, <1>6
<1>9. QED
  BY <1>5, <1>7, <1>8, Zenon DEF Longer, Inserted, a, c, ab

LEMMA RemovedIs ==
    ASSUME NEW S, NEW q \in Seq(S), NEW i \in 1 .. Len(q)
    PROVE  LET r == Removed(q, i)
           IN /\ r \in Seq(S)
              /\ Len(r) = Len(q) - 1
              /\ \A k \in 1 .. Len(q) - 1 :
                    r[k] = IF k < i THEN q[k] ELSE q[k + 1]
<1> DEFINE a == SubSeq(q, 1, i - 1)
           c == SubSeq(q, i + 1, Len(q))
<1>1. /\ a \in Seq(S) /\ Len(a) = i - 1
      /\ \A k \in 1 .. i - 1 : a[k] = q[k]
  <2>1. \A k \in 1 .. i - 1 : q[k] \in S
    OBVIOUS
  <2>2. QED
    BY <2>1, SubSeqProperties
<1>2. /\ c \in Seq(S) /\ Len(c) = Len(q) - i
      /\ \A k \in 1 .. Len(q) - i : c[k] = q[i + k]
  <2>1. \A k \in i + 1 .. Len(q) : q[k] \in S
    OBVIOUS
  <2>2. QED
    BY <2>1, SubSeqProperties
<1> HIDE DEF a, c
<1>3. /\ a \o c \in Seq(S) /\ Len(a \o c) = Len(a) + Len(c)
      /\ \A k \in 1 .. Len(a) + Len(c) :
            (a \o c)[k] = IF k <= Len(a) THEN a[k] ELSE c[k - Len(a)]
  BY <1>1, <1>2, ConcatProperties
<1>4. Len(q) \in Nat
  OBVIOUS
<1>5. ASSUME NEW k \in 1 .. Len(q) - 1
      PROVE  (a \o c)[k] = IF k < i THEN q[k] ELSE q[k + 1]
  <2>1. CASE k < i
    <3>1. k \in 1 .. i - 1 /\ k <= Len(a) /\ k \in 1 .. Len(a) + Len(c)
      BY <1>1, <1>2, <1>4, <2>1
    <3>2. QED
      BY <1>1, <1>3, <2>1, <3>1
  <2>2. CASE ~(k < i)
    <3>1. /\ k - (i - 1) \in 1 .. Len(q) - i /\ ~(k <= Len(a))
          /\ k \in 1 .. Len(a) + Len(c)
          /\ i + (k - (i - 1)) = k + 1
      BY <1>1, <1>2, <1>4, <2>2
    <3>2. (a \o c)[k] = c[k - (i - 1)]
      BY <1>1, <1>3, <3>1
    <3>3. c[k - (i - 1)] = q[i + (k - (i - 1))]
      BY <1>2, <3>1
    <3>4. QED
      BY <2>2, <3>1, <3>2, <3>3
  <2>3. QED
    BY <2>1, <2>2
<1>6. Len(a \o c) = Len(q) - 1
  BY <1>1, <1>2, <1>3, <1>4
<1>7. QED
  BY <1>3, <1>5, <1>6, Zenon DEF Removed, a, c

LEMMA PutIs ==
    ASSUME NEW Q \in Queues, NEW h \in Heads, NEW e \in Nodes,
           NEW i \in 1 .. Len(Q[h]) + 1
    PROVE  LET R == Put(Q, h, i, e)
           IN /\ R \in Queues
              /\ \A g \in Heads : g # h => R[g] = Q[g]
              /\ Len(R[h]) = Len(Q[h]) + 1
              /\ \A g \in Heads : DOMAIN R[g] = 1 .. Len(R[g])
              /\ \A g \in Heads : DOMAIN Q[g] = 1 .. Len(Q[g])
              /\ \A k \in 1 .. Len(Q[h]) + 1 :
                    R[h][k] = IF k < i THEN Q[h][k]
                              ELSE IF k = i THEN e ELSE Q[h][k - 1]
<1>1. Q[h] \in Seq(Nodes)
  BY DEF Queues
<1> DEFINE R == Put(Q, h, i, e)
           r == Inserted(Q[h], i, e)
<1>2. R[h] = r /\ \A g \in Heads : g # h => R[g] = Q[g]
  BY DEF Queues, Put
<1> HIDE DEF r
<1>3. /\ r \in Seq(Nodes)
      /\ Len(r) = Len(Q[h]) + 1
      /\ \A k \in 1 .. Len(Q[h]) + 1 :
            r[k] = IF k < i THEN Q[h][k] ELSE IF k = i THEN e ELSE Q[h][k - 1]
  <2>1. Longer(Nodes, Q[h], i, e, r)
    BY <1>1, InsertedIs DEF r
  <2>2. QED
    BY <2>1, Zenon DEF Longer
<1>4. R = [Q EXCEPT ![h] = r]
  BY DEF Put, r
<1>5. R \in Queues
  BY <1>3, <1>4 DEF Queues
<1> HIDE DEF R
<1>6. \A g \in Heads : DOMAIN R[g] = 1 .. Len(R[g]) /\ DOMAIN Q[g] = 1 .. Len(Q[g])
  BY <1>5 DEF Queues
<1>7. QED
  BY <1>2, <1>3, <1>5, <1>6 DEF R

LEMMA DropIs ==
    ASSUME NEW Q \in Queues, NEW h \in Heads, NEW i \in 1 .. Len(Q[h])
    PROVE  LET R == Drop(Q, h, i)
           IN /\ R \in Queues
              /\ \A g \in Heads : g # h => R[g] = Q[g]
              /\ Len(R[h]) = Len(Q[h]) - 1
              /\ \A g \in Heads : DOMAIN R[g] = 1 .. Len(R[g])
              /\ \A g \in Heads : DOMAIN Q[g] = 1 .. Len(Q[g])
              /\ \A k \in 1 .. Len(Q[h]) - 1 :
                    R[h][k] = IF k < i THEN Q[h][k] ELSE Q[h][k + 1]
<1>1. Q[h] \in Seq(Nodes)
  BY DEF Queues
<1> DEFINE R == Drop(Q, h, i)
           r == Removed(Q[h], i)
<1>2. R[h] = r /\ \A g \in Heads : g # h => R[g] = Q[g]
  BY DEF Queues, Drop
<1> HIDE DEF r
<1>3. /\ r \in Seq(Nodes)
      /\ Len(r) = Len(Q[h]) - 1
      /\ \A k \in 1 .. Len(Q[h]) - 1 :
            r[k] = IF k < i THEN Q[h][k] ELSE Q[h][k + 1]
  BY <1>1, RemovedIs DEF r
<1>4. R = [Q EXCEPT ![h] = r]
  BY DEF Drop, r
<1>5. R \in Queues
  BY <1>3, <1>4 DEF Queues
<1> HIDE DEF R
<1>6. \A g \in Heads : DOMAIN R[g] = 1 .. Len(R[g]) /\ DOMAIN Q[g] = 1 .. Len(Q[g])
  BY <1>5 DEF Queues
<1>7. QED
  BY <1>2, <1>3, <1>5, <1>6 DEF R

LEMMA PutDistinct ==
    ASSUME NEW Q \in Queues, Distinct(Q), NEW h \in Heads, NEW e \in Nodes,
           NEW i \in 1 .. Len(Q[h]) + 1, Absent(Q, e)
    PROVE  Distinct(Put(Q, h, i, e))
<1> DEFINE R == Put(Q, h, i, e)
<1>1. /\ \A g \in Heads : g # h => R[g] = Q[g]
      /\ Len(R[h]) = Len(Q[h]) + 1
      /\ \A g \in Heads : DOMAIN R[g] = 1 .. Len(R[g])
      /\ \A g \in Heads : DOMAIN Q[g] = 1 .. Len(Q[g])
      /\ \A k \in 1 .. Len(Q[h]) + 1 :
            R[h][k] = IF k < i THEN Q[h][k]
                      ELSE IF k = i THEN e ELSE Q[h][k - 1]
  BY PutIs
<1>2. Len(Q[h]) \in Nat
  BY DEF Queues
<1> HIDE DEF R
<1> DEFINE old(k) == IF k < i THEN k ELSE k - 1
<1>3. \A k \in DOMAIN R[h] :
         \/ k = i /\ R[h][k] = e
         \/ k # i /\ old(k) \in DOMAIN Q[h] /\ R[h][k] = Q[h][old(k)]
  <2> TAKE k \in DOMAIN R[h]
  <2>1. k \in 1 .. Len(Q[h]) + 1
    BY <1>1
  <2>2. k < i => k \in 1 .. Len(Q[h]) /\ k # i
    BY <1>2, <2>1
  <2>3. ~(k < i) /\ k # i => k - 1 \in 1 .. Len(Q[h])
    BY <1>2, <2>1
  <2>4. QED
    BY <1>1, <2>1, <2>2, <2>3
<1>4. ASSUME NEW k \in DOMAIN R[h], NEW g \in Heads, NEW l \in DOMAIN R[g],
             R[h][k] = R[g][l]
      PROVE  g = h /\ k = l
  <2>1. CASE g = h
    <3>1. k \in Int /\ l \in Int
      BY <1>1, <1>2, <2>1
    <3>2. k # i /\ l # i => old(k) = old(l)
      BY <1>3, <1>4, <2>1 DEF Distinct
    <3>3. k = i <=> l = i
      BY <1>3, <1>4, <2>1 DEF Absent
    <3>4. QED
      BY <2>1, <3>1, <3>2, <3>3
  <2>2. CASE g # h
    <3>1. l \in DOMAIN Q[g] /\ R[g][l] = Q[g][l]
      BY <1>1, <2>2
    <3>2. QED
      BY <1>3, <1>4, <2>2, <3>1 DEF Distinct, Absent
  <2>3. QED
    BY <2>1, <2>2
<1>5. ASSUME NEW f \in Heads, NEW k \in DOMAIN R[f],
             NEW g \in Heads, NEW l \in DOMAIN R[g],
             R[f][k] = R[g][l]
      PROVE  f = g /\ k = l
  BY <1>1, <1>4, <1>5, SMTT(30) DEF Distinct
<1>6. QED
  BY <1>5 DEF Distinct, R

LEMMA DropDistinct ==
    ASSUME NEW Q \in Queues, Distinct(Q), NEW h \in Heads,
           NEW i \in 1 .. Len(Q[h])
    PROVE  /\ Distinct(Drop(Q, h, i))
           /\ Absent(Drop(Q, h, i), Q[h][i])
<1> DEFINE R == Drop(Q, h, i)
<1>1. /\ \A g \in Heads : g # h => R[g] = Q[g]
      /\ Len(R[h]) = Len(Q[h]) - 1
      /\ \A g \in Heads : DOMAIN R[g] = 1 .. Len(R[g])
      /\ \A g \in Heads : DOMAIN Q[g] = 1 .. Len(Q[g])
      /\ \A k \in 1 .. Len(Q[h]) - 1 :
            R[h][k] = IF k < i THEN Q[h][k] ELSE Q[h][k + 1]
  BY DropIs
<1>2. Len(Q[h]) \in Nat
  BY DEF Queues
<1> HIDE DEF R
<1> DEFINE old(k) == IF k < i THEN k ELSE k + 1
<1>3. \A k \in DOMAIN R[h] :
         old(k) # i /\ old(k) \in DOMAIN Q[h] /\ R[h][k] = Q[h][old(k)]
  BY <1>1, <1>2, SMTT(30)
<1>4. ASSUME NEW k \in DOMAIN R[h], NEW g \in Heads, NEW l \in DOMAIN R[g],
             R[h][k] = R[g][l]
      PROVE  g = h /\ k = l
  <2>1. CASE g = h
    <3>1. k \in Int /\ l \in Int
      BY <1>1, <1>2, <2>1
    <3>2. old(k) = old(l)
      BY <1>3, <1>4, <2>1 DEF Distinct
    <3>3. QED
      BY <2>1, <3>1, <3>2
  <2>2. CASE g # h
    <3>1. l \in DOMAIN Q[g] /\ R[g][l] = Q[g][l]
      BY <1>1, <2>2
    <3>2. QED
      BY <1>3, <1>4, <2>2, <3>1 DEF Distinct
  <2>3. QED
    BY <2>1, <2>2
<1>5. ASSUME NEW f \in Heads, NEW k \in DOMAIN R[f],
             NEW g \in Heads, NEW l \in DOMAIN R[g],
             R[f][k] = R[g][l]
      PROVE  f = g /\ k = l
  BY <1>1, <1>4, <1>5 DEF Distinct
<1>6. ASSUME NEW g \in Heads, NEW k \in DOMAIN R[g]
      PROVE  R[g][k] # Q[h][i]
  <2>1. i \in DOMAIN Q[h]
    BY <1>1
  <2>2. CASE g = h
    BY <1>3, <2>1, <2>2 DEF Distinct
  <2>3. CASE g # h
    BY <1>1, <2>1, <2>3 DEF Distinct
  <2>4. QED
    BY <2>2, <2>3
<1>7. QED
  BY <1>5, <1>6 DEF Distinct, Absent, R

-----------------------------------------------------------------------------
(* What a walk along the links collects *)

LEMMA LeastExists ==
    ASSUME NEW S \in SUBSET Nat, S # {}
    PROVE  \E x \in S : \A y \in S : x <= y
<1>1. PICK x \in S : \A y \in S : ~(<<y, x>> \in OpToRel(<, Nat))
  BY NatLessThanWellFounded, WFMin, Zenon
<1>2. \A y \in S : ~(y < x)
  BY <1>1, Zenon DEF OpToRel
<1>3. QED
  BY <1>2

LEMMA NatInduct ==
    ASSUME NEW S \in SUBSET Nat, 0 \in S, \A n \in S : n + 1 \in S
    PROVE  S = Nat
<1>1. SUFFICES ASSUME Nat \ S # {} PROVE FALSE
  OBVIOUS
<1>2. Nat \ S \in SUBSET Nat
  OBVIOUS
<1>3. PICK x \in Nat \ S : \A y \in Nat \ S : x <= y
  BY <1>1, <1>2, LeastExists
<1>4. x - 1 \in Nat /\ x - 1 < x
  BY <1>3
<1>5. x - 1 \in S
  BY <1>3, <1>4
<1>6. (x - 1) + 1 \in S
  BY <1>5
<1>7. QED
  BY <1>3, <1>4, <1>6

(* No queue is longer than there are elements.                             *)
LEMMA LengthBound ==
    ASSUME NEW q \in Seq(Nodes),
           \A i, j \in DOMAIN q : q[i] = q[j] => i = j
    PROVE  /\ Cardinality(Nodes) \in Nat
           /\ Len(q) <= Cardinality(Nodes)
<1>1. q \in Injection(1 .. Len(q), Nodes)
  BY DEF Injection, IsInjective
<1>2. Cardinality(1 .. Len(q)) <= Cardinality(Nodes)
  BY <1>1, NodesFinite, FS_Injection
<1>3. Cardinality(1 .. Len(q)) = Len(q)
  <2>1. Len(q) \in Nat
    OBVIOUS
  <2>2. Cardinality(1 .. Len(q)) = IF 1 > Len(q) THEN 0 ELSE Len(q) - 1 + 1
    BY <2>1, FS_Interval
  <2>3. QED
    BY <2>1, <2>2
<1>4. QED
  BY <1>2, <1>3, NodesFinite, FS_CardinalityType

(* The links from start lead through q and then to NIL or stop.            *)
Runs(q, start, link, stop) ==
    /\ \A i, j \in DOMAIN q : q[i] = q[j] => i = j
    /\ start = Item(q, 1)
    /\ \A i \in DOMAIN q :
          IF i + 1 \in DOMAIN q
          THEN link[q[i]] = q[i + 1] /\ q[i + 1] # stop
          ELSE link[q[i]] \in {NIL, stop}

LEMMA ChainIs ==
    ASSUME NEW q \in Seq(Nodes), NEW start, NEW link, NEW stop,
           Runs(q, start, link, stop)
    PROVE  Chain(start, link, stop) = q
<1> DEFINE N == Cardinality(Nodes)
           Go(p) == IF p = <<>> \/ link[p[Len(p)]] \in {NIL, stop} THEN p
                    ELSE Append(p, link[p[Len(p)]])
           Body(k, p) == IF k = 0 THEN IF start = NIL THEN <<>> ELSE <<start>>
                         ELSE Go(p)
           Eqn(g) == g = [k \in 0 .. N |-> Body(k, g[k - 1])]
           To(k) == IF k + 1 <= Len(q) THEN k + 1 ELSE Len(q)
           P(k) == SubSeq(q, 1, To(k))
<1>1. N \in Nat /\ Len(q) <= N /\ Len(q) \in Nat
  BY LengthBound DEF Runs
<1>2. ASSUME NEW k \in Nat
      PROVE  /\ P(k) \in Seq(Nodes)
             /\ Len(P(k)) = To(k)
             /\ \A i \in 1 .. To(k) : P(k)[i] = q[i]
  <2>1. To(k) \in Int /\ (1 <= To(k) \/ To(k) = 0) /\ To(k) <= Len(q)
    BY <1>1
  <2>2. \A i \in 1 .. To(k) : q[i] \in Nodes
    BY <2>1
  <2> HIDE DEF To
  <2>3. /\ P(k) \in Seq(Nodes)
        /\ Len(P(k)) = IF 1 <= To(k) THEN To(k) - 1 + 1 ELSE 0
        /\ \A i \in 1 .. To(k) - 1 + 1 : P(k)[i] = q[1 + i - 1]
    BY <2>1, <2>2, SubSeqProperties
  <2> HIDE DEF P
  <2>4. QED
    BY <2>1, <2>3
<1>3. \A p : Body(0, p) = P(0)
  <2>1. CASE Len(q) = 0
    <3>1. q = <<>> /\ start = NIL
      BY <2>1 DEF Runs, Item
    <3>2. Len(P(0)) = 0 /\ P(0) \in Seq(Nodes)
      BY <1>2, <2>1
    <3>3. P(0) = <<>>
      BY <3>2
    <3>4. QED
      BY <3>1, <3>3
  <2>2. CASE Len(q) # 0
    <3>1. start = q[1] /\ q[1] \in Nodes /\ start # NIL
      BY <1>1, <2>2, NilNotNode DEF Runs, Item
    <3>2. To(0) = 1
      BY <1>1, <2>2
    <3>3. Len(P(0)) = 1 /\ P(0) \in Seq(Nodes) /\ P(0)[1] = q[1]
      BY <1>2, <3>2
    <3> HIDE DEF P
    <3>4. P(0) = <<q[1]>>
      BY <3>3
    <3>5. QED
      BY <3>1, <3>4
  <2>3. QED
    BY <2>1, <2>2
<1>4. ASSUME NEW k \in Nat
      PROVE  Body(k + 1, P(k)) = P(k + 1)
  <2>1. CASE Len(q) = 0
    <3>1. Len(P(k)) = 0 /\ P(k) \in Seq(Nodes)
      BY <1>2, <2>1
    <3>2. Len(P(k + 1)) = 0 /\ P(k + 1) \in Seq(Nodes)
      BY <1>2, <2>1
    <3> HIDE DEF P
    <3>3. P(k) = <<>> /\ P(k + 1) = <<>>
      BY <3>1, <3>2
    <3>4. QED
      BY <3>3
  <2>2. CASE Len(q) # 0 /\ Len(q) <= k + 1
    <3>1. To(k) = Len(q) /\ To(k + 1) = Len(q) /\ Len(q) \in DOMAIN q
          /\ ~(Len(q) + 1 \in DOMAIN q)
      BY <1>1, <2>2
    <3>2. P(k + 1) = P(k)
      BY <3>1
    <3>3. Len(P(k)) = Len(q) /\ P(k)[Len(q)] = q[Len(q)]
      BY <1>2, <3>1
    <3>4. link[q[Len(q)]] \in {NIL, stop}
      BY <3>1 DEF Runs
    <3> HIDE DEF P, To
    <3>5. QED
      BY <1>1, <3>2, <3>3, <3>4
  <2>3. CASE k + 1 < Len(q)
    <3>1. /\ To(k) = k + 1 /\ To(k + 1) = k + 2
          /\ k + 1 \in DOMAIN q /\ (k + 1) + 1 \in DOMAIN q
          /\ (k + 1) + 1 = k + 2
      BY <1>1, <2>3
    <3>2. /\ P(k) \in Seq(Nodes) /\ Len(P(k)) = k + 1
          /\ \A i \in 1 .. k + 1 : P(k)[i] = q[i]
      BY <1>2, <3>1
    <3>3. /\ P(k + 1) \in Seq(Nodes) /\ Len(P(k + 1)) = k + 2
          /\ \A i \in 1 .. k + 2 : P(k + 1)[i] = q[i]
      BY <1>2, <3>1
    <3>4. link[q[k + 1]] = q[k + 2] /\ q[k + 2] # stop /\ q[k + 2] # NIL
          /\ q[k + 2] \in Nodes
      BY <3>1, NilNotNode DEF Runs
    <3> HIDE DEF P, To
    <3>5. P(k) # <<>> /\ P(k)[Len(P(k))] = q[k + 1]
      BY <3>2
    <3>6. Go(P(k)) = Append(P(k), q[k + 2])
      BY <3>4, <3>5
    <3>7. Append(P(k), q[k + 2]) = P(k + 1)
      <4> DEFINE a == Append(P(k), q[k + 2])
      <4>1. /\ a \in Seq(Nodes) /\ Len(a) = k + 2
            /\ \A i \in 1 .. k + 1 : a[i] = q[i]
            /\ a[k + 2] = q[k + 2]
        BY <3>2, <3>4
      <4> HIDE DEF a
      <4>2. \A i \in 1 .. k + 2 : a[i] = P(k + 1)[i]
        BY <3>3, <4>1
      <4>3. a = P(k + 1)
        BY <3>3, <4>1, <4>2, SeqEqual
      <4>4. QED
        BY <4>3 DEF a
    <3>8. QED
      BY <3>6, <3>7
  <2>4. QED
    <3>1. \/ Len(q) = 0
          \/ Len(q) # 0 /\ Len(q) <= k + 1
          \/ k + 1 < Len(q)
      BY <1>1
    <3>2. QED
      BY <2>1, <2>2, <2>3, <3>1, Zenon
<1> HIDE DEF P, To, Go
<1>5. Eqn([k \in 0 .. N |-> P(k)])
  <2> DEFINE f == [k \in 0 .. N |-> P(k)]
  <2>1. ASSUME NEW k \in 0 .. N PROVE f[k] = Body(k, f[k - 1])
    <3>1. CASE k = 0
      BY <1>3, <3>1
    <3>2. CASE k # 0
      <4>1. k - 1 \in 0 .. N /\ k - 1 \in Nat /\ (k - 1) + 1 = k
        BY <1>1, <3>2
      <4>2. Body((k - 1) + 1, P(k - 1)) = P((k - 1) + 1)
        BY <1>4, <4>1
      <4>3. QED
        BY <4>1, <4>2
    <3>3. QED
      BY <3>1, <3>2
  <2>2. QED
    BY <2>1
<1>6. ASSUME NEW g, Eqn(g) PROVE g[N] = P(N)
  <2> DEFINE S == {k \in Nat : k <= N => g[k] = P(k)}
  <2>1. \A k \in 0 .. N : g[k] = Body(k, g[k - 1])
    BY <1>6
  <2> HIDE DEF Body
  <2>2. 0 \in S
    BY <1>1, <1>3, <2>1
  <2>3. ASSUME NEW k \in S PROVE k + 1 \in S
    <3>1. CASE k + 1 <= N
      <4>1. k \in Nat /\ k <= N /\ k + 1 \in 0 .. N /\ (k + 1) - 1 = k
        BY <1>1, <3>1
      <4>2. g[k + 1] = Body(k + 1, g[k]) /\ g[k] = P(k)
        BY <2>1, <4>1
      <4>3. Body(k + 1, P(k)) = P(k + 1)
        BY <1>4, <4>1
      <4>4. QED
        BY <4>1, <4>2, <4>3
    <3>2. QED
      BY <3>1
  <2>4. S = Nat
    <3>1. S \in SUBSET Nat
      OBVIOUS
    <3> HIDE DEF S
    <3>2. QED
      BY <2>2, <2>3, <3>1, NatInduct
  <2>5. QED
    BY <1>1, <2>4
<1>7. P(N) = q
  <2>1. To(N) = Len(q)
    BY <1>1 DEF To
  <2>2. QED
    BY <2>1, SubSeqFull DEF P
<1>8. Chain(start, link, stop) = (CHOOSE g : Eqn(g))[N]
  BY Zenon DEF Chain, Go
<1> HIDE DEF Eqn
<1>9. Eqn(CHOOSE g : Eqn(g))
  BY <1>5
<1>10. QED
  BY <1>6, <1>7, <1>8, <1>9

-----------------------------------------------------------------------------
(* Links that say what the sequences say *)

NodeOrNil == Nodes \cup {NIL}

Firsts(Q, f) ==
    /\ f \in [Heads -> NodeOrNil]
    /\ \A h \in Heads : f[h] = Item(Q[h], 1)

Lasts(Q, l) ==
    /\ l \in [Heads -> NodeOrNil]
    /\ \A h \in Heads : l[h] = Item(Q[h], Len(Q[h]))

Nexts(Q, n) ==
    /\ n \in [Nodes -> NodeOrNil]
    /\ \A h \in Heads : \A i \in DOMAIN Q[h] : n[Q[h][i]] = Item(Q[h], i + 1)

Prevs(Q, p) ==
    /\ p \in [Nodes -> NodeOrNil]
    /\ \A h \in Heads : \A i \in DOMAIN Q[h] : p[Q[h][i]] = Item(Q[h], i - 1)

LinesOf(f, n) == [h \in Heads |-> Chain(f[h], n, NIL)]

LEMMA LinesAre ==
    ASSUME NEW Q \in Queues, Distinct(Q), NEW f, Firsts(Q, f),
           NEW n, Nexts(Q, n)
    PROVE  LinesOf(f, n) = Q
<1>1. ASSUME NEW h \in Heads PROVE Chain(f[h], n, NIL) = Q[h]
  <2>1. Q[h] \in Seq(Nodes) /\ DOMAIN Q[h] = 1 .. Len(Q[h]) /\ Len(Q[h]) \in Nat
    BY DEF Queues
  <2>2. Runs(Q[h], f[h], n, NIL)
    BY <2>1, NilNotNode DEF Runs, Distinct, Firsts, Nexts, Item
  <2>3. QED
    BY <2>1, <2>2, ChainIs
<1>2. QED
  BY <1>1 DEF LinesOf, Queues

(* Read backwards, it is the reverse.                                      *)
Reversed(q) == [i \in DOMAIN q |-> q[Len(q) + 1 - i]]

LEMMA ReversedIs ==
    ASSUME NEW q \in Seq(Nodes), \A i, j \in DOMAIN q : q[i] = q[j] => i = j
    PROVE  /\ Reversed(q) \in Seq(Nodes)
           /\ Len(Reversed(q)) = Len(q)
           /\ \A i, j \in DOMAIN Reversed(q) :
                 Reversed(q)[i] = Reversed(q)[j] => i = j
<1>1. DOMAIN q = 1 .. Len(q) /\ Len(q) \in Nat
  OBVIOUS
<1>2. Reversed(q) \in [1 .. Len(q) -> Nodes]
  <2>1. \A i \in 1 .. Len(q) : Len(q) + 1 - i \in 1 .. Len(q)
    BY <1>1
  <2>2. QED
    BY <1>1, <2>1 DEF Reversed
<1>3. Reversed(q) \in Seq(Nodes) /\ Len(Reversed(q)) = Len(q)
  BY <1>1, <1>2, IsASeq, LenProperties
<1>4. ASSUME NEW i \in DOMAIN Reversed(q), NEW j \in DOMAIN Reversed(q),
             Reversed(q)[i] = Reversed(q)[j]
      PROVE  i = j
  <2>1. i \in 1 .. Len(q) /\ j \in 1 .. Len(q)
    BY <1>1 DEF Reversed
  <2>2. Len(q) + 1 - i \in DOMAIN q /\ Len(q) + 1 - j \in DOMAIN q
    BY <1>1, <2>1
  <2>3. Len(q) + 1 - i = Len(q) + 1 - j
    BY <1>1, <1>4, <2>1, <2>2 DEF Reversed
  <2>4. QED
    BY <1>1, <2>1, <2>3
<1>5. QED
  BY <1>3, <1>4

LEMMA BackIs ==
    ASSUME NEW Q \in Queues, Distinct(Q), NEW l, Lasts(Q, l),
           NEW p, Prevs(Q, p), NEW h \in Heads
    PROVE  Chain(l[h], p, NIL) = Reversed(Q[h])
<1> DEFINE q == Q[h]
           r == Reversed(q)
<1>1. q \in Seq(Nodes) /\ DOMAIN q = 1 .. Len(q) /\ Len(q) \in Nat
  BY DEF Queues
<1>2. \A i, j \in DOMAIN q : q[i] = q[j] => i = j
  BY DEF Distinct
<1>3. /\ r \in Seq(Nodes) /\ Len(r) = Len(q) /\ DOMAIN r = 1 .. Len(q)
      /\ \A i, j \in DOMAIN r : r[i] = r[j] => i = j
  BY <1>1, <1>2, ReversedIs DEF Reversed
<1>4. \A i \in 1 .. Len(q) : r[i] = q[Len(q) + 1 - i]
  BY <1>1 DEF Reversed
<1>5. l[h] = Item(q, Len(q)) /\ \A i \in DOMAIN q : p[q[i]] = Item(q, i - 1)
  BY DEF Lasts, Prevs
<1> HIDE DEF q, r
<1>6. l[h] = Item(r, 1)
  BY <1>1, <1>3, <1>4, <1>5 DEF Item
<1>7. ASSUME NEW i \in DOMAIN r
      PROVE  IF i + 1 \in DOMAIN r
             THEN p[r[i]] = r[i + 1] /\ r[i + 1] # NIL
             ELSE p[r[i]] \in {NIL, NIL}
  <2> DEFINE k == Len(q) + 1 - i
  <2>1. k \in DOMAIN q /\ i \in 1 .. Len(q) /\ r[i] = q[k]
    BY <1>1, <1>3, <1>4
  <2>2. p[r[i]] = Item(q, k - 1)
    BY <1>5, <2>1
  <2>3. CASE i + 1 \in DOMAIN r
    <3>1. k - 1 \in DOMAIN q /\ r[i + 1] = q[k - 1] /\ q[k - 1] \in Nodes
      <4>1. i + 1 \in 1 .. Len(q) /\ Len(q) + 1 - (i + 1) = k - 1
        BY <1>1, <1>3, <2>1, <2>3
      <4>2. r[i + 1] = q[Len(q) + 1 - (i + 1)]
        BY <1>4, <4>1
      <4>3. k - 1 \in DOMAIN q
        BY <1>1, <2>1, <4>1
      <4>4. QED
        BY <1>1, <4>1, <4>2, <4>3
    <3>2. QED
      BY <2>2, <2>3, <3>1, NilNotNode DEF Item
  <2>4. CASE ~(i + 1 \in DOMAIN r)
    <3>1. ~(k - 1 \in DOMAIN q)
      BY <1>1, <1>3, <2>1, <2>4
    <3>2. QED
      BY <2>2, <2>4, <3>1 DEF Item
  <2>5. QED
    BY <2>3, <2>4
<1>8. Runs(r, l[h], p, NIL)
  BY <1>3, <1>6, <1>7 DEF Runs
<1>9. QED
  BY <1>3, <1>8, ChainIs DEF r, q

LEMMA ItemPut ==
    ASSUME NEW Q \in Queues, NEW h \in Heads, NEW e \in Nodes,
           NEW i \in 1 .. Len(Q[h]) + 1, NEW k \in Int
    PROVE  Item(Put(Q, h, i, e)[h], k) =
             IF k < i THEN Item(Q[h], k)
             ELSE IF k = i THEN e ELSE Item(Q[h], k - 1)
<1> DEFINE R == Put(Q, h, i, e)
<1>1. /\ Len(R[h]) = Len(Q[h]) + 1
      /\ DOMAIN R[h] = 1 .. Len(R[h])
      /\ DOMAIN Q[h] = 1 .. Len(Q[h])
      /\ \A x \in 1 .. Len(Q[h]) + 1 :
            R[h][x] = IF x < i THEN Q[h][x]
                      ELSE IF x = i THEN e ELSE Q[h][x - 1]
  BY PutIs
<1>2. Len(Q[h]) \in Nat
  BY DEF Queues
<1> HIDE DEF R
<1>3. CASE k \in 1 .. Len(Q[h]) + 1
  BY <1>1, <1>2, <1>3 DEF Item, R
<1>4. CASE ~(k \in 1 .. Len(Q[h]) + 1)
  BY <1>1, <1>2, <1>4 DEF Item, R
<1>5. QED
  BY <1>3, <1>4

LEMMA ItemDrop ==
    ASSUME NEW Q \in Queues, NEW h \in Heads,
           NEW i \in 1 .. Len(Q[h]), NEW k \in Int
    PROVE  Item(Drop(Q, h, i)[h], k) =
             IF k < i THEN Item(Q[h], k) ELSE Item(Q[h], k + 1)
<1> DEFINE R == Drop(Q, h, i)
<1>1. /\ Len(R[h]) = Len(Q[h]) - 1
      /\ DOMAIN R[h] = 1 .. Len(R[h])
      /\ DOMAIN Q[h] = 1 .. Len(Q[h])
      /\ \A x \in 1 .. Len(Q[h]) - 1 :
            R[h][x] = IF x < i THEN Q[h][x] ELSE Q[h][x + 1]
  BY DropIs
<1>2. Len(Q[h]) \in Nat
  BY DEF Queues
<1> HIDE DEF R
<1>3. CASE k \in 1 .. Len(Q[h]) - 1
  BY <1>1, <1>2, <1>3 DEF Item, R
<1>4. CASE ~(k \in 1 .. Len(Q[h]) - 1)
  BY <1>1, <1>2, <1>4 DEF Item, R
<1>5. QED
  BY <1>3, <1>4

-----------------------------------------------------------------------------
(* An element more *)

(* Where each element of the longer queue was in the shorter.              *)
LEMMA PutPlaces ==
    ASSUME NEW Q \in Queues, NEW h \in Heads, NEW e \in Nodes,
           NEW i \in 1 .. Len(Q[h]) + 1, Absent(Q, e), Distinct(Q),
           NEW g \in Heads, NEW k \in DOMAIN Put(Q, h, i, e)[g]
    PROVE  LET R == Put(Q, h, i, e)
           IN /\ k \in Nat \ {0}
              /\ R[g][k] \in Nodes
              /\ \/ g # h /\ R[g] = Q[g] /\ k \in DOMAIN Q[g]
                 \/ g = h /\ k < i /\ k \in DOMAIN Q[h] /\ R[g][k] = Q[h][k]
                 \/ g = h /\ k = i /\ R[g][k] = e
                 \/ g = h /\ k > i /\ k - 1 \in DOMAIN Q[h]
                      /\ R[g][k] = Q[h][k - 1]
              /\ R[g][k] = e <=> g = h /\ k = i
              /\ i > 1 => /\ Q[h][i - 1] \in Nodes
                          /\ R[g][k] = Q[h][i - 1] <=> g = h /\ k = i - 1
              /\ i <= Len(Q[h]) =>
                    /\ Q[h][i] \in Nodes
                    /\ R[g][k] = Q[h][i] <=> g = h /\ k = i + 1
<1> DEFINE R == Put(Q, h, i, e)
<1>1. /\ R \in Queues
      /\ \A x \in Heads : x # h => R[x] = Q[x]
      /\ Len(R[h]) = Len(Q[h]) + 1
      /\ \A x \in Heads : DOMAIN R[x] = 1 .. Len(R[x])
      /\ \A x \in Heads : DOMAIN Q[x] = 1 .. Len(Q[x])
      /\ \A x \in 1 .. Len(Q[h]) + 1 :
            R[h][x] = IF x < i THEN Q[h][x]
                      ELSE IF x = i THEN e ELSE Q[h][x - 1]
  BY PutIs
<1>2. Distinct(R)
  BY PutDistinct
<1>3. \A x \in Heads : Len(Q[x]) \in Nat /\ Len(R[x]) \in Nat
  BY <1>1 DEF Queues
<1> HIDE DEF R
<1>4. k \in DOMAIN R[g]
  BY DEF R
<1>5. k \in Nat \ {0} /\ R[g][k] \in Nodes
  BY <1>1, <1>3, <1>4 DEF Queues
<1>6. /\ R[h][i] = e /\ i \in DOMAIN R[h]
      /\ i > 1 => R[h][i - 1] = Q[h][i - 1] /\ i - 1 \in DOMAIN R[h]
      /\ i <= Len(Q[h]) => R[h][i + 1] = Q[h][i] /\ i + 1 \in DOMAIN R[h]
  <2>1. i \in Int /\ 1 <= i /\ i <= Len(Q[h]) + 1 /\ (i + 1) - 1 = i
    BY <1>3
  <2>2. /\ i \in 1 .. Len(Q[h]) + 1
        /\ i > 1 => i - 1 \in 1 .. Len(Q[h]) + 1 /\ i - 1 < i
        /\ i <= Len(Q[h]) => /\ i + 1 \in 1 .. Len(Q[h]) + 1
                             /\ ~(i + 1 < i) /\ i + 1 # i
    BY <1>3, <2>1
  <2>3. QED
    BY <1>1, <2>1, <2>2
<1>7. /\ R[g][k] = e <=> g = h /\ k = i
      /\ i > 1 => R[g][k] = Q[h][i - 1] <=> g = h /\ k = i - 1
      /\ i <= Len(Q[h]) => R[g][k] = Q[h][i] <=> g = h /\ k = i + 1
  BY <1>2, <1>4, <1>6 DEF Distinct
<1>8. /\ i > 1 => Q[h][i - 1] \in Nodes
      /\ i <= Len(Q[h]) => Q[h][i] \in Nodes
  BY <1>1, <1>3 DEF Queues
<1>9. \/ g # h /\ R[g] = Q[g] /\ k \in DOMAIN Q[g]
      \/ g = h /\ k < i /\ k \in DOMAIN Q[h] /\ R[g][k] = Q[h][k]
      \/ g = h /\ k = i /\ R[g][k] = e
      \/ g = h /\ k > i /\ k - 1 \in DOMAIN Q[h] /\ R[g][k] = Q[h][k - 1]
  <2>1. CASE g # h
    BY <1>1, <1>4, <2>1
  <2>2. CASE g = h
    <3>1. k \in 1 .. Len(Q[h]) + 1
      BY <1>1, <1>4, <2>2
    <3>2. k < i => k \in 1 .. Len(Q[h])
      BY <1>3, <3>1
    <3>3. k > i => k - 1 \in 1 .. Len(Q[h])
      BY <1>3, <3>1
    <3>4. k < i \/ k = i \/ k > i
      BY <1>3, <3>1
    <3>5. k > i => ~(k < i) /\ k # i
      BY <1>3, <3>1
    <3>6. QED
      BY <1>1, <2>2, <3>1, <3>2, <3>3, <3>4, <3>5
  <2>3. QED
    BY <2>1, <2>2
<1>10. QED
  BY <1>5, <1>7, <1>8, <1>9, Zenon DEF R

LEMMA PutNexts ==
    ASSUME NEW Q \in Queues, NEW h \in Heads, NEW e \in Nodes,
           NEW i \in 1 .. Len(Q[h]) + 1, Absent(Q, e), Distinct(Q),
           NEW n, Nexts(Q, n),
           NEW n2 \in [Nodes -> NodeOrNil],
           n2[e] = Item(Q[h], i),
           i > 1 => n2[Q[h][i - 1]] = e,
           \A m \in Nodes : m # e /\ (i > 1 => m # Q[h][i - 1]) => n2[m] = n[m]
    PROVE  Nexts(Put(Q, h, i, e), n2)
<1> DEFINE R == Put(Q, h, i, e)
<1>1. ASSUME NEW g \in Heads, NEW k \in DOMAIN R[g]
      PROVE  n2[R[g][k]] = Item(R[g], k + 1)
  <2>1. /\ k \in Nat \ {0}
        /\ R[g][k] \in Nodes
        /\ \/ g # h /\ R[g] = Q[g] /\ k \in DOMAIN Q[g]
           \/ g = h /\ k < i /\ k \in DOMAIN Q[h] /\ R[g][k] = Q[h][k]
           \/ g = h /\ k = i /\ R[g][k] = e
           \/ g = h /\ k > i /\ k - 1 \in DOMAIN Q[h]
                /\ R[g][k] = Q[h][k - 1]
        /\ R[g][k] = e <=> g = h /\ k = i
        /\ i > 1 => R[g][k] = Q[h][i - 1] <=> g = h /\ k = i - 1
    BY PutPlaces
  <2>2. g = h => Item(R[h], k + 1) = IF k + 1 < i THEN Item(Q[h], k + 1)
                             ELSE IF k + 1 = i THEN e ELSE Item(Q[h], k)
    <3>1. k + 1 \in Int /\ (k + 1) - 1 = k
      BY <2>1
    <3>2. Item(R[h], k + 1) = IF k + 1 < i THEN Item(Q[h], k + 1)
                         ELSE IF k + 1 = i THEN e ELSE Item(Q[h], (k + 1) - 1)
      BY <3>1, ItemPut
    <3>3. QED
      BY <3>1, <3>2
  <2> HIDE DEF R
  <2>3. i \in Int /\ 1 <= i
    BY DEF Queues
  <2>4. CASE g # h
    BY <2>1, <2>4 DEF Nexts
  <2>5. CASE g = h /\ k + 1 < i
    BY <2>1, <2>2, <2>3, <2>5 DEF Nexts
  <2>6. CASE g = h /\ k + 1 = i
    <3>1. i > 1 /\ k = i - 1
      BY <2>1, <2>3, <2>6
    <3>2. QED
      BY <2>1, <2>2, <2>6, <3>1
  <2>7. CASE g = h /\ k = i
    <3>1. Item(R[h], k + 1) = Item(Q[h], i)
      BY <2>2, <2>3, <2>7
    <3>2. QED
      BY <2>1, <2>7, <3>1
  <2>8. CASE g = h /\ k > i
    <3>1. Item(R[h], k + 1) = Item(Q[h], k)
      BY <2>1, <2>2, <2>3, <2>8
    <3>2. n2[R[g][k]] = n[Q[h][k - 1]]
      BY <2>1, <2>3, <2>8
    <3>3. n[Q[h][k - 1]] = Item(Q[h], (k - 1) + 1)
      BY <2>1, <2>3, <2>8 DEF Nexts
    <3>4. QED
      BY <2>1, <2>8, <3>1, <3>2, <3>3
  <2>9. QED
    BY <2>1, <2>3, <2>4, <2>5, <2>6, <2>7, <2>8
<1>2. QED
  BY <1>1 DEF Nexts

LEMMA PutPrevs ==
    ASSUME NEW Q \in Queues, NEW h \in Heads, NEW e \in Nodes,
           NEW i \in 1 .. Len(Q[h]) + 1, Absent(Q, e), Distinct(Q),
           NEW p, Prevs(Q, p),
           NEW p2 \in [Nodes -> NodeOrNil],
           p2[e] = Item(Q[h], i - 1),
           i <= Len(Q[h]) => p2[Q[h][i]] = e,
           \A m \in Nodes :
              m # e /\ (i <= Len(Q[h]) => m # Q[h][i]) => p2[m] = p[m]
    PROVE  Prevs(Put(Q, h, i, e), p2)
<1> DEFINE R == Put(Q, h, i, e)
<1>1. ASSUME NEW g \in Heads, NEW k \in DOMAIN R[g]
      PROVE  p2[R[g][k]] = Item(R[g], k - 1)
  <2>1. /\ k \in Nat \ {0}
        /\ R[g][k] \in Nodes
        /\ \/ g # h /\ R[g] = Q[g] /\ k \in DOMAIN Q[g]
           \/ g = h /\ k < i /\ k \in DOMAIN Q[h] /\ R[g][k] = Q[h][k]
           \/ g = h /\ k = i /\ R[g][k] = e
           \/ g = h /\ k > i /\ k - 1 \in DOMAIN Q[h]
                /\ R[g][k] = Q[h][k - 1]
        /\ R[g][k] = e <=> g = h /\ k = i
        /\ i <= Len(Q[h]) => R[g][k] = Q[h][i] <=> g = h /\ k = i + 1
    BY PutPlaces
  <2>2. g = h => Item(R[h], k - 1) = IF k - 1 < i THEN Item(Q[h], k - 1)
                             ELSE IF k - 1 = i THEN e ELSE Item(Q[h], k - 2)
    <3>1. k - 1 \in Int /\ (k - 1) - 1 = k - 2
      BY <2>1
    <3>2. Item(R[h], k - 1) = IF k - 1 < i THEN Item(Q[h], k - 1)
                         ELSE IF k - 1 = i THEN e ELSE Item(Q[h], (k - 1) - 1)
      BY <3>1, ItemPut
    <3>3. QED
      BY <3>1, <3>2
  <2> HIDE DEF R
  <2>3. i \in Int /\ 1 <= i /\ i <= Len(Q[h]) + 1 /\ Len(Q[h]) \in Nat
        /\ DOMAIN Q[h] = 1 .. Len(Q[h])
    BY DEF Queues
  <2>4. CASE g # h
    BY <2>1, <2>4 DEF Prevs
  <2>5. CASE g = h /\ k < i
    <3>1. Item(R[h], k - 1) = Item(Q[h], k - 1)
      BY <2>1, <2>2, <2>3, <2>5
    <3>2. p2[R[g][k]] = p[Q[h][k]]
      BY <2>1, <2>3, <2>5
    <3>3. QED
      BY <2>1, <2>3, <2>5, <3>1, <3>2 DEF Prevs
  <2>6. CASE g = h /\ k = i
    <3>1. Item(R[h], k - 1) = Item(Q[h], i - 1)
      BY <2>2, <2>3, <2>6
    <3>2. QED
      BY <2>1, <2>6, <3>1
  <2>7. CASE g = h /\ k = i + 1
    <3>1. i <= Len(Q[h]) /\ k - 1 = i
      BY <2>1, <2>3, <2>7
    <3>2. Item(R[h], k - 1) = e
      BY <2>2, <2>3, <2>7, <3>1
    <3>3. QED
      BY <2>1, <2>7, <3>1, <3>2
  <2>8. CASE g = h /\ k > i + 1
    <3>1. Item(R[h], k - 1) = Item(Q[h], k - 2)
      BY <2>1, <2>2, <2>3, <2>8
    <3>2. p2[R[g][k]] = p[Q[h][k - 1]]
      BY <2>1, <2>3, <2>8
    <3>3. p[Q[h][k - 1]] = Item(Q[h], (k - 1) - 1)
      BY <2>1, <2>3, <2>8 DEF Prevs
    <3>4. QED
      BY <2>1, <2>8, <3>1, <3>2, <3>3
  <2>9. QED
    BY <2>1, <2>3, <2>4, <2>5, <2>6, <2>7, <2>8
<1>2. QED
  BY <1>1 DEF Prevs

LEMMA PutEnds ==
    ASSUME NEW Q \in Queues, NEW h \in Heads, NEW e \in Nodes,
           NEW i \in 1 .. Len(Q[h]) + 1
    PROVE  /\ \A f : Firsts(Q, f) =>
                 Firsts(Put(Q, h, i, e), [f EXCEPT ![h] = IF i = 1 THEN e ELSE @])
           /\ \A l : Lasts(Q, l) =>
                 Lasts(Put(Q, h, i, e),
                       [l EXCEPT ![h] = IF i = Len(Q[h]) + 1 THEN e ELSE @])
<1> DEFINE R == Put(Q, h, i, e)
<1>1. /\ \A g \in Heads : g # h => R[g] = Q[g]
      /\ Len(R[h]) = Len(Q[h]) + 1
  BY PutIs
<1>2. i \in Int /\ 1 <= i /\ i <= Len(Q[h]) + 1 /\ Len(Q[h]) \in Nat
  BY DEF Queues
<1>3. Item(R[h], 1) = IF i = 1 THEN e ELSE Item(Q[h], 1)
  <2>1. Item(R[h], 1) = IF 1 < i THEN Item(Q[h], 1)
                        ELSE IF 1 = i THEN e ELSE Item(Q[h], 1 - 1)
    BY ItemPut
  <2>2. QED
    BY <1>2, <2>1
<1>4. Item(R[h], Len(R[h])) = IF i = Len(Q[h]) + 1 THEN e
                              ELSE Item(Q[h], Len(Q[h]))
  <2> DEFINE k == Len(Q[h]) + 1
  <2>1. k \in Int /\ k - 1 = Len(Q[h]) /\ ~(k < i)
    BY <1>2
  <2>2. Item(R[h], k) = IF k < i THEN Item(Q[h], k)
                        ELSE IF k = i THEN e ELSE Item(Q[h], k - 1)
    BY <2>1, ItemPut
  <2>3. QED
    BY <1>1, <2>1, <2>2
<1> HIDE DEF R
<1>5. ASSUME NEW f, Firsts(Q, f)
      PROVE  Firsts(R, [f EXCEPT ![h] = IF i = 1 THEN e ELSE @])
  BY <1>1, <1>3, <1>5 DEF Firsts, NodeOrNil
<1>6. ASSUME NEW l, Lasts(Q, l)
      PROVE  Lasts(R, [l EXCEPT ![h] = IF i = Len(Q[h]) + 1 THEN e ELSE @])
  BY <1>1, <1>4, <1>6 DEF Lasts, NodeOrNil
<1>7. QED
  BY <1>5, <1>6 DEF R

-----------------------------------------------------------------------------
(* An element less *)

LEMMA DropPlaces ==
    ASSUME NEW Q \in Queues, NEW h \in Heads,
           NEW i \in 1 .. Len(Q[h]), Distinct(Q),
           NEW g \in Heads, NEW k \in DOMAIN Drop(Q, h, i)[g]
    PROVE  LET R == Drop(Q, h, i)
           IN /\ k \in Nat \ {0}
              /\ R[g][k] \in Nodes
              /\ R[g][k] # Q[h][i]
              /\ \/ g # h /\ R[g] = Q[g] /\ k \in DOMAIN Q[g]
                 \/ g = h /\ k < i /\ k \in DOMAIN Q[h] /\ R[g][k] = Q[h][k]
                 \/ g = h /\ k >= i /\ k + 1 \in DOMAIN Q[h]
                      /\ R[g][k] = Q[h][k + 1]
              /\ i > 1 => R[g][k] = Q[h][i - 1] <=> g = h /\ k = i - 1
              /\ i < Len(Q[h]) => R[g][k] = Q[h][i + 1] <=> g = h /\ k = i
<1> DEFINE R == Drop(Q, h, i)
<1>1. /\ R \in Queues
      /\ \A x \in Heads : x # h => R[x] = Q[x]
      /\ Len(R[h]) = Len(Q[h]) - 1
      /\ \A x \in Heads : DOMAIN R[x] = 1 .. Len(R[x])
      /\ \A x \in Heads : DOMAIN Q[x] = 1 .. Len(Q[x])
      /\ \A x \in 1 .. Len(Q[h]) - 1 :
            R[h][x] = IF x < i THEN Q[h][x] ELSE Q[h][x + 1]
  BY DropIs
<1>2. Distinct(R) /\ Absent(R, Q[h][i])
  BY DropDistinct
<1>3. \A x \in Heads : Len(Q[x]) \in Nat /\ Len(R[x]) \in Nat
  BY <1>1 DEF Queues
<1> HIDE DEF R
<1>4. k \in DOMAIN R[g]
  BY DEF R
<1>5. k \in Nat \ {0} /\ R[g][k] \in Nodes
  BY <1>1, <1>3, <1>4 DEF Queues
<1>6. /\ i > 1 => R[h][i - 1] = Q[h][i - 1] /\ i - 1 \in DOMAIN R[h]
      /\ i < Len(Q[h]) => R[h][i] = Q[h][i + 1] /\ i \in DOMAIN R[h]
  <2>1. i \in Int /\ 1 <= i /\ i <= Len(Q[h])
    BY <1>3
  <2>2. /\ i > 1 => i - 1 \in 1 .. Len(Q[h]) - 1 /\ i - 1 < i
        /\ i < Len(Q[h]) => i \in 1 .. Len(Q[h]) - 1 /\ ~(i < i)
    BY <1>3, <2>1
  <2>3. QED
    BY <1>1, <2>1, <2>2
<1>7. /\ i > 1 => R[g][k] = Q[h][i - 1] <=> g = h /\ k = i - 1
      /\ i < Len(Q[h]) => R[g][k] = Q[h][i + 1] <=> g = h /\ k = i
  BY <1>2, <1>4, <1>6 DEF Distinct
<1>8. R[g][k] # Q[h][i]
  BY <1>2, <1>4 DEF Absent
<1>9. \/ g # h /\ R[g] = Q[g] /\ k \in DOMAIN Q[g]
      \/ g = h /\ k < i /\ k \in DOMAIN Q[h] /\ R[g][k] = Q[h][k]
      \/ g = h /\ k >= i /\ k + 1 \in DOMAIN Q[h] /\ R[g][k] = Q[h][k + 1]
  <2>1. CASE g # h
    BY <1>1, <1>4, <2>1
  <2>2. CASE g = h
    <3>1. k \in 1 .. Len(Q[h]) - 1
      BY <1>1, <1>4, <2>2
    <3>2. k \in 1 .. Len(Q[h]) /\ k + 1 \in 1 .. Len(Q[h])
      BY <1>3, <3>1
    <3>3. k < i \/ (k >= i /\ ~(k < i))
      BY <1>3, <3>1
    <3>4. QED
      BY <1>1, <2>2, <3>1, <3>2, <3>3
  <2>3. QED
    BY <2>1, <2>2
<1>10. QED
  BY <1>5, <1>7, <1>8, <1>9, Zenon DEF R

LEMMA DropNexts ==
    ASSUME NEW Q \in Queues, NEW h \in Heads,
           NEW i \in 1 .. Len(Q[h]), Distinct(Q),
           NEW n, Nexts(Q, n),
           NEW n2 \in [Nodes -> NodeOrNil],
           i > 1 => n2[Q[h][i - 1]] = Item(Q[h], i + 1),
           \A m \in Nodes :
              m # Q[h][i] /\ (i > 1 => m # Q[h][i - 1]) => n2[m] = n[m]
    PROVE  Nexts(Drop(Q, h, i), n2)
<1> DEFINE R == Drop(Q, h, i)
<1>1. ASSUME NEW g \in Heads, NEW k \in DOMAIN R[g]
      PROVE  n2[R[g][k]] = Item(R[g], k + 1)
  <2>1. /\ k \in Nat \ {0}
        /\ R[g][k] \in Nodes
        /\ R[g][k] # Q[h][i]
        /\ \/ g # h /\ R[g] = Q[g] /\ k \in DOMAIN Q[g]
           \/ g = h /\ k < i /\ k \in DOMAIN Q[h] /\ R[g][k] = Q[h][k]
           \/ g = h /\ k >= i /\ k + 1 \in DOMAIN Q[h]
                /\ R[g][k] = Q[h][k + 1]
        /\ i > 1 => R[g][k] = Q[h][i - 1] <=> g = h /\ k = i - 1
    BY DropPlaces
  <2>2. g = h => Item(R[h], k + 1) = IF k + 1 < i THEN Item(Q[h], k + 1)
                                     ELSE Item(Q[h], (k + 1) + 1)
    <3>1. k + 1 \in Int
      BY <2>1
    <3>2. QED
      BY <3>1, ItemDrop
  <2> HIDE DEF R
  <2>3. i \in Int /\ 1 <= i
    BY DEF Queues
  <2>4. CASE g # h
    BY <2>1, <2>4 DEF Nexts
  <2>5. CASE g = h /\ k + 1 < i
    BY <2>1, <2>2, <2>3, <2>5 DEF Nexts
  <2>6. CASE g = h /\ k + 1 = i
    <3>1. i > 1 /\ k = i - 1
      BY <2>1, <2>3, <2>6
    <3>2. QED
      BY <2>1, <2>2, <2>6, <3>1
  <2>7. CASE g = h /\ k >= i
    <3>1. Item(R[h], k + 1) = Item(Q[h], (k + 1) + 1)
      BY <2>1, <2>2, <2>3, <2>7
    <3>2. n2[R[g][k]] = n[Q[h][k + 1]]
      BY <2>1, <2>3, <2>7
    <3>3. n[Q[h][k + 1]] = Item(Q[h], (k + 1) + 1)
      BY <2>1, <2>3, <2>7 DEF Nexts
    <3>4. QED
      BY <2>1, <2>7, <3>1, <3>2, <3>3
  <2>8. QED
    BY <2>1, <2>3, <2>4, <2>5, <2>6, <2>7
<1>2. QED
  BY <1>1 DEF Nexts

LEMMA DropPrevs ==
    ASSUME NEW Q \in Queues, NEW h \in Heads,
           NEW i \in 1 .. Len(Q[h]), Distinct(Q),
           NEW p, Prevs(Q, p),
           NEW p2 \in [Nodes -> NodeOrNil],
           i < Len(Q[h]) => p2[Q[h][i + 1]] = Item(Q[h], i - 1),
           \A m \in Nodes :
              m # Q[h][i] /\ (i < Len(Q[h]) => m # Q[h][i + 1]) => p2[m] = p[m]
    PROVE  Prevs(Drop(Q, h, i), p2)
<1> DEFINE R == Drop(Q, h, i)
<1>1. ASSUME NEW g \in Heads, NEW k \in DOMAIN R[g]
      PROVE  p2[R[g][k]] = Item(R[g], k - 1)
  <2>1. /\ k \in Nat \ {0}
        /\ R[g][k] \in Nodes
        /\ R[g][k] # Q[h][i]
        /\ \/ g # h /\ R[g] = Q[g] /\ k \in DOMAIN Q[g]
           \/ g = h /\ k < i /\ k \in DOMAIN Q[h] /\ R[g][k] = Q[h][k]
           \/ g = h /\ k >= i /\ k + 1 \in DOMAIN Q[h]
                /\ R[g][k] = Q[h][k + 1]
        /\ i < Len(Q[h]) => R[g][k] = Q[h][i + 1] <=> g = h /\ k = i
    BY DropPlaces
  <2>2. g = h => Item(R[h], k - 1) = IF k - 1 < i THEN Item(Q[h], k - 1)
                                     ELSE Item(Q[h], k)
    <3>1. k - 1 \in Int /\ (k - 1) + 1 = k
      BY <2>1
    <3>2. Item(R[h], k - 1) = IF k - 1 < i THEN Item(Q[h], k - 1)
                              ELSE Item(Q[h], (k - 1) + 1)
      BY <3>1, ItemDrop
    <3>3. QED
      BY <3>1, <3>2
  <2> HIDE DEF R
  <2>3. i \in Int /\ 1 <= i /\ i <= Len(Q[h]) /\ Len(Q[h]) \in Nat
        /\ DOMAIN Q[h] = 1 .. Len(Q[h])
    BY DEF Queues
  <2>4. CASE g # h
    BY <2>1, <2>4 DEF Prevs
  <2>5. CASE g = h /\ k < i
    <3>1. Item(R[h], k - 1) = Item(Q[h], k - 1)
      BY <2>1, <2>2, <2>3, <2>5
    <3>2. p2[R[g][k]] = p[Q[h][k]]
      BY <2>1, <2>3, <2>5
    <3>3. QED
      BY <2>1, <2>3, <2>5, <3>1, <3>2 DEF Prevs
  <2>6. CASE g = h /\ k = i
    <3>1. Item(R[h], k - 1) = Item(Q[h], i - 1)
      BY <2>2, <2>3, <2>6
    <3>2. i < Len(Q[h])
      BY <2>1, <2>3, <2>6
    <3>3. QED
      BY <2>1, <2>6, <3>1, <3>2
  <2>7. CASE g = h /\ k > i
    <3>1. Item(R[h], k - 1) = Item(Q[h], k)
      BY <2>1, <2>2, <2>3, <2>7
    <3>2. p2[R[g][k]] = p[Q[h][k + 1]]
      BY <2>1, <2>3, <2>7
    <3>3. p[Q[h][k + 1]] = Item(Q[h], (k + 1) - 1)
      BY <2>1, <2>3, <2>7 DEF Prevs
    <3>4. QED
      BY <2>1, <2>7, <3>1, <3>2, <3>3
  <2>8. QED
    BY <2>1, <2>3, <2>4, <2>5, <2>6, <2>7
<1>2. QED
  BY <1>1 DEF Prevs

LEMMA DropEnds ==
    ASSUME NEW Q \in Queues, NEW h \in Heads, NEW i \in 1 .. Len(Q[h])
    PROVE  /\ \A f : Firsts(Q, f) =>
                 Firsts(Drop(Q, h, i),
                        [f EXCEPT ![h] = IF i = 1 THEN Item(Q[h], 2) ELSE @])
           /\ \A l : Lasts(Q, l) =>
                 Lasts(Drop(Q, h, i),
                       [l EXCEPT ![h] = IF i = Len(Q[h])
                                        THEN Item(Q[h], i - 1) ELSE @])
<1> DEFINE R == Drop(Q, h, i)
<1>1. /\ \A g \in Heads : g # h => R[g] = Q[g]
      /\ Len(R[h]) = Len(Q[h]) - 1
  BY DropIs
<1>2. i \in Int /\ 1 <= i /\ i <= Len(Q[h]) /\ Len(Q[h]) \in Nat
      /\ Q[h] \in Seq(Nodes) /\ DOMAIN Q[h] = 1 .. Len(Q[h])
  BY DEF Queues
<1>3. Item(R[h], 1) = IF i = 1 THEN Item(Q[h], 2) ELSE Item(Q[h], 1)
  <2>1. Item(R[h], 1) = IF 1 < i THEN Item(Q[h], 1) ELSE Item(Q[h], 1 + 1)
    BY ItemDrop
  <2>2. QED
    BY <1>2, <2>1
<1>4. Item(R[h], Len(R[h])) = IF i = Len(Q[h]) THEN Item(Q[h], i - 1)
                              ELSE Item(Q[h], Len(Q[h]))
  <2> DEFINE k == Len(Q[h]) - 1
  <2>1. k \in Int /\ k + 1 = Len(Q[h]) /\ (k < i <=> i = Len(Q[h]))
    BY <1>2
  <2>2. Item(R[h], k) = IF k < i THEN Item(Q[h], k) ELSE Item(Q[h], k + 1)
    BY <2>1, ItemDrop
  <2>3. QED
    BY <1>1, <2>1, <2>2
<1>5. \A k \in Int : Item(Q[h], k) \in NodeOrNil
  BY <1>2 DEF Item, NodeOrNil
<1> HIDE DEF R
<1>6. ASSUME NEW f, Firsts(Q, f)
      PROVE  Firsts(R, [f EXCEPT ![h] = IF i = 1 THEN Item(Q[h], 2) ELSE @])
  BY <1>1, <1>3, <1>5, <1>6 DEF Firsts
<1>7. ASSUME NEW l, Lasts(Q, l)
      PROVE  Lasts(R, [l EXCEPT ![h] = IF i = Len(Q[h])
                                       THEN Item(Q[h], i - 1) ELSE @])
  <2>1. i - 1 \in Int
    BY <1>2
  <2>2. QED
    BY <1>1, <1>4, <1>5, <1>7, <2>1 DEF Lasts
<1>8. QED
  BY <1>6, <1>7 DEF R

-----------------------------------------------------------------------------
(* The safe iteration: what is due is seen exactly when it is before tvar  *)

Loops == [head : Heads, var : Nodes, tvar : NodeOrNil,
          due : SUBSET Nodes, seen : SUBSET Nodes]

LoopIn(Q, lp) ==
    \/ lp = NoLoop
    \/ /\ lp \in Loops
       /\ \E j \in 1 .. Len(Q[lp.head]) + 1 :
             /\ lp.tvar = Item(Q[lp.head], j)
             /\ \A x \in lp.due : \E k \in DOMAIN Q[lp.head] :
                   Q[lp.head][k] = x /\ (x \in lp.seen <=> k < j)

LEMMA NoLoopLess == \A x : [NoLoop EXCEPT !.due = @ \ {x}] = NoLoop
BY DEF NoLoop

LEMMA PutLoop ==
    ASSUME NEW Q \in Queues, NEW h \in Heads, NEW e \in Nodes,
           NEW i \in 1 .. Len(Q[h]) + 1, Absent(Q, e),
           NEW lp, LoopIn(Q, lp)
    PROVE  LoopIn(Put(Q, h, i, e), lp)
<1> DEFINE R == Put(Q, h, i, e)
<1>1. SUFFICES ASSUME lp \in Loops,
                      NEW j \in 1 .. Len(Q[lp.head]) + 1,
                      lp.tvar = Item(Q[lp.head], j),
                      \A x \in lp.due : \E k \in DOMAIN Q[lp.head] :
                         Q[lp.head][k] = x /\ (x \in lp.seen <=> k < j)
               PROVE  LoopIn(R, lp)
  BY DEF LoopIn
<1>2. /\ \A g \in Heads : g # h => R[g] = Q[g]
      /\ Len(R[h]) = Len(Q[h]) + 1
      /\ DOMAIN R[h] = 1 .. Len(R[h])
      /\ DOMAIN Q[h] = 1 .. Len(Q[h])
      /\ \A k \in 1 .. Len(Q[h]) + 1 :
            R[h][k] = IF k < i THEN Q[h][k]
                      ELSE IF k = i THEN e ELSE Q[h][k - 1]
  BY PutIs
<1>3. Len(Q[h]) \in Nat /\ lp.head \in Heads
  BY <1>1 DEF Queues, Loops
<1>4. \A k \in Int : Item(R[h], k) = IF k < i THEN Item(Q[h], k)
                       ELSE IF k = i THEN e ELSE Item(Q[h], k - 1)
  BY ItemPut
<1> HIDE DEF R
<1>5. CASE lp.head # h
  BY <1>1, <1>2, <1>3, <1>5 DEF LoopIn
<1>6. CASE lp.head = h
  <2> DEFINE j2 == IF i <= j THEN j + 1 ELSE j
  <2>1. j2 \in 1 .. Len(R[h]) + 1
    BY <1>2, <1>3, <1>6
  <2>2. lp.tvar = Item(R[h], j2)
    <3>1. j2 \in Int /\ (j + 1) - 1 = j
      BY <1>3, <1>6
    <3>2. Item(R[h], j2) = IF j2 < i THEN Item(Q[h], j2)
                           ELSE IF j2 = i THEN e ELSE Item(Q[h], j2 - 1)
      BY <1>4, <3>1
    <3>3. QED
      BY <1>1, <1>3, <1>6, <3>1, <3>2
  <2>3. ASSUME NEW x \in lp.due
        PROVE  \E k \in DOMAIN R[h] : R[h][k] = x /\ (x \in lp.seen <=> k < j2)
    <3>1. PICK k \in DOMAIN Q[h] : Q[h][k] = x /\ (x \in lp.seen <=> k < j)
      BY <1>1, <1>6
    <3> DEFINE k2 == IF k < i THEN k ELSE k + 1
    <3>2. k \in Int /\ j \in Int /\ i \in Int /\ k \in 1 .. Len(Q[h])
      BY <1>2, <1>3, <1>6
    <3>3. k2 \in 1 .. Len(Q[h]) + 1 /\ (k < j <=> k2 < j2)
      BY <1>3, <3>2
    <3>4. R[h][k2] = x
      <4>1. ~(k < i) => ~(k + 1 < i) /\ k + 1 # i /\ (k + 1) - 1 = k
        BY <3>2
      <4>2. QED
        BY <1>2, <3>1, <3>2, <3>3, <4>1
    <3>5. QED
      BY <1>2, <3>1, <3>3, <3>4
  <2>4. QED
    BY <1>1, <1>6, <2>1, <2>2, <2>3 DEF LoopIn
<1>7. QED
  BY <1>5, <1>6

LEMMA DropLoop ==
    ASSUME NEW Q \in Queues, NEW h \in Heads, Distinct(Q),
           NEW i \in 1 .. Len(Q[h]),
           NEW lp, LoopIn(Q, lp), Q[h][i] # lp.tvar
    PROVE  LoopIn(Drop(Q, h, i), [lp EXCEPT !.due = @ \ {Q[h][i]}])
<1> DEFINE R == Drop(Q, h, i)
           lp2 == [lp EXCEPT !.due = @ \ {Q[h][i]}]
<1>1. CASE lp = NoLoop
  BY <1>1, NoLoopLess DEF LoopIn
<1>2. CASE lp \in Loops
  <2>1. PICK j \in 1 .. Len(Q[lp.head]) + 1 :
                /\ lp.tvar = Item(Q[lp.head], j)
                /\ \A x \in lp.due : \E k \in DOMAIN Q[lp.head] :
                     Q[lp.head][k] = x /\ (x \in lp.seen <=> k < j)
    <3>1. CASE lp # NoLoop
      BY <3>1 DEF LoopIn
    <3>2. CASE lp = NoLoop
      BY <1>2, <3>2, NilNotNode DEF NoLoop, Loops
    <3>3. QED
      BY <3>1, <3>2
  <2>2. /\ \A g \in Heads : g # h => R[g] = Q[g]
        /\ Len(R[h]) = Len(Q[h]) - 1
        /\ DOMAIN R[h] = 1 .. Len(R[h])
        /\ DOMAIN Q[h] = 1 .. Len(Q[h])
        /\ \A k \in 1 .. Len(Q[h]) - 1 :
              R[h][k] = IF k < i THEN Q[h][k] ELSE Q[h][k + 1]
    BY DropIs
  <2>3. Len(Q[h]) \in Nat /\ lp.head \in Heads
    BY <1>2 DEF Queues, Loops
  <2>4. \A k \in Int : Item(R[h], k) = IF k < i THEN Item(Q[h], k)
                                       ELSE Item(Q[h], k + 1)
    BY ItemDrop
  <2>5. /\ lp2 \in Loops /\ lp2.head = lp.head /\ lp2.tvar = lp.tvar
        /\ lp2.seen = lp.seen /\ lp2.due = lp.due \ {Q[h][i]}
    BY <1>2 DEF Loops
  <2> HIDE DEF R, lp2
  <2>6. lp.head # h => LoopIn(R, lp2)
    BY <2>1, <2>2, <2>3, <2>5 DEF LoopIn
  <2>7. ASSUME lp.head = h PROVE LoopIn(R, lp2)
    <3> DEFINE j2 == IF i < j THEN j - 1 ELSE j
    <3>0. i # j
      BY <2>1, <2>2, <2>7 DEF Item
    <3>1. j2 \in 1 .. Len(R[h]) + 1
      BY <2>2, <2>3, <2>7, <3>0
    <3>2. lp.tvar = Item(R[h], j2)
      <4>1. j2 \in Int /\ (j - 1) + 1 = j /\ (i < j => ~(j - 1 < i))
            /\ (~(i < j) => j < i)
        BY <2>3, <2>7, <3>0
      <4>2. Item(R[h], j2) = IF j2 < i THEN Item(Q[h], j2)
                             ELSE Item(Q[h], j2 + 1)
        BY <2>4, <4>1
      <4>3. QED
        BY <2>1, <2>7, <4>1, <4>2
    <3>3. ASSUME NEW x \in lp2.due
          PROVE  \E k \in DOMAIN R[h] : R[h][k] = x /\ (x \in lp.seen <=> k < j2)
      <4>1. PICK k \in DOMAIN Q[h] : Q[h][k] = x /\ (x \in lp.seen <=> k < j)
        BY <2>1, <2>5, <2>7
      <4> DEFINE k2 == IF k < i THEN k ELSE k - 1
      <4>2. k \in Int /\ j \in Int /\ i \in Int /\ k \in 1 .. Len(Q[h]) /\ k # i
        BY <2>2, <2>3, <2>5, <2>7, <4>1
      <4>3. /\ k2 \in 1 .. Len(Q[h]) - 1 /\ (k < j <=> k2 < j2)
            /\ (~(k < i) => ~(k - 1 < i) /\ (k - 1) + 1 = k)
        BY <2>3, <3>0, <4>2
      <4>4. R[h][k2] = x
        BY <2>2, <4>1, <4>2, <4>3
      <4>5. QED
        BY <2>2, <4>1, <4>3, <4>4
    <3>4. QED
      BY <2>5, <2>7, <3>1, <3>2, <3>3 DEF LoopIn
  <2>8. QED
    BY <2>6, <2>7, Zenon DEF R, lp2
<1>3. QED
  BY <1>1, <1>2 DEF LoopIn

(* A call that found nothing to remove.                                    *)
LEMMA NilLoop ==
    ASSUME NEW Q, NEW lp, LoopIn(Q, lp)
    PROVE  LoopIn(Q, [lp EXCEPT !.due = @ \ {NIL}])
<1>1. CASE lp = NoLoop
  BY <1>1, NoLoopLess DEF LoopIn
<1>2. CASE lp \in Loops
  <2>1. [lp EXCEPT !.due = @ \ {NIL}] = lp
    BY <1>2, NilNotNode DEF Loops
  <2>2. QED
    BY <2>1
<1>3. QED
  BY <1>1, <1>2 DEF LoopIn

LEMMA BeginLoop ==
    ASSUME NEW Q \in Queues, Distinct(Q), NEW h \in Heads, Item(Q[h], 1) # NIL
    PROVE  LoopIn(Q, [head |-> h, var |-> Item(Q[h], 1), tvar |-> Item(Q[h], 2),
                      due |-> Range(Q[h]), seen |-> {Item(Q[h], 1)}])
<1> DEFINE lp == [head |-> h, var |-> Item(Q[h], 1), tvar |-> Item(Q[h], 2),
                  due |-> Range(Q[h]), seen |-> {Item(Q[h], 1)}]
<1>1. /\ Q[h] \in Seq(Nodes) /\ Len(Q[h]) \in Nat
      /\ DOMAIN Q[h] = 1 .. Len(Q[h])
  BY DEF Queues
<1>2. 1 \in DOMAIN Q[h] /\ Item(Q[h], 1) = Q[h][1] /\ Q[h][1] \in Nodes
  BY <1>1 DEF Item
<1>3. Item(Q[h], 2) \in NodeOrNil
  BY <1>1 DEF Item, NodeOrNil
<1>4. Range(Q[h]) \in SUBSET Nodes
  BY <1>1 DEF Range
<1>5. lp \in Loops
  BY <1>2, <1>3, <1>4 DEF Loops
<1>6. 2 \in 1 .. Len(Q[h]) + 1
  BY <1>1, <1>2
<1>7. ASSUME NEW x \in Range(Q[h])
      PROVE  \E k \in DOMAIN Q[h] :
                Q[h][k] = x /\ (x \in {Item(Q[h], 1)} <=> k < 2)
  <2>1. PICK k \in DOMAIN Q[h] : Q[h][k] = x
    BY DEF Range
  <2>2. x = Q[h][1] <=> k = 1
    BY <1>2, <2>1 DEF Distinct
  <2>3. k \in 1 .. Len(Q[h])
    BY <1>1
  <2>4. QED
    BY <1>1, <1>2, <2>1, <2>2, <2>3
<1>8. QED
  BY <1>5, <1>6, <1>7 DEF LoopIn

Stepped(lp, n) ==
    [lp EXCEPT !.var = lp.tvar, !.tvar = n[lp.tvar], !.seen = @ \cup {lp.tvar}]

LEMMA StepLoop ==
    ASSUME NEW Q \in Queues, Distinct(Q), NEW n, Nexts(Q, n),
           NEW lp, LoopIn(Q, lp), lp # NoLoop, lp.tvar # NIL
    PROVE  LoopIn(Q, Stepped(lp, n))
<1> DEFINE h == lp.head
           lp2 == Stepped(lp, n)
<1>1. lp \in Loops /\ h \in Heads
  BY DEF LoopIn, Loops
<1>2. PICK j \in 1 .. Len(Q[h]) + 1 :
             /\ lp.tvar = Item(Q[h], j)
             /\ \A x \in lp.due : \E k \in DOMAIN Q[h] :
                   Q[h][k] = x /\ (x \in lp.seen <=> k < j)
  BY DEF LoopIn
<1>3. /\ Q[h] \in Seq(Nodes) /\ Len(Q[h]) \in Nat
      /\ DOMAIN Q[h] = 1 .. Len(Q[h])
  BY <1>1 DEF Queues
<1>4. j \in DOMAIN Q[h] /\ lp.tvar = Q[h][j] /\ Q[h][j] \in Nodes
  BY <1>2, <1>3 DEF Item
<1>5. n[lp.tvar] = Item(Q[h], j + 1) /\ n[lp.tvar] \in NodeOrNil
  BY <1>1, <1>4 DEF Nexts
<1>6. /\ lp2 \in Loops /\ lp2.head = h /\ lp2.tvar = Item(Q[h], j + 1)
      /\ lp2.due = lp.due /\ lp2.seen = lp.seen \cup {Q[h][j]}
  BY <1>1, <1>4, <1>5 DEF Loops, Stepped
<1>7. j + 1 \in 1 .. Len(Q[h]) + 1
  BY <1>3, <1>4
<1> HIDE DEF lp2, h
<1>8. ASSUME NEW x \in lp.due
      PROVE  \E k \in DOMAIN Q[h] :
                Q[h][k] = x /\ (x \in lp2.seen <=> k < j + 1)
  <2>1. PICK k \in DOMAIN Q[h] : Q[h][k] = x /\ (x \in lp.seen <=> k < j)
    BY <1>2
  <2>2. x = Q[h][j] <=> k = j
    BY <1>1, <1>4, <2>1 DEF Distinct
  <2>3. k < j + 1 <=> (k < j \/ k = j)
    BY <1>3, <1>4
  <2>4. QED
    BY <1>6, <2>1, <2>2, <2>3
<1>9. LoopIn(Q, lp2)
  BY <1>6, <1>7, <1>8 DEF LoopIn
<1>10. QED
  BY <1>9 DEF lp2

(* What a walk from tvar meets is what has not been seen.                  *)
LEMMA LoopMeets ==
    ASSUME NEW Q \in Queues, Distinct(Q), NEW n, Nexts(Q, n),
           NEW lp, LoopIn(Q, lp)
    PROVE  LET ahead == Range(Chain(lp.tvar, n, NIL))
           IN /\ lp.due \ lp.seen \subseteq ahead
              /\ lp.due \cap lp.seen \cap ahead = {}
<1>1. CASE lp = NoLoop
  BY <1>1 DEF NoLoop
<1>2. CASE lp # NoLoop
  <2> DEFINE h == lp.head
  <2>1. lp \in Loops /\ h \in Heads
    BY <1>2 DEF LoopIn, Loops
  <2>2. PICK j \in 1 .. Len(Q[h]) + 1 :
               /\ lp.tvar = Item(Q[h], j)
               /\ \A x \in lp.due : \E k \in DOMAIN Q[h] :
                     Q[h][k] = x /\ (x \in lp.seen <=> k < j)
    BY <1>2 DEF LoopIn
  <2> DEFINE r == SubSeq(Q[h], j, Len(Q[h]))
  <2>3. /\ Q[h] \in Seq(Nodes) /\ Len(Q[h]) \in Nat
        /\ DOMAIN Q[h] = 1 .. Len(Q[h])
        /\ j \in Int /\ 1 <= j /\ j <= Len(Q[h]) + 1
    BY <2>1 DEF Queues
  <2>4. /\ r \in Seq(Nodes) /\ Len(r) = Len(Q[h]) + 1 - j
        /\ DOMAIN r = 1 .. Len(r)
        /\ \A k \in 1 .. Len(Q[h]) + 1 - j : r[k] = Q[h][j + k - 1]
    <3>1. \A k \in j .. Len(Q[h]) : Q[h][k] \in Nodes
      BY <2>3
    <3>2. /\ r \in Seq(Nodes)
          /\ Len(r) = IF j <= Len(Q[h]) THEN Len(Q[h]) - j + 1 ELSE 0
          /\ \A k \in 1 .. Len(Q[h]) - j + 1 : r[k] = Q[h][j + k - 1]
      BY <2>3, <3>1, SubSeqProperties
    <3> HIDE DEF r
    <3>3. QED
      BY <2>3, <3>2
  <2> HIDE DEF r, h
  <2>5. ASSUME NEW k \in DOMAIN r
        PROVE  /\ j + k - 1 \in DOMAIN Q[h] /\ k \in Int
               /\ r[k] = Q[h][j + k - 1]
               /\ r[k] \in Nodes
               /\ n[r[k]] = Item(Q[h], j + k)
               /\ k + 1 \in DOMAIN r <=> j + k \in DOMAIN Q[h]
               /\ k + 1 \in DOMAIN r => r[k + 1] = Q[h][j + k]
    <3>1. /\ j + k - 1 \in DOMAIN Q[h] /\ k \in Int
          /\ k \in 1 .. Len(Q[h]) + 1 - j
          /\ (j + k - 1) + 1 = j + k /\ j + (k + 1) - 1 = j + k
          /\ k + 1 \in DOMAIN r <=> j + k \in DOMAIN Q[h]
          /\ k + 1 \in DOMAIN r => k + 1 \in 1 .. Len(Q[h]) + 1 - j
      <4>1. k \in Int /\ 1 <= k /\ k <= Len(Q[h]) + 1 - j
        BY <2>3, <2>4, <2>5
      <4>2. /\ j + k - 1 \in DOMAIN Q[h]
            /\ j + k \in DOMAIN Q[h] <=> j + k <= Len(Q[h])
        BY <2>3, <4>1
      <4>3. k + 1 \in DOMAIN r <=> k + 1 <= Len(Q[h]) + 1 - j
        BY <2>3, <2>4, <4>1
      <4>4. j + k <= Len(Q[h]) <=> k + 1 <= Len(Q[h]) + 1 - j
        BY <2>3, <4>1
      <4>5. /\ k \in 1 .. Len(Q[h]) + 1 - j
            /\ (j + k - 1) + 1 = j + k /\ j + (k + 1) - 1 = j + k
            /\ k + 1 <= Len(Q[h]) + 1 - j => k + 1 \in 1 .. Len(Q[h]) + 1 - j
        BY <2>3, <4>1
      <4>6. QED
        BY <4>1, <4>2, <4>3, <4>4, <4>5, Zenon
    <3>2. r[k] = Q[h][j + k - 1]
      BY <2>4, <3>1
    <3>3. k + 1 \in DOMAIN r => r[k + 1] = Q[h][j + (k + 1) - 1]
      BY <2>4, <3>1
    <3>4. n[Q[h][j + k - 1]] = Item(Q[h], (j + k - 1) + 1)
      BY <2>1, <3>1 DEF Nexts
    <3>5. Q[h][j + k - 1] \in Nodes
      BY <2>3, <3>1
    <3>6. QED
      BY <3>1, <3>2, <3>3, <3>4, <3>5
  <2>6. \A x, y \in DOMAIN r : r[x] = r[y] => x = y
    <3>1. ASSUME NEW x \in DOMAIN r, NEW y \in DOMAIN r, r[x] = r[y]
          PROVE  x = y
      <4>1. /\ j + x - 1 \in DOMAIN Q[h] /\ r[x] = Q[h][j + x - 1] /\ x \in Int
            /\ j + y - 1 \in DOMAIN Q[h] /\ r[y] = Q[h][j + y - 1] /\ y \in Int
        BY <2>5
      <4>2. Q[h][j + x - 1] = Q[h][j + y - 1]
        BY <3>1, <4>1
      <4>3. j + x - 1 = j + y - 1
        BY <2>1, <4>1, <4>2, Zenon DEF Distinct
      <4>4. QED
        BY <2>3, <4>1, <4>3
    <3>2. QED
      BY <3>1
  <2>7. lp.tvar = Item(r, 1)
    <3>1. 1 \in DOMAIN r <=> j \in DOMAIN Q[h]
      BY <2>3, <2>4
    <3>2. 1 \in DOMAIN r => r[1] = Q[h][j]
      <4>1. j + 1 - 1 = j
        BY <2>3
      <4>2. QED
        BY <2>5, <4>1
    <3>3. QED
      BY <2>2, <3>1, <3>2 DEF Item
  <2>8. Runs(r, lp.tvar, n, NIL)
    <3>1. ASSUME NEW k \in DOMAIN r
          PROVE  IF k + 1 \in DOMAIN r
                 THEN n[r[k]] = r[k + 1] /\ r[k + 1] # NIL
                 ELSE n[r[k]] \in {NIL, NIL}
      <4>1. CASE k + 1 \in DOMAIN r
        BY <2>5, <4>1, NilNotNode DEF Item
      <4>2. CASE ~(k + 1 \in DOMAIN r)
        BY <2>5, <4>2 DEF Item
      <4>3. QED
        BY <4>1, <4>2
    <3>2. QED
      BY <2>6, <2>7, <3>1 DEF Runs
  <2>9. Chain(lp.tvar, n, NIL) = r
    BY <2>4, <2>8, ChainIs
  <2>10. ASSUME NEW x \in lp.due
         PROVE  x \in Range(r) <=> ~(x \in lp.seen)
    <3>1. PICK k \in DOMAIN Q[h] : Q[h][k] = x /\ (x \in lp.seen <=> k < j)
      BY <2>2
    <3>2. CASE k < j
      <4>1. \A y \in DOMAIN r : r[y] # x
        <5>1. ASSUME NEW y \in DOMAIN r, r[y] = x PROVE FALSE
          <6>1. j + y - 1 = k
            BY <2>1, <2>5, <3>1, <5>1 DEF Distinct
          <6>2. QED
            BY <2>3, <2>4, <3>2, <6>1
        <5>2. QED
          BY <5>1
      <4>2. QED
        BY <3>1, <3>2, <4>1 DEF Range
    <3>3. CASE ~(k < j)
      <4>1. k + 1 - j \in DOMAIN r /\ j + (k + 1 - j) - 1 = k
        BY <2>3, <2>4, <3>3
      <4>2. r[k + 1 - j] = Q[h][j + (k + 1 - j) - 1]
        BY <2>5, <4>1
      <4>3. QED
        BY <3>1, <3>3, <4>1, <4>2 DEF Range
    <3>4. QED
      BY <3>2, <3>3
  <2>11. QED
    BY <2>9, <2>10
<1>3. QED
  BY <1>1, <1>2

-----------------------------------------------------------------------------
(* What each call writes is what its sequence needs *)

Good(Q, f, n) == Q \in Queues /\ Distinct(Q) /\ Firsts(Q, f) /\ Nexts(Q, n)

LEMMA WriteIs ==
    ASSUME NEW f \in [Nodes -> NodeOrNil], NEW m, NEW v \in NodeOrNil
    PROVE  /\ Write(f, m, v) \in [Nodes -> NodeOrNil]
           /\ \A x \in Nodes : Write(f, m, v)[x] = IF x = m THEN v ELSE f[x]
BY DEF Write

LEMMA QueueTypes ==
    ASSUME NEW Q \in Queues, NEW h \in Heads
    PROVE  /\ Q[h] \in Seq(Nodes) /\ Len(Q[h]) \in Nat
           /\ DOMAIN Q[h] = 1 .. Len(Q[h])
           /\ \A i \in Int : Item(Q[h], i) \in NodeOrNil
           /\ \A i \in Int : Item(Q[h], i) = NIL <=> ~(i \in 1 .. Len(Q[h]))
           /\ \A i \in 1 .. Len(Q[h]) : Item(Q[h], i) = Q[h][i] /\ Q[h][i] \in Nodes
BY NilNotNode DEF Queues, Item, NodeOrNil

LEMMA HeadPut ==
    ASSUME NEW Q, NEW f, NEW n, Good(Q, f, n),
           NEW h \in Heads, NEW e \in Nodes, Absent(Q, e)
    PROVE  LET R == Put(Q, h, 1, e)
           IN /\ Good(R, [f EXCEPT ![h] = e], [n EXCEPT ![e] = f[h]])
              /\ \A l : Lasts(Q, l) =>
                    Lasts(R, [l EXCEPT ![h] = IF f[h] = NIL THEN e ELSE @])
              /\ \A p : Prevs(Q, p) =>
                    Prevs(R, Write([p EXCEPT ![e] = NIL], f[h], e))
<1> DEFINE R == Put(Q, h, 1, e)
           n2 == [n EXCEPT ![e] = f[h]]
<1>1. Q \in Queues /\ Distinct(Q) /\ Firsts(Q, f) /\ Nexts(Q, n)
  BY DEF Good
<1>2. /\ Q[h] \in Seq(Nodes) /\ Len(Q[h]) \in Nat
      /\ DOMAIN Q[h] = 1 .. Len(Q[h])
      /\ Item(Q[h], 1) = NIL <=> ~(1 \in 1 .. Len(Q[h]))
      /\ 1 \in 1 .. Len(Q[h]) => Item(Q[h], 1) = Q[h][1] /\ Q[h][1] \in Nodes
  BY <1>1, QueueTypes
<1>3. 1 \in 1 .. Len(Q[h]) + 1 /\ ~(1 > 1)
  BY <1>2
<1>4. f[h] = Item(Q[h], 1) /\ f[h] \in NodeOrNil
  BY <1>1 DEF Firsts
<1>5. R \in Queues /\ Distinct(R)
  BY <1>1, <1>3, PutIs, PutDistinct
<1>6. Firsts(R, [f EXCEPT ![h] = e])
  <2>1. Firsts(R, [f EXCEPT ![h] = IF 1 = 1 THEN e ELSE @])
    BY <1>1, <1>3, PutEnds
  <2>2. QED
    BY <2>1
<1>7. Nexts(R, n2)
  <2>1. n \in [Nodes -> NodeOrNil]
    BY <1>1 DEF Nexts
  <2>2. /\ n2 \in [Nodes -> NodeOrNil] /\ n2[e] = Item(Q[h], 1)
        /\ \A m \in Nodes : m # e => n2[m] = n[m]
    BY <1>4, <2>1
  <2> HIDE DEF n2
  <2>3. QED
    BY <1>1, <1>3, <2>2, PutNexts
<1>8. ASSUME NEW l, Lasts(Q, l)
      PROVE  Lasts(R, [l EXCEPT ![h] = IF f[h] = NIL THEN e ELSE @])
  <2>1. f[h] = NIL <=> 1 = Len(Q[h]) + 1
    BY <1>2, <1>4
  <2>2. Lasts(R, [l EXCEPT ![h] = IF 1 = Len(Q[h]) + 1 THEN e ELSE @])
    BY <1>1, <1>3, <1>8, PutEnds
  <2>3. QED
    BY <2>1, <2>2, Zenon
<1>9. ASSUME NEW p, Prevs(Q, p)
      PROVE  Prevs(R, Write([p EXCEPT ![e] = NIL], f[h], e))
  <2> DEFINE p1 == [p EXCEPT ![e] = NIL]
             p2 == Write(p1, f[h], e)
  <2>1. p \in [Nodes -> NodeOrNil]
    BY <1>9 DEF Prevs
  <2>2. /\ p1 \in [Nodes -> NodeOrNil] /\ p1[e] = NIL
        /\ \A m \in Nodes : m # e => p1[m] = p[m]
    BY <2>1 DEF NodeOrNil
  <2> HIDE DEF p1
  <2>3. e \in NodeOrNil
    BY DEF NodeOrNil
  <2>4. /\ p2 \in [Nodes -> NodeOrNil]
        /\ \A x \in Nodes : p2[x] = IF x = f[h] THEN e ELSE p1[x]
    BY <2>2, <2>3, WriteIs
  <2> HIDE DEF p2
  <2>5. f[h] # e
    BY <1>2, <1>4, NilNotNode DEF Absent
  <2>6. p2[e] = Item(Q[h], 1 - 1)
    BY <1>2, <2>2, <2>4, <2>5 DEF Item
  <2>7. 1 <= Len(Q[h]) => p2[Q[h][1]] = e
    BY <1>2, <1>4, <2>4
  <2>8. \A m \in Nodes : m # e /\ (1 <= Len(Q[h]) => m # Q[h][1]) => p2[m] = p[m]
    BY <1>2, <1>4, <2>2, <2>4, NilNotNode
  <2>9. Prevs(R, p2)
    BY <1>1, <1>3, <1>9, <2>4, <2>6, <2>7, <2>8, PutPrevs
  <2>10. QED
    BY <2>9 DEF p2, p1
<1>10. QED
  BY <1>5, <1>6, <1>7, <1>8, <1>9 DEF Good

LEMMA AfterPut ==
    ASSUME NEW Q, NEW f, NEW n, Good(Q, f, n),
           NEW h \in Heads, NEW e \in Nodes, Absent(Q, e),
           NEW i \in DOMAIN Q[h]
    PROVE  LET R == Put(Q, h, i + 1, e)
               m == Q[h][i]
           IN /\ Good(R, f, [n EXCEPT ![e] = n[m], ![m] = e])
              /\ \A l : Lasts(Q, l) =>
                    Lasts(R, [l EXCEPT ![h] = IF n[m] = NIL THEN e ELSE @])
              /\ \A p : Prevs(Q, p) =>
                    Prevs(R, Write([p EXCEPT ![e] = m], n[m], e))
<1> DEFINE R == Put(Q, h, i + 1, e)
           m == Q[h][i]
           n2 == [n EXCEPT ![e] = n[m], ![m] = e]
<1>1. Q \in Queues /\ Distinct(Q) /\ Firsts(Q, f) /\ Nexts(Q, n)
  BY DEF Good
<1>2. /\ Q[h] \in Seq(Nodes) /\ Len(Q[h]) \in Nat
      /\ DOMAIN Q[h] = 1 .. Len(Q[h])
      /\ \A k \in Int : Item(Q[h], k) \in NodeOrNil
      /\ \A k \in Int : Item(Q[h], k) = NIL <=> ~(k \in 1 .. Len(Q[h]))
      /\ \A k \in 1 .. Len(Q[h]) : Item(Q[h], k) = Q[h][k] /\ Q[h][k] \in Nodes
  BY <1>1, QueueTypes
<1>3. /\ i \in Int /\ 1 <= i /\ i <= Len(Q[h])
      /\ i + 1 \in 1 .. Len(Q[h]) + 1 /\ i + 1 > 1 /\ (i + 1) - 1 = i
      /\ i + 1 \in Int
  BY <1>2
<1>4. n[m] = Item(Q[h], i + 1) /\ m \in Nodes /\ m # e
  BY <1>1, <1>2, <1>3 DEF Nexts, Absent
<1>5. R \in Queues /\ Distinct(R)
  BY <1>1, <1>3, PutIs, PutDistinct
<1>6. Firsts(R, f)
  <2>1. Firsts(R, [f EXCEPT ![h] = IF i + 1 = 1 THEN e ELSE @])
    BY <1>1, <1>3, PutEnds
  <2>2. [f EXCEPT ![h] = IF i + 1 = 1 THEN e ELSE @] = f
    BY <1>1, <1>3 DEF Firsts
  <2>3. QED
    BY <2>1, <2>2
<1>7. Nexts(R, n2)
  <2>1. n \in [Nodes -> NodeOrNil] /\ e \in NodeOrNil /\ n[m] \in NodeOrNil
    BY <1>1, <1>4 DEF Nexts, NodeOrNil
  <2>2. /\ n2 \in [Nodes -> NodeOrNil] /\ n2[e] = n[m] /\ n2[m] = e
        /\ \A x \in Nodes : x # e /\ x # m => n2[x] = n[x]
    BY <1>4, <2>1
  <2>3. /\ n2[e] = Item(Q[h], i + 1)
        /\ n2[Q[h][(i + 1) - 1]] = e
        /\ \A x \in Nodes : x # e /\ x # Q[h][(i + 1) - 1] => n2[x] = n[x]
    BY <1>3, <1>4, <2>2
  <2> HIDE DEF n2
  <2>4. QED
    BY <1>1, <1>3, <2>2, <2>3, PutNexts
<1>8. ASSUME NEW l, Lasts(Q, l)
      PROVE  Lasts(R, [l EXCEPT ![h] = IF n[m] = NIL THEN e ELSE @])
  <2>1. n[m] = NIL <=> i + 1 = Len(Q[h]) + 1
    BY <1>2, <1>3, <1>4
  <2>2. Lasts(R, [l EXCEPT ![h] = IF i + 1 = Len(Q[h]) + 1 THEN e ELSE @])
    BY <1>1, <1>3, <1>8, PutEnds
  <2>3. QED
    BY <2>1, <2>2, Zenon
<1>9. ASSUME NEW p, Prevs(Q, p)
      PROVE  Prevs(R, Write([p EXCEPT ![e] = m], n[m], e))
  <2> DEFINE p1 == [p EXCEPT ![e] = m]
             p2 == Write(p1, n[m], e)
  <2>1. p \in [Nodes -> NodeOrNil] /\ m \in NodeOrNil /\ e \in NodeOrNil
    BY <1>4, <1>9 DEF Prevs, NodeOrNil
  <2>2. /\ p1 \in [Nodes -> NodeOrNil] /\ p1[e] = m
        /\ \A x \in Nodes : x # e => p1[x] = p[x]
    BY <2>1
  <2> HIDE DEF p1
  <2>3. /\ p2 \in [Nodes -> NodeOrNil]
        /\ \A x \in Nodes : p2[x] = IF x = n[m] THEN e ELSE p1[x]
    BY <2>1, <2>2, WriteIs
  <2> HIDE DEF p2
  <2>4. n[m] # e
    BY <1>2, <1>3, <1>4, NilNotNode DEF Absent, Item
  <2>5. p2[e] = Item(Q[h], (i + 1) - 1)
    BY <1>2, <1>3, <2>2, <2>3, <2>4
  <2>6. i + 1 <= Len(Q[h]) => i + 1 \in 1 .. Len(Q[h])
    BY <1>3
  <2>7. i + 1 <= Len(Q[h]) => p2[Q[h][i + 1]] = e
    BY <1>2, <1>4, <2>3, <2>6
  <2>8. \A x \in Nodes :
           x # e /\ (i + 1 <= Len(Q[h]) => x # Q[h][i + 1]) => p2[x] = p[x]
    <3>1. ~(i + 1 <= Len(Q[h])) => n[m] = NIL
      BY <1>2, <1>3, <1>4
    <3>2. QED
      BY <1>2, <1>4, <2>2, <2>3, <2>6, <3>1, NilNotNode
  <2>9. Prevs(R, p2)
    BY <1>1, <1>3, <1>9, <2>3, <2>5, <2>7, <2>8, PutPrevs
  <2>10. QED
    BY <2>9 DEF p2, p1
<1>10. QED
  BY <1>5, <1>6, <1>7, <1>8, <1>9 DEF Good

LEMMA BeforePut ==
    ASSUME NEW Q, NEW f, NEW n, Good(Q, f, n), NEW p, Prevs(Q, p),
           NEW h \in Heads, NEW e \in Nodes, Absent(Q, e),
           NEW i \in DOMAIN Q[h]
    PROVE  LET R == Put(Q, h, i, e)
               m == Q[h][i]
           IN /\ Good(R, [f EXCEPT ![h] = IF p[m] = NIL THEN e ELSE @],
                      Write([n EXCEPT ![e] = m], p[m], e))
              /\ Prevs(R, [p EXCEPT ![e] = p[m], ![m] = e])
              /\ \A l : Lasts(Q, l) => Lasts(R, l)
<1> DEFINE R == Put(Q, h, i, e)
           m == Q[h][i]
<1>1. Q \in Queues /\ Distinct(Q) /\ Firsts(Q, f) /\ Nexts(Q, n)
  BY DEF Good
<1>2. /\ Q[h] \in Seq(Nodes) /\ Len(Q[h]) \in Nat
      /\ DOMAIN Q[h] = 1 .. Len(Q[h])
      /\ \A k \in Int : Item(Q[h], k) \in NodeOrNil
      /\ \A k \in Int : Item(Q[h], k) = NIL <=> ~(k \in 1 .. Len(Q[h]))
      /\ \A k \in 1 .. Len(Q[h]) : Item(Q[h], k) = Q[h][k] /\ Q[h][k] \in Nodes
  BY <1>1, QueueTypes
<1>3. /\ i \in Int /\ 1 <= i /\ i <= Len(Q[h])
      /\ i \in 1 .. Len(Q[h]) + 1 /\ i - 1 \in Int
      /\ i > 1 <=> i - 1 \in 1 .. Len(Q[h])
      /\ i = 1 <=> ~(i > 1)
  BY <1>2
<1>4. p[m] = Item(Q[h], i - 1) /\ m \in Nodes /\ m # e
  BY <1>2, <1>3 DEF Prevs, Absent
<1>5. p[m] = NIL <=> i = 1
  BY <1>2, <1>3, <1>4
<1>6. R \in Queues /\ Distinct(R)
  BY <1>1, <1>3, PutIs, PutDistinct
<1>7. Firsts(R, [f EXCEPT ![h] = IF p[m] = NIL THEN e ELSE @])
  <2>1. Firsts(R, [f EXCEPT ![h] = IF i = 1 THEN e ELSE @])
    BY <1>1, <1>3, PutEnds
  <2>2. QED
    BY <1>5, <2>1, Zenon
<1>8. ASSUME NEW l, Lasts(Q, l) PROVE Lasts(R, l)
  <2>1. Lasts(R, [l EXCEPT ![h] = IF i = Len(Q[h]) + 1 THEN e ELSE @])
    BY <1>1, <1>3, <1>8, PutEnds
  <2>2. [l EXCEPT ![h] = IF i = Len(Q[h]) + 1 THEN e ELSE @] = l
    BY <1>2, <1>3, <1>8 DEF Lasts
  <2>3. QED
    BY <2>1, <2>2
<1>9. Nexts(R, Write([n EXCEPT ![e] = m], p[m], e))
  <2> DEFINE n1 == [n EXCEPT ![e] = m]
             n2 == Write(n1, p[m], e)
  <2>1. n \in [Nodes -> NodeOrNil] /\ m \in NodeOrNil /\ e \in NodeOrNil
    BY <1>1, <1>4 DEF Nexts, NodeOrNil
  <2>2. /\ n1 \in [Nodes -> NodeOrNil] /\ n1[e] = m
        /\ \A x \in Nodes : x # e => n1[x] = n[x]
    BY <2>1
  <2> HIDE DEF n1
  <2>3. /\ n2 \in [Nodes -> NodeOrNil]
        /\ \A x \in Nodes : n2[x] = IF x = p[m] THEN e ELSE n1[x]
    BY <2>1, <2>2, WriteIs
  <2> HIDE DEF n2
  <2>4. p[m] # e
    BY <1>2, <1>3, <1>4, NilNotNode DEF Absent, Item
  <2>5. n2[e] = Item(Q[h], i)
    BY <1>2, <1>3, <2>2, <2>3, <2>4
  <2>6. i > 1 => n2[Q[h][i - 1]] = e
    BY <1>2, <1>3, <1>4, <2>3
  <2>7. \A x \in Nodes : x # e /\ (i > 1 => x # Q[h][i - 1]) => n2[x] = n[x]
    BY <1>2, <1>3, <1>4, <1>5, <2>2, <2>3, NilNotNode
  <2>8. Nexts(R, n2)
    BY <1>1, <1>3, <2>3, <2>5, <2>6, <2>7, PutNexts
  <2>9. QED
    BY <2>8 DEF n2, n1
<1>10. Prevs(R, [p EXCEPT ![e] = p[m], ![m] = e])
  <2> DEFINE p2 == [p EXCEPT ![e] = p[m], ![m] = e]
  <2>1. p \in [Nodes -> NodeOrNil] /\ e \in NodeOrNil /\ p[m] \in NodeOrNil
    BY <1>4 DEF Prevs, NodeOrNil
  <2>2. /\ p2 \in [Nodes -> NodeOrNil] /\ p2[e] = p[m] /\ p2[m] = e
        /\ \A x \in Nodes : x # e /\ x # m => p2[x] = p[x]
    BY <1>4, <2>1
  <2>3. p2[e] = Item(Q[h], i - 1)
    BY <1>4, <2>2
  <2> HIDE DEF p2
  <2>4. /\ i <= Len(Q[h]) => p2[Q[h][i]] = e
        /\ \A x \in Nodes : x # e /\ (i <= Len(Q[h]) => x # Q[h][i]) => p2[x] = p[x]
    BY <1>3, <2>2
  <2>5. Prevs(R, p2)
    BY <1>1, <1>3, <2>2, <2>3, <2>4, PutPrevs
  <2>6. QED
    BY <2>5 DEF p2
<1>11. QED
  BY <1>6, <1>7, <1>8, <1>9, <1>10 DEF Good

LEMMA TailPut ==
    ASSUME NEW Q, NEW f, NEW n, Good(Q, f, n), NEW l, Lasts(Q, l),
           NEW h \in Heads, NEW e \in Nodes, Absent(Q, e)
    PROVE  LET R == Put(Q, h, Len(Q[h]) + 1, e)
           IN /\ Good(R, [f EXCEPT ![h] = IF l[h] = NIL THEN e ELSE @],
                      Write([n EXCEPT ![e] = NIL], l[h], e))
              /\ Lasts(R, [l EXCEPT ![h] = e])
              /\ \A p : Prevs(Q, p) => Prevs(R, [p EXCEPT ![e] = l[h]])
<1> DEFINE i == Len(Q[h]) + 1
           R == Put(Q, h, i, e)
<1>1. Q \in Queues /\ Distinct(Q) /\ Firsts(Q, f) /\ Nexts(Q, n)
  BY DEF Good
<1>2. /\ Q[h] \in Seq(Nodes) /\ Len(Q[h]) \in Nat
      /\ DOMAIN Q[h] = 1 .. Len(Q[h])
      /\ \A k \in Int : Item(Q[h], k) \in NodeOrNil
      /\ \A k \in Int : Item(Q[h], k) = NIL <=> ~(k \in 1 .. Len(Q[h]))
      /\ \A k \in 1 .. Len(Q[h]) : Item(Q[h], k) = Q[h][k] /\ Q[h][k] \in Nodes
  BY <1>1, QueueTypes
<1>3. /\ i \in 1 .. Len(Q[h]) + 1 /\ i \in Int /\ i - 1 = Len(Q[h])
      /\ ~(i \in 1 .. Len(Q[h])) /\ ~(i <= Len(Q[h]))
      /\ i > 1 <=> Len(Q[h]) \in 1 .. Len(Q[h])
      /\ i = 1 <=> ~(i > 1)
  BY <1>2
<1>4. l[h] = Item(Q[h], Len(Q[h])) /\ l[h] \in NodeOrNil
  BY DEF Lasts
<1>5. l[h] = NIL <=> i = 1
  BY <1>2, <1>3, <1>4
<1>6. R \in Queues /\ Distinct(R)
  BY <1>1, <1>3, PutIs, PutDistinct
<1>7. Firsts(R, [f EXCEPT ![h] = IF l[h] = NIL THEN e ELSE @])
  <2>1. Firsts(R, [f EXCEPT ![h] = IF i = 1 THEN e ELSE @])
    BY <1>1, <1>3, PutEnds
  <2>2. QED
    BY <1>5, <2>1, Zenon
<1>8. Lasts(R, [l EXCEPT ![h] = e])
  <2>1. Lasts(R, [l EXCEPT ![h] = IF i = Len(Q[h]) + 1 THEN e ELSE @])
    BY <1>1, <1>3, PutEnds
  <2>2. QED
    BY <2>1
<1>9. Nexts(R, Write([n EXCEPT ![e] = NIL], l[h], e))
  <2> DEFINE n1 == [n EXCEPT ![e] = NIL]
             n2 == Write(n1, l[h], e)
  <2>1. n \in [Nodes -> NodeOrNil] /\ NIL \in NodeOrNil /\ e \in NodeOrNil
    BY <1>1 DEF Nexts, NodeOrNil
  <2>2. /\ n1 \in [Nodes -> NodeOrNil] /\ n1[e] = NIL
        /\ \A x \in Nodes : x # e => n1[x] = n[x]
    BY <2>1
  <2> HIDE DEF n1
  <2>3. /\ n2 \in [Nodes -> NodeOrNil]
        /\ \A x \in Nodes : n2[x] = IF x = l[h] THEN e ELSE n1[x]
    BY <2>1, <2>2, WriteIs
  <2> HIDE DEF n2
  <2>4. l[h] # e
    BY <1>2, <1>4, NilNotNode DEF Absent, Item
  <2>5. n2[e] = Item(Q[h], i)
    BY <1>2, <1>3, <2>2, <2>3, <2>4
  <2>6. i > 1 => n2[Q[h][i - 1]] = e
    BY <1>2, <1>3, <1>4, <2>3
  <2>7. \A x \in Nodes : x # e /\ (i > 1 => x # Q[h][i - 1]) => n2[x] = n[x]
    BY <1>2, <1>3, <1>4, <1>5, <2>2, <2>3, NilNotNode
  <2> HIDE DEF i
  <2>8. Nexts(R, n2)
    BY <1>1, <1>3, <2>3, <2>5, <2>6, <2>7, PutNexts
  <2>9. QED
    BY <2>8 DEF n2, n1
<1>10. ASSUME NEW p, Prevs(Q, p) PROVE Prevs(R, [p EXCEPT ![e] = l[h]])
  <2> DEFINE p2 == [p EXCEPT ![e] = l[h]]
  <2>1. p \in [Nodes -> NodeOrNil]
    BY <1>10 DEF Prevs
  <2>2. /\ p2 \in [Nodes -> NodeOrNil] /\ p2[e] = l[h]
        /\ \A x \in Nodes : x # e => p2[x] = p[x]
    BY <1>4, <2>1
  <2>3. p2[e] = Item(Q[h], i - 1)
    BY <1>3, <1>4, <2>2
  <2> HIDE DEF p2, i
  <2>4. /\ i <= Len(Q[h]) => p2[Q[h][i]] = e
        /\ \A x \in Nodes : x # e /\ (i <= Len(Q[h]) => x # Q[h][i]) => p2[x] = p[x]
    BY <1>3, <2>2
  <2>5. Prevs(R, p2)
    BY <1>1, <1>3, <1>10, <2>2, <2>3, <2>4, PutPrevs
  <2>6. QED
    BY <2>5 DEF p2
<1>11. QED
  BY <1>6, <1>7, <1>8, <1>9, <1>10 DEF Good

HeadDropped(Q, f, n, h) ==
    LET R == Drop(Q, h, 1)
    IN /\ 1 \in DOMAIN Q[h] /\ f[h] = Q[h][1]
       /\ Good(R, [f EXCEPT ![h] = n[f[h]]], n)
       /\ \A l : Lasts(Q, l) =>
             Lasts(R, [l EXCEPT ![h] = IF n[f[h]] = NIL THEN NIL ELSE @])

LEMMA HeadDrop ==
    ASSUME NEW Q, NEW f, NEW n, Good(Q, f, n),
           NEW h \in Heads, f[h] # NIL
    PROVE  HeadDropped(Q, f, n, h)
<1> DEFINE R == Drop(Q, h, 1)
<1>1. Q \in Queues /\ Distinct(Q) /\ Firsts(Q, f) /\ Nexts(Q, n)
  BY DEF Good
<1>2. /\ Q[h] \in Seq(Nodes) /\ Len(Q[h]) \in Nat
      /\ DOMAIN Q[h] = 1 .. Len(Q[h])
      /\ \A k \in Int : Item(Q[h], k) \in NodeOrNil
      /\ \A k \in Int : Item(Q[h], k) = NIL <=> ~(k \in 1 .. Len(Q[h]))
      /\ \A k \in 1 .. Len(Q[h]) : Item(Q[h], k) = Q[h][k] /\ Q[h][k] \in Nodes
  BY <1>1, QueueTypes
<1>3. f[h] = Item(Q[h], 1) /\ 1 \in 1 .. Len(Q[h]) /\ f[h] = Q[h][1]
  BY <1>1, <1>2 DEF Firsts
<1>4. n[f[h]] = Item(Q[h], 2)
  <2>1. n[Q[h][1]] = Item(Q[h], 1 + 1)
    BY <1>1, <1>2, <1>3 DEF Nexts
  <2>2. QED
    BY <1>3, <2>1
<1>5. R \in Queues /\ Distinct(R)
  BY <1>1, <1>3, DropIs, DropDistinct
<1>6. Firsts(R, [f EXCEPT ![h] = n[f[h]]])
  <2>1. Firsts(R, [f EXCEPT ![h] = IF 1 = 1 THEN Item(Q[h], 2) ELSE @])
    BY <1>1, <1>3, DropEnds
  <2>2. QED
    BY <1>4, <2>1
<1>7. Nexts(R, n)
  <2>1. n \in [Nodes -> NodeOrNil] /\ ~(1 > 1)
    BY <1>1 DEF Nexts
  <2>2. QED
    BY <1>1, <1>3, <2>1, DropNexts
<1>8. ASSUME NEW l, Lasts(Q, l)
      PROVE  Lasts(R, [l EXCEPT ![h] = IF n[f[h]] = NIL THEN NIL ELSE @])
  <2>1. n[f[h]] = NIL <=> 1 = Len(Q[h])
    <3>1. n[f[h]] = NIL <=> ~(2 \in 1 .. Len(Q[h]))
      BY <1>2, <1>4
    <3>2. Len(Q[h]) \in Nat /\ 1 <= Len(Q[h])
      BY <1>2, <1>3
    <3>3. 2 \in 1 .. Len(Q[h]) <=> ~(1 = Len(Q[h]))
      <4>1. ASSUME NEW k \in Nat, 1 <= k PROVE 2 \in 1 .. k <=> ~(1 = k)
        BY <4>1
      <4>2. QED
        BY <3>2, <4>1
    <3>4. QED
      BY <3>1, <3>3
  <2>2. Lasts(R, [l EXCEPT ![h] = IF 1 = Len(Q[h]) THEN Item(Q[h], 1 - 1) ELSE @])
    BY <1>1, <1>3, <1>8, DropEnds
  <2>3. Item(Q[h], 1 - 1) = NIL
    BY <1>2
  <2>4. QED
    BY <2>1, <2>2, <2>3, Zenon
<1>9. QED
  BY <1>2, <1>3, <1>5, <1>6, <1>7, <1>8 DEF Good, HeadDropped

AfterDropped(Q, f, n, h, i, m) ==
    LET R == Drop(Q, h, i + 1)
    IN /\ i + 1 \in DOMAIN Q[h] /\ n[m] = Q[h][i + 1]
       /\ Good(R, f, [n EXCEPT ![m] = n[n[m]]])
       /\ \A l : Lasts(Q, l) =>
             Lasts(R, [l EXCEPT ![h] = IF n[n[m]] = NIL THEN m ELSE @])

LEMMA AfterDrop ==
    ASSUME NEW Q, NEW f, NEW n, Good(Q, f, n),
           NEW h \in Heads, NEW i \in DOMAIN Q[h], n[Q[h][i]] # NIL
    PROVE  AfterDropped(Q, f, n, h, i, Q[h][i])
<1> DEFINE R == Drop(Q, h, i + 1)
           m == Q[h][i]
           n2 == [n EXCEPT ![m] = n[n[m]]]
<1>1. Q \in Queues /\ Distinct(Q) /\ Firsts(Q, f) /\ Nexts(Q, n)
  BY DEF Good
<1>2. /\ Q[h] \in Seq(Nodes) /\ Len(Q[h]) \in Nat
      /\ DOMAIN Q[h] = 1 .. Len(Q[h])
      /\ \A k \in Int : Item(Q[h], k) \in NodeOrNil
      /\ \A k \in Int : Item(Q[h], k) = NIL <=> ~(k \in 1 .. Len(Q[h]))
      /\ \A k \in 1 .. Len(Q[h]) : Item(Q[h], k) = Q[h][k] /\ Q[h][k] \in Nodes
  BY <1>1, QueueTypes
<1>3. n[m] = Item(Q[h], i + 1) /\ m \in Nodes /\ i \in Int /\ 1 <= i
      /\ i + 1 \in Int
  BY <1>1, <1>2 DEF Nexts
<1>4. /\ i + 1 \in 1 .. Len(Q[h]) /\ n[m] = Q[h][i + 1]
      /\ i + 1 > 1 /\ (i + 1) - 1 = i /\ i + 1 # 1 /\ (i + 1) + 1 \in Int
  BY <1>2, <1>3
<1>5. n[n[m]] = Item(Q[h], (i + 1) + 1)
  BY <1>1, <1>2, <1>4 DEF Nexts
<1>6. R \in Queues /\ Distinct(R)
  BY <1>1, <1>4, DropIs, DropDistinct
<1>7. Firsts(R, f)
  <2>1. Firsts(R, [f EXCEPT ![h] = IF i + 1 = 1 THEN Item(Q[h], 2) ELSE @])
    BY <1>1, <1>4, DropEnds
  <2>2. [f EXCEPT ![h] = IF i + 1 = 1 THEN Item(Q[h], 2) ELSE @] = f
    BY <1>1, <1>4 DEF Firsts
  <2>3. QED
    BY <2>1, <2>2
<1>8. Nexts(R, n2)
  <2>1. n \in [Nodes -> NodeOrNil] /\ n[n[m]] \in NodeOrNil
    BY <1>1, <1>2, <1>4, <1>5 DEF Nexts
  <2>2. /\ n2 \in [Nodes -> NodeOrNil] /\ n2[m] = n[n[m]]
        /\ \A x \in Nodes : x # m => n2[x] = n[x]
    BY <1>3, <2>1
  <2>3. /\ i + 1 > 1 => n2[Q[h][(i + 1) - 1]] = Item(Q[h], (i + 1) + 1)
        /\ \A x \in Nodes :
             x # Q[h][i + 1] /\ (i + 1 > 1 => x # Q[h][(i + 1) - 1]) => n2[x] = n[x]
    BY <1>4, <1>5, <2>2
  <2> HIDE DEF n2
  <2>4. QED
    BY <1>1, <1>4, <2>2, <2>3, DropNexts
<1>9. ASSUME NEW l, Lasts(Q, l)
      PROVE  Lasts(R, [l EXCEPT ![h] = IF n[n[m]] = NIL THEN m ELSE @])
  <2>1. n[n[m]] = NIL <=> i + 1 = Len(Q[h])
    BY <1>2, <1>4, <1>5
  <2>2. Lasts(R, [l EXCEPT ![h] = IF i + 1 = Len(Q[h])
                                  THEN Item(Q[h], (i + 1) - 1) ELSE @])
    BY <1>1, <1>4, <1>9, DropEnds
  <2>3. Item(Q[h], (i + 1) - 1) = m
    BY <1>2, <1>4
  <2>4. QED
    BY <2>1, <2>2, <2>3, Zenon
<1>10. QED
  BY <1>2, <1>4, <1>6, <1>7, <1>8, <1>9 DEF Good, AfterDropped

LEMMA BothDrop ==
    ASSUME NEW Q, NEW f, NEW n, Good(Q, f, n), NEW p, Prevs(Q, p),
           NEW h \in Heads, NEW i \in DOMAIN Q[h]
    PROVE  LET R == Drop(Q, h, i)
               e == Q[h][i]
           IN /\ Good(R, [f EXCEPT ![h] = IF p[e] = NIL THEN n[e] ELSE @],
                      [Write(n, p[e], n[e]) EXCEPT ![e] = NIL])
              /\ Prevs(R, [Write(p, n[e], p[e]) EXCEPT ![e] = NIL])
              /\ \A l : Lasts(Q, l) =>
                    Lasts(R, [l EXCEPT ![h] = IF n[e] = NIL THEN p[e] ELSE @])
<1> DEFINE R == Drop(Q, h, i)
           e == Q[h][i]
<1>1. Q \in Queues /\ Distinct(Q) /\ Firsts(Q, f) /\ Nexts(Q, n)
  BY DEF Good
<1>2. /\ Q[h] \in Seq(Nodes) /\ Len(Q[h]) \in Nat
      /\ DOMAIN Q[h] = 1 .. Len(Q[h])
      /\ \A k \in Int : Item(Q[h], k) \in NodeOrNil
      /\ \A k \in Int : Item(Q[h], k) = NIL <=> ~(k \in 1 .. Len(Q[h]))
      /\ \A k \in 1 .. Len(Q[h]) : Item(Q[h], k) = Q[h][k] /\ Q[h][k] \in Nodes
  BY <1>1, QueueTypes
<1>3. /\ n[e] = Item(Q[h], i + 1) /\ p[e] = Item(Q[h], i - 1) /\ e \in Nodes
      /\ i \in Int /\ 1 <= i /\ i <= Len(Q[h]) /\ i \in 1 .. Len(Q[h])
      /\ i + 1 \in Int /\ i - 1 \in Int
      /\ i > 1 <=> i - 1 \in 1 .. Len(Q[h])
      /\ i < Len(Q[h]) <=> i + 1 \in 1 .. Len(Q[h])
      /\ i = 1 <=> ~(i > 1)
      /\ i = Len(Q[h]) <=> ~(i < Len(Q[h]))
  BY <1>1, <1>2 DEF Nexts, Prevs
<1>4. /\ n[e] \in NodeOrNil /\ p[e] \in NodeOrNil /\ NIL \in NodeOrNil
      /\ p[e] = NIL <=> i = 1
      /\ n[e] = NIL <=> i = Len(Q[h])
      /\ i > 1 => p[e] = Q[h][i - 1]
      /\ i < Len(Q[h]) => n[e] = Q[h][i + 1]
  BY <1>2, <1>3 DEF NodeOrNil
<1>5. p[e] # e /\ n[e] # e
  <2>1. i > 1 => Q[h][i - 1] # e
    BY <1>1, <1>2, <1>3 DEF Distinct
  <2>2. i < Len(Q[h]) => Q[h][i + 1] # e
    BY <1>1, <1>2, <1>3 DEF Distinct
  <2>3. QED
    BY <1>3, <1>4, <2>1, <2>2, NilNotNode
<1>6. R \in Queues /\ Distinct(R)
  BY <1>1, <1>3, DropIs, DropDistinct
<1>7. Firsts(R, [f EXCEPT ![h] = IF p[e] = NIL THEN n[e] ELSE @])
  <2>1. Firsts(R, [f EXCEPT ![h] = IF i = 1 THEN Item(Q[h], 2) ELSE @])
    BY <1>1, <1>3, DropEnds
  <2>2. i = 1 => n[e] = Item(Q[h], 2)
    BY <1>3
  <2>3. [f EXCEPT ![h] = IF i = 1 THEN Item(Q[h], 2) ELSE @]
          = [f EXCEPT ![h] = IF p[e] = NIL THEN n[e] ELSE @]
    BY <1>4, <2>2
  <2>4. QED
    BY <2>1, <2>3
<1>8. Nexts(R, [Write(n, p[e], n[e]) EXCEPT ![e] = NIL])
  <2> DEFINE n1 == Write(n, p[e], n[e])
             n2 == [n1 EXCEPT ![e] = NIL]
  <2>1. n \in [Nodes -> NodeOrNil]
    BY <1>1 DEF Nexts
  <2>2. /\ n1 \in [Nodes -> NodeOrNil]
        /\ \A x \in Nodes : n1[x] = IF x = p[e] THEN n[e] ELSE n[x]
    BY <1>4, <2>1, WriteIs
  <2> HIDE DEF n1
  <2>3. /\ n2 \in [Nodes -> NodeOrNil]
        /\ \A x \in Nodes : x # e => n2[x] = n1[x]
    BY <1>3, <1>4, <2>2
  <2> HIDE DEF n2
  <2>4. i > 1 => n2[Q[h][i - 1]] = Item(Q[h], i + 1)
    BY <1>2, <1>3, <1>4, <1>5, <2>2, <2>3
  <2>5. \A x \in Nodes :
           x # Q[h][i] /\ (i > 1 => x # Q[h][i - 1]) => n2[x] = n[x]
    BY <1>3, <1>4, <2>2, <2>3, NilNotNode
  <2>6. Nexts(R, n2)
    BY <1>1, <1>3, <2>3, <2>4, <2>5, DropNexts
  <2>7. QED
    BY <2>6 DEF n2, n1
<1>9. Prevs(R, [Write(p, n[e], p[e]) EXCEPT ![e] = NIL])
  <2> DEFINE p1 == Write(p, n[e], p[e])
             p2 == [p1 EXCEPT ![e] = NIL]
  <2>1. p \in [Nodes -> NodeOrNil]
    BY DEF Prevs
  <2>2. /\ p1 \in [Nodes -> NodeOrNil]
        /\ \A x \in Nodes : p1[x] = IF x = n[e] THEN p[e] ELSE p[x]
    BY <1>4, <2>1, WriteIs
  <2> HIDE DEF p1
  <2>3. /\ p2 \in [Nodes -> NodeOrNil]
        /\ \A x \in Nodes : x # e => p2[x] = p1[x]
    BY <1>3, <1>4, <2>2
  <2> HIDE DEF p2
  <2>4. i < Len(Q[h]) => p2[Q[h][i + 1]] = Item(Q[h], i - 1)
    BY <1>2, <1>3, <1>4, <1>5, <2>2, <2>3
  <2>5. \A x \in Nodes :
           x # Q[h][i] /\ (i < Len(Q[h]) => x # Q[h][i + 1]) => p2[x] = p[x]
    BY <1>3, <1>4, <2>2, <2>3, NilNotNode
  <2>6. Prevs(R, p2)
    BY <1>1, <1>3, <2>3, <2>4, <2>5, DropPrevs
  <2>7. QED
    BY <2>6 DEF p2, p1
<1>10. ASSUME NEW l, Lasts(Q, l)
       PROVE  Lasts(R, [l EXCEPT ![h] = IF n[e] = NIL THEN p[e] ELSE @])
  <2>1. Lasts(R, [l EXCEPT ![h] = IF i = Len(Q[h])
                                  THEN Item(Q[h], i - 1) ELSE @])
    BY <1>1, <1>3, <1>10, DropEnds
  <2>2. QED
    BY <1>3, <1>4, <2>1, Zenon
<1>11. QED
  BY <1>6, <1>7, <1>8, <1>9, <1>10 DEF Good

Swapped(Q, g, h) == [Q EXCEPT ![g] = Q[h], ![h] = Q[g]]

Beheaded(Q, h, i) == [Q EXCEPT ![h] = SubSeq(@, i + 1, Len(@))]

Joined(Q, g, h) == [Q EXCEPT ![g] = @ \o Q[h], ![h] = <<>>]

LEMMA ResetGood ==
    ASSUME NEW Q, NEW f, NEW n, Good(Q, f, n), NEW h \in Heads
    PROVE  LET R == [Q EXCEPT ![h] = <<>>]
           IN /\ Good(R, [f EXCEPT ![h] = NIL], n)
              /\ \A l : Lasts(Q, l) => Lasts(R, [l EXCEPT ![h] = NIL])
              /\ \A p : Prevs(Q, p) => Prevs(R, p)
<1> DEFINE R == [Q EXCEPT ![h] = <<>>]
<1>1. Q \in Queues /\ Distinct(Q) /\ Firsts(Q, f) /\ Nexts(Q, n)
  BY DEF Good
<1>2. /\ R \in Queues /\ R[h] = <<>> /\ DOMAIN R[h] = {}
      /\ \A g \in Heads : g # h => R[g] = Q[g]
      /\ \A k : Item(R[h], k) = NIL
  BY <1>1 DEF Queues, Item
<1> HIDE DEF R
<1>3. Distinct(R)
  BY <1>1, <1>2 DEF Distinct
<1>4. Firsts(R, [f EXCEPT ![h] = NIL])
  BY <1>1, <1>2 DEF Firsts, NodeOrNil
<1>5. Nexts(R, n)
  BY <1>1, <1>2 DEF Nexts
<1>6. \A l : Lasts(Q, l) => Lasts(R, [l EXCEPT ![h] = NIL])
  BY <1>2 DEF Lasts, NodeOrNil
<1>7. \A p : Prevs(Q, p) => Prevs(R, p)
  BY <1>2 DEF Prevs
<1>8. QED
  BY <1>2, <1>3, <1>4, <1>5, <1>6, <1>7 DEF Good, R

SwapKeeps(Q, f, n, g, h) ==
    LET R == Swapped(Q, g, h)
    IN /\ Good(R, [f EXCEPT ![g] = f[h], ![h] = f[g]], n)
       /\ \A l : Lasts(Q, l) => Lasts(R, [l EXCEPT ![g] = l[h], ![h] = l[g]])
       /\ \A p : Prevs(Q, p) =>
             /\ Prevs(R, p)
             /\ Write(Write(p, f[g], NIL), f[h], NIL) = p

LEMMA SwapGood ==
    ASSUME NEW Q, NEW f, NEW n, Good(Q, f, n), NEW g \in Heads, NEW h \in Heads
    PROVE  SwapKeeps(Q, f, n, g, h)
<1> DEFINE R == [Q EXCEPT ![g] = Q[h], ![h] = Q[g]]
           other == [x \in Heads |-> IF x = h THEN g ELSE IF x = g THEN h ELSE x]
<1>1. Q \in Queues /\ Distinct(Q) /\ Firsts(Q, f) /\ Nexts(Q, n)
  BY DEF Good
<1>2. /\ R \in Queues
      /\ \A x \in Heads : other[x] \in Heads /\ R[x] = Q[other[x]]
      /\ \A x, y \in Heads : other[x] = other[y] => x = y
  BY <1>1 DEF Queues
<1>3. Firsts(R, [f EXCEPT ![g] = f[h], ![h] = f[g]])
  <2> DEFINE F == [f EXCEPT ![g] = f[h], ![h] = f[g]]
  <2>1. f \in [Heads -> NodeOrNil] /\ \A x \in Heads : f[x] = Item(Q[x], 1)
    BY <1>1 DEF Firsts
  <2>2. F \in [Heads -> NodeOrNil] /\ \A x \in Heads : F[x] = f[other[x]]
    BY <2>1
  <2> HIDE DEF F, R, other
  <2>3. \A x \in Heads : F[x] = Item(R[x], 1)
    BY <1>2, <2>1, <2>2
  <2>4. QED
    BY <2>2, <2>3 DEF Firsts, F
<1>4. \A l : Lasts(Q, l) => Lasts(R, [l EXCEPT ![g] = l[h], ![h] = l[g]])
  <2> TAKE l
  <2> HAVE Lasts(Q, l)
  <2> DEFINE F == [l EXCEPT ![g] = l[h], ![h] = l[g]]
  <2>1. /\ l \in [Heads -> NodeOrNil]
        /\ \A x \in Heads : l[x] = Item(Q[x], Len(Q[x]))
    BY DEF Lasts
  <2>2. F \in [Heads -> NodeOrNil] /\ \A x \in Heads : F[x] = l[other[x]]
    BY <2>1
  <2> HIDE DEF F, R, other
  <2>3. \A x \in Heads : F[x] = Item(R[x], Len(R[x]))
    BY <1>2, <2>1, <2>2
  <2>4. QED
    BY <2>2, <2>3 DEF Lasts, F
<1> HIDE DEF R, other
<1>5. Distinct(R)
  BY <1>1, <1>2 DEF Distinct
<1>6. Nexts(R, n)
  BY <1>1, <1>2 DEF Nexts
<1>7. \A p : Prevs(Q, p) => Prevs(R, p)
  BY <1>2 DEF Prevs
<1>8. ASSUME NEW p, Prevs(Q, p)
      PROVE  Write(Write(p, f[g], NIL), f[h], NIL) = p
  <2>1. p \in [Nodes -> NodeOrNil]
    BY <1>8 DEF Prevs
  <2>2. \A x \in Heads : f[x] \in Nodes => p[f[x]] = NIL
    <3>1. ASSUME NEW x \in Heads, f[x] \in Nodes PROVE p[f[x]] = NIL
      <4>1. f[x] = Item(Q[x], 1)
        BY <1>1 DEF Firsts
      <4>2. 1 \in DOMAIN Q[x] /\ f[x] = Q[x][1]
        BY <3>1, <4>1, NilNotNode DEF Item
      <4>3. p[f[x]] = Item(Q[x], 1 - 1)
        BY <1>8, <4>2 DEF Prevs
      <4>4. Item(Q[x], 1 - 1) = NIL
        BY <1>1, QueueTypes
      <4>5. QED
        BY <4>3, <4>4
    <3>2. QED
      BY <3>1
  <2>3. \A x \in Nodes : (x = f[g] \/ x = f[h]) => p[x] = NIL
    BY <2>2
  <2>4. QED
    BY <2>1, <2>3 DEF Write
<1>9. QED
  BY <1>2, <1>3, <1>4, <1>5, <1>6, <1>7, <1>8
  DEF Good, R, Swapped, SwapKeeps

UntilKeeps(Q, f, n, h, i, m) ==
    LET R == Beheaded(Q, h, i)
    IN /\ Good(R, [f EXCEPT ![h] = n[m]], n)
       /\ \A l : Lasts(Q, l) =>
             Lasts(R, [l EXCEPT ![h] = IF n[m] = NIL THEN NIL ELSE @])

LEMMA UntilGood ==
    ASSUME NEW Q, NEW f, NEW n, Good(Q, f, n),
           NEW h \in Heads, NEW i \in DOMAIN Q[h]
    PROVE  UntilKeeps(Q, f, n, h, i, Q[h][i])
<1> DEFINE R == [Q EXCEPT ![h] = SubSeq(@, i + 1, Len(@))]
           m == Q[h][i]
<1>1. Q \in Queues /\ Distinct(Q) /\ Firsts(Q, f) /\ Nexts(Q, n)
  BY DEF Good
<1>2. /\ Q[h] \in Seq(Nodes) /\ Len(Q[h]) \in Nat
      /\ DOMAIN Q[h] = 1 .. Len(Q[h])
      /\ \A k \in Int : Item(Q[h], k) \in NodeOrNil
      /\ \A k \in Int : Item(Q[h], k) = NIL <=> ~(k \in 1 .. Len(Q[h]))
      /\ \A k \in 1 .. Len(Q[h]) : Item(Q[h], k) = Q[h][k] /\ Q[h][k] \in Nodes
  BY <1>1, QueueTypes
<1>3. /\ i \in Int /\ 1 <= i /\ i <= Len(Q[h]) /\ i + 1 \in Int
      /\ n[m] = Item(Q[h], i + 1)
  BY <1>1, <1>2 DEF Nexts
<1>4. /\ R \in Queues
      /\ \A g \in Heads : g # h => R[g] = Q[g]
      /\ Len(R[h]) = Len(Q[h]) - i
      /\ DOMAIN R[h] = 1 .. Len(Q[h]) - i
      /\ \A k \in 1 .. Len(Q[h]) - i : R[h][k] = Q[h][i + k]
  <2> DEFINE r == SubSeq(Q[h], i + 1, Len(Q[h]))
  <2>1. \A k \in i + 1 .. Len(Q[h]) : Q[h][k] \in Nodes
    BY <1>2, <1>3
  <2>2. /\ r \in Seq(Nodes)
        /\ Len(r) = IF i + 1 <= Len(Q[h]) THEN Len(Q[h]) - (i + 1) + 1 ELSE 0
        /\ \A k \in 1 .. Len(Q[h]) - (i + 1) + 1 : r[k] = Q[h][i + 1 + k - 1]
    BY <1>2, <1>3, <2>1, SubSeqProperties
  <2>3. R[h] = r /\ R = [Q EXCEPT ![h] = r]
    BY <1>1 DEF Queues
  <2> HIDE DEF r
  <2>4. R \in Queues /\ \A g \in Heads : g # h => R[g] = Q[g]
    BY <1>1, <2>2, <2>3 DEF Queues
  <2> HIDE DEF R
  <2>5. Len(r) = Len(Q[h]) - i /\ DOMAIN r = 1 .. Len(Q[h]) - i
    BY <1>2, <1>3, <2>2
  <2>6. \A k \in 1 .. Len(Q[h]) - i : r[k] = Q[h][i + k]
    BY <1>2, <1>3, <2>2
  <2>7. QED
    BY <2>3, <2>4, <2>5, <2>6
<1> HIDE DEF R
<1>5. \A k \in Nat \ {0} : Item(R[h], k) = Item(Q[h], i + k)
  BY <1>2, <1>3, <1>4 DEF Item
<1>6. \A k \in DOMAIN R[h] :
         k \in Nat \ {0} /\ i + k \in DOMAIN Q[h] /\ R[h][k] = Q[h][i + k]
  <2>1. ASSUME NEW k \in 1 .. Len(Q[h]) - i
        PROVE  k \in Nat \ {0} /\ i + k \in 1 .. Len(Q[h])
    BY <1>2, <1>3
  <2>2. QED
    BY <1>2, <1>4, <2>1
<1>7. Distinct(R)
  <2>1. ASSUME NEW g \in Heads, NEW x \in DOMAIN R[g], NEW y \in DOMAIN R[h],
               R[g][x] = R[h][y]
        PROVE  g = h /\ x = y
    <3>1. CASE g = h
      <4>1. i + x = i + y
        BY <1>1, <1>6, <2>1, <3>1 DEF Distinct
      <4>2. QED
        BY <1>3, <1>6, <2>1, <3>1, <4>1
    <3>2. CASE g # h
      BY <1>1, <1>4, <1>6, <2>1, <3>2 DEF Distinct
    <3>3. QED
      BY <3>1, <3>2
  <2>2. ASSUME NEW g \in Heads, NEW k \in Heads,
               NEW x \in DOMAIN R[g], NEW y \in DOMAIN R[k],
               R[g][x] = R[k][y]
        PROVE  g = k /\ x = y
    <3>1. CASE k = h
      BY <2>1, <2>2, <3>1
    <3>2. CASE g = h
      BY <2>1, <2>2, <3>2
    <3>3. CASE g # h /\ k # h
      <4>1. R[g] = Q[g] /\ R[k] = Q[k]
        BY <1>4, <3>3
      <4>2. QED
        BY <1>1, <2>2, <4>1 DEF Distinct
    <3>4. QED
      BY <3>1, <3>2, <3>3
  <2>3. QED
    BY <2>2 DEF Distinct
<1>8. Firsts(R, [f EXCEPT ![h] = n[m]])
  <2>1. Item(R[h], 1) = n[m] /\ n[m] \in NodeOrNil
    BY <1>2, <1>3, <1>5
  <2>2. QED
    BY <1>1, <1>4, <2>1 DEF Firsts
<1>9. Nexts(R, n)
  <2>1. ASSUME NEW k \in DOMAIN R[h] PROVE n[R[h][k]] = Item(R[h], k + 1)
    <3>1. n[Q[h][i + k]] = Item(Q[h], (i + k) + 1)
      BY <1>1, <1>6 DEF Nexts
    <3>2. (i + k) + 1 = i + (k + 1) /\ k + 1 \in Nat \ {0}
      BY <1>3, <1>6
    <3>3. QED
      BY <1>5, <1>6, <3>1, <3>2
  <2>2. ASSUME NEW g \in Heads, NEW k \in DOMAIN R[g]
        PROVE  n[R[g][k]] = Item(R[g], k + 1)
    <3>1. g # h => k \in DOMAIN Q[g] /\ R[g] = Q[g]
      BY <1>4, <2>2
    <3>2. g # h => n[Q[g][k]] = Item(Q[g], k + 1)
      BY <1>1, <3>1 DEF Nexts
    <3>3. CASE g = h
      BY <2>1, <3>3
    <3>4. CASE g # h
      BY <3>1, <3>2, <3>4
    <3>5. QED
      BY <3>3, <3>4
  <2>3. QED
    BY <1>1, <2>2 DEF Nexts
<1>10. ASSUME NEW l, Lasts(Q, l)
       PROVE  Lasts(R, [l EXCEPT ![h] = IF n[m] = NIL THEN NIL ELSE @])
  <2>1. n[m] = NIL <=> i = Len(Q[h])
    <3>1. n[m] = NIL <=> ~(i + 1 \in 1 .. Len(Q[h]))
      BY <1>2, <1>3
    <3>2. QED
      BY <1>2, <1>3, <3>1
  <2>2. Item(R[h], Len(R[h])) = IF i = Len(Q[h]) THEN NIL
                                ELSE Item(Q[h], Len(Q[h]))
    <3>1. CASE i = Len(Q[h])
      BY <1>2, <1>4, <3>1 DEF Item
    <3>2. CASE i # Len(Q[h])
      <4>1. Len(R[h]) \in Nat \ {0} /\ i + Len(R[h]) = Len(Q[h])
        BY <1>2, <1>3, <1>4, <3>2
      <4>2. QED
        BY <1>5, <3>2, <4>1
    <3>3. QED
      BY <3>1, <3>2
  <2>3. QED
    BY <1>4, <1>10, <2>1, <2>2 DEF Lasts, NodeOrNil
<1>11. QED
  BY <1>4, <1>7, <1>8, <1>9, <1>10 DEF Good, R, Beheaded, UntilKeeps

ConcatKeeps(Q, f, n, l, g, h) ==
    LET R == Joined(Q, g, h)
    IN /\ Good(R, [f EXCEPT ![g] = IF @ = NIL THEN f[h] ELSE @, ![h] = NIL],
               IF f[g] = NIL THEN n ELSE [n EXCEPT ![l[g]] = f[h]])
       /\ Lasts(R, [l EXCEPT ![g] = l[h], ![h] = NIL])
       /\ \A p : Prevs(Q, p) =>
             Prevs(R, IF f[g] = NIL THEN p ELSE [p EXCEPT ![f[h]] = l[g]])

LEMMA ConcatGood ==
    ASSUME NEW Q, NEW f, NEW n, Good(Q, f, n), NEW l, Lasts(Q, l),
           NEW g \in Heads, NEW h \in Heads, g # h, f[h] # NIL
    PROVE  ConcatKeeps(Q, f, n, l, g, h)
<1> DEFINE R == [Q EXCEPT ![g] = @ \o Q[h], ![h] = <<>>]
           a == Len(Q[g])
           b == Len(Q[h])
<1>1. Q \in Queues /\ Distinct(Q) /\ Firsts(Q, f) /\ Nexts(Q, n)
  BY DEF Good
<1>2. \A x \in Heads :
      /\ Q[x] \in Seq(Nodes) /\ Len(Q[x]) \in Nat
      /\ DOMAIN Q[x] = 1 .. Len(Q[x])
      /\ \A k \in Int : Item(Q[x], k) \in NodeOrNil
      /\ \A k \in Int : Item(Q[x], k) = NIL <=> ~(k \in 1 .. Len(Q[x]))
      /\ \A k \in 1 .. Len(Q[x]) : Item(Q[x], k) = Q[x][k] /\ Q[x][k] \in Nodes
  BY <1>1, QueueTypes
<1>3. /\ f[h] = Q[h][1] /\ f[h] \in Nodes /\ 1 \in 1 .. b
      /\ f[g] = Item(Q[g], 1) /\ l[g] = Item(Q[g], a) /\ l[h] = Item(Q[h], b)
      /\ f[g] = NIL <=> a = 0
      /\ a # 0 => l[g] = Q[g][a] /\ l[g] \in Nodes /\ a \in 1 .. a
      /\ l[g] \in NodeOrNil
  <2>1. f[h] = Item(Q[h], 1) /\ f[g] = Item(Q[g], 1)
        /\ l[g] = Item(Q[g], a) /\ l[h] = Item(Q[h], b)
    BY <1>1 DEF Firsts, Lasts
  <2>2. 1 \in 1 .. b
    BY <1>2, <2>1
  <2>3. f[g] = NIL <=> a = 0
    <3>1. f[g] = NIL <=> ~(1 \in 1 .. a)
      BY <1>2, <2>1
    <3>2. QED
      BY <1>2, <3>1
  <2>4. a # 0 => a \in 1 .. a
    BY <1>2
  <2>5. QED
    BY <1>2, <2>1, <2>2, <2>3, <2>4
<1>4. /\ R \in Queues
      /\ \A x \in Heads : x # g /\ x # h => R[x] = Q[x]
      /\ R[h] = <<>>
      /\ Len(R[g]) = a + b
      /\ DOMAIN R[g] = 1 .. a + b
      /\ \A k \in 1 .. a + b : R[g][k] = IF k <= a THEN Q[g][k] ELSE Q[h][k - a]
  <2> DEFINE r == Q[g] \o Q[h]
  <2>1. /\ r \in Seq(Nodes) /\ Len(r) = a + b
        /\ \A k \in 1 .. a + b : r[k] = IF k <= a THEN Q[g][k] ELSE Q[h][k - a]
    <3>1. Q[g] \in Seq(Nodes) /\ Q[h] \in Seq(Nodes)
      BY <1>2
    <3>2. QED
      BY <3>1, ConcatProperties, Zenon
  <2>2. R[g] = r /\ R = [Q EXCEPT ![g] = r, ![h] = <<>>]
    BY <1>1 DEF Queues
  <2> HIDE DEF r
  <2>3. R \in Queues /\ R[h] = <<>>
        /\ \A x \in Heads : x # g /\ x # h => R[x] = Q[x]
    <3>1. <<>> \in Seq(Nodes)
      OBVIOUS
    <3> HIDE DEF R
    <3>2. QED
      BY <1>1, <2>1, <2>2, <3>1 DEF Queues
  <2> HIDE DEF R
  <2>4. DOMAIN r = 1 .. a + b
    BY <2>1
  <2>5. QED
    BY <2>1, <2>2, <2>3, <2>4
<1> HIDE DEF R, a, b
<1>5. a \in Nat /\ b \in Nat /\ b # 0 /\ 1 <= b
  BY <1>2, <1>3 DEF a, b
<1>6. \A k \in Int : Item(R[g], k) = IF k <= a THEN Item(Q[g], k) ELSE Item(Q[h], k - a)
  <2>1. ASSUME NEW k \in Int
        PROVE  Item(R[g], k) = IF k <= a THEN Item(Q[g], k) ELSE Item(Q[h], k - a)
    <3>1. DOMAIN Q[g] = 1 .. a /\ DOMAIN Q[h] = 1 .. b
      BY <1>2 DEF a, b
    <3>2. CASE k <= a
      BY <1>4, <1>5, <3>1, <3>2 DEF Item
    <3>3. CASE ~(k <= a)
      BY <1>4, <1>5, <3>1, <3>3 DEF Item
    <3>4. QED
      BY <3>2, <3>3
  <2>2. QED
    BY <2>1
<1>7. \A x \in Heads : \A k \in DOMAIN R[x] :
         \/ x # g /\ x # h /\ k \in DOMAIN Q[x] /\ R[x][k] = Q[x][k]
         \/ x = g /\ k \in 1 .. a /\ k \in DOMAIN Q[g] /\ R[x][k] = Q[g][k]
         \/ x = g /\ k \in Int /\ ~(k <= a) /\ k - a \in DOMAIN Q[h]
              /\ R[x][k] = Q[h][k - a]
  <2>1. ASSUME NEW k \in 1 .. a + b
        PROVE  \/ k \in 1 .. a /\ k \in DOMAIN Q[g] /\ R[g][k] = Q[g][k]
               \/ ~(k <= a) /\ k - a \in DOMAIN Q[h] /\ R[g][k] = Q[h][k - a]
    <3>1. CASE k <= a
      BY <1>2, <1>4, <1>5, <3>1 DEF a
    <3>2. CASE ~(k <= a)
      <4>1. k - a \in 1 .. b
        BY <1>5, <3>2
      <4>2. QED
        BY <1>2, <1>4, <3>2, <4>1 DEF b
    <3>3. QED
      BY <3>1, <3>2
  <2>2. QED
    BY <1>4, <2>1
<1>8. Distinct(R)
  <2>1. ASSUME NEW x \in Heads, NEW k \in DOMAIN R[x],
               NEW y \in Heads, NEW j \in DOMAIN R[y],
               R[x][k] = R[y][j]
        PROVE  x = y /\ k = j
    <3>1. CASE x # g \/ y # g
      BY <1>1, <1>7, <2>1, <3>1 DEF Distinct
    <3>2. CASE x = g /\ y = g
      <4>1. k <= a /\ j <= a => k = j
        BY <1>1, <1>7, <2>1, <3>2 DEF Distinct
      <4>2. ~(k <= a) /\ ~(j <= a) => k - a = j - a /\ k \in Int /\ j \in Int
        <5>1. SUFFICES ASSUME ~(k <= a), ~(j <= a)
                       PROVE  k - a = j - a /\ k \in Int /\ j \in Int
          OBVIOUS
        <5>2. /\ k \in Int /\ k - a \in DOMAIN Q[h] /\ R[x][k] = Q[h][k - a]
              /\ j \in Int /\ j - a \in DOMAIN Q[h] /\ R[y][j] = Q[h][j - a]
          BY <1>5, <1>7, <3>2, <5>1
        <5>3. Q[h][k - a] = Q[h][j - a]
          BY <2>1, <5>2
        <5> DEFINE u == k - a
                   v == j - a
        <5>4. u \in DOMAIN Q[h] /\ v \in DOMAIN Q[h] /\ Q[h][u] = Q[h][v]
          BY <5>2, <5>3
        <5> HIDE DEF u, v
        <5>5. u = v
          BY <1>1, <5>4 DEF Distinct
        <5>6. QED
          BY <5>2, <5>5 DEF u, v
      <4>3. k <= a <=> j <= a
        <5>1. ASSUME NEW u \in DOMAIN R[g], NEW v \in DOMAIN R[g], u <= a, ~(v <= a)
              PROVE  R[g][u] # R[g][v]
          <6>1. u \in DOMAIN Q[g] /\ R[g][u] = Q[g][u]
            BY <1>7, <5>1
          <6>2. v - a \in DOMAIN Q[h] /\ R[g][v] = Q[h][v - a]
            BY <1>5, <1>7, <5>1
          <6>3. QED
            BY <1>1, <6>1, <6>2 DEF Distinct
        <5>2. QED
          BY <2>1, <3>2, <5>1
      <4>4. QED
        BY <1>5, <3>2, <4>1, <4>2, <4>3
    <3>3. QED
      BY <3>1, <3>2
  <2>2. QED
    BY <2>1 DEF Distinct
<1>9. Firsts(R, [f EXCEPT ![g] = IF @ = NIL THEN f[h] ELSE @, ![h] = NIL])
  <2>1. Item(R[g], 1) = IF f[g] = NIL THEN f[h] ELSE f[g]
    <3>1. Item(R[g], 1) = IF 1 <= a THEN Item(Q[g], 1) ELSE Item(Q[h], 1 - a)
      BY <1>6
    <3>2. a = 0 => Item(Q[h], 1 - a) = f[h]
      BY <1>2, <1>3 DEF b
    <3>3. QED
      BY <1>3, <1>5, <3>1, <3>2
  <2>2. Item(R[h], 1) = NIL
    BY <1>4 DEF Item
  <2>3. QED
    BY <1>1, <1>3, <1>4, <2>1, <2>2 DEF Firsts, NodeOrNil
<1>10. Lasts(R, [l EXCEPT ![g] = l[h], ![h] = NIL])
  <2>1. Item(R[g], Len(R[g])) = l[h]
    <3>1. a + b \in Int /\ ~(a + b <= a) /\ (a + b) - a = b
      BY <1>5
    <3>2. QED
      BY <1>3, <1>4, <1>6, <3>1
  <2>2. Item(R[h], Len(R[h])) = NIL
    BY <1>4 DEF Item
  <2>3. QED
    BY <1>4, <2>1, <2>2 DEF Lasts, NodeOrNil
<1>11. Nexts(R, IF f[g] = NIL THEN n ELSE [n EXCEPT ![l[g]] = f[h]])
  <2> DEFINE n2 == IF f[g] = NIL THEN n ELSE [n EXCEPT ![l[g]] = f[h]]
  <2>1. /\ n2 \in [Nodes -> NodeOrNil]
        /\ a # 0 => n2[l[g]] = f[h]
        /\ \A x \in Nodes : (a # 0 => x # l[g]) => n2[x] = n[x]
    BY <1>1, <1>3 DEF Nexts, NodeOrNil
  <2> HIDE DEF n2
  <2>2. ASSUME NEW x \in Heads, NEW k \in DOMAIN R[x]
        PROVE  n2[R[x][k]] = Item(R[x], k + 1)
    <3>1. CASE x # g
      <4>1. x # h /\ k \in DOMAIN Q[x] /\ R[x] = Q[x]
        BY <1>4, <1>7, <3>1
      <4>2. a # 0 => Q[x][k] # l[g]
        BY <1>1, <1>2, <1>3, <3>1, <4>1 DEF Distinct, a
      <4>3. Q[x][k] \in Nodes
        BY <1>2, <4>1
      <4>4. QED
        BY <1>1, <2>1, <4>1, <4>2, <4>3 DEF Nexts
    <3>2. CASE x = g /\ k <= a
      <4>1. k \in 1 .. a /\ k \in DOMAIN Q[g] /\ R[g][k] = Q[g][k] /\ Q[g][k] \in Nodes
            /\ k + 1 \in Int /\ a # 0
        BY <1>2, <1>5, <1>7, <3>2
      <4>2. Item(R[g], k + 1) = IF k + 1 <= a THEN Item(Q[g], k + 1)
                                ELSE Item(Q[h], (k + 1) - a)
        BY <1>6, <4>1
      <4>3. CASE k = a
        <5>1. (k + 1) - a = 1 /\ ~(k + 1 <= a)
          BY <1>5, <4>1, <4>3
        <5>2. Item(Q[h], 1) = f[h]
          BY <1>2, <1>3 DEF b
        <5>3. QED
          BY <1>3, <2>1, <3>2, <4>1, <4>2, <4>3, <5>1, <5>2
      <4>4. CASE k # a
        <5>1. k + 1 <= a
          BY <1>5, <4>1, <4>4
        <5>2. Q[g][k] # l[g]
          <6>1. a \in DOMAIN Q[g] /\ l[g] = Q[g][a]
            BY <1>2, <1>3, <4>1 DEF a
          <6>2. QED
            BY <1>1, <4>1, <4>4, <6>1 DEF Distinct
        <5>3. n[Q[g][k]] = Item(Q[g], k + 1)
          BY <1>1, <4>1 DEF Nexts
        <5>4. QED
          BY <2>1, <3>2, <4>1, <4>2, <5>1, <5>2, <5>3
      <4>5. QED
        BY <4>3, <4>4
    <3>3. CASE x = g /\ ~(k <= a)
      <4>1. /\ k \in Int /\ k - a \in DOMAIN Q[h] /\ R[g][k] = Q[h][k - a]
            /\ Q[h][k - a] \in Nodes /\ k + 1 \in Int /\ ~(k + 1 <= a)
            /\ (k + 1) - a = (k - a) + 1
        BY <1>2, <1>5, <1>7, <3>3
      <4>2. Item(R[g], k + 1) = Item(Q[h], (k - a) + 1)
        BY <1>6, <4>1
      <4>3. a # 0 => Q[h][k - a] # l[g]
        BY <1>1, <1>2, <1>3, <4>1 DEF Distinct, a
      <4>4. n[Q[h][k - a]] = Item(Q[h], (k - a) + 1)
        BY <1>1, <4>1 DEF Nexts
      <4>5. QED
        BY <2>1, <3>3, <4>1, <4>2, <4>3, <4>4
    <3>4. QED
      BY <3>1, <3>2, <3>3
  <2>3. Nexts(R, n2)
    BY <2>1, <2>2 DEF Nexts
  <2>4. QED
    BY <2>3 DEF n2
<1>12. ASSUME NEW p, Prevs(Q, p)
       PROVE  Prevs(R, IF f[g] = NIL THEN p ELSE [p EXCEPT ![f[h]] = l[g]])
  <2> DEFINE p2 == IF f[g] = NIL THEN p ELSE [p EXCEPT ![f[h]] = l[g]]
  <2>1. /\ p2 \in [Nodes -> NodeOrNil]
        /\ a # 0 => p2[f[h]] = l[g]
        /\ \A x \in Nodes : (a # 0 => x # f[h]) => p2[x] = p[x]
    BY <1>3, <1>12 DEF Prevs
  <2> HIDE DEF p2
  <2>2. ASSUME NEW x \in Heads, NEW k \in DOMAIN R[x]
        PROVE  p2[R[x][k]] = Item(R[x], k - 1)
    <3>1. CASE x # g
      <4>1. x # h /\ k \in DOMAIN Q[x] /\ R[x] = Q[x]
        BY <1>4, <1>7, <3>1
      <4>2. Q[x][k] # f[h]
        BY <1>1, <1>2, <1>3, <4>1 DEF Distinct, b
      <4>3. Q[x][k] \in Nodes
        BY <1>2, <4>1
      <4>4. QED
        BY <1>12, <2>1, <4>1, <4>2, <4>3 DEF Prevs
    <3>2. CASE x = g /\ k <= a
      <4>1. k \in 1 .. a /\ k \in DOMAIN Q[g] /\ R[g][k] = Q[g][k] /\ Q[g][k] \in Nodes
            /\ k - 1 \in Int /\ k - 1 <= a
        BY <1>2, <1>5, <1>7, <3>2
      <4>2. Item(R[g], k - 1) = Item(Q[g], k - 1)
        BY <1>6, <4>1
      <4>3. Q[g][k] # f[h]
        BY <1>1, <1>2, <1>3, <4>1 DEF Distinct, b
      <4>4. p[Q[g][k]] = Item(Q[g], k - 1)
        BY <1>12, <4>1 DEF Prevs
      <4>5. QED
        BY <2>1, <3>2, <4>1, <4>2, <4>3, <4>4
    <3>3. CASE x = g /\ ~(k <= a)
      <4>1. /\ k \in Int /\ k - a \in DOMAIN Q[h] /\ R[g][k] = Q[h][k - a]
            /\ Q[h][k - a] \in Nodes /\ k - 1 \in Int
            /\ (k - 1) - a = (k - a) - 1
        BY <1>2, <1>5, <1>7, <3>3
      <4>2. Item(R[g], k - 1) = IF k - 1 <= a THEN Item(Q[g], k - 1)
                                ELSE Item(Q[h], (k - a) - 1)
        BY <1>6, <4>1
      <4>3. p[Q[h][k - a]] = Item(Q[h], (k - a) - 1)
        BY <1>12, <4>1 DEF Prevs
      <4>4. CASE k - 1 = a
        <5>1. k - a = 1 /\ Q[h][k - a] = f[h] /\ (k - a) - 1 = 0 /\ k - 1 <= a
          BY <1>3, <1>5, <4>1, <4>4
        <5>2. Item(R[g], k - 1) = l[g]
          BY <1>3, <4>2, <4>4, <5>1 DEF a
        <5>3. CASE a # 0
          BY <2>1, <3>3, <4>1, <5>1, <5>2, <5>3
        <5>4. CASE a = 0
          <6>1. l[g] = NIL /\ Item(Q[h], 0) = NIL
            BY <1>2, <1>3, <5>4
          <6>2. QED
            BY <2>1, <3>3, <4>1, <4>3, <5>1, <5>2, <5>4, <6>1
        <5>5. QED
          BY <5>3, <5>4
      <4>5. CASE k - 1 # a
        <5>1. ~(k - 1 <= a) /\ k - a # 1
          BY <1>5, <3>3, <4>1, <4>5
        <5>2. Q[h][k - a] # f[h]
          <6>1. 1 \in DOMAIN Q[h] /\ f[h] = Q[h][1]
            BY <1>2, <1>3 DEF b
          <6>2. QED
            BY <1>1, <4>1, <5>1, <6>1 DEF Distinct
        <5>3. QED
          BY <2>1, <3>3, <4>1, <4>2, <4>3, <5>1, <5>2
      <4>6. QED
        BY <4>4, <4>5
    <3>4. QED
      BY <3>1, <3>2, <3>3
  <2>3. Prevs(R, p2)
    BY <2>1, <2>2 DEF Prevs
  <2>4. QED
    BY <2>3 DEF p2
<1>13. QED
  BY <1>4, <1>8, <1>9, <1>10, <1>11, <1>12 DEF Good, R, Joined, ConcatKeeps

(* Nothing to append.                                                      *)
LEMMA ConcatNone ==
    ASSUME NEW Q, NEW f, NEW n, Good(Q, f, n),
           NEW g \in Heads, NEW h \in Heads, g # h, f[h] = NIL
    PROVE  Joined(Q, g, h) = Q
<1>1. Q \in Queues /\ Firsts(Q, f)
  BY DEF Good
<1>2. Q[h] = <<>>
  <2>1. Item(Q[h], 1) = NIL
    BY <1>1 DEF Firsts
  <2>2. ~(1 \in 1 .. Len(Q[h])) /\ Len(Q[h]) \in Nat /\ Q[h] \in Seq(Nodes)
    BY <1>1, <2>1, QueueTypes
  <2>3. QED
    BY <2>2
<1>3. Q[g] \o Q[h] = Q[g]
  BY <1>1, <1>2, ConcatEmptySeq DEF Queues
<1>4. QED
  BY <1>1, <1>2, <1>3 DEF Queues, Joined

-----------------------------------------------------------------------------
(* The calls on a queue with ends, whichever it is *)

Lines == LinesOf(first, next)

(* Every list is a sequence of its own elements, and a safe iteration has  *)
(* its place in one.                                                       *)
LineInv == Good(Lines, first, next) /\ LoopIn(Lines, loop)

Cut(Q, h, i) == [Q EXCEPT ![h] = IF i \in DOMAIN @ THEN Removed(@, i) ELSE @]

LEMMA CutIs ==
    ASSUME NEW Q \in Queues, NEW h \in Heads, NEW i
    PROVE  /\ i \in DOMAIN Q[h] => Cut(Q, h, i) = Drop(Q, h, i)
           /\ ~(i \in DOMAIN Q[h]) => Cut(Q, h, i) = Q
BY DEF Queues, Cut, Drop

LEMMA LineAt ==
    ASSUME NEW h \in Heads
    PROVE  /\ Lines[h] = Line(h)
           /\ \A e : In(h, e) <=> \E i \in DOMAIN Lines[h] : Lines[h][i] = e
<1>1. Lines[h] = Line(h)
  BY DEF Lines, LinesOf, Line
<1>2. QED
  BY <1>1 DEF In, Among, Range

LEMMA FreshIs ==
    ASSUME NEW e, MayInsert(e)
    PROVE  Absent(Lines, e) /\ loop' = loop
BY LineAt DEF MayInsert, Absent

LEMMA LinesBecome ==
    ASSUME NEW R, Good(R, first', next')
    PROVE  Lines' = R
BY LinesAre DEF Good, Lines

LEMMA PutLine ==
    ASSUME LineInv, NEW h \in Heads, NEW e \in Nodes, MayInsert(e),
           NEW i \in 1 .. Len(Lines[h]) + 1,
           Good(Put(Lines, h, i, e), first', next')
    PROVE  LineInv' /\ Absent(Lines, e) /\ Lines' = Put(Lines, h, i, e)
<1>1. Absent(Lines, e) /\ loop' = loop
  BY FreshIs
<1>2. Lines' = Put(Lines, h, i, e)
  BY LinesBecome
<1>3. LoopIn(Put(Lines, h, i, e), loop)
  BY <1>1, PutLoop DEF LineInv, Good
<1>4. QED
  BY <1>1, <1>2, <1>3 DEF LineInv

LEMMA DropLine ==
    ASSUME LineInv, NEW h \in Heads, NEW i \in DOMAIN Lines[h],
           Unlinks(Lines[h][i]),
           Good(Drop(Lines, h, i), first', next')
    PROVE  LineInv' /\ Lines' = Drop(Lines, h, i)
<1>1. Lines' = Drop(Lines, h, i)
  BY LinesBecome
<1>2. /\ Lines \in Queues /\ Distinct(Lines)
      /\ i \in 1 .. Len(Lines[h]) /\ Lines[h][i] \in Nodes
  BY QueueTypes DEF LineInv, Good
<1>3. /\ Lines[h][i] # loop.tvar
      /\ loop' = [loop EXCEPT !.due = @ \ {Lines[h][i]}]
  BY <1>2 DEF Unlinks
<1>4. LoopIn(Drop(Lines, h, i), loop')
  BY <1>2, <1>3, DropLoop DEF LineInv
<1>5. QED
  BY <1>1, <1>4 DEF LineInv

LEMMA SameLine ==
    ASSUME LineInv, Unlinks(NIL), UNCHANGED <<first, next>>
    PROVE  LineInv' /\ Lines' = Lines
<1>1. Lines' = Lines
  BY DEF Lines
<1>2. LoopIn(Lines, loop')
  BY NilLoop DEF LineInv, Unlinks
<1>3. QED
  BY <1>1, <1>2 DEF LineInv

LEMMA IdleLine ==
    ASSUME NEW R, Idle, Good(R, first', next')
    PROVE  LineInv' /\ Lines' = R
<1>1. Lines' = R
  BY LinesBecome
<1>2. loop' = NoLoop
  BY DEF Idle
<1>3. QED
  BY <1>1, <1>2 DEF LineInv, LoopIn

LEMMA HeadIn ==
    ASSUME NEW l, NEW l2, NEW p, NEW p2,
           LineInv, NEW h \in Heads, NEW e \in Nodes, MayInsert(e),
           next' = [next EXCEPT ![e] = first[h]],
           first' = [first EXCEPT ![h] = e]
    PROVE  /\ LineInv' /\ Absent(Lines, e) /\ Lines' = Put(Lines, h, 1, e)
           /\ Lasts(Lines, l)
              /\ l2 = [l EXCEPT ![h] = IF first[h] = NIL THEN e ELSE @]
              => Lasts(Lines', l2)
           /\ Prevs(Lines, p)
              /\ p2 = Write([p EXCEPT ![e] = NIL], first[h], e)
              => Prevs(Lines', p2)
<1>1. Absent(Lines, e)
  BY FreshIs
<1>2. 1 \in 1 .. Len(Lines[h]) + 1
  BY QueueTypes DEF LineInv, Good
<1>3. Good(Put(Lines, h, 1, e), first', next')
  BY <1>1, HeadPut DEF LineInv
<1>4. LineInv' /\ Lines' = Put(Lines, h, 1, e)
  BY <1>2, <1>3, PutLine
<1>5. QED
  BY <1>1, <1>4, HeadPut DEF LineInv

LEMMA AfterIn ==
    ASSUME LineInv, NEW h \in Heads, NEW e \in Nodes, MayInsert(e),
           NEW i \in DOMAIN Lines[h], NEW m, m = Lines[h][i],
           next' = [next EXCEPT ![e] = next[m], ![m] = e],
           UNCHANGED first
    PROVE  /\ LineInv' /\ Absent(Lines, e) /\ Lines' = Put(Lines, h, i + 1, e)
           /\ \A l : Lasts(Lines, l) =>
                 Lasts(Lines', [l EXCEPT ![h] = IF next[m] = NIL THEN e ELSE @])
           /\ \A p : Prevs(Lines, p) =>
                 Prevs(Lines', Write([p EXCEPT ![e] = m], next[m], e))
<1>1. Absent(Lines, e)
  BY FreshIs
<1>2. i + 1 \in 1 .. Len(Lines[h]) + 1
  BY QueueTypes DEF LineInv, Good
<1>3. Good(Put(Lines, h, i + 1, e), first', next')
  BY <1>1, AfterPut DEF LineInv
<1>4. LineInv' /\ Lines' = Put(Lines, h, i + 1, e)
  BY <1>2, <1>3, PutLine
<1>5. QED
  BY <1>1, <1>4, AfterPut DEF LineInv

LEMMA BeforeIn ==
    ASSUME NEW l, NEW l2, NEW p, NEW p2,
           LineInv, Prevs(Lines, p),
           NEW h \in Heads, NEW e \in Nodes, MayInsert(e),
           NEW i \in DOMAIN Lines[h], NEW m, m = Lines[h][i],
           p2 = [p EXCEPT ![e] = p[m], ![m] = e],
           next' = Write([next EXCEPT ![e] = m], p[m], e),
           first' = [first EXCEPT ![h] = IF p[m] = NIL THEN e ELSE @]
    PROVE  /\ LineInv' /\ Absent(Lines, e) /\ Lines' = Put(Lines, h, i, e)
           /\ Prevs(Lines', p2)
           /\ Lasts(Lines, l) /\ l2 = l => Lasts(Lines', l2)
<1>1. Absent(Lines, e)
  BY FreshIs
<1>2. i \in 1 .. Len(Lines[h]) + 1
  BY QueueTypes DEF LineInv, Good
<1>3. Good(Put(Lines, h, i, e), first', next')
  BY <1>1, BeforePut DEF LineInv
<1>4. LineInv' /\ Lines' = Put(Lines, h, i, e)
  BY <1>2, <1>3, PutLine
<1>5. QED
  BY <1>1, <1>4, BeforePut DEF LineInv

LEMMA TailIn ==
    ASSUME NEW l, NEW l2, NEW p, NEW p2,
           LineInv, Lasts(Lines, l),
           NEW h \in Heads, NEW e \in Nodes, MayInsert(e),
           next' = Write([next EXCEPT ![e] = NIL], l[h], e),
           first' = [first EXCEPT ![h] = IF l[h] = NIL THEN e ELSE @],
           l2 = [l EXCEPT ![h] = e]
    PROVE  /\ LineInv' /\ Absent(Lines, e)
           /\ Lines' = Put(Lines, h, Len(Lines[h]) + 1, e)
           /\ Lasts(Lines', l2)
           /\ Prevs(Lines, p) /\ p2 = [p EXCEPT ![e] = l[h]]
              => Prevs(Lines', p2)
<1>1. Absent(Lines, e)
  BY FreshIs
<1>2. Len(Lines[h]) + 1 \in 1 .. Len(Lines[h]) + 1
  BY QueueTypes DEF LineInv, Good
<1>3. Good(Put(Lines, h, Len(Lines[h]) + 1, e), first', next')
  BY <1>1, TailPut DEF LineInv
<1>4. LineInv' /\ Lines' = Put(Lines, h, Len(Lines[h]) + 1, e)
  BY <1>2, <1>3, PutLine
<1>5. Lasts(Lines', l2)
  <2>1. Lasts(Put(Lines, h, Len(Lines[h]) + 1, e), [l EXCEPT ![h] = e])
    BY <1>1, TailPut DEF LineInv
  <2>2. QED
    BY <1>4, <2>1
<1>6. ASSUME Prevs(Lines, p), p2 = [p EXCEPT ![e] = l[h]]
      PROVE  Prevs(Lines', p2)
  <2>1. Prevs(Put(Lines, h, Len(Lines[h]) + 1, e), [p EXCEPT ![e] = l[h]])
    BY <1>1, <1>6, TailPut DEF LineInv
  <2>2. QED
    BY <1>4, <1>6, <2>1
<1>7. QED
  BY <1>1, <1>4, <1>5, <1>6

LEMMA HeadOut ==
    ASSUME NEW l, NEW l2,
           LineInv, NEW h \in Heads, Unlinks(first[h]),
           first' = [first EXCEPT ![h] = IF @ = NIL THEN @ ELSE next[@]],
           UNCHANGED next
    PROVE  /\ LineInv' /\ Lines' = Cut(Lines, h, 1)
           /\ first[h] # NIL => 1 \in DOMAIN Lines[h] /\ Lines[h][1] = first[h]
           /\ Lasts(Lines, l)
              /\ l2 = [l EXCEPT ![h] = IF first'[h] = NIL THEN NIL ELSE @]
              => Lasts(Lines', l2)
<1>1. Lines \in Queues /\ first \in [Heads -> NodeOrNil] /\ Good(Lines, first, next)
  BY DEF LineInv, Good, Firsts
<1>2. CASE first[h] = NIL
  <2>1. first' = first
    BY <1>1, <1>2
  <2>2. ~(1 \in DOMAIN Lines[h]) /\ Item(Lines[h], 1) = NIL
    BY <1>1, <1>2, QueueTypes DEF Good, Firsts
  <2>3. Unlinks(NIL)
    BY <1>2
  <2>4. LineInv' /\ Lines' = Lines
    BY <2>1, <2>3, SameLine
  <2>5. Lasts(Lines, l) => l[h] = NIL
    BY <1>1, <2>2, QueueTypes DEF Lasts, Item
  <2>6. Lasts(Lines, l)
           /\ l2 = [l EXCEPT ![h] = IF first'[h] = NIL THEN NIL ELSE @]
           => l2 = l
    BY <1>2, <2>1, <2>5 DEF Lasts
  <2>7. QED
    BY <1>1, <1>2, <2>2, <2>4, <2>6, CutIs
<1>3. CASE first[h] # NIL
  <2>0. HeadDropped(Lines, first, next, h)
    BY <1>1, <1>3, HeadDrop
  <2>1. first' = [first EXCEPT ![h] = next[first[h]]] /\ first'[h] = next[first[h]]
    BY <1>1, <1>3
  <2>2. /\ 1 \in DOMAIN Lines[h] /\ Lines[h][1] = first[h]
        /\ Good(Drop(Lines, h, 1), first', next')
    <3>1. /\ 1 \in DOMAIN Lines[h] /\ first[h] = Lines[h][1]
          /\ Good(Drop(Lines, h, 1), [first EXCEPT ![h] = next[first[h]]], next)
      BY <2>0, Zenon DEF HeadDropped
    <3>2. QED
      BY <2>1, <3>1
  <2>3. LineInv' /\ Lines' = Drop(Lines, h, 1)
    BY <2>2, DropLine
  <2>4. Lasts(Lines, l)
           /\ l2 = [l EXCEPT ![h] = IF first'[h] = NIL THEN NIL ELSE @]
           => Lasts(Lines', l2)
    <3>1. Lasts(Lines, l) =>
             Lasts(Drop(Lines, h, 1),
                   [l EXCEPT ![h] = IF next[first[h]] = NIL THEN NIL ELSE @])
      BY <2>0, Zenon DEF HeadDropped
    <3>2. [l EXCEPT ![h] = IF first'[h] = NIL THEN NIL ELSE @]
          = [l EXCEPT ![h] = IF next[first[h]] = NIL THEN NIL ELSE @]
      BY <2>1, Zenon
    <3>3. QED
      BY <2>3, <3>1, <3>2, Zenon
  <2>5. QED
    BY <1>1, <2>2, <2>3, <2>4, CutIs
<1>4. QED
  BY <1>2, <1>3

AfterIsOut(h, i, m, l, l2) ==
    /\ LineInv' /\ Lines' = Cut(Lines, h, i + 1)
    /\ next[m] # NIL => i + 1 \in DOMAIN Lines[h] /\ Lines[h][i + 1] = next[m]
    /\ Lasts(Lines, l)
       /\ l2 = [l EXCEPT ![h] =
                     IF next[m] # NIL /\ next[next[m]] = NIL THEN m ELSE @]
       => Lasts(Lines', l2)

LEMMA AfterOut ==
    ASSUME NEW l, NEW l2,
           LineInv, NEW h \in Heads,
           NEW i \in DOMAIN Lines[h], NEW m, m = Lines[h][i],
           Unlinks(next[m]),
           next' = [next EXCEPT ![m] = IF @ = NIL THEN @ ELSE next[@]],
           UNCHANGED first
    PROVE  AfterIsOut(h, i, m, l, l2)
<1>1. Lines \in Queues /\ next \in [Nodes -> NodeOrNil] /\ Good(Lines, first, next)
  BY DEF LineInv, Good, Nexts
<1>2. m \in Nodes /\ i \in Int /\ i + 1 \in Int
  BY <1>1, QueueTypes
<1>3. CASE next[m] = NIL
  <2>1. next' = next
    BY <1>1, <1>2, <1>3
  <2>2. ~(i + 1 \in DOMAIN Lines[h])
    <3>1. Item(Lines[h], i + 1) = NIL
      BY <1>1, <1>3 DEF Good, Nexts
    <3>2. QED
      BY <1>1, <1>2, <3>1, QueueTypes
  <2>3. Unlinks(NIL)
    BY <1>3
  <2>4. LineInv' /\ Lines' = Lines
    BY <2>1, <2>3, SameLine
  <2>5. Lasts(Lines, l)
           /\ l2 = [l EXCEPT ![h] =
                         IF next[m] # NIL /\ next[next[m]] = NIL THEN m ELSE @]
           => l2 = l
    BY <1>3 DEF Lasts
  <2>6. QED
    BY <1>1, <1>3, <2>2, <2>4, <2>5, CutIs DEF AfterIsOut
<1>4. CASE next[m] # NIL
  <2>0. AfterDropped(Lines, first, next, h, i, m)
    BY <1>1, <1>4, AfterDrop
  <2>1. next' = [next EXCEPT ![m] = next[next[m]]]
    BY <1>1, <1>2, <1>4
  <2>2. /\ i + 1 \in DOMAIN Lines[h] /\ Lines[h][i + 1] = next[m]
        /\ Good(Drop(Lines, h, i + 1), first', next')
    <3>1. /\ i + 1 \in DOMAIN Lines[h] /\ next[m] = Lines[h][i + 1]
          /\ Good(Drop(Lines, h, i + 1), first, [next EXCEPT ![m] = next[next[m]]])
      BY <2>0, Zenon DEF AfterDropped
    <3>2. QED
      BY <2>1, <3>1
  <2>3. LineInv' /\ Lines' = Drop(Lines, h, i + 1)
    BY <2>2, DropLine
  <2>4. Lasts(Lines, l)
           /\ l2 = [l EXCEPT ![h] =
                         IF next[m] # NIL /\ next[next[m]] = NIL THEN m ELSE @]
           => Lasts(Lines', l2)
    <3>1. ASSUME Lasts(Lines, l),
                 l2 = [l EXCEPT ![h] =
                            IF next[m] # NIL /\ next[next[m]] = NIL THEN m ELSE @]
          PROVE  Lasts(Lines', l2)
      <4>1. l2 = [l EXCEPT ![h] = IF next[next[m]] = NIL THEN m ELSE @]
        BY <1>4, <3>1
      <4>2. Lasts(Drop(Lines, h, i + 1),
                  [l EXCEPT ![h] = IF next[next[m]] = NIL THEN m ELSE @])
        BY <2>0, <3>1, Zenon DEF AfterDropped
      <4>3. QED
        BY <2>3, <4>1, <4>2
    <3>2. QED
      BY <3>1
  <2>5. QED
    BY <1>1, <2>2, <2>3, <2>4, CutIs DEF AfterIsOut
<1>5. QED
  BY <1>3, <1>4

(* What keeps the last indices when e leaves h.                            *)
LastUnlinked(Q, R, n, p, h, e) ==
    \A l : Lasts(Q, l) =>
       Lasts(R, [l EXCEPT ![h] = IF n[e] = NIL THEN p[e] ELSE @])

LEMMA BothOut ==
    ASSUME LineInv, NEW p, Prevs(Lines, p), NEW h \in Heads,
           NEW i \in DOMAIN Lines[h], NEW e, e = Lines[h][i],
           Unlinks(e),
           next' = [Write(next, p[e], next[e]) EXCEPT ![e] = NIL],
           first' = [first EXCEPT ![h] = IF p[e] = NIL THEN next[e] ELSE @]
    PROVE  /\ LineInv' /\ Lines' = Cut(Lines, h, i)
           /\ Prevs(Lines', [Write(p, next[e], p[e]) EXCEPT ![e] = NIL])
           /\ LastUnlinked(Lines, Lines', next, p, h, e)
<1>1. Lines \in Queues /\ Good(Lines, first, next)
  BY DEF LineInv, Good
<1>2. Good(Drop(Lines, h, i), first', next')
  BY <1>1, BothDrop
<1>3. LineInv' /\ Lines' = Drop(Lines, h, i)
  BY <1>2, DropLine
<1>4. QED
  BY <1>1, <1>3, BothDrop, CutIs DEF LastUnlinked

LEMMA ResetLine ==
    ASSUME NEW l, NEW l2, NEW p, NEW p2,
           LineInv, NEW h \in Heads, Idle,
           first' = [first EXCEPT ![h] = NIL], UNCHANGED next
    PROVE  /\ LineInv' /\ Lines' = [Lines EXCEPT ![h] = <<>>]
           /\ Lasts(Lines, l) /\ l2 = [l EXCEPT ![h] = NIL]
              => Lasts(Lines', l2)
           /\ Prevs(Lines, p) /\ p2 = p => Prevs(Lines', p2)
<1> DEFINE R == [Lines EXCEPT ![h] = <<>>]
<1>1. /\ Good(R, [first EXCEPT ![h] = NIL], next)
      /\ \A x : Lasts(Lines, x) => Lasts(R, [x EXCEPT ![h] = NIL])
      /\ \A x : Prevs(Lines, x) => Prevs(R, x)
  BY ResetGood DEF LineInv
<1> HIDE DEF R
<1>2. LineInv' /\ Lines' = R
  BY <1>1, IdleLine
<1>3. QED
  BY <1>1, <1>2 DEF R

LEMMA SwapLine ==
    ASSUME NEW l, NEW l2, NEW p, NEW p2,
           LineInv, NEW g \in Heads, NEW h \in Heads, Idle,
           first' = [first EXCEPT ![g] = first[h], ![h] = first[g]],
           UNCHANGED next
    PROVE  /\ LineInv' /\ Lines' = Swapped(Lines, g, h)
           /\ Lasts(Lines, l)
              /\ l2 = [l EXCEPT ![g] = l[h], ![h] = l[g]]
              => Lasts(Lines', l2)
           /\ Prevs(Lines, p)
              /\ p2 \in {p, Write(Write(p, first[g], NIL), first[h], NIL)}
              => Prevs(Lines', p2)
<1> DEFINE R == Swapped(Lines, g, h)
<1>1. SwapKeeps(Lines, first, next, g, h)
  BY SwapGood DEF LineInv
<1>2. /\ Good(R, first', next')
      /\ Lasts(Lines, l) => Lasts(R, [l EXCEPT ![g] = l[h], ![h] = l[g]])
      /\ Prevs(Lines, p) =>
            /\ Prevs(R, p)
            /\ Write(Write(p, first[g], NIL), first[h], NIL) = p
  <2>1. Good(R, [first EXCEPT ![g] = first[h], ![h] = first[g]], next)
    BY <1>1, Zenon DEF SwapKeeps
  <2>2. QED
    BY <1>1, <2>1, Zenon DEF SwapKeeps
<1> HIDE DEF R
<1>3. LineInv' /\ Lines' = R
  BY <1>2, IdleLine
<1>4. ASSUME Lasts(Lines, l),
             l2 = [l EXCEPT ![g] = l[h], ![h] = l[g]]
      PROVE  Lasts(Lines', l2)
  BY <1>2, <1>3, <1>4
<1>5. QED
  BY <1>2, <1>3, <1>4 DEF R

LEMMA UntilLine ==
    ASSUME NEW l, NEW l2,
           LineInv, NEW h \in Heads, Idle,
           NEW i \in DOMAIN Lines[h], NEW m, m = Lines[h][i],
           first' = [first EXCEPT ![h] = next[m]], UNCHANGED next
    PROVE  /\ LineInv' /\ Lines' = Beheaded(Lines, h, i)
           /\ Lasts(Lines, l)
              /\ l2 = [l EXCEPT ![h] = IF first'[h] = NIL THEN NIL ELSE @]
              => Lasts(Lines', l2)
<1> DEFINE R == Beheaded(Lines, h, i)
<1>1. UntilKeeps(Lines, first, next, h, i, m)
  BY UntilGood DEF LineInv
<1>2. Good(R, first', next')
  <2>1. Good(R, [first EXCEPT ![h] = next[m]], next)
    BY <1>1, Zenon DEF UntilKeeps
  <2>2. QED
    BY <2>1, Zenon
<1>3. first'[h] = next[m]
  BY DEF LineInv, Good, Firsts
<1>4. Lasts(Lines, l) =>
         Lasts(R, [l EXCEPT ![h] = IF first'[h] = NIL THEN NIL ELSE @])
  <2>1. Lasts(Lines, l) =>
           Lasts(R, [l EXCEPT ![h] = IF next[m] = NIL THEN NIL ELSE @])
    BY <1>1, Zenon DEF UntilKeeps
  <2>2. QED
    BY <1>3, <2>1, Zenon
<1> HIDE DEF R
<1>5. LineInv' /\ Lines' = R
  BY <1>2, IdleLine
<1>6. QED
  BY <1>4, <1>5, Zenon DEF R

LEMMA ConcatLine ==
    ASSUME LineInv, NEW l, Lasts(Lines, l), Idle,
           NEW g \in Heads, NEW h \in Heads, g # h, first[h] # NIL,
           next' = IF first[g] = NIL THEN next
                   ELSE [next EXCEPT ![l[g]] = first[h]],
           first' = [first EXCEPT ![g] = IF @ = NIL THEN first[h] ELSE @, ![h] = NIL]
    PROVE  /\ LineInv' /\ Lines' = Joined(Lines, g, h)
           /\ Lasts(Lines', [l EXCEPT ![g] = l[h], ![h] = NIL])
           /\ \A p : Prevs(Lines, p) =>
                 Prevs(Lines', IF first[g] = NIL THEN p
                               ELSE [p EXCEPT ![first[h]] = l[g]])
<1> DEFINE R == Joined(Lines, g, h)
<1>1. ConcatKeeps(Lines, first, next, l, g, h)
  BY ConcatGood DEF LineInv
<1>2. Good(R, first', next')
  <2>1. Good(R, [first EXCEPT ![g] = IF @ = NIL THEN first[h] ELSE @, ![h] = NIL],
             IF first[g] = NIL THEN next ELSE [next EXCEPT ![l[g]] = first[h]])
    BY <1>1, Zenon DEF ConcatKeeps
  <2>2. QED
    BY <2>1, Zenon
<1>3. Lasts(R, [l EXCEPT ![g] = l[h], ![h] = NIL])
  BY <1>1, Zenon DEF ConcatKeeps
<1>4. \A p : Prevs(Lines, p) =>
         Prevs(R, IF first[g] = NIL THEN p ELSE [p EXCEPT ![first[h]] = l[g]])
  BY <1>1, Zenon DEF ConcatKeeps
<1> HIDE DEF R
<1>5. LineInv' /\ Lines' = R
  BY <1>2, IdleLine
<1>6. QED
  BY <1>3, <1>4, <1>5, Zenon DEF R

LEMMA ConcatSame ==
    ASSUME LineInv, Idle, NEW g \in Heads, NEW h \in Heads, g # h, first[h] = NIL,
           UNCHANGED <<first, next>>
    PROVE  LineInv' /\ Lines' = Lines
           /\ Lines' = Joined(Lines, g, h)
<1>1. Joined(Lines, g, h) = Lines
  BY ConcatNone DEF LineInv
<1>2. LineInv' /\ Lines' = Lines
  BY IdleLine DEF LineInv
<1>3. QED
  BY <1>1, <1>2

LEMMA LoopBeginLine ==
    ASSUME LineInv, NEW h \in Heads, LoopBegin(h)
    PROVE  LineInv' /\ Lines' = Lines
<1>1. Lines' = Lines
  BY DEF LoopBegin, Lines
<1>2. /\ Lines \in Queues /\ Distinct(Lines) /\ Firsts(Lines, first)
      /\ Nexts(Lines, next) /\ first[h] # NIL
  BY DEF LineInv, Good, LoopBegin
<1>3. first[h] = Item(Lines[h], 1)
  BY <1>2 DEF Firsts
<1>4. 1 \in DOMAIN Lines[h] /\ Lines[h][1] = first[h]
  BY <1>2, <1>3 DEF Item
<1>5. next[first[h]] = Item(Lines[h], 2)
  <2>1. next[Lines[h][1]] = Item(Lines[h], 1 + 1)
    BY <1>2, <1>4 DEF Nexts
  <2>2. QED
    BY <1>4, <2>1
<1>6. Line(h) = Lines[h]
  BY LineAt
<1>7. loop' = [head |-> h, var |-> Item(Lines[h], 1), tvar |-> Item(Lines[h], 2),
               due |-> Range(Lines[h]), seen |-> {Item(Lines[h], 1)}]
  BY <1>3, <1>5, <1>6 DEF LoopBegin
<1>8. LoopIn(Lines, loop')
  BY <1>2, <1>3, <1>7, BeginLoop
<1>9. QED
  BY <1>1, <1>8 DEF LineInv, LoopBegin

LEMMA LoopNextLine ==
    ASSUME LineInv, LoopNext
    PROVE  LineInv' /\ Lines' = Lines
<1>1. Lines' = Lines
  BY DEF LoopNext, Lines
<1>2. Lines \in Queues /\ Distinct(Lines) /\ Nexts(Lines, next) /\ LoopIn(Lines, loop)
  BY DEF LineInv, Good
<1>3. LoopIn(Lines, loop')
  <2>1. CASE loop.tvar = NIL
    BY <2>1 DEF LoopNext, LoopIn
  <2>2. CASE loop.tvar # NIL
    <3>1. loop' = Stepped(loop, next) /\ loop # NoLoop
      BY <2>2, Zenon DEF LoopNext, Stepped
    <3>2. QED
      BY <1>2, <2>2, <3>1, StepLoop
  <2>3. QED
    BY <2>1, <2>2
<1>4. QED
  BY <1>1, <1>3 DEF LineInv, LoopNext

-----------------------------------------------------------------------------
(* Circles *)

(* The element after place i of a circle.                                  *)
Succ(q, i) == IF i = Len(q) THEN q[1] ELSE q[i + 1]

RingNexts(Q, n) ==
    /\ n \in [Nodes -> NodeOrNil]
    /\ \A h \in Heads : \A i \in DOMAIN Q[h] : n[Q[h][i]] = Succ(Q[h], i)

Elements(Q) == UNION {Range(Q[h]) : h \in Heads}

(* On the elements of the circles p is the inverse of n.                   *)
Mirror(X, n, p) ==
    \A x \in X : n[x] \in X /\ p[x] \in X /\ p[n[x]] = x /\ n[p[x]] = x

(* The links n2 are n with u written into e and v written into x.          *)
Relinked(n, n2, e, u, x, v) ==
    /\ n2 \in [Nodes -> NodeOrNil] /\ n2[e] = u /\ n2[x] = v
    /\ \A y \in Nodes : y # e /\ y # x => n2[y] = n[y]

Void(Q, h) == Len(Q[h]) = 0

CirclesOf(f, n) == [h \in Heads |-> Chain(f[h], n, f[h])]

LEMMA CirclesAre ==
    ASSUME NEW Q \in Queues, Distinct(Q), NEW f, Firsts(Q, f),
           NEW n, RingNexts(Q, n)
    PROVE  CirclesOf(f, n) = Q
<1>1. ASSUME NEW h \in Heads PROVE Chain(f[h], n, f[h]) = Q[h]
  <2> DEFINE q == Q[h]
  <2>1. q \in Seq(Nodes) /\ DOMAIN q = 1 .. Len(q) /\ Len(q) \in Nat
    BY DEF Queues
  <2>2. \A i, j \in DOMAIN q : q[i] = q[j] => i = j
    BY DEF Distinct
  <2>3. f[h] = Item(q, 1) /\ \A i \in DOMAIN q : n[q[i]] = Succ(q, i)
    BY DEF Firsts, RingNexts
  <2> HIDE DEF q
  <2>4. ASSUME NEW i \in DOMAIN q
        PROVE  IF i + 1 \in DOMAIN q
               THEN n[q[i]] = q[i + 1] /\ q[i + 1] # f[h]
               ELSE n[q[i]] \in {NIL, f[h]}
    <3>1. i \in 1 .. Len(q) /\ 1 \in DOMAIN q /\ f[h] = q[1]
      BY <2>1, <2>3, <2>4 DEF Item
    <3>2. CASE i + 1 \in DOMAIN q
      <4>1. i # Len(q) /\ i + 1 # 1
        BY <2>1, <3>1, <3>2
      <4>2. q[i + 1] # q[1]
        BY <2>2, <3>1, <3>2, <4>1
      <4>3. QED
        BY <2>3, <3>1, <3>2, <4>1, <4>2 DEF Succ
    <3>3. CASE ~(i + 1 \in DOMAIN q)
      <4>1. i = Len(q)
        BY <2>1, <3>1, <3>3
      <4>2. QED
        BY <2>3, <3>1, <3>3, <4>1 DEF Succ
    <3>4. QED
      BY <3>2, <3>3
  <2>5. Runs(q, f[h], n, f[h])
    BY <2>2, <2>3, <2>4 DEF Runs
  <2>6. QED
    BY <2>1, <2>5, ChainIs DEF q
<1>2. QED
  BY <1>1 DEF CirclesOf, Queues

(* A circle that one more element has joined after place a, which is the  *)
(* place before i, or the last one.                                        *)
LEMMA RingPutNexts ==
    ASSUME NEW Q \in Queues, Distinct(Q), NEW h \in Heads, NEW e \in Nodes,
           Absent(Q, e), NEW i \in 1 .. Len(Q[h]) + 1, NEW a \in 1 .. Len(Q[h]),
           i = a + 1 \/ (i = 1 /\ a = Len(Q[h])),
           NEW n, RingNexts(Q, n),
           NEW n2, Relinked(n, n2, e, n[Q[h][a]], Q[h][a], e)
    PROVE  RingNexts(Put(Q, h, i, e), n2)
<1> DEFINE R == Put(Q, h, i, e)
           N == Len(Q[h])
<1>1. /\ R \in Queues
      /\ \A g \in Heads : g # h => R[g] = Q[g]
      /\ Len(R[h]) = N + 1
      /\ \A g \in Heads : DOMAIN R[g] = 1 .. Len(R[g])
      /\ \A g \in Heads : DOMAIN Q[g] = 1 .. Len(Q[g])
      /\ \A k \in 1 .. N + 1 :
            R[h][k] = IF k < i THEN Q[h][k] ELSE IF k = i THEN e ELSE Q[h][k - 1]
  BY PutIs
<1>0. /\ n2 \in [Nodes -> NodeOrNil]
      /\ n2[e] = n[Q[h][a]] /\ n2[Q[h][a]] = e
      /\ \A x \in Nodes : x # e /\ x # Q[h][a] => n2[x] = n[x]
  BY DEF Relinked
<1> USE <1>0
<1>2. /\ N \in Nat /\ i \in Int /\ a \in Int /\ 1 <= i /\ i <= N + 1
      /\ 1 <= a /\ a <= N
      /\ (i = a + 1 \/ (i = 1 /\ a = N))
      /\ \A g \in Heads : \A k \in DOMAIN Q[g] : Q[g][k] \in Nodes
  BY DEF Queues
<1>3. \A g \in Heads : \A k \in DOMAIN Q[g] : n[Q[g][k]] = Succ(Q[g], k)
  BY DEF RingNexts
<1>4. \A g \in Heads : \A k \in DOMAIN Q[g] :
         Q[g][k] # e /\ (Q[g][k] = Q[h][a] => g = h /\ k = a)
  BY <1>1, <1>2 DEF Distinct, Absent
<1>5. a \in DOMAIN Q[h] /\ Q[h][a] \in Nodes /\ n[Q[h][a]] = Succ(Q[h], a)
  BY <1>1, <1>2, <1>3
<1>6. ASSUME NEW k \in 1 .. N
      PROVE  n2[Q[h][k]] = IF k = a THEN e ELSE IF k = N THEN Q[h][1] ELSE Q[h][k + 1]
  <2>1. k \in DOMAIN Q[h] /\ Q[h][k] \in Nodes /\ Q[h][k] # e
    BY <1>1, <1>2, <1>4
  <2>2. n[Q[h][k]] = IF k = N THEN Q[h][1] ELSE Q[h][k + 1]
    BY <1>3, <2>1, Zenon DEF Succ
  <2>3. k # a => Q[h][k] # Q[h][a]
    BY <1>4, <2>1
  <2>4. k # a => n2[Q[h][k]] = n[Q[h][k]]
    BY <2>1, <2>3
  <2>5. QED
    BY <2>2, <2>4
<1>7. n2[e] = IF a = N THEN Q[h][1] ELSE Q[h][a + 1]
  BY <1>5 DEF Succ
<1>8. R[h][1] = IF i = 1 THEN e ELSE Q[h][1]
  BY <1>1, <1>2
<1> HIDE DEF R, N
<1>9. ASSUME NEW k \in 1 .. N + 1
      PROVE  n2[R[h][k]] = IF k = N + 1 THEN R[h][1] ELSE R[h][k + 1]
  <2>1. k \in Int /\ 1 <= k /\ k <= N + 1 /\ (k # N + 1 => k + 1 \in 1 .. N + 1)
    BY <1>2
  <2>2. CASE k < i
    <3>1. k \in 1 .. N /\ R[h][k] = Q[h][k] /\ k # N + 1 /\ i = a + 1
      BY <1>1, <1>2, <2>1, <2>2
    <3>2. n2[R[h][k]] = IF k = a THEN e ELSE IF k = N THEN Q[h][1] ELSE Q[h][k + 1]
      BY <1>6, <3>1
    <3>3. R[h][k + 1] = IF k + 1 < i THEN Q[h][k + 1] ELSE e
      BY <1>1, <1>2, <2>1, <2>2, <3>1
    <3>4. QED
      BY <1>2, <2>1, <2>2, <3>1, <3>2, <3>3
  <2>3. CASE k = i
    <3>1. R[h][k] = e
      BY <1>1, <2>1, <2>3
    <3>2. k # N + 1 => R[h][k + 1] = Q[h][k]
      <4>1. ~(k + 1 < i) /\ k + 1 # i /\ (k + 1) - 1 = k
        BY <1>2, <2>1, <2>3
      <4>2. QED
        BY <1>1, <2>1, <4>1
    <3>3. a # N => i = a + 1 /\ k # N + 1
      BY <1>2, <2>3
    <3>4. a = N => (k = 1 /\ R[h][1] = e) \/ k = N + 1
      BY <1>2, <1>8, <2>3
    <3>5. k = N + 1 => a = N /\ R[h][1] = Q[h][1]
      BY <1>2, <1>8, <2>3
    <3>6. QED
      BY <1>2, <1>7, <2>3, <3>1, <3>2, <3>3, <3>4, <3>5
  <2>4. CASE k > i
    <3>1. k - 1 \in 1 .. N /\ R[h][k] = Q[h][k - 1] /\ ~(k < i) /\ k # i
      BY <1>1, <1>2, <2>1, <2>4
    <3>2. n2[R[h][k]] = IF k - 1 = a THEN e
                        ELSE IF k - 1 = N THEN Q[h][1] ELSE Q[h][(k - 1) + 1]
      BY <1>6, <3>1
    <3>3. k # N + 1 => R[h][k + 1] = Q[h][k]
      <4>1. ~(k + 1 < i) /\ k + 1 # i /\ (k + 1) - 1 = k
        BY <1>2, <2>1, <2>4
      <4>2. QED
        BY <1>1, <2>1, <4>1
    <3>4. k - 1 = a <=> i = 1 /\ k = N + 1
      BY <1>2, <2>1, <2>4
    <3>5. (k - 1) + 1 = k /\ (k - 1 = N <=> k = N + 1)
      BY <1>2, <2>1
    <3>6. QED
      BY <1>8, <3>2, <3>3, <3>4, <3>5
  <2>5. k < i \/ k = i \/ k > i
    BY <1>2, <2>1
  <2>6. QED
    BY <2>2, <2>3, <2>4, <2>5
<1>10. ASSUME NEW g \in Heads, NEW k \in DOMAIN R[g]
       PROVE  n2[R[g][k]] = Succ(R[g], k)
  <2>1. CASE g = h
    BY <1>1, <1>9, <2>1 DEF Succ
  <2>2. CASE g # h
    <3>1. R[g] = Q[g] /\ k \in DOMAIN Q[g]
      BY <1>1, <2>2
    <3>2. n2[Q[g][k]] = n[Q[g][k]]
      BY <1>2, <1>4, <2>2, <3>1
    <3>3. QED
      BY <1>3, <3>1, <3>2
  <2>3. QED
    BY <2>1, <2>2
<1>11. QED
  BY <1>10 DEF RingNexts, R

LEMMA RingPutOne ==
    ASSUME NEW Q \in Queues, Distinct(Q), NEW h \in Heads, NEW e \in Nodes,
           Absent(Q, e), Void(Q, h),
           NEW one \in 1 .. Len(Q[h]) + 1,
           NEW n, RingNexts(Q, n), NEW n2, Relinked(n, n2, e, e, e, e)
    PROVE  RingNexts(Put(Q, h, one, e), n2)
<1> DEFINE R == Put(Q, h, one, e)
<1>2. /\ \A g \in Heads : g # h => R[g] = Q[g]
      /\ Len(R[h]) = 1
      /\ \A g \in Heads : DOMAIN R[g] = 1 .. Len(R[g])
      /\ \A k \in 1 .. 1 : R[h][k] = e
  <2>1. /\ R \in Queues
        /\ \A g \in Heads : g # h => R[g] = Q[g]
        /\ Len(R[h]) = Len(Q[h]) + 1
        /\ \A g \in Heads : DOMAIN R[g] = 1 .. Len(R[g])
        /\ \A g \in Heads : DOMAIN Q[g] = 1 .. Len(Q[g])
        /\ \A k \in 1 .. Len(Q[h]) + 1 :
              R[h][k] = IF k < one THEN Q[h][k]
                        ELSE IF k = one THEN e ELSE Q[h][k - 1]
    BY PutIs
  <2> HIDE DEF R
  <2>2. one = 1 /\ Len(Q[h]) = 0
    BY DEF Void
  <2>3. QED
    BY <2>1, <2>2
<1>0. /\ n2 \in [Nodes -> NodeOrNil]
      /\ n2[e] = e /\ \A x \in Nodes : x # e => n2[x] = n[x]
  BY DEF Relinked
<1> USE <1>0
<1> HIDE DEF R
<1>3. ASSUME NEW g \in Heads, NEW k \in DOMAIN R[g]
      PROVE  n2[R[g][k]] = Succ(R[g], k)
  <2>1. CASE g = h
    BY <1>2, <2>1 DEF Succ
  <2>2. CASE g # h
    <3>1. R[g] = Q[g] /\ k \in DOMAIN Q[g]
      BY <1>2, <2>2
    <3>2. Q[g][k] \in Nodes /\ Q[g][k] # e
      BY <3>1 DEF Queues, Absent
    <3>3. QED
      BY <3>1, <3>2 DEF RingNexts
  <2>3. QED
    BY <2>1, <2>2
<1>4. QED
  BY <1>3 DEF RingNexts, R

(* A circle that its element at place i has left; a is the place before.   *)
LEMMA RingDropNexts ==
    ASSUME NEW Q \in Queues, Distinct(Q), NEW h \in Heads,
           NEW i \in 1 .. Len(Q[h]), NEW a \in 1 .. Len(Q[h]), Len(Q[h]) > 1,
           i = a + 1 \/ (i = 1 /\ a = Len(Q[h])),
           NEW n, RingNexts(Q, n), NEW u, NEW n2,
           Relinked(n, n2, Q[h][i], u, Q[h][a], n[Q[h][i]])
    PROVE  RingNexts(Drop(Q, h, i), n2)
<1>0. /\ n2 \in [Nodes -> NodeOrNil]
      /\ n2[Q[h][a]] = n[Q[h][i]]
      /\ \A x \in Nodes : x # Q[h][i] /\ x # Q[h][a] => n2[x] = n[x]
  BY DEF Relinked
<1> USE <1>0
<1> DEFINE R == Drop(Q, h, i)
           N == Len(Q[h])
<1>1. /\ R \in Queues
      /\ \A g \in Heads : g # h => R[g] = Q[g]
      /\ Len(R[h]) = N - 1
      /\ \A g \in Heads : DOMAIN R[g] = 1 .. Len(R[g])
      /\ \A g \in Heads : DOMAIN Q[g] = 1 .. Len(Q[g])
      /\ \A k \in 1 .. N - 1 : R[h][k] = IF k < i THEN Q[h][k] ELSE Q[h][k + 1]
  BY DropIs
<1>2. /\ N \in Nat /\ i \in Int /\ a \in Int /\ 1 <= i /\ i <= N
      /\ 1 <= a /\ a <= N /\ N > 1
      /\ (i = a + 1 \/ (i = 1 /\ a = N))
      /\ \A g \in Heads : \A k \in DOMAIN Q[g] : Q[g][k] \in Nodes
  BY DEF Queues
<1>3. \A g \in Heads : \A k \in DOMAIN Q[g] : n[Q[g][k]] = Succ(Q[g], k)
  BY DEF RingNexts
<1>4. \A g \in Heads : \A k \in DOMAIN Q[g] :
         /\ Q[g][k] = Q[h][a] => g = h /\ k = a
         /\ Q[g][k] = Q[h][i] => g = h /\ k = i
  BY <1>1, <1>2 DEF Distinct
<1>5. i \in DOMAIN Q[h] /\ n[Q[h][i]] = Succ(Q[h], i)
  BY <1>1, <1>2, <1>3
<1>6. ASSUME NEW k \in 1 .. N, k # i
      PROVE  n2[Q[h][k]] = IF k = a THEN IF i = N THEN Q[h][1] ELSE Q[h][i + 1]
                           ELSE IF k = N THEN Q[h][1] ELSE Q[h][k + 1]
  <2>1. k \in DOMAIN Q[h] /\ Q[h][k] \in Nodes /\ Q[h][k] # Q[h][i]
    BY <1>1, <1>2, <1>4, <1>6
  <2>2. n[Q[h][k]] = IF k = N THEN Q[h][1] ELSE Q[h][k + 1]
    BY <1>3, <2>1, Zenon DEF Succ
  <2>3. k # a => Q[h][k] # Q[h][a]
    BY <1>4, <2>1
  <2>4. k # a => n2[Q[h][k]] = n[Q[h][k]]
    BY <2>1, <2>3
  <2>5. n[Q[h][i]] = IF i = N THEN Q[h][1] ELSE Q[h][i + 1]
    BY <1>5, Zenon DEF Succ
  <2>6. QED
    BY <2>2, <2>4, <2>5
<1>7. R[h][1] = IF i = 1 THEN Q[h][2] ELSE Q[h][1]
  <2>1. 1 \in 1 .. N - 1 /\ 1 + 1 = 2 /\ (1 < i <=> i # 1)
    BY <1>2
  <2>2. R[h][1] = IF 1 < i THEN Q[h][1] ELSE Q[h][1 + 1]
    BY <1>1, <2>1
  <2>3. QED
    BY <2>1, <2>2
<1> HIDE DEF R, N
<1>8. ASSUME NEW k \in 1 .. N - 1
      PROVE  n2[R[h][k]] = IF k = N - 1 THEN R[h][1] ELSE R[h][k + 1]
  <2>1. /\ k \in Int /\ 1 <= k /\ k <= N - 1
        /\ k # N - 1 => k + 1 \in 1 .. N - 1
        /\ k \in 1 .. N /\ k + 1 \in 1 .. N /\ (k + 1) + 1 = k + 2
    BY <1>2
  <2>2. CASE k < i
    <3>1. R[h][k] = Q[h][k] /\ k # i /\ i = a + 1 /\ i # 1
      BY <1>1, <1>2, <2>1, <2>2
    <3>2. CASE k = a
      <4>1. i = k + 1 /\ i + 1 = k + 2 /\ (i = N <=> k = N - 1)
        BY <1>2, <2>1, <3>1, <3>2
      <4>2. k # N - 1 => R[h][k + 1] = Q[h][k + 2]
        BY <1>1, <2>1, <4>1
      <4>3. n2[Q[h][k]] = IF i = N THEN Q[h][1] ELSE Q[h][i + 1]
        BY <1>6, <2>1, <3>1, <3>2
      <4>4. QED
        BY <1>7, <3>1, <4>1, <4>2, <4>3
    <3>3. CASE k # a
      <4>1. k + 1 < i /\ k # N - 1 /\ k # N
        BY <1>2, <2>1, <2>2, <3>1, <3>3
      <4>2. R[h][k + 1] = Q[h][k + 1]
        BY <1>1, <2>1, <4>1
      <4>3. n2[Q[h][k]] = Q[h][k + 1]
        BY <1>6, <2>1, <3>1, <3>3, <4>1
      <4>4. QED
        BY <3>1, <4>1, <4>2, <4>3
    <3>4. QED
      BY <3>2, <3>3
  <2>3. CASE ~(k < i)
    <3>1. R[h][k] = Q[h][k + 1] /\ k + 1 # i
      BY <1>1, <1>2, <2>1, <2>3
    <3>2. CASE k + 1 = a
      <4>1. i = 1 /\ k = N - 1 /\ i # N /\ i + 1 = 2
        BY <1>2, <2>1, <2>3, <3>2
      <4>2. n2[Q[h][k + 1]] = Q[h][2]
        BY <1>6, <2>1, <3>1, <3>2, <4>1
      <4>3. QED
        BY <1>7, <3>1, <4>1, <4>2
    <3>3. CASE k + 1 # a
      <4>1. n2[Q[h][k + 1]] = IF k + 1 = N THEN Q[h][1] ELSE Q[h][k + 2]
        BY <1>6, <2>1, <3>1, <3>3
      <4>2. k = N - 1 => i # 1 /\ k + 1 = N
        BY <1>2, <2>1, <3>3
      <4>3. k # N - 1 => k + 1 # N /\ R[h][k + 1] = Q[h][k + 2]
        <5>1. ~(k + 1 < i)
          BY <1>2, <2>1, <2>3
        <5>2. QED
          BY <1>1, <1>2, <2>1, <5>1
      <4>4. QED
        BY <1>7, <3>1, <4>1, <4>2, <4>3
    <3>4. QED
      BY <3>2, <3>3
  <2>4. QED
    BY <2>2, <2>3
<1>9. ASSUME NEW g \in Heads, NEW k \in DOMAIN R[g]
      PROVE  n2[R[g][k]] = Succ(R[g], k)
  <2>1. CASE g = h
    BY <1>1, <1>8, <2>1 DEF Succ
  <2>2. CASE g # h
    <3>1. R[g] = Q[g] /\ k \in DOMAIN Q[g]
      BY <1>1, <2>2
    <3>2. n2[Q[g][k]] = n[Q[g][k]]
      BY <1>2, <1>4, <2>2, <3>1
    <3>3. QED
      BY <1>3, <3>1, <3>2
  <2>3. QED
    BY <2>1, <2>2
<1>10. QED
  BY <1>9 DEF RingNexts, R

(* The other circles stay when one is emptied: its only element leaves, or *)
(* RIX_CIRCLEQ_RESET forgets it.                                           *)
LEMMA RingEmptyNexts ==
    ASSUME NEW Q \in Queues, Distinct(Q), NEW h \in Heads, NEW R,
           \A g \in Heads : R[g] = IF g = h THEN <<>> ELSE Q[g],
           NEW n, RingNexts(Q, n), NEW n2 \in [Nodes -> NodeOrNil],
           \A x \in Nodes : x \notin Range(Q[h]) => n2[x] = n[x]
    PROVE  RingNexts(R, n2)
<1>1. ASSUME NEW g \in Heads, NEW k \in DOMAIN R[g]
      PROVE  n2[R[g][k]] = Succ(R[g], k)
  <2>1. g # h /\ R[g] = Q[g] /\ k \in DOMAIN Q[g] /\ Q[g][k] \in Nodes
    <3>1. DOMAIN <<>> = {}
      OBVIOUS
    <3>2. QED
      BY <3>1 DEF Queues
  <2>2. Q[g][k] \notin Range(Q[h])
    BY <2>1 DEF Distinct, Range
  <2>3. QED
    BY <2>1, <2>2 DEF RingNexts
<1>2. QED
  BY <1>1 DEF RingNexts

LEMMA MirrorIn ==
    ASSUME NEW X \in SUBSET Nodes, NEW n, NEW p, Mirror(X, n, p),
           NEW x \in X, NEW e \in Nodes, e \notin X,
           NEW n2, Relinked(n, n2, e, n[x], x, e),
           NEW p2, Relinked(p, p2, e, x, n[x], e)
    PROVE  Mirror(X \cup {e}, n2, p2)
<1>0. /\ n2[e] = n[x] /\ n2[x] = e /\ \A y \in X \ {x} : n2[y] = n[y]
      /\ p2[e] = x /\ p2[n[x]] = e /\ \A y \in X \ {n[x]} : p2[y] = p[y]
  BY DEF Relinked
<1> USE <1>0
<1>1. n[x] \in X /\ p[n[x]] = x
  BY DEF Mirror
<1>2. n2[e] \in X /\ p2[e] \in X /\ p2[n2[e]] = e /\ n2[p2[e]] = e
  BY <1>1
<1>3. ASSUME NEW y \in X
      PROVE  /\ n2[y] \in X \cup {e} /\ p2[n2[y]] = y
  <2>1. n[y] \in X /\ p[n[y]] = y
    BY DEF Mirror
  <2>2. y # x => n[y] # n[x]
    BY <1>1, <2>1
  <2>3. QED
    BY <1>1, <2>1, <2>2
<1>4. ASSUME NEW y \in X
      PROVE  /\ p2[y] \in X \cup {e} /\ n2[p2[y]] = y
  <2>1. p[y] \in X /\ n[p[y]] = y
    BY DEF Mirror
  <2>2. y # n[x] => p[y] # x
    BY <1>1, <2>1
  <2>3. QED
    BY <1>1, <2>1, <2>2
<1>5. QED
  BY <1>2, <1>3, <1>4 DEF Mirror

LEMMA MirrorOut ==
    ASSUME NEW X \in SUBSET Nodes, NEW n, NEW p, Mirror(X, n, p),
           NEW e \in X, n[e] # e,
           NEW u, NEW n2, Relinked(n, n2, e, u, p[e], n[e]),
           NEW v, NEW p2, Relinked(p, p2, e, v, n[e], p[e])
    PROVE  Mirror(X \ {e}, n2, p2)
<1>0. /\ n2[p[e]] = n[e] /\ \A y \in X \ {e, p[e]} : n2[y] = n[y]
      /\ p2[n[e]] = p[e] /\ \A y \in X \ {e, n[e]} : p2[y] = p[y]
  BY DEF Relinked
<1> USE <1>0
<1>1. /\ n[e] \in X /\ p[n[e]] = e /\ p[e] \in X /\ n[p[e]] = e
      /\ p[e] # e
  BY DEF Mirror
<1>2. ASSUME NEW y \in X \ {e}
      PROVE  n2[y] \in X \ {e} /\ p2[n2[y]] = y
  <2>1. n[y] \in X /\ p[n[y]] = y /\ n[y] # n[e]
    BY <1>1, <1>2 DEF Mirror
  <2>2. CASE y = p[e]
    BY <1>1, <2>2
  <2>3. CASE y # p[e]
    BY <1>1, <2>1, <2>3
  <2>4. QED
    BY <2>2, <2>3
<1>3. ASSUME NEW y \in X \ {e}
      PROVE  p2[y] \in X \ {e} /\ n2[p2[y]] = y
  <2>1. p[y] \in X /\ n[p[y]] = y /\ p[y] # p[e]
    BY <1>1, <1>3 DEF Mirror
  <2>2. CASE y = n[e]
    BY <1>1, <2>2
  <2>3. CASE y # n[e]
    BY <1>1, <2>1, <2>3
  <2>4. QED
    BY <2>2, <2>3
<1>4. QED
  BY <1>2, <1>3 DEF Mirror

LEMMA ElementsPut ==
    ASSUME NEW Q \in Queues, NEW h \in Heads, NEW e \in Nodes,
           NEW i \in 1 .. Len(Q[h]) + 1
    PROVE  /\ Elements(Put(Q, h, i, e)) = Elements(Q) \cup {e}
           /\ Elements(Q) \in SUBSET Nodes
<1> DEFINE R == Put(Q, h, i, e)
           N == Len(Q[h])
<1>1. /\ \A g \in Heads : g # h => R[g] = Q[g]
      /\ Len(R[h]) = N + 1
      /\ \A g \in Heads : DOMAIN R[g] = 1 .. Len(R[g])
      /\ \A g \in Heads : DOMAIN Q[g] = 1 .. Len(Q[g])
      /\ \A k \in 1 .. N + 1 :
            R[h][k] = IF k < i THEN Q[h][k] ELSE IF k = i THEN e ELSE Q[h][k - 1]
  BY PutIs
<1>2. N \in Nat /\ i \in 1 .. N + 1
      /\ \A g \in Heads : \A k \in DOMAIN Q[g] : Q[g][k] \in Nodes
  BY DEF Queues
<1> HIDE DEF R, N
<1>3. Range(R[h]) = Range(Q[h]) \cup {e}
  <2>1. ASSUME NEW k \in 1 .. N + 1 PROVE R[h][k] \in Range(Q[h]) \cup {e}
    <3>1. k < i => k \in 1 .. N
      BY <1>2
    <3>2. ~(k < i) /\ k # i => k - 1 \in 1 .. N
      BY <1>2
    <3>3. QED
      BY <1>1, <3>1, <3>2 DEF Range, N
  <2>2. ASSUME NEW k \in 1 .. N PROVE Q[h][k] \in Range(R[h])
    <3>1. k < i => k \in 1 .. N + 1
      BY <1>2
    <3>2. ~(k < i) => k + 1 \in 1 .. N + 1 /\ ~(k + 1 < i) /\ k + 1 # i
                       /\ (k + 1) - 1 = k
      BY <1>2
    <3>3. QED
      BY <1>1, <3>1, <3>2 DEF Range
  <2>3. e \in Range(R[h])
    BY <1>1, <1>2 DEF Range
  <2>4. DOMAIN R[h] = 1 .. N + 1 /\ DOMAIN Q[h] = 1 .. N
    BY <1>1 DEF N
  <2>5. Range(R[h]) \subseteq Range(Q[h]) \cup {e}
    BY <2>1, <2>4 DEF Range
  <2>6. Range(Q[h]) \subseteq Range(R[h])
    BY <2>2, <2>4 DEF Range
  <2>7. QED
    BY <2>3, <2>5, <2>6
<1>4. Elements(R) = Elements(Q) \cup {e}
  BY <1>1, <1>3 DEF Elements
<1>5. QED
  <2>1. Elements(Q) \in SUBSET Nodes
    BY <1>2 DEF Elements, Range
  <2>2. QED
    BY <1>4, <2>1 DEF R

LEMMA ElementsDrop ==
    ASSUME NEW Q \in Queues, Distinct(Q), NEW h \in Heads,
           NEW i \in 1 .. Len(Q[h])
    PROVE  Elements(Drop(Q, h, i)) = Elements(Q) \ {Q[h][i]}
<1> DEFINE R == Drop(Q, h, i)
           N == Len(Q[h])
<1>1. /\ \A g \in Heads : g # h => R[g] = Q[g]
      /\ Len(R[h]) = N - 1
      /\ \A g \in Heads : DOMAIN R[g] = 1 .. Len(R[g])
      /\ \A g \in Heads : DOMAIN Q[g] = 1 .. Len(Q[g])
      /\ \A k \in 1 .. N - 1 : R[h][k] = IF k < i THEN Q[h][k] ELSE Q[h][k + 1]
  BY DropIs
<1>2. N \in Nat /\ i \in 1 .. N
  BY DEF Queues
<1> HIDE DEF R
<1>3. ASSUME NEW k \in 1 .. N, k # i PROVE Q[h][k] \in Range(R[h])
  <2>1. k < i => k \in 1 .. N - 1
    BY <1>2
  <2>2. ~(k < i) => k - 1 \in 1 .. N - 1 /\ ~(k - 1 < i) /\ (k - 1) + 1 = k
    BY <1>2, <1>3
  <2> HIDE DEF N
  <2>3. QED
    BY <1>1, <2>1, <2>2 DEF Range
<1>4. ASSUME NEW k \in 1 .. N - 1
      PROVE  R[h][k] \in Range(Q[h]) \ {Q[h][i]}
  <2>1. k < i => k \in DOMAIN Q[h] /\ k # i
    BY <1>1, <1>2
  <2>2. ~(k < i) => k + 1 \in DOMAIN Q[h] /\ k + 1 # i
    BY <1>1, <1>2
  <2>3. i \in DOMAIN Q[h]
    BY <1>1
  <2> HIDE DEF N
  <2>4. QED
    BY <1>1, <2>1, <2>2, <2>3 DEF Range, Distinct
<1>5. Range(R[h]) = Range(Q[h]) \ {Q[h][i]}
  <2>1. Range(R[h]) \subseteq Range(Q[h]) \ {Q[h][i]}
    BY <1>1, <1>4 DEF Range
  <2>2. Range(Q[h]) \ {Q[h][i]} \subseteq Range(R[h])
    BY <1>1, <1>3 DEF Range
  <2>3. QED
    BY <2>1, <2>2
<1>6. \A g \in Heads : g # h => Q[h][i] \notin Range(Q[g])
  BY <1>1 DEF Distinct, Range
<1>7. \A x : x \in Elements(R) <=> x \in Elements(Q) /\ x # Q[h][i]
  <2>1. \A x : x \in Elements(R) <=> \E g \in Heads : x \in Range(R[g])
    BY Zenon DEF Elements
  <2>2. \A x : x \in Elements(Q) <=> \E g \in Heads : x \in Range(Q[g])
    BY Zenon DEF Elements
  <2>3. \A g \in Heads : \A x : x \in Range(R[g]) <=> x \in Range(Q[g]) /\ x # Q[h][i]
    BY <1>1, <1>5, <1>6
  <2>4. QED
    BY <2>1, <2>2, <2>3, Zenon
<1>8. QED
  BY <1>7 DEF R

(* What the links of the circles keep: from every element next leads to    *)
(* the one after it, round its circle, and prev undoes next.               *)
Ring(Q, f, n, p) ==
    /\ Q \in Queues
    /\ Distinct(Q)
    /\ Firsts(Q, f)
    /\ RingNexts(Q, n)
    /\ p \in [Nodes -> NodeOrNil]
    /\ Mirror(Elements(Q), n, p)

LEMMA AbsentElements ==
    ASSUME NEW Q, NEW e
    PROVE  Absent(Q, e) <=> e \notin Elements(Q)
BY DEF Absent, Elements, Range

LEMMA RingAt ==
    ASSUME NEW Q, NEW f, NEW n, NEW p, Ring(Q, f, n, p),
           NEW h \in Heads, NEW i \in DOMAIN Q[h]
    PROVE  /\ Q[h][i] \in Nodes /\ Q[h][i] \in Elements(Q)
           /\ n[Q[h][i]] \in Nodes /\ p[Q[h][i]] \in Nodes
           /\ p[n[Q[h][i]]] = Q[h][i] /\ n[p[Q[h][i]]] = Q[h][i]
           /\ n[Q[h][i]] = Succ(Q[h], i)
           /\ f[h] = Q[h][1] /\ f[h] # NIL
           /\ Len(Q[h]) \in Nat \ {0} /\ DOMAIN Q[h] = 1 .. Len(Q[h])
           /\ p[f[h]] = Q[h][Len(Q[h])]
<1>1. Q[h] \in Seq(Nodes) /\ DOMAIN Q[h] = 1 .. Len(Q[h]) /\ Len(Q[h]) \in Nat
  BY DEF Ring, Queues
<1>2. Len(Q[h]) # 0 /\ 1 \in DOMAIN Q[h] /\ Len(Q[h]) \in DOMAIN Q[h]
  BY <1>1
<1>3. \A k \in DOMAIN Q[h] : Q[h][k] \in Nodes /\ Q[h][k] \in Elements(Q)
  BY <1>1 DEF Elements, Range
<1>4. \A x \in Elements(Q) : x \in Nodes
  BY DEF Elements, Range, Ring, Queues
<1>5. \A k \in DOMAIN Q[h] :
         /\ n[Q[h][k]] \in Elements(Q) /\ p[Q[h][k]] \in Elements(Q)
         /\ p[n[Q[h][k]]] = Q[h][k] /\ n[p[Q[h][k]]] = Q[h][k]
         /\ n[Q[h][k]] = Succ(Q[h], k)
  BY <1>3, Zenon DEF Ring, Mirror, RingNexts
<1>6. f[h] = Q[h][1]
  BY <1>2 DEF Ring, Firsts, Item
<1>7. n[Q[h][Len(Q[h])]] = Q[h][1] /\ p[n[Q[h][Len(Q[h])]]] = Q[h][Len(Q[h])]
  BY <1>2, <1>5, Zenon DEF Succ
<1>8. QED
  BY <1>1, <1>2, <1>3, <1>4, <1>5, <1>6, <1>7, NilNotNode

(* One more element after x, the element at place a.                       *)
LEMMA RingIn ==
    ASSUME NEW Q, NEW f, NEW n, NEW p, Ring(Q, f, n, p),
           NEW h \in Heads, NEW e \in Nodes, Absent(Q, e),
           NEW a \in DOMAIN Q[h], NEW x, x = Q[h][a],
           NEW i \in 1 .. Len(Q[h]) + 1,
           i = a + 1 \/ (i = 1 /\ a = Len(Q[h])),
           NEW f2, f2 = [f EXCEPT ![h] = IF i = 1 THEN e ELSE @],
           NEW n2, n2 = [n EXCEPT ![e] = n[x], ![x] = e],
           NEW p2, p2 = [p EXCEPT ![e] = x, ![n[x]] = e]
    PROVE  Ring(Put(Q, h, i, e), f2, n2, p2)
<1>1. /\ Q \in Queues /\ Distinct(Q) /\ Firsts(Q, f) /\ RingNexts(Q, n)
      /\ n \in [Nodes -> NodeOrNil] /\ p \in [Nodes -> NodeOrNil]
      /\ Mirror(Elements(Q), n, p)
  BY DEF Ring, RingNexts
<1>2. /\ x \in Nodes /\ x \in Elements(Q) /\ n[x] \in Nodes /\ a \in 1 .. Len(Q[h])
      /\ n[x] \in Elements(Q)
  BY <1>1, RingAt DEF Mirror
<1>3. e \notin Elements(Q) /\ e # x /\ e # n[x]
  BY <1>2, AbsentElements
<1>4. Relinked(n, n2, e, n[x], x, e)
  BY <1>1, <1>2, <1>3 DEF NodeOrNil, Relinked
<1>5. Relinked(p, p2, e, x, n[x], e) /\ p2 \in [Nodes -> NodeOrNil]
  BY <1>1, <1>2, <1>3 DEF NodeOrNil, Relinked
<1>6. Put(Q, h, i, e) \in Queues /\ Distinct(Put(Q, h, i, e))
  BY <1>1, PutIs, PutDistinct
<1>7. Firsts(Put(Q, h, i, e), f2)
  BY <1>1, PutEnds
<1>8. RingNexts(Put(Q, h, i, e), n2)
  <2>1. Relinked(n, n2, e, n[Q[h][a]], Q[h][a], e)
    BY <1>4
  <2>2. QED
    BY <1>1, <1>2, <2>1, RingPutNexts
<1>9. Mirror(Elements(Q) \cup {e}, n2, p2)
  BY <1>1, <1>2, <1>3, <1>4, <1>5, ElementsPut, MirrorIn
<1>10. Elements(Put(Q, h, i, e)) = Elements(Q) \cup {e}
  BY <1>1, ElementsPut, Zenon
<1>11. QED
  BY <1>5, <1>6, <1>7, <1>8, <1>9, <1>10, Zenon DEF Ring

LEMMA RingInFirst ==
    ASSUME NEW Q, NEW f, NEW n, NEW p, Ring(Q, f, n, p),
           NEW h \in Heads, NEW e \in Nodes, Absent(Q, e), f[h] = NIL,
           NEW i \in 1 .. Len(Q[h]) + 1,
           NEW f2, f2 = [f EXCEPT ![h] = e],
           NEW n2, n2 = [n EXCEPT ![e] = e],
           NEW p2, p2 = [p EXCEPT ![e] = e]
    PROVE  /\ Ring(Put(Q, h, i, e), f2, n2, p2)
           /\ Len(Q[h]) = 0
<1>1. /\ Q \in Queues /\ Distinct(Q) /\ Firsts(Q, f) /\ RingNexts(Q, n)
      /\ n \in [Nodes -> NodeOrNil] /\ p \in [Nodes -> NodeOrNil]
      /\ Mirror(Elements(Q), n, p) /\ Elements(Q) \in SUBSET Nodes
  BY ElementsPut DEF Ring, RingNexts, Elements, Range, Queues
<1>2. Len(Q[h]) = 0
  <2>1. Item(Q[h], 1) = NIL /\ Len(Q[h]) \in Nat
    BY <1>1 DEF Firsts, Queues
  <2>2. ~(1 \in 1 .. Len(Q[h]))
    BY <1>1, <2>1, QueueTypes
  <2>3. QED
    BY <2>1, <2>2
<1>3. e \notin Elements(Q)
  BY AbsentElements
<1>4. Relinked(n, n2, e, e, e, e)
  BY <1>1 DEF NodeOrNil, Relinked
<1>5. Relinked(p, p2, e, e, e, e) /\ p2 \in [Nodes -> NodeOrNil]
  BY <1>1 DEF NodeOrNil, Relinked
<1>6. Put(Q, h, i, e) \in Queues /\ Distinct(Put(Q, h, i, e))
  BY <1>1, PutIs, PutDistinct
<1>7. Firsts(Put(Q, h, i, e), f2)
  <2>1. Firsts(Put(Q, h, i, e), [f EXCEPT ![h] = IF i = 1 THEN e ELSE @])
    BY <1>1, PutEnds, Zenon
  <2>2. i = 1
    BY <1>2
  <2>3. QED
    BY <2>1, <2>2, Zenon
<1>8. RingNexts(Put(Q, h, i, e), n2)
  BY <1>1, <1>2, <1>4, RingPutOne DEF Void
<1>9. Mirror(Elements(Q) \cup {e}, n2, p2)
  BY <1>1, <1>3, <1>4, <1>5 DEF Mirror, Relinked
<1>10. Elements(Put(Q, h, i, e)) = Elements(Q) \cup {e}
  BY <1>1, ElementsPut, Zenon
<1>11. QED
  BY <1>2, <1>5, <1>6, <1>7, <1>8, <1>9, <1>10, Zenon DEF Ring

(* The element before the one at place i.                                  *)
LEMMA RingBefore ==
    ASSUME NEW Q, NEW f, NEW n, NEW p, Ring(Q, f, n, p),
           NEW h \in Heads, NEW i \in DOMAIN Q[h]
    PROVE  \E a \in DOMAIN Q[h] :
              /\ p[Q[h][i]] = Q[h][a]
              /\ i = a + 1 \/ (i = 1 /\ a = Len(Q[h]))
<1> DEFINE a == IF i = 1 THEN Len(Q[h]) ELSE i - 1
<1>1. Len(Q[h]) \in Nat \ {0} /\ DOMAIN Q[h] = 1 .. Len(Q[h])
  BY RingAt
<1>2. a \in DOMAIN Q[h] /\ (i = a + 1 \/ (i = 1 /\ a = Len(Q[h])))
  BY <1>1
<1>3. Succ(Q[h], a) = Q[h][i]
  BY <1>1 DEF Succ
<1> HIDE DEF a
<1>4. n[Q[h][a]] = Q[h][i] /\ p[n[Q[h][a]]] = Q[h][a]
  BY <1>2, <1>3, RingAt
<1>5. QED
  BY <1>2, <1>4

LEMMA ElementBefore ==
    ASSUME NEW Q, NEW f, NEW n, NEW p, Ring(Q, f, n, p),
           NEW h \in Heads, NEW i \in DOMAIN Q[h], NEW e, e = Q[h][i]
    PROVE  \E a \in 1 .. Len(Q[h]) :
              /\ p[e] = Q[h][a]
              /\ i = a + 1 \/ (i = 1 /\ a = Len(Q[h]))
<1>1. DOMAIN Q[h] = 1 .. Len(Q[h])
  BY RingAt
<1>2. \E a \in DOMAIN Q[h] : /\ p[Q[h][i]] = Q[h][a]
                             /\ i = a + 1 \/ (i = 1 /\ a = Len(Q[h]))
  BY RingBefore
<1>3. QED
  BY <1>1, <1>2

(* From every element next and prev lead to one of the same circle.        *)
LEMMA RingRound ==
    ASSUME NEW Q, NEW f, NEW n, NEW p, Ring(Q, f, n, p),
           NEW h \in Heads, NEW x \in Range(Q[h])
    PROVE  /\ n[x] \in Range(Q[h]) /\ p[x] \in Range(Q[h])
           /\ x \in Nodes /\ x \in Elements(Q) /\ n[x] # NIL /\ f[h] # NIL
<1>1. PICK i \in DOMAIN Q[h] : Q[h][i] = x
  BY DEF Range
<1>2. /\ x \in Nodes /\ x \in Elements(Q) /\ n[x] \in Nodes /\ f[h] # NIL
      /\ n[x] = Succ(Q[h], i)
      /\ Len(Q[h]) \in Nat \ {0} /\ DOMAIN Q[h] = 1 .. Len(Q[h])
  BY <1>1, RingAt
<1>3. n[x] \in Range(Q[h])
  <2>1. i = Len(Q[h]) => 1 \in DOMAIN Q[h] /\ n[x] = Q[h][1]
    BY <1>2 DEF Succ
  <2>2. i # Len(Q[h]) => i + 1 \in DOMAIN Q[h] /\ n[x] = Q[h][i + 1]
    BY <1>2 DEF Succ
  <2>3. QED
    BY <2>1, <2>2 DEF Range
<1>4. p[x] \in Range(Q[h])
  BY <1>1, RingBefore DEF Range
<1>5. QED
  BY <1>2, <1>3, <1>4, NilNotNode

(* What takes e, which is not alone, out of the circle of h.               *)
Bypassed(f, n, p, h, e, f2, n2, p2) ==
    /\ n[e] # e
    /\ f2 = [f EXCEPT ![h] = IF @ = e THEN n[e] ELSE @]
    /\ n2 = [n EXCEPT ![p[e]] = n[e], ![e] = NIL]
    /\ p2 = [p EXCEPT ![n[e]] = p[e], ![e] = NIL]

LEMMA RingOut ==
    ASSUME NEW Q, NEW f, NEW n, NEW p, Ring(Q, f, n, p),
           NEW h \in Heads, NEW i \in DOMAIN Q[h], NEW e, e = Q[h][i],
           NEW f2, NEW n2, NEW p2, Bypassed(f, n, p, h, e, f2, n2, p2)
    PROVE  Ring(Drop(Q, h, i), f2, n2, p2)
<1> USE DEF Bypassed
<1>1. /\ Q \in Queues /\ Distinct(Q) /\ Firsts(Q, f) /\ RingNexts(Q, n)
      /\ n \in [Nodes -> NodeOrNil] /\ p \in [Nodes -> NodeOrNil]
      /\ f \in [Heads -> NodeOrNil]
      /\ Mirror(Elements(Q), n, p)
  BY DEF Ring, RingNexts, Firsts
<1>2. /\ e \in Nodes /\ e \in Elements(Q) /\ n[e] \in Nodes /\ p[e] \in Nodes
      /\ n[e] = Succ(Q[h], i) /\ f[h] = Q[h][1] /\ p[n[e]] = e
      /\ Len(Q[h]) \in Nat \ {0} /\ DOMAIN Q[h] = 1 .. Len(Q[h])
      /\ n[p[e]] = e
  BY RingAt
<1>3. Len(Q[h]) > 1 /\ i \in 1 .. Len(Q[h])
  <2>1. i \in 1 .. Len(Q[h])
    BY <1>2
  <2>2. Len(Q[h]) # 1
    <3>1. Len(Q[h]) = 1 => i = 1
      BY <2>1
    <3>2. i = Len(Q[h]) /\ i = 1 => n[e] = Q[h][i]
      BY <1>2 DEF Succ
    <3>3. QED
      BY <3>1, <3>2
  <2>3. QED
    <3>1. \A m \in Nat \ {0} : m # 1 => m > 1
      OBVIOUS
    <3>2. QED
      BY <1>2, <2>1, <2>2, <3>1
<1>4. PICK a \in 1 .. Len(Q[h]) : /\ p[e] = Q[h][a]
                                  /\ i = a + 1 \/ (i = 1 /\ a = Len(Q[h]))
  BY ElementBefore
<1>5. p[e] # e
  BY <1>2
<1>6. Relinked(n, n2, e, NIL, p[e], n[e])
  BY <1>1, <1>2, <1>5 DEF Relinked, NodeOrNil
<1>7. Relinked(p, p2, e, NIL, n[e], p[e]) /\ p2 \in [Nodes -> NodeOrNil]
  BY <1>1, <1>2 DEF Relinked, NodeOrNil
<1>8. RingNexts(Drop(Q, h, i), n2)
  <2>1. Relinked(n, n2, Q[h][i], NIL, Q[h][a], n[Q[h][i]])
    BY <1>4, <1>6
  <2>2. QED
    BY <1>1, <1>3, <1>4, <2>1, RingDropNexts
<1>9. Drop(Q, h, i) \in Queues /\ Distinct(Drop(Q, h, i))
  BY <1>1, <1>3, DropIs, DropDistinct
<1>10. Firsts(Drop(Q, h, i), f2)
  <2>1. Firsts(Drop(Q, h, i), [f EXCEPT ![h] = IF i = 1 THEN Item(Q[h], 2) ELSE @])
    BY <1>1, <1>3, DropEnds, Zenon
  <2>2. f[h] = e <=> i = 1
    <3>1. 1 \in DOMAIN Q[h]
      BY <1>2
    <3>2. QED
      BY <1>1, <1>2, <3>1 DEF Distinct
  <2>3. i = 1 => n[e] = Item(Q[h], 2)
    BY <1>2, <1>3 DEF Succ, Item
  <2>4. f2 = [f EXCEPT ![h] = IF i = 1 THEN Item(Q[h], 2) ELSE @]
    BY <1>1, <2>2, <2>3
  <2>5. QED
    BY <2>1, <2>4, Zenon
<1>11. Mirror(Elements(Q) \ {e}, n2, p2)
  <2>1. Elements(Q) \in SUBSET Nodes
    BY <1>1 DEF Elements, Range, Queues
  <2>2. QED
    BY <1>1, <1>2, <1>6, <1>7, <2>1, MirrorOut
<1>12. Elements(Drop(Q, h, i)) = Elements(Q) \ {e}
  BY <1>1, <1>3, ElementsDrop
<1>13. QED
  BY <1>7, <1>8, <1>9, <1>10, <1>11, <1>12, Zenon DEF Ring

(* Only h's sequence becomes empty; only elements of q change their link.  *)
Emptied(Q, R, h) ==
    R \in Queues /\ \A g \in Heads : R[g] = IF g = h THEN <<>> ELSE Q[g]

ChangedIn(q, n, n2) ==
    /\ n2 \in [Nodes -> NodeOrNil]
    /\ \A x \in Nodes : x \notin Range(q) => n2[x] = n[x]

LEMMA RingEmpty ==
    ASSUME NEW Q, NEW f, NEW n, NEW p, Ring(Q, f, n, p),
           NEW h \in Heads, NEW R, Emptied(Q, R, h),
           NEW n2, ChangedIn(Q[h], n, n2),
           NEW p2, ChangedIn(Q[h], p, p2)
    PROVE  Ring(R, [f EXCEPT ![h] = NIL], n2, p2)
<1>0. /\ R \in Queues /\ \A g \in Heads : R[g] = IF g = h THEN <<>> ELSE Q[g]
      /\ n2 \in [Nodes -> NodeOrNil]
      /\ \A x \in Nodes : x \notin Range(Q[h]) => n2[x] = n[x]
      /\ p2 \in [Nodes -> NodeOrNil]
      /\ \A x \in Nodes : x \notin Range(Q[h]) => p2[x] = p[x]
  BY DEF Emptied, ChangedIn
<1> USE <1>0
<1>1. /\ Q \in Queues /\ Distinct(Q) /\ Firsts(Q, f) /\ RingNexts(Q, n)
      /\ Mirror(Elements(Q), n, p)
  BY DEF Ring
<1>2. DOMAIN <<>> = {}
  OBVIOUS
<1>3. Distinct(R)
  BY <1>1, <1>2 DEF Distinct
<1>4. Firsts(R, [f EXCEPT ![h] = NIL])
  BY <1>1, <1>2 DEF Firsts, Item, NodeOrNil
<1>5. RingNexts(R, n2)
  BY <1>1, RingEmptyNexts
<1>6. ASSUME NEW x \in Elements(R)
      PROVE  /\ n2[x] \in Elements(R) /\ p2[x] \in Elements(R)
             /\ p2[n2[x]] = x /\ n2[p2[x]] = x
  <2>1. PICK g \in Heads : x \in Range(R[g])
    BY <1>6 DEF Elements
  <2>2. g # h /\ R[g] = Q[g] /\ Range(Q[g]) \subseteq Elements(R)
    BY <1>2, <2>1 DEF Elements, Range
  <2>3. \A y \in Range(Q[g]) : y \in Nodes /\ y \notin Range(Q[h])
    BY <1>1, <2>2 DEF Distinct, Range, Queues
  <2>4. /\ x \in Range(Q[g]) /\ x \in Elements(Q)
        /\ n[x] \in Range(Q[g]) /\ p[x] \in Range(Q[g])
    BY <2>1, <2>2, RingRound
  <2>5. p[n[x]] = x /\ n[p[x]] = x
    BY <1>1, <2>4 DEF Mirror
  <2>6. n2[x] = n[x] /\ p2[x] = p[x] /\ p2[n[x]] = p[n[x]] /\ n2[p[x]] = n[p[x]]
    BY <2>3, <2>4
  <2>7. QED
    BY <2>2, <2>4, <2>5, <2>6
<1>7. QED
  BY <1>3, <1>4, <1>5, <1>6 DEF Ring, Mirror

LEMMA RingOutLast ==
    ASSUME NEW Q, NEW f, NEW n, NEW p, Ring(Q, f, n, p),
           NEW h \in Heads, NEW i \in DOMAIN Q[h], NEW e, e = Q[h][i], n[e] = e,
           NEW f2, f2 = [f EXCEPT ![h] = NIL],
           NEW n2, n2 = [n EXCEPT ![e] = NIL],
           NEW p2, p2 = [p EXCEPT ![e] = NIL]
    PROVE  Ring(Drop(Q, h, i), f2, n2, p2)
<1>1. /\ Q \in Queues /\ Distinct(Q)
      /\ n \in [Nodes -> NodeOrNil] /\ p \in [Nodes -> NodeOrNil]
  BY DEF Ring, RingNexts
<1>2. /\ e \in Nodes /\ n[e] = Succ(Q[h], i)
      /\ Len(Q[h]) \in Nat \ {0} /\ DOMAIN Q[h] = 1 .. Len(Q[h])
  BY RingAt
<1>3. Len(Q[h]) = 1 /\ i = 1 /\ i \in 1 .. Len(Q[h])
  <2>1. i = Len(Q[h])
    <3>1. i # Len(Q[h]) => i + 1 \in DOMAIN Q[h] /\ Q[h][i + 1] = Q[h][i] /\ i + 1 # i
      BY <1>2 DEF Succ
    <3>2. QED
      BY <1>1, <3>1 DEF Distinct
  <2>2. 1 \in DOMAIN Q[h] /\ Q[h][1] = Q[h][i]
    BY <1>2, <2>1 DEF Succ
  <2>3. i = 1
    BY <1>1, <2>2 DEF Distinct
  <2>4. QED
    BY <1>2, <2>1, <2>3
<1>4. /\ Drop(Q, h, i) \in Queues
      /\ \A g \in Heads : g # h => Drop(Q, h, i)[g] = Q[g]
      /\ Len(Drop(Q, h, i)[h]) = Len(Q[h]) - 1
  BY <1>1, <1>2, DropIs
<1> DEFINE R == Drop(Q, h, i)
<1> HIDE DEF R
<1>5. R[h] = <<>>
  <2>1. R[h] \in Seq(Nodes) /\ Len(R[h]) = 0
    BY <1>3, <1>4 DEF Queues, R
  <2>2. QED
    BY <2>1
<1>6. e \in Range(Q[h])
  BY DEF Range
<1>7. ChangedIn(Q[h], n, n2) /\ ChangedIn(Q[h], p, p2)
  BY <1>1, <1>2, <1>6 DEF NodeOrNil, ChangedIn
<1>8. Emptied(Q, R, h)
  BY <1>4, <1>5 DEF R, Emptied
<1>9. Ring(R, [f EXCEPT ![h] = NIL], n2, p2)
  BY <1>7, <1>8, RingEmpty
<1>10. QED
  BY <1>9 DEF R

(* Backwards from the last element of a circle to the last element.        *)
LEMMA RingBack ==
    ASSUME NEW Q, NEW f, NEW n, NEW p, Ring(Q, f, n, p), NEW h \in Heads,
           NEW l, l = IF f[h] = NIL THEN NIL ELSE p[f[h]]
    PROVE  Chain(l, p, l) = Reversed(Q[h])
<1> DEFINE q == Q[h]
           N == Len(q)
           r == Reversed(q)
<1>1. q \in Seq(Nodes) /\ DOMAIN q = 1 .. N /\ N \in Nat
      /\ \A i, j \in DOMAIN q : q[i] = q[j] => i = j
  BY DEF Ring, Queues, Distinct
<1>2. /\ r \in Seq(Nodes) /\ Len(r) = N
      /\ \A i, j \in DOMAIN r : r[i] = r[j] => i = j
      /\ \A i \in 1 .. N : r[i] = q[N + 1 - i]
  <2>1. /\ r \in Seq(Nodes) /\ Len(r) = N
        /\ \A i, j \in DOMAIN r : r[i] = r[j] => i = j
    BY <1>1, ReversedIs
  <2>2. QED
    BY <1>1, <2>1 DEF Reversed
<1>3. N = 0 => l = NIL
  <2>1. N = 0 => f[h] = NIL
    BY <1>1 DEF Ring, Firsts, Item
  <2>2. QED
    BY <2>1
<1>4. N # 0 => l = q[N]
  <2>1. N # 0 => 1 \in DOMAIN q
    BY <1>1
  <2>2. QED
    BY <2>1, RingAt
<1>5. ASSUME NEW i \in DOMAIN q
      PROVE  p[q[i]] = IF i = 1 THEN q[N] ELSE q[i - 1]
  <2>1. PICK a \in DOMAIN q : p[q[i]] = q[a] /\ (i = a + 1 \/ (i = 1 /\ a = N))
    BY RingBefore
  <2>2. a \in 1 .. N /\ N \in Nat
    BY <1>1, <2>1
  <2> HIDE DEF q, N
  <2>3. i = a + 1 => i # 1 /\ i - 1 = a
    BY <2>2
  <2>4. QED
    BY <2>1, <2>3
<1> HIDE DEF q, N, r
<1>6. ASSUME NEW i \in DOMAIN r
      PROVE  IF i + 1 \in DOMAIN r THEN p[r[i]] = r[i + 1] /\ r[i + 1] # l
             ELSE p[r[i]] \in {NIL, l}
  <2>1. /\ i \in 1 .. N /\ N + 1 - i \in 1 .. N /\ N \in 1 .. N
        /\ r[i] = q[N + 1 - i] /\ l = q[N]
        /\ DOMAIN r = 1 .. N /\ DOMAIN q = 1 .. N
    <3>1. DOMAIN r = 1 .. N
      BY <1>2
    <3>2. i \in 1 .. N /\ N \in Nat
      BY <1>1, <1>6, <3>1
    <3>3. N + 1 - i \in 1 .. N /\ N \in 1 .. N /\ N # 0
      BY <3>2
    <3>4. QED
      BY <1>1, <1>2, <1>4, <3>1, <3>2, <3>3
  <2>2. CASE i + 1 \in DOMAIN r
    <3>1. /\ i + 1 \in 1 .. N /\ N + 1 - i # 1
          /\ (N + 1 - i) - 1 = N - i /\ N + 1 - (i + 1) = N - i
          /\ N - i \in 1 .. N /\ N - i # N
      BY <1>1, <2>1, <2>2
    <3>2. r[i + 1] = q[N - i]
      BY <1>2, <3>1
    <3>3. p[q[N + 1 - i]] = q[N - i]
      BY <1>5, <2>1, <3>1
    <3>4. q[N - i] # q[N]
      BY <1>1, <2>1, <3>1
    <3>5. QED
      BY <2>1, <2>2, <3>2, <3>3, <3>4
  <2>3. CASE ~(i + 1 \in DOMAIN r)
    <3>1. N + 1 - i = 1
      BY <1>1, <2>1, <2>3
    <3>2. p[q[N + 1 - i]] = q[N]
      BY <1>5, <2>1, <3>1
    <3>3. QED
      BY <2>1, <2>3, <3>2
  <2>4. QED
    BY <2>2, <2>3
<1>7. l = Item(r, 1)
  <2>1. DOMAIN r = 1 .. N
    BY <1>2
  <2>2. CASE N = 0
    BY <1>3, <2>1, <2>2 DEF Item
  <2>3. CASE N # 0
    <3>1. 1 \in 1 .. N /\ N + 1 - 1 = N
      BY <1>1, <2>3
    <3>2. r[1] = q[N + 1 - 1]
      BY <1>2, <3>1
    <3>3. QED
      BY <1>4, <2>1, <2>3, <3>1, <3>2 DEF Item
  <2>4. QED
    BY <2>2, <2>3
<1>8. Runs(r, l, p, l)
  BY <1>2, <1>6, <1>7 DEF Runs
<1>9. Chain(l, p, l) = r
  BY <1>2, <1>8, ChainIs
<1>10. QED
  BY <1>9 DEF r, q


-----------------------------------------------------------------------------
(* The calls on a circle *)

Circles == CirclesOf(first, next)

Laps == [head : Heads, dir : {"forward", "reverse"}, start : Nodes,
         var : Nodes, tvar : Nodes, due : SUBSET Nodes, seen : SUBSET Nodes]

(* The next element of a safe iteration is on its circle, unless the       *)
(* iteration is over; its start is its current element.                    *)
LapIn(Q, lp) ==
    \/ lp = NoLoop
    \/ /\ lp \in Laps
       /\ lp.start = lp.var
       /\ lp.tvar = lp.start \/ lp.tvar \in Range(Q[lp.head])

LEMMA CircleAt ==
    ASSUME NEW h \in Heads
    PROVE  Circles[h] = Chain(first[h], next, first[h])
BY DEF Circles, CirclesOf

LEMMA CirclesBecome ==
    ASSUME NEW R, NEW p, Ring(R, first', next', p)
    PROVE  Circles' = R
BY CirclesAre DEF Ring, Circles

LEMMA PutRange ==
    ASSUME NEW Q \in Queues, NEW h \in Heads, NEW e \in Nodes,
           NEW i \in 1 .. Len(Q[h]) + 1, NEW g \in Heads
    PROVE  Range(Q[g]) \subseteq Range(Put(Q, h, i, e)[g])
<1>1. CASE g # h
  <2>1. Put(Q, h, i, e)[g] = Q[g]
    BY <1>1, PutIs
  <2>2. QED
    BY <2>1
<1>2. CASE g = h
  <2> DEFINE q == Q[h]
             r == Put(Q, h, i, e)[h]
             N == Len(q)
  <2>1. /\ N \in Nat /\ DOMAIN q = 1 .. N /\ DOMAIN r = 1 .. N + 1
        /\ \A k \in 1 .. N + 1 :
              r[k] = IF k < i THEN q[k] ELSE IF k = i THEN e ELSE q[k - 1]
    BY PutIs, QueueTypes
  <2> HIDE DEF q, r, N
  <2>2. ASSUME NEW k \in DOMAIN q PROVE \E m \in DOMAIN r : r[m] = q[k]
    <3>1. k < i => k \in 1 .. N + 1 /\ r[k] = q[k]
      BY <2>1
    <3>2. ~(k < i) => k + 1 \in 1 .. N + 1 /\ r[k + 1] = q[k]
      <4>1. ~(k < i) => ~(k + 1 < i) /\ k + 1 # i /\ k + 1 - 1 = k /\ k + 1 \in 1 .. N + 1
        BY <2>1 DEF N, q
      <4>2. QED
        BY <2>1, <4>1
    <3>3. QED
      BY <2>1, <3>1, <3>2
  <2>3. Range(q) \subseteq Range(r)
    BY <2>2 DEF Range
  <2>4. QED
    BY <1>2, <2>3 DEF q, r
<1>3. QED
  BY <1>1, <1>2

LEMMA DropAt ==
    ASSUME NEW Q \in Queues, NEW h \in Heads, NEW i \in 1 .. Len(Q[h])
    PROVE  LET r == Drop(Q, h, i)[h]
               N == Len(Q[h])
           IN /\ N \in Nat /\ DOMAIN Q[h] = 1 .. N /\ DOMAIN r = 1 .. N - 1
              /\ i \in 1 .. N
              /\ \A k \in 1 .. N - 1 : r[k] = IF k < i THEN Q[h][k] ELSE Q[h][k + 1]
<1>1. Len(Q[h]) \in Nat
  BY QueueTypes
<1>2. QED
  BY <1>1, DropIs

LEMMA DropRange ==
    ASSUME NEW Q \in Queues, NEW h \in Heads, NEW i \in DOMAIN Q[h],
           NEW g \in Heads, NEW x \in Range(Q[g]), x # Q[h][i]
    PROVE  x \in Range(Drop(Q, h, i)[g])
<1>1. CASE g # h
  <2>1. Drop(Q, h, i)[g] = Q[g]
    BY <1>1, DropIs, QueueTypes
  <2>2. QED
    BY <2>1
<1>2. CASE g = h
  <2> DEFINE q == Q[h]
             r == Drop(Q, h, i)[h]
             N == Len(q)
  <2>1. /\ N \in Nat /\ DOMAIN q = 1 .. N /\ DOMAIN r = 1 .. N - 1
        /\ i \in 1 .. N
        /\ \A k \in 1 .. N - 1 : r[k] = IF k < i THEN q[k] ELSE q[k + 1]
    <3>1. i \in 1 .. Len(Q[h])
      BY QueueTypes
    <3>2. QED
      BY <3>1, DropAt
  <2> HIDE DEF q, r, N
  <2>2. PICK k \in DOMAIN q : q[k] = x
    BY <1>2 DEF Range, q
  <2>3. k # i
    BY <2>2 DEF q
  <2>4. k < i => k \in 1 .. N - 1 /\ r[k] = x
    BY <2>1, <2>2
  <2>5. ~(k < i) => k - 1 \in 1 .. N - 1 /\ r[k - 1] = x
    <3>1. ~(k < i) => ~(k - 1 < i) /\ (k - 1) + 1 = k /\ k - 1 \in 1 .. N - 1
      BY <2>1, <2>3
    <3>2. QED
      BY <2>1, <2>2, <3>1
  <2>6. x \in Range(r)
    BY <2>1, <2>4, <2>5 DEF Range
  <2>7. QED
    BY <1>2, <2>6 DEF r
<1>3. QED
  BY <1>1, <1>2

LEMMA CirclePut ==
    ASSUME NEW p, Ring(Circles, first, next, p), LapIn(Circles, loop),
           loop' = loop, NEW h \in Heads, NEW e \in Nodes,
           NEW i \in 1 .. Len(Circles[h]) + 1,
           NEW p2, Ring(Put(Circles, h, i, e), first', next', p2)
    PROVE  /\ Circles' = Put(Circles, h, i, e)
           /\ Ring(Circles', first', next', p2) /\ LapIn(Circles', loop')
<1>1. Circles' = Put(Circles, h, i, e)
  BY CirclesBecome
<1>2. ASSUME NEW g \in Heads
      PROVE  Range(Circles[g]) \subseteq Range(Put(Circles, h, i, e)[g])
  BY PutRange DEF Ring
<1>3. LapIn(Put(Circles, h, i, e), loop)
  BY <1>2 DEF LapIn, Laps
<1>4. QED
  BY <1>1, <1>3

(* A call takes e out; the body of a safe iteration does not take the next *)
(* element, unless it is the current one.                                  *)
CircleLeft(e) ==
    /\ e = loop.tvar => e = loop.var
    /\ loop' = [loop EXCEPT !.due = @ \ {e}]

LEMMA CircleDrop ==
    ASSUME NEW p, Ring(Circles, first, next, p), LapIn(Circles, loop),
           NEW h \in Heads, NEW i \in DOMAIN Circles[h],
           CircleLeft(Circles[h][i]),
           NEW p2, Ring(Drop(Circles, h, i), first', next', p2)
    PROVE  /\ Circles' = Drop(Circles, h, i)
           /\ Ring(Circles', first', next', p2) /\ LapIn(Circles', loop')
<1>1. Circles' = Drop(Circles, h, i)
  BY CirclesBecome
<1>2. LapIn(Drop(Circles, h, i), loop')
  <2>1. CASE loop = NoLoop
    BY <2>1, NoLoopLess DEF LapIn, CircleLeft
  <2>2. CASE loop # NoLoop
    <3>1. /\ loop \in Laps /\ loop.start = loop.var
          /\ loop.tvar = loop.start \/ loop.tvar \in Range(Circles[loop.head])
      BY <2>2 DEF LapIn
    <3>2. /\ loop' \in Laps /\ loop'.start = loop.start
          /\ loop'.var = loop.var /\ loop'.tvar = loop.tvar
          /\ loop'.head = loop.head /\ loop.head \in Heads
      BY <3>1 DEF Laps, CircleLeft
    <3>3. loop.tvar # loop.start => loop.tvar # Circles[h][i]
      BY <3>1 DEF CircleLeft
    <3>4. loop.tvar # loop.start =>
             loop.tvar \in Range(Drop(Circles, h, i)[loop.head])
      BY <3>1, <3>2, <3>3, DropRange DEF Ring
    <3>5. QED
      BY <3>1, <3>2, <3>4 DEF LapIn
  <2>3. QED
    BY <2>1, <2>2
<1>3. QED
  BY <1>1, <1>2

LEMMA IdleCircle ==
    ASSUME NEW R, Idle, NEW p2, Ring(R, first', next', p2)
    PROVE  /\ Circles' = R
           /\ Ring(Circles', first', next', p2) /\ LapIn(Circles', loop')
<1>1. Circles' = R
  BY CirclesBecome
<1>2. QED
  BY <1>1 DEF Idle, LapIn

(* Neither link has changed.                                               *)
LEMMA SameCircle ==
    ASSUME NEW p, Ring(Circles, first, next, p), UNCHANGED <<first, next>>,
           LapIn(Circles, loop')
    PROVE  /\ Circles' = Circles
           /\ Ring(Circles', first', next', p) /\ LapIn(Circles', loop')
<1>1. Circles' = Circles
  BY DEF Circles
<1>2. QED
  BY <1>1

LEMMA CircleFirstIn ==
    ASSUME NEW p, Ring(Circles, first, next, p), LapIn(Circles, loop),
           loop' = loop, NEW h \in Heads, NEW e \in Nodes, Absent(Circles, e),
           first[h] = NIL,
           first' = [first EXCEPT ![h] = e],
           next' = [next EXCEPT ![e] = e],
           NEW p2, p2 = [p EXCEPT ![e] = e],
           NEW i \in {1, Len(Circles[h]) + 1}
    PROVE  /\ Circles' = Put(Circles, h, i, e)
           /\ Ring(Circles', first', next', p2) /\ LapIn(Circles', loop')
<1>1. i \in 1 .. Len(Circles[h]) + 1
  BY QueueTypes DEF Ring
<1>2. Ring(Put(Circles, h, i, e), first', next', p2)
  BY <1>1, RingInFirst
<1>3. QED
  BY <1>1, <1>2, CirclePut

(* What puts e after x, which is the first element of the circle of h      *)
(* when i is 1.                                                            *)
Spliced(f, n, p, h, e, x, i, f2, n2, p2) ==
    /\ f2 = [f EXCEPT ![h] = IF i = 1 THEN e ELSE @]
    /\ n2 = [n EXCEPT ![e] = n[x], ![x] = e]
    /\ p2 = [p EXCEPT ![e] = x, ![n[x]] = e]

(* After x, at place a; before place i.                                    *)
LEMMA CircleIn ==
    ASSUME NEW p, Ring(Circles, first, next, p), LapIn(Circles, loop),
           loop' = loop, NEW h \in Heads, NEW e \in Nodes, Absent(Circles, e),
           NEW a \in DOMAIN Circles[h], NEW x, x = Circles[h][a],
           NEW i \in 1 .. Len(Circles[h]) + 1,
           i = a + 1 \/ (i = 1 /\ a = Len(Circles[h])),
           NEW p2, Spliced(first, next, p, h, e, x, i, first', next', p2)
    PROVE  /\ Circles' = Put(Circles, h, i, e)
           /\ Ring(Circles', first', next', p2) /\ LapIn(Circles', loop')
<1>1. Ring(Put(Circles, h, i, e), first', next', p2)
  BY RingIn DEF Spliced
<1>2. QED
  BY <1>1, CirclePut

LEMMA CircleOut ==
    ASSUME NEW p, Ring(Circles, first, next, p), LapIn(Circles, loop),
           NEW h \in Heads, NEW i \in DOMAIN Circles[h],
           NEW e, e = Circles[h][i], CircleLeft(e),
           NEW p2, Bypassed(first, next, p, h, e, first', next', p2)
    PROVE  /\ Circles' = Drop(Circles, h, i)
           /\ Ring(Circles', first', next', p2) /\ LapIn(Circles', loop')
<1>1. Ring(Drop(Circles, h, i), first', next', p2)
  BY RingOut
<1>2. QED
  BY <1>1, CircleDrop

LEMMA CircleOutLast ==
    ASSUME NEW p, Ring(Circles, first, next, p), LapIn(Circles, loop),
           NEW h \in Heads, NEW i \in DOMAIN Circles[h],
           NEW e, e = Circles[h][i], CircleLeft(e), next[e] = e,
           first' = [first EXCEPT ![h] = NIL],
           next' = [next EXCEPT ![e] = NIL],
           NEW p2, p2 = [p EXCEPT ![e] = NIL]
    PROVE  /\ Circles' = Drop(Circles, h, i)
           /\ Ring(Circles', first', next', p2) /\ LapIn(Circles', loop')
<1>1. Ring(Drop(Circles, h, i), first', next', p2)
  BY RingOutLast
<1>2. QED
  BY <1>1, CircleDrop

LEMMA CircleReset ==
    ASSUME NEW p, Ring(Circles, first, next, p), Idle, NEW h \in Heads,
           first' = [first EXCEPT ![h] = NIL], UNCHANGED next
    PROVE  /\ Circles' = [Circles EXCEPT ![h] = <<>>]
           /\ Ring(Circles', first', next', p) /\ LapIn(Circles', loop')
<1> DEFINE R == [Circles EXCEPT ![h] = <<>>]
<1>1. Emptied(Circles, R, h)
  BY DEF Ring, Queues, Emptied
<1> HIDE DEF R
<1>2. ChangedIn(Circles[h], next, next) /\ ChangedIn(Circles[h], p, p)
  BY DEF ChangedIn, Ring, RingNexts
<1>3. Ring(R, [first EXCEPT ![h] = NIL], next, p)
  BY <1>1, <1>2, RingEmpty
<1>4. Ring(R, first', next', p)
  BY <1>3
<1>5. QED
  BY <1>4, IdleCircle DEF R

(* A step of a safe iteration to the element n of its circle, from which   *)
(* link leads on.                                                          *)
LEMMA LapOnCircle ==
    ASSUME NEW Q, NEW f, NEW n, NEW p, Ring(Q, f, n, p),
           NEW h \in Heads, NEW x \in Range(Q[h]), NEW link \in {n, p}
    PROVE  x \in Nodes /\ link[x] \in Nodes /\ link[x] \in Range(Q[h])
<1>1. n[x] \in Range(Q[h]) /\ p[x] \in Range(Q[h]) /\ x \in Nodes
  BY RingRound
<1>2. \A y \in Range(Q[h]) : y \in Nodes
  BY DEF Ring, Queues, Range
<1>3. QED
  BY <1>1, <1>2

LEMMA FirstOnCircle ==
    ASSUME NEW Q, NEW f, NEW n, NEW p, Ring(Q, f, n, p),
           NEW h \in Heads, f[h] # NIL
    PROVE  f[h] \in Range(Q[h]) /\ p[f[h]] \in Range(Q[h])
<1>1. f[h] \in Range(Q[h])
  <2>1. 1 \in DOMAIN Q[h] /\ f[h] = Q[h][1]
    BY DEF Ring, Firsts, Item
  <2>2. QED
    BY <2>1 DEF Range
<1>2. QED
  BY <1>1, RingRound

(* Between the last element and the first.                                 *)
LEMMA CircleEndAt ==
    ASSUME NEW Q, NEW f, NEW n, NEW p, Ring(Q, f, n, p),
           NEW h \in Heads, f[h] # NIL
    PROVE  /\ Len(Q[h]) \in DOMAIN Q[h] /\ Len(Q[h]) \in Nat /\ Len(Q[h]) # 0
           /\ p[f[h]] = Q[h][Len(Q[h])] /\ n[p[f[h]]] = f[h]
           /\ 1 \in 1 .. Len(Q[h]) + 1 /\ Len(Q[h]) + 1 \in 1 .. Len(Q[h]) + 1
<1>1. 1 \in DOMAIN Q[h] /\ f[h] = Q[h][1]
  BY DEF Ring, Firsts, Item
<1>2. /\ Len(Q[h]) \in Nat \ {0} /\ DOMAIN Q[h] = 1 .. Len(Q[h])
      /\ p[f[h]] = Q[h][Len(Q[h])] /\ n[p[Q[h][1]]] = Q[h][1]
  BY <1>1, RingAt
<1>3. QED
  BY <1>1, <1>2

EndLinked(f, n, p, h, e, n2, p2) ==
    /\ n2 = [n EXCEPT ![e] = f[h], ![p[f[h]]] = e]
    /\ p2 = [p EXCEPT ![e] = p[f[h]], ![f[h]] = e]

LEMMA CircleEndIn ==
    ASSUME NEW p, Ring(Circles, first, next, p), LapIn(Circles, loop),
           loop' = loop, NEW h \in Heads, NEW e \in Nodes, Absent(Circles, e),
           first[h] # NIL, NEW p2, EndLinked(first, next, p, h, e, next', p2)
    PROVE  \A i \in {1, Len(Circles[h]) + 1} :
             first' = [first EXCEPT ![h] = IF i = 1 THEN e ELSE @] =>
                /\ Circles' = Put(Circles, h, i, e)
                /\ Ring(Circles', first', next', p2) /\ LapIn(Circles', loop')
<1> DEFINE a == Len(Circles[h])
           x == p[first[h]]
<1>1. /\ a \in DOMAIN Circles[h] /\ a \in Nat /\ a # 0
      /\ x = Circles[h][a] /\ next[x] = first[h]
      /\ 1 \in 1 .. a + 1 /\ a + 1 \in 1 .. a + 1
  BY CircleEndAt
<1>2. next' = [next EXCEPT ![e] = next[x], ![x] = e]
  BY <1>1 DEF EndLinked
<1>3. p2 = [p EXCEPT ![e] = x, ![next[x]] = e]
  BY <1>1 DEF EndLinked
<1> HIDE DEF x
<1>4. ASSUME NEW i \in {1, Len(Circles[h]) + 1},
             first' = [first EXCEPT ![h] = IF i = 1 THEN e ELSE @]
      PROVE  /\ Circles' = Put(Circles, h, i, e)
             /\ Ring(Circles', first', next', p2) /\ LapIn(Circles', loop')
  <2>1. i \in 1 .. Len(Circles[h]) + 1
    BY <1>1, <1>4
  <2>2. i = a + 1 \/ (i = 1 /\ a = Len(Circles[h]))
    BY <1>4
  <2>3. Spliced(first, next, p, h, e, x, i, first', next', p2)
    BY <1>2, <1>3, <1>4, Zenon DEF Spliced
  <2>4. QED
    BY <1>1, <2>1, <2>2, <2>3, CircleIn
<1>5. QED
  BY <1>4

LEMMA CircleAfterIn ==
    ASSUME NEW p, Ring(Circles, first, next, p), LapIn(Circles, loop),
           loop' = loop, NEW h \in Heads, NEW e \in Nodes, Absent(Circles, e),
           NEW j \in DOMAIN Circles[h], NEW l, l = Circles[h][j],
           UNCHANGED first,
           next' = [next EXCEPT ![e] = next[l], ![l] = e],
           NEW p2, p2 = [p EXCEPT ![e] = l, ![next[l]] = e]
    PROVE  /\ Circles' = Put(Circles, h, j + 1, e)
           /\ Ring(Circles', first', next', p2) /\ LapIn(Circles', loop')
<1>1. /\ j + 1 \in 1 .. Len(Circles[h]) + 1 /\ j + 1 # 1
      /\ first \in [Heads -> NodeOrNil]
  <2>1. Len(Circles[h]) \in Nat \ {0} /\ DOMAIN Circles[h] = 1 .. Len(Circles[h])
    BY RingAt
  <2>2. first \in [Heads -> NodeOrNil]
    BY DEF Ring, Firsts
  <2>3. QED
    BY <2>1, <2>2
<1>2. first' = [first EXCEPT ![h] = IF j + 1 = 1 THEN e ELSE @]
  BY <1>1
<1>3. Spliced(first, next, p, h, e, l, j + 1, first', next', p2)
  BY <1>2, Zenon DEF Spliced
<1>4. QED
  BY <1>1, <1>3, CircleIn

LEMMA CircleBeforeIn ==
    ASSUME NEW p, Ring(Circles, first, next, p), LapIn(Circles, loop),
           loop' = loop, NEW h \in Heads, NEW e \in Nodes, Absent(Circles, e),
           NEW j \in DOMAIN Circles[h], NEW l, l = Circles[h][j],
           first' = [first EXCEPT ![h] = IF @ = l THEN e ELSE @],
           next' = [next EXCEPT ![e] = l, ![p[l]] = e],
           NEW p2, p2 = [p EXCEPT ![e] = p[l], ![l] = e]
    PROVE  /\ Circles' = Put(Circles, h, j, e)
           /\ Ring(Circles', first', next', p2) /\ LapIn(Circles', loop')
<1> DEFINE x == p[l]
<1>1. /\ Len(Circles[h]) \in Nat \ {0} /\ DOMAIN Circles[h] = 1 .. Len(Circles[h])
      /\ first[h] = Circles[h][1] /\ next[x] = l
  BY RingAt
<1>2. /\ j \in 1 .. Len(Circles[h]) + 1 /\ 1 \in DOMAIN Circles[h]
      /\ first \in [Heads -> NodeOrNil]
  BY <1>1 DEF Ring, Firsts
<1>3. PICK a \in 1 .. Len(Circles[h]) :
         x = Circles[h][a] /\ (j = a + 1 \/ (j = 1 /\ a = Len(Circles[h])))
  BY ElementBefore
<1>4. first[h] = l <=> j = 1
  BY <1>1, <1>2 DEF Ring, Distinct
<1>5. first' = [first EXCEPT ![h] = IF j = 1 THEN e ELSE @]
  BY <1>2, <1>4
<1>6. /\ next' = [next EXCEPT ![e] = next[x], ![x] = e]
      /\ p2 = [p EXCEPT ![e] = x, ![next[x]] = e]
  BY <1>1
<1> HIDE DEF x
<1>7. a \in DOMAIN Circles[h]
  BY <1>1, <1>3
<1>8. Spliced(first, next, p, h, e, x, j, first', next', p2)
  BY <1>5, <1>6, Zenon DEF Spliced
<1>9. QED
  BY <1>2, <1>3, <1>7, <1>8, CircleIn

-----------------------------------------------------------------------------
(* The first state *)

LEMMA NoElements ==
    ASSUME first = [h \in Heads |-> NIL], next = [n \in Nodes |-> NIL],
           NEW p, p = [n \in Nodes |-> NIL], NEW l, l = [h \in Heads |-> NIL]
    PROVE  /\ Good(Lines, first, next) /\ Lasts(Lines, l) /\ Prevs(Lines, p)
           /\ Ring(Circles, first, next, p)
<1> DEFINE Q == [h \in Heads |-> <<>>]
<1>1. DOMAIN <<>> = {} /\ <<>> \in Seq(Nodes)
  OBVIOUS
<1>2. Q \in Queues /\ \A h \in Heads : Q[h] = <<>>
  BY <1>1 DEF Queues
<1> HIDE DEF Q
<1>3. Distinct(Q) /\ Firsts(Q, first)
  BY <1>1, <1>2 DEF Distinct, Firsts, Item, NodeOrNil
<1>4. Nexts(Q, next) /\ Prevs(Q, p) /\ RingNexts(Q, next)
  BY <1>1, <1>2 DEF Nexts, Prevs, RingNexts, NodeOrNil
<1>5. Lasts(Q, l)
  BY <1>1, <1>2 DEF Lasts, Item, NodeOrNil
<1>6. Elements(Q) = {}
  BY <1>1, <1>2 DEF Elements, Range
<1>7. Ring(Q, first, next, p)
  BY <1>2, <1>3, <1>4, <1>6 DEF Ring, Mirror, NodeOrNil
<1>8. Lines = Q /\ Circles = Q
  BY <1>2, <1>3, <1>4, LinesAre, CirclesAre DEF Lines, Circles
<1>9. QED
  BY <1>2, <1>3, <1>4, <1>5, <1>7, <1>8 DEF Good
-----------------------------------------------------------------------------
(* The names that each queue's module has for the same things *)

LEMMA SlistLinks ==
    /\ \A h : Slist!Line(h) = Line(h)
    /\ \A h, e : Slist!In(h, e) <=> In(h, e)
    /\ \A e : Slist!MayInsert(e) <=> MayInsert(e)
    /\ \A f, m, v : Slist!Write(f, m, v) = Write(f, m, v)
    /\ \A e : Slist!Unlinks(e) <=> Unlinks(e)
    /\ Slist!NoLoop = NoLoop
    /\ Slist!Idle <=> Idle
<1>1. \A h : Slist!Line(h) = Line(h)
  BY Zenon DEF Slist!Line, Line, Slist!Chain, Chain, Slist!Cardinality, Cardinality
<1>2. \A h, e : Slist!In(h, e) <=> In(h, e)
  BY <1>1, Zenon DEF Slist!In, In, Slist!Among, Among, Slist!Range, Range
<1>3. \A e : Slist!MayInsert(e) <=> MayInsert(e)
  BY <1>2, Zenon DEF Slist!MayInsert, MayInsert
<1>4. \A f, m, v : Slist!Write(f, m, v) = Write(f, m, v)
  BY Zenon DEF Slist!Write, Write
<1>5. \A e : Slist!Unlinks(e) <=> Unlinks(e)
  BY Zenon DEF Slist!Unlinks, Unlinks
<1>6. Slist!NoLoop = NoLoop /\ (Slist!Idle <=> Idle)
  BY Zenon DEF Slist!NoLoop, NoLoop, Slist!Idle, Idle
<1>7. QED
  BY <1>1, <1>2, <1>3, <1>4, <1>5, <1>6, Zenon

LEMMA SlistLoops ==
    /\ \A h : Slist!LoopBegin(h) <=> LoopBegin(h)
    /\ Slist!LoopNext <=> LoopNext
<1>1. ASSUME NEW h PROVE Slist!LoopBegin(h) <=> LoopBegin(h)
  <2>1. Slist!Range(Slist!Line(h)) = Range(Line(h))
    BY SlistLinks, Zenon DEF Slist!Range, Range
  <2>2. QED
    BY <2>1, SlistLinks, Zenon DEF Slist!LoopBegin, LoopBegin
<1>2. Slist!LoopNext <=> LoopNext
  BY SlistLinks, Zenon DEF Slist!LoopNext, LoopNext
<1>3. QED
  BY <1>1, <1>2, Zenon

LEMMA SlistSeqs ==
    /\ \A h, e :
         Absent(Lines, e) /\ Lines' = Put(Lines, h, 1, e)
         => Slist!S!InsertHead(h, e)
    /\ \A h, e, l : \A i \in DOMAIN Lines[h] :
         Absent(Lines, e) /\ Lines[h][i] = l /\ Lines' = Put(Lines, h, i + 1, e)
         => Slist!S!InsertAfter(h, l, e)
    /\ \A h :
         Lines' = Cut(Lines, h, 1)
         => Slist!S!RemoveHead(h)
    /\ \A h, l : \A i \in DOMAIN Lines[h] :
         Lines[h][i] = l /\ Lines' = Cut(Lines, h, i + 1)
         => Slist!S!RemoveAfter(h, l)
    /\ \A h, l : \A i \in DOMAIN Lines[h] :
         Lines[h][i] = l /\ Lines' = Cut(Lines, h, i)
         => Slist!S!Remove(h, l)
    /\ \A h, l :
         (\A i \in DOMAIN Lines[h] : Lines[h][i] # l) /\ Lines' = Lines
         => Slist!S!Remove(h, l)
    /\ \A h :
         Lines' = [Lines EXCEPT ![h] = <<>>]
         => Slist!S!Reset(h)
<1>1. [h \in Heads |-> Slist!Line(h)] = Lines
  BY SlistLinks, Zenon DEF Line, Lines, LinesOf
<1>2. [h \in Heads |-> Slist!Line(h)]' = Lines'
  BY Zenon DEF Slist!Line, Slist!Chain, Chain, Slist!Cardinality, Cardinality, Lines, LinesOf
<1>3. \A e : Slist!S!Free(e) <=> Absent(Lines, e)
  BY <1>1, Zenon DEF Slist!S!Free, Slist!S!At, Absent
<1>4. \A h, i, e : Slist!S!Place(h, i, e) <=>
         Absent(Lines, e) /\ Lines' = Put(Lines, h, i, e)
  BY <1>1, <1>2, <1>3, Zenon DEF Slist!S!Place, Put, Inserted
<1>5. \A h, i : Slist!S!RemoveIndex(h, i) <=> Lines' = Cut(Lines, h, i)
  BY <1>1, <1>2, Zenon DEF Slist!S!RemoveIndex, Removed, Cut
<1>6. \A h, l : Slist!S!At(h, l) = {i \in DOMAIN Lines[h] : Lines[h][i] = l}
  BY <1>1, Zenon DEF Slist!S!At
<1>7. ASSUME NEW h, NEW e, Absent(Lines, e), Lines' = Put(Lines, h, 1, e)
      PROVE  Slist!S!InsertHead(h, e)
  BY <1>4, <1>7, Zenon DEF Slist!S!InsertHead
<1>8. ASSUME NEW h, NEW e, NEW l, Absent(Lines, e),
             NEW i \in DOMAIN Lines[h], Lines[h][i] = l,
             Lines' = Put(Lines, h, i + 1, e)
      PROVE  Slist!S!InsertAfter(h, l, e)
  BY <1>4, <1>6, <1>8, Zenon DEF Slist!S!InsertAfter
<1>9. ASSUME NEW h, Lines' = Cut(Lines, h, 1)
      PROVE  Slist!S!RemoveHead(h)
  BY <1>5, <1>9, Zenon DEF Slist!S!RemoveHead
<1>10. ASSUME NEW h, NEW l, NEW i \in DOMAIN Lines[h], Lines[h][i] = l,
             Lines' = Cut(Lines, h, i + 1)
      PROVE  Slist!S!RemoveAfter(h, l)
  BY <1>5, <1>6, <1>10, Zenon DEF Slist!S!RemoveAfter
<1>11. ASSUME NEW h, NEW l, NEW i \in DOMAIN Lines[h], Lines[h][i] = l,
             Lines' = Cut(Lines, h, i)
      PROVE  Slist!S!Remove(h, l)
  BY <1>5, <1>6, <1>11, Zenon DEF Slist!S!Remove
<1>12. ASSUME NEW h, NEW l, \A i \in DOMAIN Lines[h] : Lines[h][i] # l,
             Lines' = Lines
      PROVE  Slist!S!Remove(h, l)
  BY <1>1, <1>2, <1>5, <1>6, <1>12, Zenon DEF Slist!S!Remove
<1>13. ASSUME NEW h, Lines' = [Lines EXCEPT ![h] = <<>>]
      PROVE  Slist!S!Reset(h)
  BY <1>1, <1>2, <1>13, Zenon DEF Slist!S!Reset
<1>14. QED
  BY <1>7, <1>8, <1>9, <1>10, <1>11, <1>12, <1>13, Zenon

LEMMA StailqLinks ==
    /\ \A h : Stailq!Line(h) = Line(h)
    /\ \A h, e : Stailq!In(h, e) <=> In(h, e)
    /\ \A e : Stailq!MayInsert(e) <=> MayInsert(e)
    /\ \A f, m, v : Stailq!Write(f, m, v) = Write(f, m, v)
    /\ \A e : Stailq!Unlinks(e) <=> Unlinks(e)
    /\ Stailq!NoLoop = NoLoop
    /\ Stailq!Idle <=> Idle
<1>1. \A h : Stailq!Line(h) = Line(h)
  BY Zenon DEF Stailq!Line, Line, Stailq!Chain, Chain, Stailq!Cardinality, Cardinality
<1>2. \A h, e : Stailq!In(h, e) <=> In(h, e)
  BY <1>1, Zenon DEF Stailq!In, In, Stailq!Among, Among, Stailq!Range, Range
<1>3. \A e : Stailq!MayInsert(e) <=> MayInsert(e)
  BY <1>2, Zenon DEF Stailq!MayInsert, MayInsert
<1>4. \A f, m, v : Stailq!Write(f, m, v) = Write(f, m, v)
  BY Zenon DEF Stailq!Write, Write
<1>5. \A e : Stailq!Unlinks(e) <=> Unlinks(e)
  BY Zenon DEF Stailq!Unlinks, Unlinks
<1>6. Stailq!NoLoop = NoLoop /\ (Stailq!Idle <=> Idle)
  BY Zenon DEF Stailq!NoLoop, NoLoop, Stailq!Idle, Idle
<1>7. QED
  BY <1>1, <1>2, <1>3, <1>4, <1>5, <1>6, Zenon

LEMMA StailqLoops ==
    /\ \A h : Stailq!LoopBegin(h) <=> LoopBegin(h)
    /\ Stailq!LoopNext <=> LoopNext
<1>1. ASSUME NEW h PROVE Stailq!LoopBegin(h) <=> LoopBegin(h)
  <2>1. Stailq!Range(Stailq!Line(h)) = Range(Line(h))
    BY StailqLinks, Zenon DEF Stailq!Range, Range
  <2>2. QED
    BY <2>1, StailqLinks, Zenon DEF Stailq!LoopBegin, LoopBegin
<1>2. Stailq!LoopNext <=> LoopNext
  BY StailqLinks, Zenon DEF Stailq!LoopNext, LoopNext
<1>3. QED
  BY <1>1, <1>2, Zenon

LEMMA StailqSeqs ==
    /\ \A h, e :
         Absent(Lines, e) /\ Lines' = Put(Lines, h, 1, e)
         => Stailq!S!InsertHead(h, e)
    /\ \A h, e :
         Absent(Lines, e) /\ Lines' = Put(Lines, h, Len(Lines[h]) + 1, e)
         => Stailq!S!InsertTail(h, e)
    /\ \A h, e, l : \A i \in DOMAIN Lines[h] :
         Absent(Lines, e) /\ Lines[h][i] = l /\ Lines' = Put(Lines, h, i + 1, e)
         => Stailq!S!InsertAfter(h, l, e)
    /\ \A h :
         Lines' = Cut(Lines, h, 1)
         => Stailq!S!RemoveHead(h)
    /\ \A h, l : \A i \in DOMAIN Lines[h] :
         Lines[h][i] = l /\ Lines' = Cut(Lines, h, i + 1)
         => Stailq!S!RemoveAfter(h, l)
    /\ \A h, l : \A i \in DOMAIN Lines[h] :
         Lines[h][i] = l /\ Lines' = Cut(Lines, h, i)
         => Stailq!S!Remove(h, l)
    /\ \A h, l :
         (\A i \in DOMAIN Lines[h] : Lines[h][i] # l) /\ Lines' = Lines
         => Stailq!S!Remove(h, l)
    /\ \A h, l : \A i \in DOMAIN Lines[h] :
         Lines[h][i] = l /\ Lines' = Beheaded(Lines, h, i)
         => Stailq!S!RemoveHeadUntil(h, l)
    /\ \A h :
         Lines' = [Lines EXCEPT ![h] = <<>>]
         => Stailq!S!Reset(h)
    /\ \A g, h :
         Lines' = Joined(Lines, g, h)
         => Stailq!S!Concat(g, h)
    /\ \A g, h :
         Lines' = Swapped(Lines, g, h)
         => Stailq!S!Swap(g, h)
<1>1. [h \in Heads |-> Stailq!Line(h)] = Lines
  BY StailqLinks, Zenon DEF Line, Lines, LinesOf
<1>2. [h \in Heads |-> Stailq!Line(h)]' = Lines'
  BY Zenon DEF Stailq!Line, Stailq!Chain, Chain, Stailq!Cardinality, Cardinality, Lines, LinesOf
<1>3. \A e : Stailq!S!Free(e) <=> Absent(Lines, e)
  BY <1>1, Zenon DEF Stailq!S!Free, Stailq!S!At, Absent
<1>4. \A h, i, e : Stailq!S!Place(h, i, e) <=>
         Absent(Lines, e) /\ Lines' = Put(Lines, h, i, e)
  BY <1>1, <1>2, <1>3, Zenon DEF Stailq!S!Place, Put, Inserted
<1>5. \A h, i : Stailq!S!RemoveIndex(h, i) <=> Lines' = Cut(Lines, h, i)
  BY <1>1, <1>2, Zenon DEF Stailq!S!RemoveIndex, Removed, Cut
<1>6. \A h, l : Stailq!S!At(h, l) = {i \in DOMAIN Lines[h] : Lines[h][i] = l}
  BY <1>1, Zenon DEF Stailq!S!At
<1>7. ASSUME NEW h, NEW e, Absent(Lines, e), Lines' = Put(Lines, h, 1, e)
      PROVE  Stailq!S!InsertHead(h, e)
  BY <1>4, <1>7, Zenon DEF Stailq!S!InsertHead
<1>8. ASSUME NEW h, NEW e, Absent(Lines, e),
             Lines' = Put(Lines, h, Len(Lines[h]) + 1, e)
      PROVE  Stailq!S!InsertTail(h, e)
  BY <1>1, <1>2, <1>4, <1>8, Zenon DEF Stailq!S!InsertTail
<1>9. ASSUME NEW h, NEW e, NEW l, Absent(Lines, e),
             NEW i \in DOMAIN Lines[h], Lines[h][i] = l,
             Lines' = Put(Lines, h, i + 1, e)
      PROVE  Stailq!S!InsertAfter(h, l, e)
  BY <1>4, <1>6, <1>9, Zenon DEF Stailq!S!InsertAfter
<1>10. ASSUME NEW h, Lines' = Cut(Lines, h, 1)
      PROVE  Stailq!S!RemoveHead(h)
  BY <1>5, <1>10, Zenon DEF Stailq!S!RemoveHead
<1>11. ASSUME NEW h, NEW l, NEW i \in DOMAIN Lines[h], Lines[h][i] = l,
             Lines' = Cut(Lines, h, i + 1)
      PROVE  Stailq!S!RemoveAfter(h, l)
  BY <1>5, <1>6, <1>11, Zenon DEF Stailq!S!RemoveAfter
<1>12. ASSUME NEW h, NEW l, NEW i \in DOMAIN Lines[h], Lines[h][i] = l,
             Lines' = Cut(Lines, h, i)
      PROVE  Stailq!S!Remove(h, l)
  BY <1>5, <1>6, <1>12, Zenon DEF Stailq!S!Remove
<1>13. ASSUME NEW h, NEW l, \A i \in DOMAIN Lines[h] : Lines[h][i] # l,
             Lines' = Lines
      PROVE  Stailq!S!Remove(h, l)
  BY <1>1, <1>2, <1>5, <1>6, <1>13, Zenon DEF Stailq!S!Remove
<1>14. ASSUME NEW h, NEW l, NEW i \in DOMAIN Lines[h], Lines[h][i] = l,
             Lines' = Beheaded(Lines, h, i)
      PROVE  Stailq!S!RemoveHeadUntil(h, l)
  BY <1>1, <1>2, <1>6, <1>14, Zenon DEF Stailq!S!RemoveHeadUntil, Beheaded
<1>15. ASSUME NEW h, Lines' = [Lines EXCEPT ![h] = <<>>]
      PROVE  Stailq!S!Reset(h)
  BY <1>1, <1>2, <1>15, Zenon DEF Stailq!S!Reset
<1>16. ASSUME NEW g, NEW h, Lines' = Joined(Lines, g, h)
      PROVE  Stailq!S!Concat(g, h)
  BY <1>1, <1>2, <1>16, Zenon DEF Stailq!S!Concat, Joined
<1>17. ASSUME NEW g, NEW h, Lines' = Swapped(Lines, g, h)
      PROVE  Stailq!S!Swap(g, h)
  BY <1>1, <1>2, <1>17, Zenon DEF Stailq!S!Swap, Swapped
<1>18. QED
  BY <1>7, <1>8, <1>9, <1>10, <1>11, <1>12, <1>13, <1>14, <1>15, <1>16, <1>17, Zenon

LEMMA ListLinks ==
    /\ \A h : List!Line(h) = Line(h)
    /\ \A h, e : List!In(h, e) <=> In(h, e)
    /\ \A e : List!MayInsert(e) <=> MayInsert(e)
    /\ \A f, m, v : List!Write(f, m, v) = Write(f, m, v)
    /\ \A e : List!Unlinks(e) <=> Unlinks(e)
    /\ List!NoLoop = NoLoop
    /\ List!Idle <=> Idle
<1>1. \A h : List!Line(h) = Line(h)
  BY Zenon DEF List!Line, Line, List!Chain, Chain, List!Cardinality, Cardinality
<1>2. \A h, e : List!In(h, e) <=> In(h, e)
  BY <1>1, Zenon DEF List!In, In, List!Among, Among, List!Range, Range
<1>3. \A e : List!MayInsert(e) <=> MayInsert(e)
  BY <1>2, Zenon DEF List!MayInsert, MayInsert
<1>4. \A f, m, v : List!Write(f, m, v) = Write(f, m, v)
  BY Zenon DEF List!Write, Write
<1>5. \A e : List!Unlinks(e) <=> Unlinks(e)
  BY Zenon DEF List!Unlinks, Unlinks
<1>6. List!NoLoop = NoLoop /\ (List!Idle <=> Idle)
  BY Zenon DEF List!NoLoop, NoLoop, List!Idle, Idle
<1>7. QED
  BY <1>1, <1>2, <1>3, <1>4, <1>5, <1>6, Zenon

LEMMA ListLoops ==
    /\ \A h : List!LoopBegin(h) <=> LoopBegin(h)
    /\ List!LoopNext <=> LoopNext
<1>1. ASSUME NEW h PROVE List!LoopBegin(h) <=> LoopBegin(h)
  <2>1. List!Range(List!Line(h)) = Range(Line(h))
    BY ListLinks, Zenon DEF List!Range, Range
  <2>2. QED
    BY <2>1, ListLinks, Zenon DEF List!LoopBegin, LoopBegin
<1>2. List!LoopNext <=> LoopNext
  BY ListLinks, Zenon DEF List!LoopNext, LoopNext
<1>3. QED
  BY <1>1, <1>2, Zenon

LEMMA ListSeqs ==
    /\ \A h, e :
         Absent(Lines, e) /\ Lines' = Put(Lines, h, 1, e)
         => List!S!InsertHead(h, e)
    /\ \A h, e, l : \A i \in DOMAIN Lines[h] :
         Absent(Lines, e) /\ Lines[h][i] = l /\ Lines' = Put(Lines, h, i + 1, e)
         => List!S!InsertAfter(h, l, e)
    /\ \A h, e, l : \A i \in DOMAIN Lines[h] :
         Absent(Lines, e) /\ Lines[h][i] = l /\ Lines' = Put(Lines, h, i, e)
         => List!S!InsertBefore(h, l, e)
    /\ \A h, l : \A i \in DOMAIN Lines[h] :
         Lines[h][i] = l /\ Lines' = Cut(Lines, h, i)
         => List!S!Remove(h, l)
    /\ \A h :
         Lines' = [Lines EXCEPT ![h] = <<>>]
         => List!S!Reset(h)
    /\ \A g, h :
         Lines' = Swapped(Lines, g, h)
         => List!S!Swap(g, h)
<1>1. [h \in Heads |-> List!Line(h)] = Lines
  BY ListLinks, Zenon DEF Line, Lines, LinesOf
<1>2. [h \in Heads |-> List!Line(h)]' = Lines'
  BY Zenon DEF List!Line, List!Chain, Chain, List!Cardinality, Cardinality, Lines, LinesOf
<1>3. \A e : List!S!Free(e) <=> Absent(Lines, e)
  BY <1>1, Zenon DEF List!S!Free, List!S!At, Absent
<1>4. \A h, i, e : List!S!Place(h, i, e) <=>
         Absent(Lines, e) /\ Lines' = Put(Lines, h, i, e)
  BY <1>1, <1>2, <1>3, Zenon DEF List!S!Place, Put, Inserted
<1>5. \A h, i : List!S!RemoveIndex(h, i) <=> Lines' = Cut(Lines, h, i)
  BY <1>1, <1>2, Zenon DEF List!S!RemoveIndex, Removed, Cut
<1>6. \A h, l : List!S!At(h, l) = {i \in DOMAIN Lines[h] : Lines[h][i] = l}
  BY <1>1, Zenon DEF List!S!At
<1>7. ASSUME NEW h, NEW e, Absent(Lines, e), Lines' = Put(Lines, h, 1, e)
      PROVE  List!S!InsertHead(h, e)
  BY <1>4, <1>7, Zenon DEF List!S!InsertHead
<1>8. ASSUME NEW h, NEW e, NEW l, Absent(Lines, e),
             NEW i \in DOMAIN Lines[h], Lines[h][i] = l,
             Lines' = Put(Lines, h, i + 1, e)
      PROVE  List!S!InsertAfter(h, l, e)
  BY <1>4, <1>6, <1>8, Zenon DEF List!S!InsertAfter
<1>9. ASSUME NEW h, NEW e, NEW l, Absent(Lines, e),
             NEW i \in DOMAIN Lines[h], Lines[h][i] = l,
             Lines' = Put(Lines, h, i, e)
      PROVE  List!S!InsertBefore(h, l, e)
  BY <1>4, <1>6, <1>9, Zenon DEF List!S!InsertBefore
<1>10. ASSUME NEW h, NEW l, NEW i \in DOMAIN Lines[h], Lines[h][i] = l,
             Lines' = Cut(Lines, h, i)
      PROVE  List!S!Remove(h, l)
  BY <1>5, <1>6, <1>10, Zenon DEF List!S!Remove
<1>11. ASSUME NEW h, Lines' = [Lines EXCEPT ![h] = <<>>]
      PROVE  List!S!Reset(h)
  BY <1>1, <1>2, <1>11, Zenon DEF List!S!Reset
<1>12. ASSUME NEW g, NEW h, Lines' = Swapped(Lines, g, h)
      PROVE  List!S!Swap(g, h)
  BY <1>1, <1>2, <1>12, Zenon DEF List!S!Swap, Swapped
<1>13. QED
  BY <1>7, <1>8, <1>9, <1>10, <1>11, <1>12, Zenon

LEMMA TailqLinks ==
    /\ \A h : Tailq!Line(h) = Line(h)
    /\ \A h, e : Tailq!In(h, e) <=> In(h, e)
    /\ \A e : Tailq!MayInsert(e) <=> MayInsert(e)
    /\ \A f, m, v : Tailq!Write(f, m, v) = Write(f, m, v)
    /\ \A e : Tailq!Unlinks(e) <=> Unlinks(e)
    /\ Tailq!NoLoop = NoLoop
    /\ Tailq!Idle <=> Idle
<1>1. \A h : Tailq!Line(h) = Line(h)
  BY Zenon DEF Tailq!Line, Line, Tailq!Chain, Chain, Tailq!Cardinality, Cardinality
<1>2. \A h, e : Tailq!In(h, e) <=> In(h, e)
  BY <1>1, Zenon DEF Tailq!In, In, Tailq!Among, Among, Tailq!Range, Range
<1>3. \A e : Tailq!MayInsert(e) <=> MayInsert(e)
  BY <1>2, Zenon DEF Tailq!MayInsert, MayInsert
<1>4. \A f, m, v : Tailq!Write(f, m, v) = Write(f, m, v)
  BY Zenon DEF Tailq!Write, Write
<1>5. \A e : Tailq!Unlinks(e) <=> Unlinks(e)
  BY Zenon DEF Tailq!Unlinks, Unlinks
<1>6. Tailq!NoLoop = NoLoop /\ (Tailq!Idle <=> Idle)
  BY Zenon DEF Tailq!NoLoop, NoLoop, Tailq!Idle, Idle
<1>7. QED
  BY <1>1, <1>2, <1>3, <1>4, <1>5, <1>6, Zenon

LEMMA TailqLoops ==
    /\ \A h : Tailq!LoopBegin(h) <=> LoopBegin(h)
    /\ Tailq!LoopNext <=> LoopNext
<1>1. ASSUME NEW h PROVE Tailq!LoopBegin(h) <=> LoopBegin(h)
  <2>1. Tailq!Range(Tailq!Line(h)) = Range(Line(h))
    BY TailqLinks, Zenon DEF Tailq!Range, Range
  <2>2. QED
    BY <2>1, TailqLinks, Zenon DEF Tailq!LoopBegin, LoopBegin
<1>2. Tailq!LoopNext <=> LoopNext
  BY TailqLinks, Zenon DEF Tailq!LoopNext, LoopNext
<1>3. QED
  BY <1>1, <1>2, Zenon

LEMMA TailqSeqs ==
    /\ \A h, e :
         Absent(Lines, e) /\ Lines' = Put(Lines, h, 1, e)
         => Tailq!S!InsertHead(h, e)
    /\ \A h, e :
         Absent(Lines, e) /\ Lines' = Put(Lines, h, Len(Lines[h]) + 1, e)
         => Tailq!S!InsertTail(h, e)
    /\ \A h, e, l : \A i \in DOMAIN Lines[h] :
         Absent(Lines, e) /\ Lines[h][i] = l /\ Lines' = Put(Lines, h, i + 1, e)
         => Tailq!S!InsertAfter(h, l, e)
    /\ \A h, e, l : \A i \in DOMAIN Lines[h] :
         Absent(Lines, e) /\ Lines[h][i] = l /\ Lines' = Put(Lines, h, i, e)
         => Tailq!S!InsertBefore(h, l, e)
    /\ \A h, l : \A i \in DOMAIN Lines[h] :
         Lines[h][i] = l /\ Lines' = Cut(Lines, h, i)
         => Tailq!S!Remove(h, l)
    /\ \A h :
         Lines' = [Lines EXCEPT ![h] = <<>>]
         => Tailq!S!Reset(h)
    /\ \A g, h :
         Lines' = Joined(Lines, g, h)
         => Tailq!S!Concat(g, h)
    /\ \A g, h :
         Lines' = Swapped(Lines, g, h)
         => Tailq!S!Swap(g, h)
<1>1. [h \in Heads |-> Tailq!Line(h)] = Lines
  BY TailqLinks, Zenon DEF Line, Lines, LinesOf
<1>2. [h \in Heads |-> Tailq!Line(h)]' = Lines'
  BY Zenon DEF Tailq!Line, Tailq!Chain, Chain, Tailq!Cardinality, Cardinality, Lines, LinesOf
<1>3. \A e : Tailq!S!Free(e) <=> Absent(Lines, e)
  BY <1>1, Zenon DEF Tailq!S!Free, Tailq!S!At, Absent
<1>4. \A h, i, e : Tailq!S!Place(h, i, e) <=>
         Absent(Lines, e) /\ Lines' = Put(Lines, h, i, e)
  BY <1>1, <1>2, <1>3, Zenon DEF Tailq!S!Place, Put, Inserted
<1>5. \A h, i : Tailq!S!RemoveIndex(h, i) <=> Lines' = Cut(Lines, h, i)
  BY <1>1, <1>2, Zenon DEF Tailq!S!RemoveIndex, Removed, Cut
<1>6. \A h, l : Tailq!S!At(h, l) = {i \in DOMAIN Lines[h] : Lines[h][i] = l}
  BY <1>1, Zenon DEF Tailq!S!At
<1>7. ASSUME NEW h, NEW e, Absent(Lines, e), Lines' = Put(Lines, h, 1, e)
      PROVE  Tailq!S!InsertHead(h, e)
  BY <1>4, <1>7, Zenon DEF Tailq!S!InsertHead
<1>8. ASSUME NEW h, NEW e, Absent(Lines, e),
             Lines' = Put(Lines, h, Len(Lines[h]) + 1, e)
      PROVE  Tailq!S!InsertTail(h, e)
  BY <1>1, <1>2, <1>4, <1>8, Zenon DEF Tailq!S!InsertTail
<1>9. ASSUME NEW h, NEW e, NEW l, Absent(Lines, e),
             NEW i \in DOMAIN Lines[h], Lines[h][i] = l,
             Lines' = Put(Lines, h, i + 1, e)
      PROVE  Tailq!S!InsertAfter(h, l, e)
  BY <1>4, <1>6, <1>9, Zenon DEF Tailq!S!InsertAfter
<1>10. ASSUME NEW h, NEW e, NEW l, Absent(Lines, e),
             NEW i \in DOMAIN Lines[h], Lines[h][i] = l,
             Lines' = Put(Lines, h, i, e)
      PROVE  Tailq!S!InsertBefore(h, l, e)
  BY <1>4, <1>6, <1>10, Zenon DEF Tailq!S!InsertBefore
<1>11. ASSUME NEW h, NEW l, NEW i \in DOMAIN Lines[h], Lines[h][i] = l,
             Lines' = Cut(Lines, h, i)
      PROVE  Tailq!S!Remove(h, l)
  BY <1>5, <1>6, <1>11, Zenon DEF Tailq!S!Remove
<1>12. ASSUME NEW h, Lines' = [Lines EXCEPT ![h] = <<>>]
      PROVE  Tailq!S!Reset(h)
  BY <1>1, <1>2, <1>12, Zenon DEF Tailq!S!Reset
<1>13. ASSUME NEW g, NEW h, Lines' = Joined(Lines, g, h)
      PROVE  Tailq!S!Concat(g, h)
  BY <1>1, <1>2, <1>13, Zenon DEF Tailq!S!Concat, Joined
<1>14. ASSUME NEW g, NEW h, Lines' = Swapped(Lines, g, h)
      PROVE  Tailq!S!Swap(g, h)
  BY <1>1, <1>2, <1>14, Zenon DEF Tailq!S!Swap, Swapped
<1>15. QED
  BY <1>7, <1>8, <1>9, <1>10, <1>11, <1>12, <1>13, <1>14, Zenon

LEMMA StailqLLinks ==
    /\ \A h : Stailq!L!Line(h) = Line(h)
    /\ \A h, e : Stailq!L!In(h, e) <=> In(h, e)
    /\ \A e : Stailq!L!MayInsert(e) <=> MayInsert(e)
    /\ \A f, m, v : Stailq!L!Write(f, m, v) = Write(f, m, v)
    /\ \A e : Stailq!L!Unlinks(e) <=> Unlinks(e)
    /\ Stailq!L!NoLoop = NoLoop
    /\ Stailq!L!Idle <=> Idle
<1>1. \A h : Stailq!L!Line(h) = Line(h)
  BY Zenon DEF Stailq!L!Line, Line, Stailq!L!Chain, Chain, Stailq!L!Cardinality, Cardinality
<1>2. \A h, e : Stailq!L!In(h, e) <=> In(h, e)
  BY <1>1, Zenon DEF Stailq!L!In, In, Stailq!L!Among, Among, Stailq!L!Range, Range
<1>3. \A e : Stailq!L!MayInsert(e) <=> MayInsert(e)
  BY <1>2, Zenon DEF Stailq!L!MayInsert, MayInsert
<1>4. \A f, m, v : Stailq!L!Write(f, m, v) = Write(f, m, v)
  BY Zenon DEF Stailq!L!Write, Write
<1>5. \A e : Stailq!L!Unlinks(e) <=> Unlinks(e)
  BY Zenon DEF Stailq!L!Unlinks, Unlinks
<1>6. Stailq!L!NoLoop = NoLoop /\ (Stailq!L!Idle <=> Idle)
  BY Zenon DEF Stailq!L!NoLoop, NoLoop, Stailq!L!Idle, Idle
<1>7. QED
  BY <1>1, <1>2, <1>3, <1>4, <1>5, <1>6, Zenon

LEMMA TailqLLinks ==
    /\ \A h : Tailq!L!Line(h) = Line(h)
    /\ \A h, e : Tailq!L!In(h, e) <=> In(h, e)
    /\ \A e : Tailq!L!MayInsert(e) <=> MayInsert(e)
    /\ \A f, m, v : Tailq!L!Write(f, m, v) = Write(f, m, v)
    /\ \A e : Tailq!L!Unlinks(e) <=> Unlinks(e)
    /\ Tailq!L!NoLoop = NoLoop
    /\ Tailq!L!Idle <=> Idle
<1>1. \A h : Tailq!L!Line(h) = Line(h)
  BY Zenon DEF Tailq!L!Line, Line, Tailq!L!Chain, Chain, Tailq!L!Cardinality, Cardinality
<1>2. \A h, e : Tailq!L!In(h, e) <=> In(h, e)
  BY <1>1, Zenon DEF Tailq!L!In, In, Tailq!L!Among, Among, Tailq!L!Range, Range
<1>3. \A e : Tailq!L!MayInsert(e) <=> MayInsert(e)
  BY <1>2, Zenon DEF Tailq!L!MayInsert, MayInsert
<1>4. \A f, m, v : Tailq!L!Write(f, m, v) = Write(f, m, v)
  BY Zenon DEF Tailq!L!Write, Write
<1>5. \A e : Tailq!L!Unlinks(e) <=> Unlinks(e)
  BY Zenon DEF Tailq!L!Unlinks, Unlinks
<1>6. Tailq!L!NoLoop = NoLoop /\ (Tailq!L!Idle <=> Idle)
  BY Zenon DEF Tailq!L!NoLoop, NoLoop, Tailq!L!Idle, Idle
<1>7. QED
  BY <1>1, <1>2, <1>3, <1>4, <1>5, <1>6, Zenon


LEMMA LineStays ==
    ASSUME LineInv, UNCHANGED <<first, next, loop>>
    PROVE  LineInv' /\ Lines' = Lines
BY DEF LineInv, Lines

LEMMA InAt ==
    ASSUME NEW h \in Heads, NEW e, In(h, e)
    PROVE  \E i \in DOMAIN Lines[h] : Lines[h][i] = e
BY LineAt

-----------------------------------------------------------------------------
(* RIX_SLIST *)

LEMMA SlistInsertHead ==
    ASSUME LineInv, NEW h \in Heads, NEW e \in Nodes, Slist!InsertHead(h, e)
    PROVE  LineInv' /\ Slist!S!InsertHead(h, e)
<1>1. /\ MayInsert(e) /\ next' = [next EXCEPT ![e] = first[h]]
      /\ first' = [first EXCEPT ![h] = e]
  BY SlistLinks, Zenon DEF Slist!InsertHead
<1>2. LineInv' /\ Absent(Lines, e) /\ Lines' = Put(Lines, h, 1, e)
  BY <1>1, HeadIn, Zenon
<1>3. QED
  BY <1>2, SlistSeqs, Zenon

LEMMA SlistInsertAfter ==
    ASSUME LineInv, NEW h \in Heads, NEW l \in Nodes, NEW e \in Nodes,
           Slist!InsertAfter(h, l, e)
    PROVE  LineInv' /\ Slist!S!InsertAfter(h, l, e)
<1>1. /\ MayInsert(e) /\ In(h, l)
      /\ next' = [next EXCEPT ![e] = next[l], ![l] = e] /\ UNCHANGED first
  BY SlistLinks, Zenon DEF Slist!InsertAfter
<1>2. PICK i \in DOMAIN Lines[h] : Lines[h][i] = l
  BY <1>1, InAt
<1>3. LineInv' /\ Absent(Lines, e) /\ Lines' = Put(Lines, h, i + 1, e)
  BY <1>1, <1>2, AfterIn, Zenon
<1>4. QED
  BY <1>2, <1>3, SlistSeqs, Zenon

LEMMA SlistRemoveHead ==
    ASSUME LineInv, NEW h \in Heads, Slist!RemoveHead(h)
    PROVE  /\ LineInv' /\ Slist!S!RemoveHead(h) /\ Lines' = Cut(Lines, h, 1)
           /\ first[h] # NIL => 1 \in DOMAIN Lines[h] /\ Lines[h][1] = first[h]
<1>1. /\ Unlinks(first[h])
      /\ first' = [first EXCEPT ![h] = IF @ = NIL THEN @ ELSE next[@]]
      /\ UNCHANGED next
  BY SlistLinks, Zenon DEF Slist!RemoveHead
<1>2. /\ LineInv' /\ Lines' = Cut(Lines, h, 1)
      /\ first[h] # NIL => 1 \in DOMAIN Lines[h] /\ Lines[h][1] = first[h]
  BY <1>1, HeadOut, Zenon
<1>3. QED
  BY <1>2, SlistSeqs, Zenon

LEMMA SlistRemoveAfter ==
    ASSUME LineInv, NEW h \in Heads, NEW l \in Nodes, Slist!RemoveAfter(h, l)
    PROVE  /\ LineInv' /\ Slist!S!RemoveAfter(h, l)
           /\ next[l] # NIL =>
                 \E i \in DOMAIN Lines[h] :
                    Lines[h][i] = next[l] /\ Lines' = Cut(Lines, h, i)
<1>1. /\ In(h, l) /\ Unlinks(next[l])
      /\ next' = [next EXCEPT ![l] = IF @ = NIL THEN @ ELSE next[@]]
      /\ UNCHANGED first
  BY SlistLinks, Zenon DEF Slist!RemoveAfter
<1>2. PICK i \in DOMAIN Lines[h] : Lines[h][i] = l
  BY <1>1, InAt
<1>3. /\ LineInv' /\ Lines' = Cut(Lines, h, i + 1)
      /\ next[l] # NIL => i + 1 \in DOMAIN Lines[h] /\ Lines[h][i + 1] = next[l]
  <2>1. AfterIsOut(h, i, l, last, last')
    BY <1>1, <1>2, AfterOut
  <2>2. QED
    BY <2>1, Zenon DEF AfterIsOut
<1>4. QED
  BY <1>2, <1>3, SlistSeqs, Zenon

LEMMA SlistRemove ==
    ASSUME LineInv, NEW h \in Heads, NEW e \in Nodes, Slist!Remove(h, e)
    PROVE  LineInv' /\ Slist!S!Remove(h, e)
<1>1. CASE first[h] = e /\ Slist!RemoveHead(h)
  <2>1. e # NIL
    BY NilNotNode
  <2>2. /\ LineInv' /\ Lines' = Cut(Lines, h, 1)
        /\ 1 \in DOMAIN Lines[h] /\ Lines[h][1] = e
    BY <1>1, <2>1, SlistRemoveHead, Zenon
  <2>3. QED
    BY <2>2, SlistSeqs, Zenon
<1>2. ASSUME NEW l \in Nodes, next[l] = e, Slist!RemoveAfter(h, l)
      PROVE  LineInv' /\ Slist!S!Remove(h, e)
  <2>1. e # NIL
    BY NilNotNode
  <2>2. PICK i \in DOMAIN Lines[h] : Lines[h][i] = e /\ Lines' = Cut(Lines, h, i)
    BY <1>2, <2>1, SlistRemoveAfter, Zenon
  <2>3. LineInv'
    BY <1>2, SlistRemoveAfter, Zenon
  <2>4. QED
    BY <2>2, <2>3, SlistSeqs, Zenon
<1>3. CASE ~Slist!In(h, e) /\ UNCHANGED Slist!vars
  <2>1. LineInv' /\ Lines' = Lines
    BY <1>3, LineStays, Zenon DEF Slist!vars
  <2>2. \A i \in DOMAIN Lines[h] : Lines[h][i] # e
    BY <1>3, SlistLinks, LineAt, Zenon
  <2>3. QED
    BY <2>1, <2>2, SlistSeqs, Zenon
<1>4. QED
  BY <1>1, <1>2, <1>3, Zenon DEF Slist!Remove

LEMMA SlistReset ==
    ASSUME LineInv, NEW h \in Heads, Slist!Reset(h)
    PROVE  LineInv' /\ Slist!S!Reset(h)
<1>1. Idle /\ first' = [first EXCEPT ![h] = NIL] /\ UNCHANGED next
  BY SlistLinks, Zenon DEF Slist!Reset
<1>2. LineInv' /\ Lines' = [Lines EXCEPT ![h] = <<>>]
  BY <1>1, ResetLine, Zenon
<1>3. QED
  BY <1>2, SlistSeqs, Zenon

LEMMA SlistStep ==
    ASSUME LineInv, Slist!Next
    PROVE  LineInv'
<1>1. ASSUME NEW h \in Heads, NEW e \in Nodes, Slist!InsertHead(h, e) PROVE LineInv'
  BY <1>1, SlistInsertHead, Zenon
<1>2. ASSUME NEW h \in Heads, NEW e \in Nodes, Slist!Remove(h, e) PROVE LineInv'
  BY <1>2, SlistRemove, Zenon
<1>3. ASSUME NEW h \in Heads, NEW e \in Nodes, Slist!RemoveAfter(h, e) PROVE LineInv'
  BY <1>3, SlistRemoveAfter, Zenon
<1>4. ASSUME NEW h \in Heads, NEW e \in Nodes, NEW l \in Nodes,
             Slist!InsertAfter(h, l, e)
      PROVE  LineInv'
  BY <1>4, SlistInsertAfter, Zenon
<1>5. ASSUME NEW h \in Heads, Slist!RemoveHead(h) PROVE LineInv'
  BY <1>5, SlistRemoveHead, Zenon
<1>6. ASSUME NEW h \in Heads, Slist!Reset(h) PROVE LineInv'
  BY <1>6, SlistReset, Zenon
<1>7. ASSUME NEW h \in Heads, Slist!LoopBegin(h) PROVE LineInv'
  BY <1>7, SlistLoops, LoopBeginLine, Zenon
<1>8. CASE Slist!LoopNext
  BY <1>8, SlistLoops, LoopNextLine, Zenon
<1>9. QED
  BY <1>1, <1>2, <1>3, <1>4, <1>5, <1>6, <1>7, <1>8, Zenon DEF Slist!Next

LEMMA SlistCalls ==
    ASSUME LineInv
    PROVE  Slist!EachCall
BY SlistInsertHead, SlistInsertAfter, SlistRemove, SlistRemoveAfter,
   SlistRemoveHead, SlistReset, Zenon DEF Slist!EachCall

-----------------------------------------------------------------------------
(* RIX_STAILQ *)

(* And the head knows its last element.                                    *)
EndInv == LineInv /\ Lasts(Lines, last)

LEMMA EndStays ==
    ASSUME EndInv, UNCHANGED <<first, last, next, loop>>
    PROVE  EndInv' /\ Lines' = Lines
BY LineStays DEF EndInv

LEMMA StailqInsertHead ==
    ASSUME EndInv, NEW h \in Heads, NEW e \in Nodes, Stailq!InsertHead(h, e)
    PROVE  EndInv' /\ Stailq!S!InsertHead(h, e)
<1>1. /\ MayInsert(e) /\ next' = [next EXCEPT ![e] = first[h]]
      /\ first' = [first EXCEPT ![h] = e]
      /\ last' = [last EXCEPT ![h] = IF first[h] = NIL THEN e ELSE @]
  BY StailqLLinks, Zenon DEF Stailq!InsertHead, Stailq!L!InsertHead
<1>2. /\ LineInv' /\ Absent(Lines, e) /\ Lines' = Put(Lines, h, 1, e)
      /\ Lasts(Lines, last)'
  BY <1>1, HeadIn, Zenon DEF EndInv
<1>3. QED
  BY <1>2, StailqSeqs, Zenon DEF EndInv

LEMMA StailqInsertTail ==
    ASSUME EndInv, NEW h \in Heads, NEW e \in Nodes, Stailq!InsertTail(h, e)
    PROVE  EndInv' /\ Stailq!S!InsertTail(h, e)
<1>1. /\ MayInsert(e) /\ next' = Write([next EXCEPT ![e] = NIL], last[h], e)
      /\ first' = [first EXCEPT ![h] = IF last[h] = NIL THEN e ELSE @]
      /\ last' = [last EXCEPT ![h] = e]
  BY StailqLinks, Zenon DEF Stailq!InsertTail
<1>2. /\ LineInv' /\ Absent(Lines, e)
      /\ Lines' = Put(Lines, h, Len(Lines[h]) + 1, e) /\ Lasts(Lines, last)'
  BY <1>1, TailIn, Zenon DEF EndInv
<1>3. QED
  BY <1>2, StailqSeqs, Zenon DEF EndInv

LEMMA StailqInsertAfter ==
    ASSUME EndInv, NEW h \in Heads, NEW l \in Nodes, NEW e \in Nodes,
           Stailq!InsertAfter(h, l, e)
    PROVE  EndInv' /\ Stailq!S!InsertAfter(h, l, e)
<1>1. /\ MayInsert(e) /\ In(h, l)
      /\ next' = [next EXCEPT ![e] = next[l], ![l] = e] /\ UNCHANGED first
      /\ last' = [last EXCEPT ![h] = IF next[l] = NIL THEN e ELSE @]
  BY StailqLLinks, Zenon DEF Stailq!InsertAfter, Stailq!L!InsertAfter
<1>2. PICK i \in DOMAIN Lines[h] : Lines[h][i] = l
  BY <1>1, InAt
<1>3. /\ LineInv' /\ Absent(Lines, e) /\ Lines' = Put(Lines, h, i + 1, e)
      /\ Lasts(Lines, last)'
  <2>1. LineInv /\ Lasts(Lines, last)
    BY Zenon DEF EndInv
  <2>2. LineInv' /\ Absent(Lines, e) /\ Lines' = Put(Lines, h, i + 1, e)
    BY <1>1, <1>2, <2>1, AfterIn, Zenon
  <2>3. Lasts(Lines', [last EXCEPT ![h] = IF next[l] = NIL THEN e ELSE @])
    BY <1>1, <1>2, <2>1, AfterIn, Zenon
  <2>4. QED
    BY <1>1, <2>2, <2>3, Zenon
<1>4. QED
  BY <1>2, <1>3, StailqSeqs, Zenon DEF EndInv

LEMMA StailqRemoveHead ==
    ASSUME EndInv, NEW h \in Heads, Stailq!RemoveHead(h)
    PROVE  /\ EndInv' /\ Stailq!S!RemoveHead(h) /\ Lines' = Cut(Lines, h, 1)
           /\ first[h] # NIL => 1 \in DOMAIN Lines[h] /\ Lines[h][1] = first[h]
<1>1. /\ Unlinks(first[h])
      /\ first' = [first EXCEPT ![h] = IF @ = NIL THEN @ ELSE next[@]]
      /\ UNCHANGED next
      /\ last' = [last EXCEPT ![h] = IF first'[h] = NIL THEN NIL ELSE @]
  BY StailqLLinks, Zenon DEF Stailq!RemoveHead, Stailq!L!RemoveHead
<1>2. /\ LineInv' /\ Lines' = Cut(Lines, h, 1) /\ Lasts(Lines, last)'
      /\ first[h] # NIL => 1 \in DOMAIN Lines[h] /\ Lines[h][1] = first[h]
  BY <1>1, HeadOut, Zenon DEF EndInv
<1>3. QED
  BY <1>2, StailqSeqs, Zenon DEF EndInv

LEMMA StailqRemoveAfter ==
    ASSUME EndInv, NEW h \in Heads, NEW l \in Nodes, Stailq!RemoveAfter(h, l)
    PROVE  /\ EndInv' /\ Stailq!S!RemoveAfter(h, l)
           /\ next[l] # NIL =>
                 \E i \in DOMAIN Lines[h] :
                    Lines[h][i] = next[l] /\ Lines' = Cut(Lines, h, i)
<1>1. /\ In(h, l) /\ Unlinks(next[l])
      /\ next' = [next EXCEPT ![l] = IF @ = NIL THEN @ ELSE next[@]]
      /\ UNCHANGED first
      /\ last' = [last EXCEPT ![h] =
                    IF next[l] # NIL /\ next[next[l]] = NIL THEN l ELSE @]
  BY StailqLLinks, Zenon DEF Stailq!RemoveAfter, Stailq!L!RemoveAfter
<1>2. PICK i \in DOMAIN Lines[h] : Lines[h][i] = l
  BY <1>1, InAt
<1>3. /\ LineInv' /\ Lines' = Cut(Lines, h, i + 1) /\ Lasts(Lines, last)'
      /\ next[l] # NIL => i + 1 \in DOMAIN Lines[h] /\ Lines[h][i + 1] = next[l]
  <2>1. l = Lines[h][i] /\ LineInv /\ Lasts(Lines, last)
    BY <1>2 DEF EndInv
  <2>2. AfterIsOut(h, i, l, last, last')
    BY <1>1, <2>1, AfterOut
  <2>3. QED
    BY <1>1, <2>1, <2>2, Zenon DEF AfterIsOut
<1>4. QED
  BY <1>2, <1>3, StailqSeqs, Zenon DEF EndInv

LEMMA StailqRemove ==
    ASSUME EndInv, NEW h \in Heads, NEW e \in Nodes, Stailq!Remove(h, e)
    PROVE  EndInv' /\ Stailq!S!Remove(h, e)
<1>1. CASE first[h] = e /\ Stailq!RemoveHead(h)
  <2>1. e # NIL
    BY NilNotNode
  <2>2. /\ EndInv' /\ Lines' = Cut(Lines, h, 1)
        /\ 1 \in DOMAIN Lines[h] /\ Lines[h][1] = e
    BY <1>1, <2>1, StailqRemoveHead, Zenon
  <2>3. QED
    BY <2>2, StailqSeqs, Zenon
<1>2. ASSUME NEW l \in Nodes, next[l] = e, Stailq!RemoveAfter(h, l)
      PROVE  EndInv' /\ Stailq!S!Remove(h, e)
  <2>1. e # NIL
    BY NilNotNode
  <2>2. PICK i \in DOMAIN Lines[h] : Lines[h][i] = e /\ Lines' = Cut(Lines, h, i)
    BY <1>2, <2>1, StailqRemoveAfter, Zenon
  <2>3. EndInv'
    BY <1>2, StailqRemoveAfter, Zenon
  <2>4. QED
    BY <2>2, <2>3, StailqSeqs, Zenon
<1>3. CASE ~Stailq!In(h, e) /\ UNCHANGED Stailq!vars
  <2>1. EndInv' /\ Lines' = Lines
    BY <1>3, EndStays, Zenon DEF Stailq!vars
  <2>2. \A i \in DOMAIN Lines[h] : Lines[h][i] # e
    BY <1>3, StailqLinks, LineAt, Zenon
  <2>3. QED
    BY <2>1, <2>2, StailqSeqs, Zenon
<1>4. QED
  BY <1>1, <1>2, <1>3, Zenon DEF Stailq!Remove

LEMMA StailqReset ==
    ASSUME EndInv, NEW h \in Heads, Stailq!Reset(h)
    PROVE  EndInv' /\ Stailq!S!Reset(h)
<1>1. /\ Idle /\ first' = [first EXCEPT ![h] = NIL] /\ UNCHANGED next
      /\ last' = [last EXCEPT ![h] = NIL]
  BY StailqLLinks, Zenon DEF Stailq!Reset, Stailq!L!Reset
<1>2. LineInv' /\ Lines' = [Lines EXCEPT ![h] = <<>>] /\ Lasts(Lines, last)'
  BY <1>1, ResetLine, Zenon DEF EndInv
<1>3. QED
  BY <1>2, StailqSeqs, Zenon DEF EndInv

LEMMA StailqUntilNone ==
    ASSUME EndInv, NEW h \in Heads, Stailq!RemoveHeadUntil(h, NIL)
    PROVE  EndInv' /\ Stailq!S!Reset(h)
<1>1. /\ Idle /\ first' = [first EXCEPT ![h] = NIL] /\ UNCHANGED next
      /\ last' = [last EXCEPT ![h] = IF first'[h] = NIL THEN NIL ELSE @]
  BY StailqLinks DEF Stailq!RemoveHeadUntil
<1>2. first'[h] = NIL
  BY <1>1 DEF EndInv, LineInv, Good, Firsts
<1>3. last' = [last EXCEPT ![h] = NIL]
  BY <1>1, <1>2
<1>4. LineInv' /\ Lines' = [Lines EXCEPT ![h] = <<>>] /\ Lasts(Lines, last)'
  BY <1>1, <1>3, ResetLine, Zenon DEF EndInv
<1>5. QED
  BY <1>4, StailqSeqs, Zenon DEF EndInv

LEMMA StailqUntil ==
    ASSUME EndInv, NEW h \in Heads, NEW l \in Nodes, Stailq!RemoveHeadUntil(h, l)
    PROVE  EndInv' /\ Stailq!S!RemoveHeadUntil(h, l)
<1>1. l # NIL
  BY NilNotNode
<1>2. /\ Idle /\ In(h, l) /\ first' = [first EXCEPT ![h] = next[l]]
      /\ UNCHANGED next
      /\ last' = [last EXCEPT ![h] = IF first'[h] = NIL THEN NIL ELSE @]
  BY <1>1, StailqLinks DEF Stailq!RemoveHeadUntil
<1>3. PICK i \in DOMAIN Lines[h] : Lines[h][i] = l
  BY <1>2, InAt
<1>4. LineInv' /\ Lines' = Beheaded(Lines, h, i) /\ Lasts(Lines, last)'
  <2>1. LineInv /\ Lasts(Lines, last)
    BY Zenon DEF EndInv
  <2>2. LineInv' /\ Lines' = Beheaded(Lines, h, i)
    BY <1>2, <1>3, <2>1, UntilLine, Zenon
  <2>3. Lasts(Lines', last')
    BY <1>2, <1>3, <2>1, UntilLine, Zenon
  <2>4. QED
    BY <2>2, <2>3, Zenon
<1>5. \A k \in DOMAIN Lines[h] :
         Lines[h][k] = l /\ Lines' = Beheaded(Lines, h, k)
         => Stailq!S!RemoveHeadUntil(h, l)
  BY StailqSeqs, Zenon
<1>6. QED
  BY <1>3, <1>4, <1>5, Zenon DEF EndInv

LEMMA StailqConcat ==
    ASSUME EndInv, NEW g \in Heads, NEW h \in Heads, Stailq!Concat(g, h)
    PROVE  EndInv' /\ Stailq!S!Concat(g, h)
<1>1. Idle /\ g # h
  <2>1. Stailq!Idle /\ g # h
    BY DEF Stailq!Concat
  <2>2. QED
    BY <2>1, StailqLinks, Zenon
<1>2. CASE first[h] = NIL
  <2>1. UNCHANGED <<first, last, next>>
    BY <1>2, Zenon DEF Stailq!Concat
  <2>2. LineInv' /\ Lines' = Lines /\ Lines' = Joined(Lines, g, h)
    BY <1>1, <1>2, <2>1, ConcatSame DEF EndInv
  <2>3. QED
    BY <2>1, <2>2, StailqSeqs, Zenon DEF EndInv
<1>3. CASE first[h] # NIL
  <2>1. /\ next' = IF first[g] = NIL THEN next
                   ELSE [next EXCEPT ![last[g]] = first[h]]
        /\ first' = [first EXCEPT ![g] = IF @ = NIL THEN first[h] ELSE @, ![h] = NIL]
        /\ last' = [last EXCEPT ![g] = last[h], ![h] = NIL]
    BY <1>3, Zenon DEF Stailq!Concat
  <2>2. LineInv' /\ Lines' = Joined(Lines, g, h) /\ Lasts(Lines, last)'
    <3>1. LineInv /\ Lasts(Lines, last)
      BY Zenon DEF EndInv
    <3>2. LineInv' /\ Lines' = Joined(Lines, g, h)
      BY <1>1, <1>3, <2>1, <3>1, ConcatLine, Zenon
    <3>3. Lasts(Lines', [last EXCEPT ![g] = last[h], ![h] = NIL])
      BY <1>1, <1>3, <2>1, <3>1, ConcatLine, Zenon
    <3>4. QED
      BY <2>1, <3>2, <3>3, Zenon
  <2>3. QED
    BY <2>2, StailqSeqs, Zenon DEF EndInv
<1>4. QED
  BY <1>2, <1>3

LEMMA StailqSwap ==
    ASSUME EndInv, NEW g \in Heads, NEW h \in Heads, Stailq!Swap(g, h)
    PROVE  EndInv' /\ Stailq!S!Swap(g, h)
<1>1. /\ Idle /\ UNCHANGED next
      /\ first' = [first EXCEPT ![g] = first[h], ![h] = first[g]]
      /\ last' = [last EXCEPT ![g] = last[h], ![h] = last[g]]
  BY StailqLinks, Zenon DEF Stailq!Swap
<1>2. LineInv' /\ Lines' = Swapped(Lines, g, h) /\ Lasts(Lines, last)'
  BY <1>1, SwapLine, Zenon DEF EndInv
<1>3. QED
  BY <1>2, StailqSeqs, Zenon DEF EndInv

LEMMA StailqStep ==
    ASSUME EndInv, Stailq!Next
    PROVE  EndInv'
<1>1. ASSUME NEW h \in Heads, NEW e \in Nodes, Stailq!InsertHead(h, e) PROVE EndInv'
  BY <1>1, StailqInsertHead, Zenon
<1>2. ASSUME NEW h \in Heads, NEW e \in Nodes, Stailq!InsertTail(h, e) PROVE EndInv'
  BY <1>2, StailqInsertTail, Zenon
<1>3. ASSUME NEW h \in Heads, NEW e \in Nodes, Stailq!Remove(h, e) PROVE EndInv'
  BY <1>3, StailqRemove, Zenon
<1>4. ASSUME NEW h \in Heads, NEW e \in Nodes, Stailq!RemoveAfter(h, e) PROVE EndInv'
  BY <1>4, StailqRemoveAfter, Zenon
<1>5. ASSUME NEW h \in Heads, NEW e \in Nodes, NEW l \in Nodes,
             Stailq!InsertAfter(h, l, e)
      PROVE  EndInv'
  BY <1>5, StailqInsertAfter, Zenon
<1>6. ASSUME NEW h \in Heads, NEW l \in Nodes \cup {NIL},
             Stailq!RemoveHeadUntil(h, l)
      PROVE  EndInv'
  <2>1. CASE l = NIL
    BY <1>6, <2>1, StailqUntilNone, Zenon
  <2>2. CASE l \in Nodes
    BY <1>6, <2>2, StailqUntil, Zenon
  <2>3. QED
    BY <2>1, <2>2
<1>7. ASSUME NEW g \in Heads, NEW h \in Heads, Stailq!Concat(g, h) PROVE EndInv'
  BY <1>7, StailqConcat, Zenon
<1>8. ASSUME NEW g \in Heads, NEW h \in Heads, Stailq!Swap(g, h) PROVE EndInv'
  BY <1>8, StailqSwap, Zenon
<1>9. ASSUME NEW h \in Heads, Stailq!RemoveHead(h) PROVE EndInv'
  BY <1>9, StailqRemoveHead, Zenon
<1>10. ASSUME NEW h \in Heads, Stailq!Reset(h) PROVE EndInv'
  BY <1>10, StailqReset, Zenon
<1>11. ASSUME UNCHANGED last, Stailq!LoopNext \/ \E h \in Heads : Stailq!LoopBegin(h)
       PROVE  EndInv'
  <2>1. LineInv' /\ Lines' = Lines
    BY <1>11, StailqLoops, LoopNextLine, LoopBeginLine, Zenon DEF EndInv
  <2>2. QED
    BY <1>11, <2>1 DEF EndInv
<1>12. QED
  BY <1>1, <1>2, <1>3, <1>4, <1>5, <1>6, <1>7, <1>8, <1>9, <1>10, <1>11, Zenon
  DEF Stailq!Next

LEMMA StailqCalls ==
    ASSUME EndInv
    PROVE  Stailq!EachCall
BY StailqInsertHead, StailqInsertTail, StailqInsertAfter, StailqRemove,
   StailqRemoveAfter, StailqRemoveHead, StailqReset, StailqUntilNone,
   StailqUntil, StailqConcat, StailqSwap, Zenon DEF Stailq!EachCall


-----------------------------------------------------------------------------
(* RIX_LIST *)

(* And each element knows the one before it.                               *)
MirrorInv == LineInv /\ Prevs(Lines, prev)

LEMMA ListInsertHead ==
    ASSUME MirrorInv, NEW h \in Heads, NEW e \in Nodes, List!InsertHead(h, e)
    PROVE  MirrorInv' /\ List!S!InsertHead(h, e)
<1>1. /\ MayInsert(e) /\ next' = [next EXCEPT ![e] = first[h]]
      /\ prev' = Write([prev EXCEPT ![e] = NIL], first[h], e)
      /\ first' = [first EXCEPT ![h] = e]
  BY ListLinks, Zenon DEF List!InsertHead
<1>2. /\ LineInv' /\ Absent(Lines, e) /\ Lines' = Put(Lines, h, 1, e)
      /\ Prevs(Lines, prev)'
  BY <1>1, HeadIn, Zenon DEF MirrorInv
<1>3. QED
  BY <1>2, ListSeqs, Zenon DEF MirrorInv

LEMMA ListInsertAfter ==
    ASSUME MirrorInv, NEW h \in Heads, NEW l \in Nodes, NEW e \in Nodes,
           List!InsertAfter(h, l, e)
    PROVE  MirrorInv' /\ List!S!InsertAfter(h, l, e)
<1>1. /\ MayInsert(e) /\ In(h, l)
      /\ next' = [next EXCEPT ![e] = next[l], ![l] = e] /\ UNCHANGED first
      /\ prev' = Write([prev EXCEPT ![e] = l], next[l], e)
  BY ListLinks, Zenon DEF List!InsertAfter
<1>2. PICK i \in DOMAIN Lines[h] : Lines[h][i] = l
  BY <1>1, InAt
<1>3. /\ LineInv' /\ Absent(Lines, e) /\ Lines' = Put(Lines, h, i + 1, e)
      /\ Prevs(Lines, prev)'
  <2>1. LineInv /\ Prevs(Lines, prev)
    BY Zenon DEF MirrorInv
  <2>2. LineInv' /\ Absent(Lines, e) /\ Lines' = Put(Lines, h, i + 1, e)
    BY <1>1, <1>2, <2>1, AfterIn, Zenon
  <2>3. Prevs(Lines', Write([prev EXCEPT ![e] = l], next[l], e))
    BY <1>1, <1>2, <2>1, AfterIn, Zenon
  <2>4. QED
    BY <1>1, <2>2, <2>3, Zenon
<1>4. QED
  BY <1>2, <1>3, ListSeqs, Zenon DEF MirrorInv

LEMMA ListInsertBefore ==
    ASSUME MirrorInv, NEW h \in Heads, NEW l \in Nodes, NEW e \in Nodes,
           List!InsertBefore(h, l, e)
    PROVE  MirrorInv' /\ List!S!InsertBefore(h, l, e)
<1>1. /\ MayInsert(e) /\ In(h, l)
      /\ prev' = [prev EXCEPT ![e] = prev[l], ![l] = e]
      /\ next' = Write([next EXCEPT ![e] = l], prev[l], e)
      /\ first' = [first EXCEPT ![h] = IF prev[l] = NIL THEN e ELSE @]
  BY ListLinks, Zenon DEF List!InsertBefore
<1>2. PICK i \in DOMAIN Lines[h] : Lines[h][i] = l
  BY <1>1, InAt
<1>3. /\ LineInv' /\ Absent(Lines, e) /\ Lines' = Put(Lines, h, i, e)
      /\ Prevs(Lines, prev)'
  BY <1>1, <1>2, BeforeIn, Zenon DEF MirrorInv
<1>4. QED
  BY <1>2, <1>3, ListSeqs, Zenon DEF MirrorInv

LEMMA ListRemove ==
    ASSUME MirrorInv, NEW h \in Heads, NEW e \in Nodes, List!Remove(h, e)
    PROVE  MirrorInv' /\ List!S!Remove(h, e)
<1>1. /\ In(h, e) /\ Unlinks(e)
      /\ prev' = [Write(prev, next[e], prev[e]) EXCEPT ![e] = NIL]
      /\ next' = [Write(next, prev[e], next[e]) EXCEPT ![e] = NIL]
      /\ first' = [first EXCEPT ![h] = IF prev[e] = NIL THEN next[e] ELSE @]
  BY ListLinks, Zenon DEF List!Remove
<1>2. PICK i \in DOMAIN Lines[h] : Lines[h][i] = e
  BY <1>1, InAt
<1>3. /\ LineInv' /\ Lines' = Cut(Lines, h, i)
      /\ Prevs(Lines, prev)'
  <2>1. LineInv /\ Prevs(Lines, prev)
    BY Zenon DEF MirrorInv
  <2>2. LineInv' /\ Lines' = Cut(Lines, h, i)
    BY <1>1, <1>2, <2>1, BothOut, Zenon
  <2>3. Prevs(Lines', [Write(prev, next[e], prev[e]) EXCEPT ![e] = NIL])
    BY <1>1, <1>2, <2>1, BothOut, Zenon
  <2>4. QED
    BY <1>1, <2>2, <2>3, Zenon
<1>4. QED
  BY <1>2, <1>3, ListSeqs, Zenon DEF MirrorInv

LEMMA ListReset ==
    ASSUME MirrorInv, NEW h \in Heads, List!Reset(h)
    PROVE  MirrorInv' /\ List!S!Reset(h)
<1>1. /\ Idle /\ first' = [first EXCEPT ![h] = NIL]
      /\ UNCHANGED next /\ UNCHANGED prev
  BY ListLinks, Zenon DEF List!Reset
<1>2. /\ LineInv' /\ Lines' = [Lines EXCEPT ![h] = <<>>]
      /\ Prevs(Lines, prev)'
  BY <1>1, ResetLine, Zenon DEF MirrorInv
<1>3. QED
  BY <1>2, ListSeqs, Zenon DEF MirrorInv

LEMMA ListSwap ==
    ASSUME MirrorInv, NEW g \in Heads, NEW h \in Heads, List!Swap(g, h)
    PROVE  MirrorInv' /\ List!S!Swap(g, h)
<1>1. /\ Idle /\ UNCHANGED next
      /\ first' = [first EXCEPT ![g] = first[h], ![h] = first[g]]
      /\ prev' = Write(Write(prev, first[g], NIL), first[h], NIL)
  BY ListLinks, Zenon DEF List!Swap
<1>2. prev' \in {prev, Write(Write(prev, first[g], NIL), first[h], NIL)}
  BY <1>1
<1>3. /\ LineInv' /\ Lines' = Swapped(Lines, g, h)
      /\ Prevs(Lines, prev)'
  BY <1>1, <1>2, SwapLine, Zenon DEF MirrorInv
<1>4. QED
  BY <1>3, ListSeqs, Zenon DEF MirrorInv

LEMMA ListStep ==
    ASSUME MirrorInv, List!Next
    PROVE  MirrorInv'
<1>1. ASSUME NEW h \in Heads, NEW e \in Nodes, List!InsertHead(h, e) PROVE MirrorInv'
  BY <1>1, ListInsertHead, Zenon
<1>2. ASSUME NEW h \in Heads, NEW e \in Nodes, List!Remove(h, e) PROVE MirrorInv'
  BY <1>2, ListRemove, Zenon
<1>3. ASSUME NEW h \in Heads, NEW e \in Nodes, NEW l \in Nodes,
             List!InsertAfter(h, l, e)
      PROVE  MirrorInv'
  BY <1>3, ListInsertAfter, Zenon
<1>4. ASSUME NEW h \in Heads, NEW e \in Nodes, NEW l \in Nodes,
             List!InsertBefore(h, l, e)
      PROVE  MirrorInv'
  BY <1>4, ListInsertBefore, Zenon
<1>5. ASSUME NEW g \in Heads, NEW h \in Heads, List!Swap(g, h) PROVE MirrorInv'
  BY <1>5, ListSwap, Zenon
<1>6. ASSUME NEW h \in Heads, List!Reset(h) PROVE MirrorInv'
  BY <1>6, ListReset, Zenon
<1>7. ASSUME UNCHANGED prev,
             List!LoopNext \/ \E h \in Heads : List!LoopBegin(h)
      PROVE  MirrorInv'
  <2>1. LineInv' /\ Lines' = Lines
    BY <1>7, ListLoops, LoopNextLine, LoopBeginLine, Zenon DEF MirrorInv
  <2>2. QED
    BY <1>7, <2>1 DEF MirrorInv
<1>8. QED
  BY <1>1, <1>2, <1>3, <1>4, <1>5, <1>6, <1>7, Zenon
  DEF List!Next

LEMMA ListCalls ==
    ASSUME MirrorInv
    PROVE  List!EachCall
BY ListInsertHead, ListInsertAfter, ListInsertBefore, ListRemove,
   ListReset, ListSwap, Zenon DEF List!EachCall

-----------------------------------------------------------------------------
(* RIX_TAILQ *)

(* And both.                                                               *)
BothInv == LineInv /\ Lasts(Lines, last) /\ Prevs(Lines, prev)

LEMMA TailqInsertHead ==
    ASSUME BothInv, NEW h \in Heads, NEW e \in Nodes, Tailq!InsertHead(h, e)
    PROVE  BothInv' /\ Tailq!S!InsertHead(h, e)
<1>1. /\ MayInsert(e) /\ next' = [next EXCEPT ![e] = first[h]]
      /\ prev' = Write([prev EXCEPT ![e] = NIL], first[h], e)
      /\ first' = [first EXCEPT ![h] = e]
      /\ last' = [last EXCEPT ![h] = IF first[h] = NIL THEN e ELSE @]
  BY TailqLLinks, Zenon DEF Tailq!InsertHead, Tailq!L!InsertHead
<1>2. /\ LineInv' /\ Absent(Lines, e) /\ Lines' = Put(Lines, h, 1, e)
      /\ Prevs(Lines, prev)'
      /\ Lasts(Lines, last)'
  BY <1>1, HeadIn, Zenon DEF BothInv
<1>3. QED
  BY <1>2, TailqSeqs, Zenon DEF BothInv

LEMMA TailqInsertTail ==
    ASSUME BothInv, NEW h \in Heads, NEW e \in Nodes, Tailq!InsertTail(h, e)
    PROVE  BothInv' /\ Tailq!S!InsertTail(h, e)
<1>1. /\ MayInsert(e) /\ next' = Write([next EXCEPT ![e] = NIL], last[h], e)
      /\ prev' = [prev EXCEPT ![e] = last[h]]
      /\ first' = [first EXCEPT ![h] = IF last[h] = NIL THEN e ELSE @]
      /\ last' = [last EXCEPT ![h] = e]
  BY TailqLinks, Zenon DEF Tailq!InsertTail
<1>2. /\ LineInv' /\ Absent(Lines, e)
      /\ Lines' = Put(Lines, h, Len(Lines[h]) + 1, e)
      /\ Lasts(Lines, last)' /\ Prevs(Lines, prev)'
  BY <1>1, TailIn, Zenon DEF BothInv
<1>3. QED
  BY <1>2, TailqSeqs, Zenon DEF BothInv

LEMMA TailqInsertAfter ==
    ASSUME BothInv, NEW h \in Heads, NEW l \in Nodes, NEW e \in Nodes,
           Tailq!InsertAfter(h, l, e)
    PROVE  BothInv' /\ Tailq!S!InsertAfter(h, l, e)
<1>1. /\ MayInsert(e) /\ In(h, l)
      /\ next' = [next EXCEPT ![e] = next[l], ![l] = e] /\ UNCHANGED first
      /\ prev' = Write([prev EXCEPT ![e] = l], next[l], e)
      /\ last' = [last EXCEPT ![h] = IF next[l] = NIL THEN e ELSE @]
  BY TailqLLinks, Zenon DEF Tailq!InsertAfter, Tailq!L!InsertAfter
<1>2. PICK i \in DOMAIN Lines[h] : Lines[h][i] = l
  BY <1>1, InAt
<1>3. /\ LineInv' /\ Absent(Lines, e) /\ Lines' = Put(Lines, h, i + 1, e)
      /\ Lasts(Lines, last)'
      /\ Prevs(Lines, prev)'
  <2>1. LineInv /\ Lasts(Lines, last) /\ Prevs(Lines, prev)
    BY Zenon DEF BothInv
  <2>2. LineInv' /\ Absent(Lines, e) /\ Lines' = Put(Lines, h, i + 1, e)
    BY <1>1, <1>2, <2>1, AfterIn, Zenon
  <2>3. Lasts(Lines', [last EXCEPT ![h] = IF next[l] = NIL THEN e ELSE @])
    BY <1>1, <1>2, <2>1, AfterIn, Zenon
  <2>4. Prevs(Lines', Write([prev EXCEPT ![e] = l], next[l], e))
    BY <1>1, <1>2, <2>1, AfterIn, Zenon
  <2>5. QED
    BY <1>1, <2>2, <2>3, <2>4, Zenon
<1>4. QED
  BY <1>2, <1>3, TailqSeqs, Zenon DEF BothInv

LEMMA TailqInsertBefore ==
    ASSUME BothInv, NEW h \in Heads, NEW l \in Nodes, NEW e \in Nodes,
           Tailq!InsertBefore(h, l, e)
    PROVE  BothInv' /\ Tailq!S!InsertBefore(h, l, e)
<1>1. /\ MayInsert(e) /\ In(h, l)
      /\ prev' = [prev EXCEPT ![e] = prev[l], ![l] = e]
      /\ next' = Write([next EXCEPT ![e] = l], prev[l], e)
      /\ first' = [first EXCEPT ![h] = IF prev[l] = NIL THEN e ELSE @]
      /\ UNCHANGED last
  BY TailqLLinks, Zenon DEF Tailq!InsertBefore, Tailq!L!InsertBefore
<1>2. PICK i \in DOMAIN Lines[h] : Lines[h][i] = l
  BY <1>1, InAt
<1>3. /\ LineInv' /\ Absent(Lines, e) /\ Lines' = Put(Lines, h, i, e)
      /\ Prevs(Lines, prev)'
      /\ Lasts(Lines, last)'
  BY <1>1, <1>2, BeforeIn, Zenon DEF BothInv
<1>4. QED
  BY <1>2, <1>3, TailqSeqs, Zenon DEF BothInv

LEMMA TailqRemove ==
    ASSUME BothInv, NEW h \in Heads, NEW e \in Nodes, Tailq!Remove(h, e)
    PROVE  BothInv' /\ Tailq!S!Remove(h, e)
<1>1. /\ In(h, e) /\ Unlinks(e)
      /\ prev' = [Write(prev, next[e], prev[e]) EXCEPT ![e] = NIL]
      /\ next' = [Write(next, prev[e], next[e]) EXCEPT ![e] = NIL]
      /\ first' = [first EXCEPT ![h] = IF prev[e] = NIL THEN next[e] ELSE @]
      /\ last' = [last EXCEPT ![h] = IF next[e] = NIL THEN prev[e] ELSE @]
  BY TailqLLinks, Zenon DEF Tailq!Remove, Tailq!L!Remove
<1>2. PICK i \in DOMAIN Lines[h] : Lines[h][i] = e
  BY <1>1, InAt
<1>3. /\ LineInv' /\ Lines' = Cut(Lines, h, i)
      /\ Prevs(Lines, prev)'
      /\ Lasts(Lines, last)'
  <2>1. LineInv /\ Lasts(Lines, last) /\ Prevs(Lines, prev)
    BY Zenon DEF BothInv
  <2>2. LineInv' /\ Lines' = Cut(Lines, h, i)
    BY <1>1, <1>2, <2>1, BothOut, Zenon
  <2>3. Prevs(Lines', [Write(prev, next[e], prev[e]) EXCEPT ![e] = NIL])
    BY <1>1, <1>2, <2>1, BothOut, Zenon
  <2>4. LastUnlinked(Lines, Lines', next, prev, h, e)
    BY <1>1, <1>2, <2>1, BothOut, Zenon
  <2>5. Lasts(Lines', [last EXCEPT ![h] = IF next[e] = NIL THEN prev[e] ELSE @])
    BY <2>1, <2>4, Zenon DEF LastUnlinked
  <2>6. QED
    BY <1>1, <2>2, <2>3, <2>5, Zenon
<1>4. QED
  BY <1>2, <1>3, TailqSeqs, Zenon DEF BothInv

LEMMA TailqReset ==
    ASSUME BothInv, NEW h \in Heads, Tailq!Reset(h)
    PROVE  BothInv' /\ Tailq!S!Reset(h)
<1>1. /\ Idle /\ first' = [first EXCEPT ![h] = NIL]
      /\ UNCHANGED next /\ UNCHANGED prev
      /\ last' = [last EXCEPT ![h] = NIL]
  BY TailqLLinks, Zenon DEF Tailq!Reset, Tailq!L!Reset
<1>2. /\ LineInv' /\ Lines' = [Lines EXCEPT ![h] = <<>>]
      /\ Prevs(Lines, prev)'
      /\ Lasts(Lines, last)'
  BY <1>1, ResetLine, Zenon DEF BothInv
<1>3. QED
  BY <1>2, TailqSeqs, Zenon DEF BothInv

LEMMA TailqSwap ==
    ASSUME BothInv, NEW g \in Heads, NEW h \in Heads, Tailq!Swap(g, h)
    PROVE  BothInv' /\ Tailq!S!Swap(g, h)
<1>1. /\ Idle /\ UNCHANGED next
      /\ first' = [first EXCEPT ![g] = first[h], ![h] = first[g]]
      /\ UNCHANGED prev
      /\ last' = [last EXCEPT ![g] = last[h], ![h] = last[g]]
  BY TailqLinks, Zenon DEF Tailq!Swap
<1>2. prev' \in {prev, Write(Write(prev, first[g], NIL), first[h], NIL)}
  BY <1>1
<1>3. /\ LineInv' /\ Lines' = Swapped(Lines, g, h)
      /\ Prevs(Lines, prev)'
      /\ Lasts(Lines, last)'
  BY <1>1, <1>2, SwapLine, Zenon DEF BothInv
<1>4. QED
  BY <1>3, TailqSeqs, Zenon DEF BothInv

LEMMA TailqConcat ==
    ASSUME BothInv, NEW g \in Heads, NEW h \in Heads, Tailq!Concat(g, h)
    PROVE  BothInv' /\ Tailq!S!Concat(g, h)
<1>1. Idle /\ g # h
  <2>1. Tailq!Idle /\ g # h
    BY DEF Tailq!Concat
  <2>2. QED
    BY <2>1, TailqLinks, Zenon
<1>2. CASE first[h] = NIL
  <2>1. UNCHANGED <<first, last, next, prev>>
    BY <1>2, Zenon DEF Tailq!Concat
  <2>2. LineInv' /\ Lines' = Lines /\ Lines' = Joined(Lines, g, h)
    BY <1>1, <1>2, <2>1, ConcatSame DEF BothInv
  <2>3. QED
    BY <2>1, <2>2, TailqSeqs, Zenon DEF BothInv
<1>3. CASE first[h] # NIL
  <2>1. /\ next' = IF first[g] = NIL THEN next
                   ELSE [next EXCEPT ![last[g]] = first[h]]
        /\ prev' = IF first[g] = NIL THEN prev
                   ELSE [prev EXCEPT ![first[h]] = last[g]]
        /\ first' = [first EXCEPT ![g] = IF @ = NIL THEN first[h] ELSE @, ![h] = NIL]
        /\ last' = [last EXCEPT ![g] = last[h], ![h] = NIL]
    BY <1>3, Zenon DEF Tailq!Concat
  <2>2. /\ LineInv' /\ Lines' = Joined(Lines, g, h)
        /\ Lasts(Lines, last)' /\ Prevs(Lines, prev)'
    <3>1. LineInv /\ Lasts(Lines, last) /\ Prevs(Lines, prev)
      BY Zenon DEF BothInv
    <3>2. LineInv' /\ Lines' = Joined(Lines, g, h)
      BY <1>1, <1>3, <2>1, <3>1, ConcatLine, Zenon
    <3>3. Lasts(Lines', [last EXCEPT ![g] = last[h], ![h] = NIL])
      BY <1>1, <1>3, <2>1, <3>1, ConcatLine, Zenon
    <3>4. Prevs(Lines', IF first[g] = NIL THEN prev
                        ELSE [prev EXCEPT ![first[h]] = last[g]])
      BY <1>1, <1>3, <2>1, <3>1, ConcatLine, Zenon
    <3>5. QED
      BY <2>1, <3>2, <3>3, <3>4, Zenon
  <2>3. QED
    BY <2>2, TailqSeqs, Zenon DEF BothInv
<1>4. QED
  BY <1>2, <1>3

LEMMA TailqStep ==
    ASSUME BothInv, Tailq!Next
    PROVE  BothInv'
<1>1. ASSUME NEW h \in Heads, NEW e \in Nodes, Tailq!InsertHead(h, e) PROVE BothInv'
  BY <1>1, TailqInsertHead, Zenon
<1>2. ASSUME NEW h \in Heads, NEW e \in Nodes, Tailq!InsertTail(h, e) PROVE BothInv'
  BY <1>2, TailqInsertTail, Zenon
<1>3. ASSUME NEW h \in Heads, NEW e \in Nodes, Tailq!Remove(h, e) PROVE BothInv'
  BY <1>3, TailqRemove, Zenon
<1>4. ASSUME NEW h \in Heads, NEW e \in Nodes, NEW l \in Nodes,
             Tailq!InsertAfter(h, l, e)
      PROVE  BothInv'
  BY <1>4, TailqInsertAfter, Zenon
<1>5. ASSUME NEW h \in Heads, NEW e \in Nodes, NEW l \in Nodes,
             Tailq!InsertBefore(h, l, e)
      PROVE  BothInv'
  BY <1>5, TailqInsertBefore, Zenon
<1>6. ASSUME NEW g \in Heads, NEW h \in Heads, Tailq!Concat(g, h) PROVE BothInv'
  BY <1>6, TailqConcat, Zenon
<1>7. ASSUME NEW g \in Heads, NEW h \in Heads, Tailq!Swap(g, h) PROVE BothInv'
  BY <1>7, TailqSwap, Zenon
<1>8. ASSUME NEW h \in Heads, Tailq!Reset(h) PROVE BothInv'
  BY <1>8, TailqReset, Zenon
<1>9. ASSUME UNCHANGED <<prev, last>>,
             Tailq!LoopNext \/ \E h \in Heads : Tailq!LoopBegin(h)
      PROVE  BothInv'
  <2>1. LineInv' /\ Lines' = Lines
    BY <1>9, TailqLoops, LoopNextLine, LoopBeginLine, Zenon DEF BothInv
  <2>2. QED
    BY <1>9, <2>1 DEF BothInv
<1>10. QED
  BY <1>1, <1>2, <1>3, <1>4, <1>5, <1>6, <1>7, <1>8, <1>9, Zenon
  DEF Tailq!Next

LEMMA TailqCalls ==
    ASSUME BothInv
    PROVE  Tailq!EachCall
BY TailqInsertHead, TailqInsertTail, TailqInsertAfter, TailqInsertBefore,
   TailqRemove, TailqReset, TailqConcat, TailqSwap, Zenon DEF Tailq!EachCall



-----------------------------------------------------------------------------
(* RIX_CIRCLEQ *)

(* Every head is a circle of its own elements, which prev goes round the   *)
(* other way; and a safe iteration is on one.                              *)
CircleInv == Ring(Circles, first, next, prev) /\ LapIn(Circles, loop)

LEMMA CircleqLinks ==
    /\ \A h : Circleq!Circle(h) = Chain(first[h], next, first[h])
    /\ \A h \in Heads : Circleq!Circle(h) = Circles[h]
    /\ \A h \in Heads : \A e : Circleq!On(h, e) <=> e \in Range(Circles[h])
    /\ \A e : Circleq!MayInsertAt(e) => loop' = loop /\ Absent(Circles, e)
    /\ \A e : Circleq!Leaves(e) => CircleLeft(e)
    /\ Circleq!NoLoop = NoLoop
    /\ Circleq!Idle <=> Idle
<1>1. \A h : Circleq!Circle(h) = Chain(first[h], next, first[h])
  BY Zenon DEF Circleq!Circle, Circleq!Chain, Chain, Circleq!Cardinality, Cardinality
<1>2. \A h \in Heads : Circleq!Circle(h) = Circles[h]
  BY <1>1, CircleAt, Zenon
<1>3. \A h \in Heads : \A e : Circleq!On(h, e) <=> e \in Range(Circles[h])
  BY <1>2, Zenon DEF Circleq!On, Circleq!Among, Circleq!Range, Range
<1>4. \A e : Circleq!MayInsertAt(e) => loop' = loop /\ Absent(Circles, e)
  <2>1. \A e : Circleq!MayInsertAt(e) =>
           loop' = loop /\ \A h \in Heads : e \notin Range(Circles[h])
    BY <1>3, Zenon DEF Circleq!MayInsertAt
  <2>2. QED
    BY <2>1, Zenon DEF Absent, Range
<1>5. \A e : Circleq!Leaves(e) => CircleLeft(e)
  BY Zenon DEF Circleq!Leaves, CircleLeft
<1>6. Circleq!NoLoop = NoLoop /\ (Circleq!Idle <=> Idle)
  BY Zenon DEF Circleq!NoLoop, NoLoop, Circleq!Idle, Idle
<1>7. QED
  BY <1>1, <1>2, <1>3, <1>4, <1>5, <1>6, Zenon

LEMMA OnAt ==
    ASSUME NEW h \in Heads, NEW e, Circleq!On(h, e)
    PROVE  \E i \in DOMAIN Circles[h] : Circles[h][i] = e
<1>1. e \in Range(Circles[h])
  BY CircleqLinks, Zenon
<1>2. QED
  BY <1>1 DEF Range

LEMMA CircleqSeqs ==
    /\ \A h, e :
         Absent(Circles, e) /\ Circles' = Put(Circles, h, 1, e)
         => Circleq!S!InsertHead(h, e)
    /\ \A h, e :
         Absent(Circles, e) /\ Circles' = Put(Circles, h, Len(Circles[h]) + 1, e)
         => Circleq!S!InsertTail(h, e)
    /\ \A h, e, l : \A i \in DOMAIN Circles[h] :
         Absent(Circles, e) /\ Circles[h][i] = l /\ Circles' = Put(Circles, h, i + 1, e)
         => Circleq!S!InsertAfter(h, l, e)
    /\ \A h, e, l : \A i \in DOMAIN Circles[h] :
         Absent(Circles, e) /\ Circles[h][i] = l /\ Circles' = Put(Circles, h, i, e)
         => Circleq!S!InsertBefore(h, l, e)
    /\ \A h, l : \A i \in DOMAIN Circles[h] :
         Circles[h][i] = l /\ Circles' = Cut(Circles, h, i)
         => Circleq!S!Remove(h, l)
    /\ \A h :
         Circles' = [Circles EXCEPT ![h] = <<>>]
         => Circleq!S!Reset(h)
<1>1. [h \in Heads |-> Circleq!Circle(h)] = Circles
  BY CircleqLinks, Zenon DEF Circles, CirclesOf
<1>2. [h \in Heads |-> Circleq!Circle(h)]' = Circles'
  BY Zenon DEF Circleq!Circle, Circleq!Chain, Chain, Circleq!Cardinality, Cardinality,
               Circles, CirclesOf
<1>3. \A e : Circleq!S!Free(e) <=> Absent(Circles, e)
  BY <1>1, Zenon DEF Circleq!S!Free, Circleq!S!At, Absent
<1>4. \A h, i, e : Circleq!S!Place(h, i, e) <=>
         Absent(Circles, e) /\ Circles' = Put(Circles, h, i, e)
  BY <1>1, <1>2, <1>3, Zenon DEF Circleq!S!Place, Put, Inserted
<1>5. \A h, i : Circleq!S!RemoveIndex(h, i) <=> Circles' = Cut(Circles, h, i)
  BY <1>1, <1>2, Zenon DEF Circleq!S!RemoveIndex, Removed, Cut
<1>6. \A h, l : Circleq!S!At(h, l) = {i \in DOMAIN Circles[h] : Circles[h][i] = l}
  BY <1>1, Zenon DEF Circleq!S!At
<1>7. ASSUME NEW h, NEW e, Absent(Circles, e), Circles' = Put(Circles, h, 1, e)
      PROVE  Circleq!S!InsertHead(h, e)
  BY <1>4, <1>7, Zenon DEF Circleq!S!InsertHead
<1>8. ASSUME NEW h, NEW e, Absent(Circles, e),
             Circles' = Put(Circles, h, Len(Circles[h]) + 1, e)
      PROVE  Circleq!S!InsertTail(h, e)
  BY <1>1, <1>2, <1>4, <1>8, Zenon DEF Circleq!S!InsertTail
<1>9. ASSUME NEW h, NEW e, NEW l, Absent(Circles, e),
             NEW i \in DOMAIN Circles[h], Circles[h][i] = l,
             Circles' = Put(Circles, h, i + 1, e)
      PROVE  Circleq!S!InsertAfter(h, l, e)
  BY <1>4, <1>6, <1>9, Zenon DEF Circleq!S!InsertAfter
<1>10. ASSUME NEW h, NEW e, NEW l, Absent(Circles, e),
             NEW i \in DOMAIN Circles[h], Circles[h][i] = l,
             Circles' = Put(Circles, h, i, e)
      PROVE  Circleq!S!InsertBefore(h, l, e)
  BY <1>4, <1>6, <1>10, Zenon DEF Circleq!S!InsertBefore
<1>11. ASSUME NEW h, NEW l, NEW i \in DOMAIN Circles[h], Circles[h][i] = l,
             Circles' = Cut(Circles, h, i)
      PROVE  Circleq!S!Remove(h, l)
  BY <1>5, <1>6, <1>11, Zenon DEF Circleq!S!Remove
<1>12. ASSUME NEW h, Circles' = [Circles EXCEPT ![h] = <<>>]
      PROVE  Circleq!S!Reset(h)
  BY <1>1, <1>2, <1>12, Zenon DEF Circleq!S!Reset
<1>13. QED
  BY <1>7, <1>8, <1>9, <1>10, <1>11, <1>12, Zenon

LEMMA CircleqRemove ==
    ASSUME CircleInv, NEW h \in Heads, NEW e \in Nodes, Circleq!Remove(h, e)
    PROVE  CircleInv' /\ Circleq!S!Remove(h, e)
<1>1. Circleq!On(h, e) /\ CircleLeft(e)
  BY CircleqLinks, Zenon DEF Circleq!Remove
<1>2. PICK i \in DOMAIN Circles[h] : Circles[h][i] = e
  BY <1>1, OnAt
<1>3. Ring(Circles, first, next, prev) /\ LapIn(Circles, loop)
  BY DEF CircleInv
<1>4. Circles' = Drop(Circles, h, i) /\ CircleInv'
  <2>1. CASE next[e] = e
    <3>1. /\ first' = [first EXCEPT ![h] = NIL]
          /\ next' = [next EXCEPT ![e] = NIL]
          /\ prev' = [prev EXCEPT ![e] = NIL]
      BY <2>1, Zenon DEF Circleq!Remove
    <3>2. QED
      BY <1>1, <1>2, <1>3, <2>1, <3>1, CircleOutLast, Zenon DEF CircleInv
  <2>2. CASE next[e] # e
    <3>1. Bypassed(first, next, prev, h, e, first', next', prev')
      BY <2>2, Zenon DEF Circleq!Remove, Bypassed
    <3>2. QED
      BY <1>1, <1>2, <1>3, <3>1, CircleOut, Zenon DEF CircleInv
  <2>3. QED
    BY <2>1, <2>2
<1>5. Circles' = Cut(Circles, h, i)
  BY <1>2, <1>3, <1>4, CutIs DEF Ring
<1>6. QED
  BY <1>2, <1>4, <1>5, CircleqSeqs, Zenon

LEMMA CircleqReset ==
    ASSUME CircleInv, NEW h \in Heads, Circleq!Reset(h)
    PROVE  CircleInv' /\ Circleq!S!Reset(h)
<1>1. Idle /\ first' = [first EXCEPT ![h] = NIL] /\ UNCHANGED <<next, prev>>
  BY CircleqLinks, Zenon DEF Circleq!Reset
<1>2. UNCHANGED next /\ prev' = prev
  BY <1>1
<1>3. /\ Circles' = [Circles EXCEPT ![h] = <<>>]
      /\ Ring(Circles', first', next', prev) /\ LapIn(Circles', loop')
  BY <1>1, <1>2, CircleReset, Zenon DEF CircleInv
<1>4. QED
  BY <1>2, <1>3, CircleqSeqs, Zenon DEF CircleInv

LEMMA CircleqInsertHead ==
    ASSUME CircleInv, NEW h \in Heads, NEW e \in Nodes, Circleq!InsertHead(h, e)
    PROVE  CircleInv' /\ Circleq!S!InsertHead(h, e)
<1>1. loop' = loop /\ Absent(Circles, e) /\ first' = [first EXCEPT ![h] = e]
  BY CircleqLinks, Zenon DEF Circleq!InsertHead, Circleq!InsertEnd
<1>2. Ring(Circles, first, next, prev) /\ LapIn(Circles, loop)
  BY DEF CircleInv
<1>3. Circles' = Put(Circles, h, 1, e) /\ CircleInv'
  <2>1. CASE first[h] = NIL
    <3>1. next' = [next EXCEPT ![e] = e] /\ prev' = [prev EXCEPT ![e] = e]
      BY <2>1, Zenon DEF Circleq!InsertHead, Circleq!InsertEnd
    <3>2. 1 \in {1, Len(Circles[h]) + 1}
      OBVIOUS
    <3>3. QED
      BY <1>1, <1>2, <2>1, <3>1, <3>2, CircleFirstIn, Zenon DEF CircleInv
  <2>2. CASE first[h] # NIL
    <3>1. EndLinked(first, next, prev, h, e, next', prev')
      BY <2>2, Zenon DEF Circleq!InsertHead, Circleq!InsertEnd, EndLinked
    <3>2. \A i \in {1, Len(Circles[h]) + 1} :
             first' = [first EXCEPT ![h] = IF i = 1 THEN e ELSE @] =>
                /\ Circles' = Put(Circles, h, i, e)
                /\ Ring(Circles', first', next', prev') /\ LapIn(Circles', loop')
      BY <1>1, <1>2, <2>2, <3>1, CircleEndIn, Zenon
    <3>3. /\ 1 \in {1, Len(Circles[h]) + 1}
          /\ first' = [first EXCEPT ![h] = IF 1 = 1 THEN e ELSE @]
      BY <1>1
    <3>4. QED
      BY <3>2, <3>3, Zenon DEF CircleInv
  <2>3. QED
    BY <2>1, <2>2
<1>4. QED
  BY <1>1, <1>3, CircleqSeqs, Zenon

LEMMA CircleqInsertTail ==
    ASSUME CircleInv, NEW h \in Heads, NEW e \in Nodes, Circleq!InsertTail(h, e)
    PROVE  CircleInv' /\ Circleq!S!InsertTail(h, e)
<1>1. /\ loop' = loop /\ Absent(Circles, e)
      /\ first' = [first EXCEPT ![h] = IF @ = NIL THEN e ELSE @]
  BY CircleqLinks, Zenon DEF Circleq!InsertTail, Circleq!InsertEnd
<1>2. Ring(Circles, first, next, prev) /\ LapIn(Circles, loop)
  BY DEF CircleInv
<1>3. Circles' = Put(Circles, h, Len(Circles[h]) + 1, e) /\ CircleInv'
  <2>0. Len(Circles[h]) + 1 \in {1, Len(Circles[h]) + 1}
    OBVIOUS
  <2>1. CASE first[h] = NIL
    <3>1. next' = [next EXCEPT ![e] = e] /\ prev' = [prev EXCEPT ![e] = e]
      BY <2>1, Zenon DEF Circleq!InsertTail, Circleq!InsertEnd
    <3>2. first' = [first EXCEPT ![h] = e]
      BY <1>1, <2>1
    <3>3. QED
      BY <1>1, <1>2, <2>0, <2>1, <3>1, <3>2, CircleFirstIn, Zenon DEF CircleInv
  <2>2. CASE first[h] # NIL
    <3>1. EndLinked(first, next, prev, h, e, next', prev')
      BY <2>2, Zenon DEF Circleq!InsertTail, Circleq!InsertEnd, EndLinked
    <3>2. \A i \in {1, Len(Circles[h]) + 1} :
             first' = [first EXCEPT ![h] = IF i = 1 THEN e ELSE @] =>
                /\ Circles' = Put(Circles, h, i, e)
                /\ Ring(Circles', first', next', prev') /\ LapIn(Circles', loop')
      BY <1>1, <1>2, <2>2, <3>1, CircleEndIn, Zenon
    <3>3. Len(Circles[h]) + 1 # 1
      BY <1>2, <2>2, CircleEndAt
    <3>4. first' = [first EXCEPT ![h] = IF Len(Circles[h]) + 1 = 1 THEN e ELSE @]
      BY <1>1, <2>2, <3>3
    <3>5. QED
      BY <2>0, <3>2, <3>4, Zenon DEF CircleInv
  <2>3. QED
    BY <2>1, <2>2
<1>4. QED
  BY <1>1, <1>3, CircleqSeqs, Zenon

LEMMA CircleqInsertAfter ==
    ASSUME CircleInv, NEW h \in Heads, NEW l \in Nodes, NEW e \in Nodes,
           Circleq!InsertAfter(h, l, e)
    PROVE  CircleInv' /\ Circleq!S!InsertAfter(h, l, e)
<1>1. /\ loop' = loop /\ Absent(Circles, e) /\ Circleq!On(h, l)
      /\ next' = [next EXCEPT ![e] = next[l], ![l] = e] /\ UNCHANGED first
      /\ prev' = [prev EXCEPT ![e] = l, ![next[l]] = e]
  BY CircleqLinks, Zenon DEF Circleq!InsertAfter
<1>2. PICK j \in DOMAIN Circles[h] : Circles[h][j] = l
  BY <1>1, OnAt
<1>3. Circles' = Put(Circles, h, j + 1, e) /\ CircleInv'
  BY <1>1, <1>2, CircleAfterIn, Zenon DEF CircleInv
<1>4. QED
  BY <1>1, <1>2, <1>3, CircleqSeqs, Zenon

LEMMA CircleqInsertBefore ==
    ASSUME CircleInv, NEW h \in Heads, NEW l \in Nodes, NEW e \in Nodes,
           Circleq!InsertBefore(h, l, e)
    PROVE  CircleInv' /\ Circleq!S!InsertBefore(h, l, e)
<1>1. /\ loop' = loop /\ Absent(Circles, e) /\ Circleq!On(h, l)
      /\ next' = [next EXCEPT ![e] = l, ![prev[l]] = e]
      /\ prev' = [prev EXCEPT ![e] = prev[l], ![l] = e]
      /\ first' = [first EXCEPT ![h] = IF @ = l THEN e ELSE @]
  BY CircleqLinks, Zenon DEF Circleq!InsertBefore
<1>2. PICK j \in DOMAIN Circles[h] : Circles[h][j] = l
  BY <1>1, OnAt
<1>3. Circles' = Put(Circles, h, j, e) /\ CircleInv'
  BY <1>1, <1>2, CircleBeforeIn, Zenon DEF CircleInv
<1>4. QED
  BY <1>1, <1>2, <1>3, CircleqSeqs, Zenon

LEMMA CircleqLapBegin ==
    ASSUME CircleInv, NEW h \in Heads, NEW dir \in {"forward", "reverse"},
           Circleq!LapBegin(h, dir)
    PROVE  CircleInv'
<1> DEFINE start == IF dir = "forward" THEN first[h] ELSE Circleq!LastOf(h)
           link == Circleq!Link(dir)
<1>1. /\ first[h] # NIL
      /\ loop' = [head |-> h, dir |-> dir, start |-> start,
                  var |-> start, tvar |-> link[start],
                  due |-> {n \in Nodes : Circleq!On(h, n)}, seen |-> {start}]
      /\ UNCHANGED <<first, next, prev>>
  BY Zenon DEF Circleq!LapBegin
<1>2. start \in Range(Circles[h])
  <2>1. first[h] \in Range(Circles[h]) /\ prev[first[h]] \in Range(Circles[h])
    BY <1>1, FirstOnCircle DEF CircleInv
  <2>2. start \in {first[h], prev[first[h]]}
    BY <1>1 DEF Circleq!LastOf
  <2>3. QED
    BY <2>1, <2>2
<1>3. link \in {next, prev}
  BY DEF Circleq!Link
<1> HIDE DEF start, link
<1>4. start \in Nodes /\ link[start] \in Nodes /\ link[start] \in Range(Circles[h])
  BY <1>2, <1>3, LapOnCircle DEF CircleInv
<1>5. LapIn(Circles, loop')
  BY <1>1, <1>4 DEF LapIn, Laps
<1>6. UNCHANGED <<first, next>> /\ prev' = prev
  BY <1>1
<1>7. QED
  BY <1>5, <1>6, SameCircle DEF CircleInv

LEMMA CircleqLapNext ==
    ASSUME CircleInv, Circleq!LapNext
    PROVE  CircleInv' /\ (loop' # NoLoop => Circleq!On(loop.head, loop'.var))
<1>1. /\ loop # NoLoop /\ UNCHANGED <<first, next, prev>>
      /\ loop' = IF Circleq!LapIsOver THEN NoLoop ELSE Circleq!StepTo(loop.tvar)
  BY CircleqLinks, Zenon DEF Circleq!LapNext
<1>2. UNCHANGED <<first, next>> /\ prev' = prev
  BY <1>1
<1>3. CASE Circleq!LapIsOver
  <2>1. loop' = NoLoop
    BY <1>1, <1>3
  <2>2. QED
    BY <1>2, <2>1, SameCircle DEF CircleInv, LapIn
<1>4. CASE ~Circleq!LapIsOver
  <2> DEFINE n == loop.tvar
             link == Circleq!Link(loop.dir)
  <2>1. /\ loop \in Laps /\ loop.start = loop.var
        /\ n \in Range(Circles[loop.head]) /\ loop.head \in Heads
    BY <1>1, <1>4 DEF Circleq!LapIsOver, CircleInv, LapIn, Laps
  <2>2. link \in {next, prev}
    BY DEF Circleq!Link
  <2>3. loop' = [loop EXCEPT !.var = n, !.tvar = link[n], !.seen = @ \cup {n},
                             !.start = IF loop.var = @ THEN n ELSE @]
    BY <1>1, <1>4, Zenon DEF Circleq!StepTo
  <2> HIDE DEF n, link
  <2>4. n \in Nodes /\ link[n] \in Nodes /\ link[n] \in Range(Circles[loop.head])
    BY <2>1, <2>2, LapOnCircle DEF CircleInv
  <2>5. /\ loop' \in Laps /\ loop'.start = n /\ loop'.var = n
        /\ loop'.tvar = link[n] /\ loop'.head = loop.head
    BY <2>1, <2>3, <2>4 DEF Laps
  <2>6. LapIn(Circles, loop')
    BY <2>4, <2>5 DEF LapIn
  <2>7. CircleInv'
    BY <1>2, <2>6, SameCircle DEF CircleInv
  <2>8. Circleq!On(loop.head, loop'.var)
    BY <2>1, <2>5, CircleqLinks, Zenon
  <2>9. QED
    BY <2>7, <2>8
<1>5. QED
  BY <1>3, <1>4

LEMMA CircleqStep ==
    ASSUME CircleInv, Circleq!Next
    PROVE  CircleInv'
BY CircleqInsertHead, CircleqInsertTail, CircleqInsertAfter,
   CircleqInsertBefore, CircleqRemove, CircleqReset, CircleqLapBegin,
   CircleqLapNext, Zenon DEF Circleq!Next

LEMMA CircleqCalls ==
    ASSUME CircleInv
    PROVE  Circleq!EachCall
BY CircleqInsertHead, CircleqInsertTail, CircleqInsertAfter,
   CircleqInsertBefore, CircleqRemove, CircleqReset, Zenon
DEF Circleq!EachCall

-----------------------------------------------------------------------------
(* Whichever queue it is *)

KindOK == kind \in {"slist", "stailq", "list", "tailq", "circleq"}

(* The inductive invariant.                                                *)
IInv ==
    /\ KindOK
    /\ kind = "slist" => LineInv
    /\ kind = "stailq" => EndInv
    /\ kind = "list" => MirrorInv
    /\ kind = "tailq" => BothInv
    /\ kind = "circleq" => CircleInv

LEMMA QueuesBegin == Init => IInv
<1> SUFFICES ASSUME Init PROVE IInv
  OBVIOUS
<1>1. /\ first = [h \in Heads |-> NIL] /\ last = [h \in Heads |-> NIL]
      /\ next = [n \in Nodes |-> NIL] /\ prev = [n \in Nodes |-> NIL]
      /\ loop = NoLoop /\ KindOK
  BY Zenon DEF Init, Tailq!Init, Tailq!L!Init, Tailq!L!NoLoop, NoLoop, KindOK
<1>2. /\ Good(Lines, first, next) /\ Lasts(Lines, last) /\ Prevs(Lines, prev)
      /\ Ring(Circles, first, next, prev)
  BY <1>1, NoElements, Zenon
<1>3. LoopIn(Lines, loop) /\ LapIn(Circles, loop)
  BY <1>1, Zenon DEF LoopIn, LapIn
<1>4. QED
  BY <1>1, <1>2, <1>3, Zenon
  DEF IInv, LineInv, EndInv, MirrorInv, BothInv, CircleInv

LEMMA QueuesStay == IInv /\ UNCHANGED queueVars => IInv'
<1> SUFFICES ASSUME IInv, UNCHANGED queueVars PROVE IInv'
  OBVIOUS
<1>1. /\ first' = first /\ last' = last /\ next' = next /\ prev' = prev
      /\ loop' = loop /\ kind' = kind
  BY Zenon DEF queueVars
<1>2. Lines' = Lines /\ Circles' = Circles
  BY <1>1, Zenon DEF Lines, Circles
<1>3. QED
  BY <1>1, <1>2, Zenon
  DEF IInv, KindOK, LineInv, EndInv, MirrorInv, BothInv, CircleInv

LEMMA QueuesStep == IInv /\ [Next]_queueVars => IInv'
<1> SUFFICES ASSUME IInv, [Next]_queueVars PROVE IInv'
  OBVIOUS
<1>1. CASE UNCHANGED queueVars
  BY <1>1, QueuesStay, Zenon
<1>2. CASE Next
  <2>1. kind' = kind /\ KindOK'
    BY <1>2, Zenon DEF Next, IInv, KindOK
  <2>2. CASE kind = "slist"
    <3>1. LineInv'
      BY <1>2, <2>2, SlistStep DEF Next, IInv
    <3>2. QED
      BY <2>1, <2>2, <3>1 DEF IInv
  <2>3. CASE kind = "stailq"
    <3>1. EndInv'
      BY <1>2, <2>3, StailqStep DEF Next, IInv
    <3>2. QED
      BY <2>1, <2>3, <3>1 DEF IInv
  <2>4. CASE kind = "list"
    <3>1. MirrorInv'
      BY <1>2, <2>4, ListStep DEF Next, IInv
    <3>2. QED
      BY <2>1, <2>4, <3>1 DEF IInv
  <2>5. CASE kind = "tailq"
    <3>1. BothInv'
      BY <1>2, <2>5, TailqStep DEF Next, IInv
    <3>2. QED
      BY <2>1, <2>5, <3>1 DEF IInv
  <2>6. CASE kind = "circleq"
    <3>1. CircleInv'
      BY <1>2, <2>6, CircleqStep DEF Next, IInv
    <3>2. QED
      BY <2>1, <2>6, <3>1 DEF IInv
  <2>7. QED
    BY <2>2, <2>3, <2>4, <2>5, <2>6 DEF IInv, KindOK
<1>3. QED
  BY <1>1, <1>2

(* After every call on any queue the indices in heads and elements spell   *)
(* out one sequence of distinct elements per head, no element is in two,   *)
(* and a safe iteration in progress has its place in one.                  *)
THEOREM QueueInvariance == Spec => []IInv
<1>1. QED
  BY QueuesBegin, QueuesStep, PTL DEF Spec

(* Every call of every queue does to the sequences of its elements what    *)
(* the macro of its name says: nothing is lost, doubled or reordered, also *)
(* when a removed element with stale indices is inserted again.            *)
THEOREM QueueCalls == Spec => CallsAreSequenceCalls
<1>1. IInv => /\ kind = "slist" => Slist!EachCall
              /\ kind = "stailq" => Stailq!EachCall
              /\ kind = "list" => List!EachCall
              /\ kind = "tailq" => Tailq!EachCall
              /\ kind = "circleq" => Circleq!EachCall
  BY SlistCalls, StailqCalls, ListCalls, TailqCalls, CircleqCalls, Zenon
  DEF IInv
<1>2. QED
  BY <1>1, QueueInvariance, PTL DEF CallsAreSequenceCalls

LEMMA LastIs ==
    ASSUME EndInv
    PROVE  Stailq!LastIsLast
<1>1. ASSUME NEW h \in Heads
      PROVE  last[h] = IF Line(h) = <<>> THEN NIL ELSE Line(h)[Len(Line(h))]
  <2>1. Lines[h] = Line(h) /\ last[h] = Item(Lines[h], Len(Lines[h]))
    BY LineAt DEF EndInv, Lasts
  <2>2. Lines[h] \in Seq(Nodes)
    BY DEF EndInv, LineInv, Good, Queues
  <2>3. QED
    BY <2>1, <2>2 DEF Item
<1>2. QED
  BY <1>1, StailqLinks, Zenon DEF Stailq!LastIsLast

LEMMA PrevMirrors ==
    ASSUME MirrorInv
    PROVE  List!PrevMirrorsNext
<1>1. ASSUME NEW h \in Heads, NEW i \in DOMAIN Line(h)
      PROVE  prev[Line(h)[i]] = IF i = 1 THEN NIL ELSE Line(h)[i - 1]
  <2>1. /\ Lines[h] = Line(h) /\ Lines[h] \in Seq(Nodes)
        /\ prev[Lines[h][i]] = Item(Lines[h], i - 1)
    BY LineAt DEF MirrorInv, Prevs, LineInv, Good, Queues
  <2>2. QED
    BY <2>1 DEF Item
<1>2. QED
  BY <1>1, ListLinks, Zenon DEF List!PrevMirrorsNext

LEMMA BackReverses ==
    ASSUME BothInv
    PROVE  Tailq!BackMirrors
<1>1. ASSUME NEW h \in Heads
      PROVE  Chain(last[h], prev, NIL) = Reversed(Line(h))
  BY BackIs, LineAt DEF BothInv, LineInv, Good
<1>2. \A s, f, t : Tailq!Chain(s, f, t) = Chain(s, f, t)
  BY Zenon DEF Tailq!Chain, Chain, Tailq!Cardinality, Cardinality
<1>3. QED
  BY <1>1, <1>2, TailqLinks, Zenon DEF Tailq!BackMirrors, Reversed

LEMMA RoundReverses ==
    ASSUME CircleInv
    PROVE  Circleq!BackMirrors
<1>1. ASSUME NEW h \in Heads
      PROVE  Chain(Circleq!LastOf(h), prev, Circleq!LastOf(h))
             = Reversed(Circles[h])
  BY RingBack DEF CircleInv, Circleq!LastOf
<1>2. \A s, f, t : Circleq!Chain(s, f, t) = Chain(s, f, t)
  BY Zenon DEF Circleq!Chain, Chain, Circleq!Cardinality, Cardinality
<1>3. QED
  BY <1>1, <1>2, CircleqLinks, Zenon DEF Circleq!BackMirrors, Reversed

(* STAILQ's last index, LIST's prev, and TAILQ's and CIRCLEQ's walk        *)
(* backwards agree with first and next after every call.                   *)
THEOREM QueueEndsAgree == Spec => []EndsAndBackLinksAgree
<1>1. IInv => EndsAndBackLinksAgree
  BY LastIs, PrevMirrors, BackReverses, RoundReverses, Zenon
  DEF IInv, EndsAndBackLinksAgree
<1>2. QED
  BY <1>1, QueueInvariance, PTL

(* FOREACH_SAFE of a queue with ends comes exactly once to every element   *)
(* that stays in it, whatever else the body removes, moves and inserts.    *)
THEOREM QueueLoopsCover == Spec => []SafeLoopCovers
<1>1. LineInv => LoopCovers
  BY LoopMeets DEF LineInv, Good, LoopCovers
<1>2. IInv => SafeLoopCovers
  BY <1>1, Zenon
  DEF IInv, KindOK, EndInv, MirrorInv, BothInv, SafeLoopCovers
<1>3. QED
  BY <1>2, QueueInvariance, PTL

(* CIRCLEQ's safe iterations never leave their circle, although the body   *)
(* may remove the current element and insert it into another one.          *)
THEOREM QueueLapsStay == Spec => SafeLapStays
<1>1. IInv => (kind = "circleq" => Circleq!LapStaysOnCircle)
  BY CircleqLapNext, CircleqLinks, Zenon DEF IInv, Circleq!LapStaysOnCircle
<1>2. QED
  BY <1>1, QueueInvariance, PTL DEF SafeLapStays
=============================================================================
