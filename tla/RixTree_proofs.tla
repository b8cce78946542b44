--------------------------- MODULE RixTree_proofs ---------------------------
(***************************************************************************)
(* Theorems about the red-black tree of rix_tree.h, for every finite set   *)
(* of elements and every assignment of keys to them.  A tree has a shape:  *)
(* a set M of elements and, for each of them, the set S[n] of those from n *)
(* on down; the links are mirrored, and the keys on either side of n are   *)
(* on that side of its key.  First what the walks of FIND, NFIND, MINMAX,  *)
(* NEXT and PREV meet in a shape; then what each write, each rotation and  *)
(* each call does to it.  The last part is about the colours: b[n] counts  *)
(* the black elements on every way down from n, and a set of places P says *)
(* where one is owed, which is where REMOVE's fix-up works.                *)
(***************************************************************************)
EXTENDS RixTree, FiniteSetTheorems, NaturalsInduction, WellFoundedInduction, TLAPS

-----------------------------------------------------------------------------
(* Induction over the naturals, for a set of them.                         *)

LEMMA LeastExists ==
    ASSUME NEW S \in SUBSET Nat, S # {}
    PROVE  \E x \in S : \A y \in S : x <= y
<1>1. PICK x \in S : \A y \in S : ~(<<y, x>> \in OpToRel(<, Nat))
  BY NatLessThanWellFounded, WFMin, Zenon
<1>2. \A y \in S : ~(y < x)
  BY <1>1, Zenon DEF OpToRel
<1>3. QED
  BY <1>2

LEMMA NatInduct ==
    ASSUME NEW S \in SUBSET Nat, 0 \in S, \A n \in S : n + 1 \in S
    PROVE  S = Nat
<1>1. SUFFICES ASSUME Nat \ S # {} PROVE FALSE
  OBVIOUS
<1>2. Nat \ S \in SUBSET Nat
  OBVIOUS
<1>3. PICK x \in Nat \ S : \A y \in Nat \ S : x <= y
  BY <1>1, <1>2, LeastExists
<1>4. x - 1 \in Nat /\ x - 1 < x
  BY <1>3
<1>5. x - 1 \in S
  BY <1>3, <1>4
<1>6. (x - 1) + 1 \in S
  BY <1>5
<1>7. QED
  BY <1>3, <1>4, <1>6

-----------------------------------------------------------------------------
(* The shape of a tree.  S[n] is the set of the elements from n on down.   *)

Trees == [root : NodeOrNil, child : [Sides -> [Nodes -> NodeOrNil]],
          parent : [Nodes -> NodeOrNil], color : [Nodes -> {"red", "black"}]]

(* The key of a is on side s of that of b.                                 *)
Before(s, a, b) == IF s = "left" THEN KeyOf[a] < KeyOf[b] ELSE KeyOf[b] < KeyOf[a]

(* The links of n to its children, and what is below them.                 *)
Branch(t, M, S, n, s) ==
    /\ t.child[s][n] \in M \cup {NIL}
    /\ t.child[s][n] # NIL => t.parent[t.child[s][n]] = n
    /\ \A m \in S[t.child[s][n]] : Before(s, m, n)

Fork(t, M, S, n) ==
    /\ \A s \in Sides : Branch(t, M, S, n, s)
    /\ S[n] = {n} \cup S[t.child["left"][n]] \cup S[t.child["right"][n]]

Shape(t, M, S) ==
    /\ t \in Trees
    /\ M \subseteq Nodes
    /\ S \in [NodeOrNil -> SUBSET M]
    /\ S[NIL] = {}
    /\ t.root \in M \cup {NIL}
    /\ S[t.root] = M
    /\ t.root # NIL => t.parent[t.root] = NIL
    /\ \A n \in M : Fork(t, M, S, n)

LEMMA ShapeIs ==
    ASSUME NEW t, NEW M, NEW S, Shape(t, M, S)
    PROVE  /\ t \in Trees
           /\ M \subseteq Nodes /\ M \subseteq NodeOrNil
           /\ NIL \in NodeOrNil /\ NIL \notin M
           /\ S[NIL] = {}
           /\ \A n \in NodeOrNil : S[n] \subseteq M
           /\ t.root \in M \cup {NIL}
           /\ S[t.root] = M
           /\ t.root # NIL => t.parent[t.root] = NIL
BY NilNotNode DEF Shape, NodeOrNil

LEMMA SidesAre ==
    /\ Sides = {"left", "right"}
    /\ Other("left") = "right" /\ Other("right") = "left"
    /\ \A s \in Sides : Other(s) \in Sides /\ Other(s) # s /\ Other(Other(s)) = s
    /\ \A s, q \in Sides : q # s => q = Other(s)
BY DEF Sides, Other

LEMMA BeforeOrders ==
    /\ \A a, b \in Nodes, s \in Sides : Before(s, a, b) => ~Before(s, b, a) /\ a # b
    /\ \A a, b \in Nodes, s \in Sides : Before(s, a, b) <=> Before(Other(s), b, a)
    /\ \A a, b, c \in Nodes, s \in Sides :
         Before(s, a, b) /\ Before(s, b, c) => Before(s, a, c)
BY KeysCompare, SidesAre DEF Before

(* The same with either side first.                                        *)
LEMMA ForkIs ==
    ASSUME NEW t, NEW M, NEW S, Shape(t, M, S), NEW n \in M, NEW s \in Sides
    PROVE  /\ n \in Nodes /\ n # NIL
           /\ t.child[s][n] \in M \cup {NIL}
           /\ t.child[s][n] # NIL => t.parent[t.child[s][n]] = n
           /\ \A m \in S[t.child[s][n]] : m \in M /\ Before(s, m, n) /\ m # n
           /\ S[n] = {n} \cup S[t.child[s][n]] \cup S[t.child[Other(s)][n]]
           /\ S[n] \subseteq Nodes
           /\ S[t.child[s][n]] \cap S[t.child[Other(s)][n]] = {}
<1>1. /\ n \in Nodes /\ n # NIL
      /\ t.child[s][n] \in M \cup {NIL}
      /\ t.child[s][n] # NIL => t.parent[t.child[s][n]] = n
      /\ \A m \in S[t.child[s][n]] : Before(s, m, n)
      /\ \A m \in S[t.child[Other(s)][n]] : Before(Other(s), m, n)
      /\ S[n] = {n} \cup S[t.child["left"][n]] \cup S[t.child["right"][n]]
  BY NilNotNode, SidesAre DEF Shape, Fork, Branch
<1>2. S[n] = {n} \cup S[t.child[s][n]] \cup S[t.child[Other(s)][n]]
  BY <1>1, SidesAre
<1>3. M \subseteq Nodes /\ \A m \in NodeOrNil : S[m] \subseteq M
  BY DEF Shape
<1>4. t.child[s][n] \in NodeOrNil /\ t.child[Other(s)][n] \in NodeOrNil /\ n \in NodeOrNil
  BY <1>1, SidesAre DEF NodeOrNil, Shape, Fork, Branch
<1>5. \A m \in S[t.child[s][n]] : m \in M /\ m # n
  BY <1>1, <1>3, <1>4, BeforeOrders
<1>6. S[t.child[s][n]] \cap S[t.child[Other(s)][n]] = {}
  BY <1>1, <1>3, <1>4, BeforeOrders, SidesAre
<1>7. QED
  BY <1>1, <1>2, <1>3, <1>4, <1>5, <1>6

LEMMA ShapeFinite ==
    ASSUME NEW t, NEW M, NEW S, Shape(t, M, S)
    PROVE  /\ IsFiniteSet(M)
           /\ \A n \in NodeOrNil : IsFiniteSet(S[n]) /\ Cardinality(S[n]) \in Nat
<1>1. IsFiniteSet(M)
  BY NodesFinite, FS_Subset DEF Shape
<1>2. ASSUME NEW n \in NodeOrNil
      PROVE  IsFiniteSet(S[n]) /\ Cardinality(S[n]) \in Nat
  <2>1. S[n] \in SUBSET M
    BY DEF Shape
  <2>2. QED
    BY <1>1, <2>1, FS_Subset, FS_CardinalityType
<1>3. QED
  BY <1>1, <1>2

LEMMA Smaller ==
    ASSUME NEW t, NEW M, NEW S, Shape(t, M, S), NEW n \in M, NEW s \in Sides
    PROVE  Cardinality(S[t.child[s][n]]) < Cardinality(S[n])
<1> DEFINE A == S[t.child[s][n]]
           B == S[n]
<1>1. n \in B /\ n \notin A /\ A \subseteq B
  BY ForkIs
<1>2. IsFiniteSet(A) /\ IsFiniteSet(B) /\ Cardinality(A) \in Nat /\ Cardinality(B) \in Nat
  <2>1. n \in NodeOrNil /\ t.child[s][n] \in NodeOrNil
    BY ForkIs, ShapeIs
  <2>2. QED
    BY <2>1, ShapeFinite
<1>3. A \in SUBSET B /\ A # B
  BY <1>1
<1> HIDE DEF A, B
<1>4. Cardinality(A) <= Cardinality(B) /\ Cardinality(A) # Cardinality(B)
  BY <1>2, <1>3, FS_Subset
<1>5. Cardinality(A) < Cardinality(B)
  BY <1>2, <1>4
<1>6. QED
  BY <1>5 DEF A, B

(* What passes from the children of every element to it holds of all.      *)
LEMMA BottomUp ==
    ASSUME NEW t, NEW M, NEW S, Shape(t, M, S), NEW X,
           \A n \in M : (\A s \in Sides : t.child[s][n] \in X \cup {NIL}) => n \in X
    PROVE  M \subseteq X
<1> DEFINE K == {k \in Nat : \A n \in M : Cardinality(S[n]) < k => n \in X}
<1>1. M \subseteq NodeOrNil
  BY DEF Shape, NodeOrNil
<1>2. 0 \in K
  <2>1. \A n \in M : ~(Cardinality(S[n]) < 0)
    BY <1>1, ShapeFinite
  <2>2. QED
    BY <2>1
<1>3. ASSUME NEW k \in K PROVE k + 1 \in K
  <2>1. SUFFICES ASSUME NEW n \in M, Cardinality(S[n]) < k + 1 PROVE n \in X
    OBVIOUS
  <2>2. ASSUME NEW s \in Sides PROVE t.child[s][n] \in X \cup {NIL}
    <3>1. CASE t.child[s][n] = NIL
      BY <3>1
    <3>2. CASE t.child[s][n] \in M
      <4>1. Cardinality(S[t.child[s][n]]) < Cardinality(S[n])
        BY Smaller
      <4>2. Cardinality(S[t.child[s][n]]) \in Nat /\ Cardinality(S[n]) \in Nat
        BY <1>1, <3>2, ShapeFinite
      <4>3. Cardinality(S[t.child[s][n]]) < k
        BY <2>1, <4>1, <4>2
      <4>4. QED
        BY <3>2, <4>3
    <3>3. QED
      BY <3>1, <3>2, ForkIs
  <2>3. QED
    BY <2>2
<1>4. K = Nat
  <2>1. K \in SUBSET Nat
    OBVIOUS
  <2> HIDE DEF K
  <2>2. QED
    BY <1>2, <1>3, <2>1, NatInduct
<1>5. ASSUME NEW n \in M PROVE n \in X
  <2>1. Cardinality(S[n]) + 1 \in Nat /\ Cardinality(S[n]) < Cardinality(S[n]) + 1
    BY <1>1, ShapeFinite
  <2>2. Cardinality(S[n]) + 1 \in K
    BY <1>4, <2>1
  <2>3. QED
    BY <2>1, <2>2
<1>6. QED
  BY <1>5

(* What is below an element below n is below n.                            *)
LEMMA Nested ==
    ASSUME NEW t, NEW M, NEW S, Shape(t, M, S), NEW n \in M, NEW d \in S[n]
    PROVE  S[d] \subseteq S[n]
<1> DEFINE X == {m \in M : \A e \in S[m] : S[e] \subseteq S[m]}
<1>1. ASSUME NEW m \in M, \A s \in Sides : t.child[s][m] \in X \cup {NIL}
      PROVE  m \in X
  <2>1. SUFFICES ASSUME NEW e \in S[m] PROVE S[e] \subseteq S[m]
    OBVIOUS
  <2>2. \A s \in Sides : S[t.child[s][m]] \subseteq S[m]
    BY ForkIs, SidesAre
  <2>3. CASE e = m
    BY <2>3
  <2>4. ASSUME NEW s \in Sides, e \in S[t.child[s][m]]
        PROVE  S[e] \subseteq S[m]
    <3>1. t.child[s][m] # NIL
      BY <2>4 DEF Shape
    <3>2. t.child[s][m] \in X
      BY <1>1, <3>1
    <3>3. QED
      BY <2>2, <2>4, <3>2
  <2>5. e = m \/ \E s \in Sides : e \in S[t.child[s][m]]
    BY ForkIs, SidesAre
  <2>6. QED
    BY <2>3, <2>4, <2>5
<1>2. M \subseteq X
  <2> HIDE DEF X
  <2>1. QED
    BY <1>1, BottomUp
<1>3. QED
  BY <1>2

(* Below n everything but n hangs on an element below n.                   *)
LEMMA HangsBelow ==
    ASSUME NEW t, NEW M, NEW S, Shape(t, M, S), NEW n \in M, NEW d \in S[n], d # n
    PROVE  /\ t.parent[d] \in S[n]
           /\ \E s \in Sides : t.child[s][t.parent[d]] = d
<1> DEFINE P(e, m) == /\ t.parent[e] \in S[m]
                      /\ \E s \in Sides : t.child[s][t.parent[e]] = e
           X == {m \in M : \A e \in S[m] : e # m => P(e, m)}
<1>1. ASSUME NEW m \in M, \A s \in Sides : t.child[s][m] \in X \cup {NIL}
      PROVE  m \in X
  <2>1. SUFFICES ASSUME NEW e \in S[m], e # m PROVE P(e, m)
    OBVIOUS
  <2>2. PICK s \in Sides : e \in S[t.child[s][m]]
    BY <2>1, ForkIs, SidesAre
  <2>3. t.child[s][m] # NIL
    BY <2>2 DEF Shape
  <2>4. t.child[s][m] \in X /\ S[t.child[s][m]] \subseteq S[m] /\ m \in S[m]
    BY <1>1, <2>3, ForkIs
  <2>5. CASE e = t.child[s][m]
    <3>1. t.parent[e] = m
      BY <2>3, <2>5, ForkIs
    <3>2. QED
      BY <2>4, <2>5, <3>1
  <2>6. CASE e # t.child[s][m]
    BY <2>2, <2>4, <2>6
  <2>7. QED
    BY <2>5, <2>6
<1>2. M \subseteq X
  <2> HIDE DEF X
  <2>1. QED
    BY <1>1, BottomUp
<1>3. QED
  BY <1>2

LEMMA HangsOn ==
    ASSUME NEW t, NEW M, NEW S, Shape(t, M, S), NEW n \in M, n # t.root
    PROVE  /\ t.parent[n] \in M
           /\ \E s \in Sides : t.child[s][t.parent[n]] = n
<1>1. t.root \in M /\ n \in S[t.root]
  BY ShapeIs
<1>2. /\ t.parent[n] \in S[t.root]
      /\ \E s \in Sides : t.child[s][t.parent[n]] = n
  BY <1>1, HangsBelow
<1>3. QED
  BY <1>1, <1>2, ShapeIs

(* What passes from every element to its children holds of all.            *)
LEMMA TopDown ==
    ASSUME NEW t, NEW M, NEW S, Shape(t, M, S), NEW X,
           t.root \in M => t.root \in X,
           \A n \in M : n \in X =>
             \A s \in Sides : t.child[s][n] \in X \cup {NIL}
    PROVE  M \subseteq X
<1> DEFINE Y == {m \in M : m \in X => S[m] \subseteq X}
<1>1. ASSUME NEW m \in M, \A s \in Sides : t.child[s][m] \in Y \cup {NIL}
      PROVE  m \in Y
  <2>1. SUFFICES ASSUME m \in X PROVE S[m] \subseteq X
    OBVIOUS
  <2>2. ASSUME NEW s \in Sides PROVE S[t.child[s][m]] \subseteq X
    <3>1. CASE t.child[s][m] = NIL
      BY <3>1 DEF Shape
    <3>2. CASE t.child[s][m] # NIL
      BY <1>1, <2>1, <3>2
    <3>3. QED
      BY <3>1, <3>2
  <2>3. S[m] = {m} \cup S[t.child["left"][m]] \cup S[t.child["right"][m]]
    BY ForkIs, SidesAre
  <2>4. QED
    BY <2>1, <2>2, <2>3, SidesAre
<1>2. M \subseteq Y
  <2> HIDE DEF Y
  <2>1. QED
    BY <1>1, BottomUp
<1>3. CASE t.root = NIL
  BY <1>3 DEF Shape
<1>4. CASE t.root \in M
  BY <1>2, <1>4 DEF Shape
<1>5. QED
  BY <1>3, <1>4 DEF Shape

(* A key between two below n belongs to an element below n.                *)
LEMMA Convex ==
    ASSUME NEW t, NEW M, NEW S, Shape(t, M, S), NEW n \in M,
           NEW a \in S[n], NEW b \in S[n], NEW m \in M,
           KeyOf[a] <= KeyOf[m], KeyOf[m] <= KeyOf[b]
    PROVE  m \in S[n]
<1> DEFINE Between(d, e, f) == KeyOf[d] <= KeyOf[e] /\ KeyOf[e] <= KeyOf[f]
           X == {x \in M : \A d, f \in S[x] : \A e \in M :
                              Between(d, e, f) => e \in S[x]}
<1>1. t.root \in M => t.root \in X
  BY ShapeIs
<1>2. ASSUME NEW x \in M, x \in X, NEW s \in Sides
      PROVE  t.child[s][x] \in X \cup {NIL}
  <2> DEFINE c == t.child[s][x]
  <2>1. SUFFICES ASSUME c \in M, NEW d \in S[c], NEW f \in S[c], NEW e \in M,
                        Between(d, e, f)
                 PROVE  e \in S[c]
    BY ForkIs
  <2>2. S[x] = {x} \cup S[c] \cup S[t.child[Other(s)][x]]
    BY ForkIs
  <2>3. e \in S[x]
    BY <1>2, <2>1, <2>2
  <2>4. /\ Before(s, d, x) /\ Before(s, f, x)
        /\ d \in Nodes /\ e \in Nodes /\ f \in Nodes /\ x \in Nodes
    BY <2>1, ForkIs, ShapeIs
  <2>5. e # x
    BY <2>1, <2>4, KeysCompare DEF Before
  <2>6. CASE e \in S[t.child[Other(s)][x]]
    <3>1. Before(Other(s), e, x)
      BY <2>6, ForkIs, SidesAre
    <3>2. Before(s, x, e)
      BY <2>4, <3>1, BeforeOrders
    <3>3. QED
      BY <2>1, <2>4, <3>2, KeysCompare DEF Before
  <2>7. QED
    BY <2>2, <2>3, <2>5, <2>6
<1>3. M \subseteq X
  <2> HIDE DEF X
  <2>1. QED
    BY <1>1, <1>2, TopDown
<1>4. QED
  BY <1>3

LEMMA OneKeyEach ==
    ASSUME NEW t, NEW M, NEW S, Shape(t, M, S),
           NEW a \in M, NEW b \in M, KeyOf[a] = KeyOf[b]
    PROVE  a = b
<1>1. a \in Nodes /\ b \in Nodes /\ a \in S[a]
  BY ShapeIs, ForkIs, SidesAre
<1>2. b \in S[a]
  BY <1>1, Convex, KeysCompare
<1>3. SUFFICES ASSUME NEW s \in Sides, b \in S[t.child[s][a]] PROVE FALSE
  BY <1>2, ForkIs, SidesAre
<1>4. Before(s, b, a)
  BY <1>3, ForkIs
<1>5. QED
  BY <1>1, <1>4, KeysCompare DEF Before

-----------------------------------------------------------------------------
(* Walks                                                                   *)

(* A walk along T from wherever comes to its end.                          *)
Ends(T) ==
    /\ T \in [Nodes -> NodeOrNil]
    /\ \A X \in SUBSET Nodes :
         (\A n \in Nodes : T[n] \in X \cup {NIL} => n \in X) => X = Nodes

(* A value that is computed from the one at the next element exists.       *)
Walks(T, V, v0, H, w) ==
    /\ w \in [NodeOrNil -> V]
    /\ w[NIL] = v0
    /\ \A n \in Nodes : w[n] = H[n][w[T[n]]]

LEMMA WalkExists ==
    ASSUME NEW T, Ends(T), NEW V, NEW v0 \in V, NEW H \in [Nodes -> [V -> V]]
    PROVE  \E w : Walks(T, V, v0, H, w)
<1> DEFINE Part(D, w) == /\ w \in [D \cup {NIL} -> V]
                         /\ w[NIL] = v0
                         /\ \A n \in D : T[n] \in D \cup {NIL} /\ w[n] = H[n][w[T[n]]]
           Good(D) == D \in SUBSET Nodes /\ \E w : Part(D, w)
           N == Cardinality(Nodes)
           K == {k \in Nat : k <= N => \E D : Good(D) /\ Cardinality(D) = k}
<1>1. N \in Nat /\ \A D \in SUBSET Nodes : IsFiniteSet(D)
  BY NodesFinite, FS_CardinalityType, FS_Subset
<1>2. 0 \in K
  <2>1. Part({}, [n \in {NIL} |-> v0])
    OBVIOUS
  <2>2. Good({}) /\ Cardinality({}) = 0
    BY <2>1, FS_EmptySet
  <2> HIDE DEF Good
  <2>3. QED
    BY <2>2
<1>3. ASSUME NEW k \in K PROVE k + 1 \in K
  <2>1. SUFFICES ASSUME k + 1 <= N PROVE \E D : Good(D) /\ Cardinality(D) = k + 1
    OBVIOUS
  <2>2. k <= N /\ k \in Nat
    BY <1>1, <2>1
  <2>3. PICK D : Good(D) /\ Cardinality(D) = k
    BY <2>2
  <2>4. D # Nodes
    BY <1>1, <2>1, <2>2, <2>3
  <2>5. PICK n \in Nodes : n \notin D /\ T[n] \in D \cup {NIL}
    <3>1. D \in SUBSET Nodes
      BY <2>3
    <3>2. QED
      BY <2>4, <3>1 DEF Ends
  <2>6. PICK w : Part(D, w)
    BY <2>3
  <2> DEFINE E == D \cup {n}
             u == [m \in E \cup {NIL} |-> IF m = n THEN H[n][w[T[n]]] ELSE w[m]]
  <2>7. n # NIL
    BY NilNotNode
  <2>8. w[T[n]] \in V /\ H[n][w[T[n]]] \in V
    BY <2>5, <2>6
  <2>9. u \in [E \cup {NIL} -> V]
    BY <2>6, <2>8
  <2>10. u[NIL] = v0
    BY <2>6, <2>7
  <2>11. ASSUME NEW m \in E PROVE T[m] \in E \cup {NIL} /\ u[m] = H[m][u[T[m]]]
    <3>1. CASE m = n
      <4>1. T[n] # n /\ T[n] \in E \cup {NIL}
        BY <2>5, <2>7
      <4>2. u[T[n]] = w[T[n]]
        BY <4>1
      <4>3. QED
        BY <3>1, <4>1, <4>2
    <3>2. CASE m # n
      <4>1. m \in D /\ T[m] \in D \cup {NIL} /\ w[m] = H[m][w[T[m]]]
        BY <2>6, <3>2
      <4>2. T[m] # n /\ T[m] \in E \cup {NIL}
        BY <2>5, <2>7, <4>1
      <4>3. u[T[m]] = w[T[m]] /\ u[m] = w[m]
        BY <3>2, <4>2
      <4>4. QED
        BY <4>1, <4>2, <4>3
    <3>3. QED
      BY <3>1, <3>2
  <2>12. Part(E, u)
    <3> HIDE DEF u, E
    <3>1. QED
      BY <2>9, <2>10, <2>11
  <2>13. E \in SUBSET Nodes
    BY <2>3
  <2>14. Cardinality(E) = k + 1
    <3>1. IsFiniteSet(D)
      BY <1>1, <2>3
    <3>2. QED
      BY <2>3, <2>5, <3>1, FS_AddElement
  <2> HIDE DEF u, E, Part
  <2>15. QED
    BY <2>12, <2>13, <2>14
<1>4. K = Nat
  <2>1. K \in SUBSET Nat
    OBVIOUS
  <2> HIDE DEF K
  <2>2. QED
    BY <1>2, <1>3, <2>1, NatInduct
<1>5. PICK D : Good(D) /\ Cardinality(D) = N
  <2>1. N \in K
    BY <1>1, <1>4
  <2> HIDE DEF Good, N
  <2>2. N <= N => \E D : Good(D) /\ Cardinality(D) = N
    BY <2>1
  <2>3. QED
    BY <1>1, <2>2
<1>6. D = Nodes
  <2>1. D \in SUBSET Nodes
    BY <1>5
  <2> HIDE DEF Good
  <2>2. QED
    BY <1>5, <2>1, NodesFinite, FS_Subset
<1>7. QED
  BY <1>5, <1>6 DEF Walks, NodeOrNil

(* The recursive functions of the module have the values they should.      *)
LEMMA PassedIs ==
    ASSUME NEW T, Ends(T)
    PROVE  /\ Passed(NIL, T) = {}
           /\ \A n \in Nodes : Passed(n, T) = {n} \cup Passed(T[n], T)
           /\ \A n \in NodeOrNil : Passed(n, T) \subseteq Nodes
<1> DEFINE H == [n \in Nodes |-> [v \in SUBSET Nodes |-> {n} \cup v]]
           Eqn(w) == w = [n \in NodeOrNil |-> IF n = NIL THEN {} ELSE {n} \cup w[T[n]]]
           W == CHOOSE w : Eqn(w)
<1>1. H \in [Nodes -> [SUBSET Nodes -> SUBSET Nodes]]
  OBVIOUS
<1>2. {} \in SUBSET Nodes
  OBVIOUS
<1>3. PICK w : Walks(T, SUBSET Nodes, {}, H, w)
  <2> HIDE DEF H
  <2>1. QED
    BY <1>1, <1>2, WalkExists
<1>4. T \in [Nodes -> NodeOrNil]
  BY DEF Ends
<1>5. \A n \in NodeOrNil : w[n] \in SUBSET Nodes
  BY <1>3 DEF Walks
<1>6. \A n \in Nodes : w[n] = {n} \cup w[T[n]]
  <2>1. ASSUME NEW n \in Nodes PROVE w[n] = {n} \cup w[T[n]]
    <3>1. w[T[n]] \in SUBSET Nodes
      BY <1>4, <1>5
    <3>2. w[n] = H[n][w[T[n]]]
      BY <1>3 DEF Walks
    <3>3. QED
      BY <3>1, <3>2
  <2>2. QED
    BY <2>1
<1>7. Eqn(w)
  BY <1>3, <1>6 DEF Walks, NodeOrNil
<1>8. Eqn(W)
  <2> HIDE DEF Eqn
  <2>1. QED
    BY <1>7
<1>9. \A n \in NodeOrNil : Passed(n, T) = W[n]
  BY Zenon DEF Passed
<1> HIDE DEF W
<1>10. /\ W[NIL] = {}
       /\ \A n \in Nodes : W[n] = {n} \cup W[T[n]]
  BY <1>8, NilNotNode DEF NodeOrNil
<1>11. \A n \in NodeOrNil : W[n] \subseteq Nodes
  <2> DEFINE X == {n \in Nodes : W[n] \subseteq Nodes}
  <2>1. \A n \in Nodes : T[n] \in X \cup {NIL} => n \in X
    BY <1>10
  <2>2. X = Nodes
    <3>1. X \in SUBSET Nodes
      OBVIOUS
    <3> HIDE DEF X
    <3>2. QED
      BY <2>1, <3>1 DEF Ends
  <2>3. QED
    BY <1>10, <2>2 DEF NodeOrNil
<1>12. NIL \in NodeOrNil /\ \A n \in Nodes : n \in NodeOrNil /\ T[n] \in NodeOrNil
  BY <1>4 DEF NodeOrNil
<1>13. QED
  BY <1>9, <1>10, <1>11, <1>12

LEMMA LastOfIs ==
    ASSUME NEW T, Ends(T), NEW Q
    PROVE  /\ LastOf(Q, NIL, T) = NIL
           /\ \A n \in Nodes :
                LastOf(Q, n, T) = IF LastOf(Q, T[n], T) # NIL THEN LastOf(Q, T[n], T)
                                  ELSE IF n \in Q THEN n ELSE NIL
<1> DEFINE H == [n \in Nodes |-> [v \in NodeOrNil |->
                   IF v # NIL THEN v ELSE IF n \in Q THEN n ELSE NIL]]
           Eqn(w) == w = [n \in NodeOrNil |->
                            IF n = NIL THEN NIL
                            ELSE OrElse(w[T[n]], IF n \in Q THEN n ELSE NIL)]
           W == CHOOSE w : Eqn(w)
<1>1. H \in [Nodes -> [NodeOrNil -> NodeOrNil]]
  BY DEF NodeOrNil
<1>2. NIL \in NodeOrNil
  BY DEF NodeOrNil
<1>3. PICK w : Walks(T, NodeOrNil, NIL, H, w)
  <2> HIDE DEF H
  <2>1. QED
    BY <1>1, <1>2, WalkExists
<1>4. T \in [Nodes -> NodeOrNil]
  BY DEF Ends
<1>5. \A n \in NodeOrNil : w[n] \in NodeOrNil
  BY <1>3 DEF Walks
<1>6. \A n \in Nodes : w[n] = IF w[T[n]] # NIL THEN w[T[n]] ELSE IF n \in Q THEN n ELSE NIL
  <2>1. ASSUME NEW n \in Nodes
        PROVE  w[n] = IF w[T[n]] # NIL THEN w[T[n]] ELSE IF n \in Q THEN n ELSE NIL
    <3>1. w[T[n]] \in NodeOrNil
      BY <1>4, <1>5
    <3>2. w[n] = H[n][w[T[n]]]
      BY <1>3 DEF Walks
    <3>3. QED
      BY <3>1, <3>2
  <2>2. QED
    BY <2>1
<1>7. Eqn(w)
  BY <1>3, <1>6 DEF Walks, NodeOrNil, OrElse
<1>8. Eqn(W)
  <2> HIDE DEF Eqn
  <2>1. QED
    BY <1>7
<1>9. \A n \in NodeOrNil : LastOf(Q, n, T) = W[n]
  BY Zenon DEF LastOf
<1> HIDE DEF W
<1>10. /\ W[NIL] = NIL
       /\ \A n \in Nodes : W[n] = IF W[T[n]] # NIL THEN W[T[n]]
                                  ELSE IF n \in Q THEN n ELSE NIL
  BY <1>8, NilNotNode DEF NodeOrNil, OrElse
<1>12. NIL \in NodeOrNil /\ \A n \in Nodes : n \in NodeOrNil /\ T[n] \in NodeOrNil
  BY <1>4 DEF NodeOrNil
<1>13. QED
  BY <1>9, <1>10, <1>12

-----------------------------------------------------------------------------
(* What the tree's own walks meet                                          *)

(* The links of what is not in the tree lead nowhere or into it.           *)
Outside(t, M) ==
    \A n \in Nodes \ M : /\ t.parent[n] \in M \cup {NIL}
                         /\ \A s \in Sides : t.child[s][n] \in M \cup {NIL}

LEMMA LinksAre ==
    ASSUME NEW t \in Trees
    PROVE  /\ t.root \in NodeOrNil
           /\ t.parent \in [Nodes -> NodeOrNil]
           /\ t.color \in [Nodes -> {"red", "black"}]
           /\ t.child \in [Sides -> [Nodes -> NodeOrNil]]
           /\ \A s \in Sides : t.child[s] \in [Nodes -> NodeOrNil]
           /\ \A s \in Sides, n \in Nodes : t.child[s][n] \in NodeOrNil
BY DEF Trees

LEMMA WalksDown ==
    ASSUME NEW t, NEW M, NEW S, Shape(t, M, S), Outside(t, M),
           NEW T \in [Nodes -> NodeOrNil],
           \A n \in Nodes : T[n] = NIL \/ \E s \in Sides : T[n] = t.child[s][n]
    PROVE  Ends(T)
<1> SUFFICES ASSUME NEW X \in SUBSET Nodes,
                    \A n \in Nodes : T[n] \in X \cup {NIL} => n \in X
             PROVE  X = Nodes
  BY DEF Ends
<1>1. \A n \in M : n \in Nodes
  BY ShapeIs
<1>2. \A n \in M : (\A s \in Sides : t.child[s][n] \in X \cup {NIL}) => n \in X
  BY <1>1
<1>3. M \subseteq X
  BY <1>2, BottomUp
<1>4. ASSUME NEW n \in Nodes, n \notin M PROVE n \in X
  <2>1. \A s \in Sides : t.child[s][n] \in M \cup {NIL}
    BY <1>4 DEF Outside
  <2>2. QED
    BY <1>3, <2>1
<1>5. QED
  BY <1>3, <1>4

LEMMA WalksUp ==
    ASSUME NEW t, NEW M, NEW S, Shape(t, M, S), Outside(t, M),
           NEW T \in [Nodes -> NodeOrNil],
           \A n \in Nodes : T[n] = NIL \/ T[n] = t.parent[n]
    PROVE  Ends(T)
<1> SUFFICES ASSUME NEW X \in SUBSET Nodes,
                    \A n \in Nodes : T[n] \in X \cup {NIL} => n \in X
             PROVE  X = Nodes
  BY DEF Ends
<1>1. t.root \in M => t.root \in X
  BY ShapeIs
<1>2. \A n \in M : n \in X =>
        \A s \in Sides : t.child[s][n] \in X \cup {NIL}
  BY ForkIs, ShapeIs
<1>3. M \subseteq X
  BY <1>1, <1>2, TopDown
<1>4. ASSUME NEW n \in Nodes, n \notin M PROVE n \in X
  <2>1. t.parent[n] \in M \cup {NIL}
    BY <1>4 DEF Outside
  <2>2. QED
    BY <1>3, <2>1
<1>5. QED
  BY <1>3, <1>4

LEMMA MembersAre ==
    ASSUME NEW t, NEW M, NEW S, Shape(t, M, S), Outside(t, M)
    PROVE  Members(t) = M
<1> DEFINE Kids(w, n) == w[t.child["left"][n]] \cup w[t.child["right"][n]]
           Eqn(w) == w = [n \in NodeOrNil |->
                            IF n = NIL THEN {}
                            ELSE {n} \cup w[t.child["left"][n]] \cup w[t.child["right"][n]]]
           w0 == [n \in NodeOrNil |-> IF n \in M \cup {NIL} THEN S[n]
                                      ELSE {n} \cup Kids(S, n)]
           W == CHOOSE w : Eqn(w)
<1>1. M \subseteq Nodes /\ NIL \notin Nodes /\ S[NIL] = {}
  BY ShapeIs, NilNotNode
<1>2. ASSUME NEW n \in Nodes
      PROVE  w0[n] = {n} \cup Kids(w0, n)
  <2>1. \A s \in Sides : t.child[s][n] \in M \cup {NIL}
    BY <1>2, ForkIs DEF Outside
  <2>2. Kids(w0, n) = Kids(S, n)
    BY <1>1, <2>1, SidesAre DEF NodeOrNil
  <2>3. n \in M => S[n] = {n} \cup Kids(S, n)
    BY ForkIs, SidesAre
  <2>4. w0[n] = {n} \cup Kids(S, n)
    BY <1>1, <2>3 DEF NodeOrNil
  <2>5. QED
    BY <2>2, <2>4
<1>3. w0[NIL] = {}
  BY <1>1 DEF NodeOrNil
<1>4. DOMAIN w0 = NodeOrNil /\ w0 = [n \in NodeOrNil |-> w0[n]]
  OBVIOUS
<1> HIDE DEF w0
<1>5. Eqn(w0)
  BY <1>1, <1>2, <1>3, <1>4 DEF NodeOrNil
<1>6. Eqn(W)
  <2> HIDE DEF Eqn
  <2>1. QED
    BY <1>5
<1>7. Members(t) = W[t.root]
  BY Zenon DEF Members
<1> HIDE DEF W
<1>8. W[NIL] = {} /\ \A n \in Nodes : W[n] = {n} \cup Kids(W, n)
  <2>1. W[NIL] = {}
    BY <1>6 DEF NodeOrNil
  <2>2. ASSUME NEW n \in Nodes PROVE W[n] = {n} \cup Kids(W, n)
    <3>1. n \in NodeOrNil /\ n # NIL
      BY <1>1 DEF NodeOrNil
    <3>2. W[n] = {n} \cup W[t.child["left"][n]] \cup W[t.child["right"][n]]
      BY <1>6, <3>1
    <3>3. QED
      BY <3>2
  <2>3. QED
    BY <2>1, <2>2
<1> DEFINE X == {n \in M : W[n] = S[n]}
<1>9. ASSUME NEW n \in M, \A s \in Sides : t.child[s][n] \in X \cup {NIL}
      PROVE  n \in X
  <2>1. \A s \in Sides : W[t.child[s][n]] = S[t.child[s][n]]
    BY <1>1, <1>8, <1>9
  <2>2. S[n] = {n} \cup Kids(S, n)
    BY ForkIs, SidesAre
  <2>3. W[n] = {n} \cup Kids(W, n)
    BY <1>1, <1>8
  <2>4. QED
    BY <2>1, <2>2, <2>3, SidesAre
<1>10. M \subseteq X
  <2> HIDE DEF X
  <2>1. QED
    BY <1>9, BottomUp
<1>11. QED
  BY <1>1, <1>7, <1>8, <1>10, ShapeIs

-----------------------------------------------------------------------------
(* Lookups                                                                 *)

Extreme(s, Q) == IF s = "left" THEN First(Q) ELSE Final(Q)

LEMMA ExtremeIs ==
    ASSUME NEW t, NEW M, NEW S, Shape(t, M, S),
           NEW Q \in SUBSET M, NEW n \in Q, NEW s \in Sides,
           \A m \in Q : m # n => Before(s, n, m)
    PROVE  Extreme(s, Q) = n
<1>1. n \in Nodes /\ Q \subseteq Nodes /\ Q # {}
  BY ShapeIs
<1>2. CASE s = "left"
  <2>1. \A m \in Q : KeyOf[n] <= KeyOf[m]
    BY <1>1, <1>2, KeysCompare DEF Before
  <2>2. \A x \in Q : (\A m \in Q : KeyOf[x] <= KeyOf[m]) => x = n
    BY <1>1, <1>2, KeysCompare DEF Before
  <2>3. First(Q) = n
    BY <1>1, <2>1, <2>2 DEF First
  <2>4. QED
    BY <1>2, <2>3 DEF Extreme
<1>3. CASE s = "right"
  <2>1. \A m \in Q : KeyOf[n] >= KeyOf[m]
    BY <1>1, <1>3, KeysCompare DEF Before
  <2>2. \A x \in Q : (\A m \in Q : KeyOf[x] >= KeyOf[m]) => x = n
    BY <1>1, <1>3, KeysCompare DEF Before
  <2>3. Final(Q) = n
    BY <1>1, <2>1, <2>2 DEF Final
  <2>4. QED
    BY <1>3, <2>3 DEF Extreme
<1>4. QED
  BY <1>2, <1>3, SidesAre

LEMMA ExtremeNone == \A s : Extreme(s, {}) = NIL
BY DEF Extreme, First, Final

LEMMA EndOfIs ==
    ASSUME NEW T, Ends(T)
    PROVE  /\ EndOf(NIL, T) = NIL
           /\ \A n \in Nodes : EndOf(n, T) = IF EndOf(T[n], T) # NIL THEN EndOf(T[n], T)
                                             ELSE n
BY LastOfIs DEF EndOf

(* The end of the way down on one side.                                    *)
LEMMA OutermostIs ==
    ASSUME NEW t, NEW M, NEW S, Shape(t, M, S), Outside(t, M),
           NEW s \in Sides, NEW n \in M
    PROVE  /\ Outermost(t, s, n) \in S[n]
           /\ t.child[s][Outermost(t, s, n)] = NIL
           /\ \A m \in S[n] : m # Outermost(t, s, n) => Before(s, Outermost(t, s, n), m)
<1> DEFINE E(m) == EndOf(m, t.child[s])
           Out(x, m) == /\ x \in S[m]
                        /\ t.child[s][x] = NIL
                        /\ \A y \in S[m] : y # x => Before(s, x, y)
           X == {m \in M : Out(E(m), m)}
<1>1. Ends(t.child[s])
  BY LinksAre, ShapeIs, WalksDown
<1>2. \A m \in Nodes : E(m) = IF E(t.child[s][m]) # NIL THEN E(t.child[s][m]) ELSE m
  BY <1>1, EndOfIs
<1>3. E(NIL) = NIL
  BY <1>1, EndOfIs
<1> HIDE DEF E
<1>4. ASSUME NEW m \in M, \A q \in Sides : t.child[q][m] \in X \cup {NIL}
      PROVE  m \in X
  <2> DEFINE c == t.child[s][m]
             d == t.child[Other(s)][m]
  <2>1. /\ S[m] = {m} \cup S[c] \cup S[d]
        /\ m \in Nodes
        /\ c \in X \cup {NIL}
    BY <1>4, ForkIs
  <2>2. \A y \in S[d] : Before(s, m, y) /\ y \in Nodes
    <3>1. \A y \in S[d] : y \in M /\ Before(Other(s), y, m)
      BY ForkIs, SidesAre
    <3>2. \A y \in M : y \in Nodes
      BY ShapeIs
    <3>3. QED
      BY <2>1, <3>1, <3>2, BeforeOrders
  <2>3. CASE c = NIL
    <3>1. E(m) = m /\ S[c] = {}
      BY <1>2, <1>3, <2>1, <2>3, ShapeIs
    <3>2. Out(m, m)
      BY <2>1, <2>2, <2>3, <3>1
    <3>3. QED
      BY <3>1, <3>2
  <2>4. CASE c # NIL
    <3>1. Out(E(c), c) /\ c \in M
      BY <2>1, <2>4
    <3>2. E(c) # NIL /\ E(c) \in Nodes
      BY <3>1, ShapeIs, NilNotNode
    <3>3. E(m) = E(c)
      BY <1>2, <2>1, <3>2
    <3>4. Before(s, E(c), m)
      BY <3>1, ForkIs
    <3>5. \A y \in S[d] : Before(s, E(c), y)
      BY <2>1, <2>2, <3>2, <3>4, BeforeOrders
    <3>6. Out(E(c), m)
      BY <2>1, <3>1, <3>4, <3>5
    <3>7. QED
      BY <3>3, <3>6
  <2>5. QED
    BY <2>3, <2>4
<1>5. M \subseteq X
  <2> HIDE DEF X
  <2>1. QED
    BY <1>4, BottomUp
<1>6. Out(E(n), n)
  BY <1>5
<1>7. QED
  BY <1>6 DEF Outermost, E

LEMMA MinMaxIs ==
    ASSUME NEW t, NEW M, NEW S, Shape(t, M, S), Outside(t, M), NEW s \in Sides
    PROVE  MINMAX(t, s) = Extreme(s, M)
<1>1. CASE t.root = NIL
  <2>1. Ends(t.child[s])
    BY LinksAre, ShapeIs, WalksDown
  <2>2. MINMAX(t, s) = NIL
    BY <1>1, <2>1, EndOfIs DEF MINMAX, Outermost
  <2>3. M = {}
    BY <1>1, ShapeIs
  <2>4. QED
    BY <2>2, <2>3, ExtremeNone
<1>2. CASE t.root \in M
  <2> DEFINE x == Outermost(t, s, t.root)
  <2>1. x \in M /\ \A m \in M : m # x => Before(s, x, m)
    BY <1>2, OutermostIs, ShapeIs
  <2> HIDE DEF x
  <2>2. M \in SUBSET M
    OBVIOUS
  <2>3. Extreme(s, M) = x
    BY <2>1, <2>2, ExtremeIs
  <2>4. QED
    BY <2>3 DEF MINMAX, x
<1>3. QED
  BY <1>1, <1>2, ShapeIs

(* The next element on one side.                                           *)
LEMMA BesideIs ==
    ASSUME NEW t, NEW M, NEW S, Shape(t, M, S), Outside(t, M),
           NEW s \in Sides, NEW n \in M
    PROVE  Beside(t, s, n) = Extreme(Other(s), {m \in M : Before(s, m, n)})
<1> DEFINE Q == {m \in M : Before(s, m, n)}
           c == t.child[s][n]
<1>1. /\ n \in Nodes /\ n # NIL /\ Other(s) \in Sides /\ Other(Other(s)) = s
      /\ Child(t, s, n) = c /\ c \in M \cup {NIL} /\ M \subseteq Nodes
  BY ForkIs, SidesAre, ShapeIs DEF Child
<1>2. CASE c # NIL
  <2> DEFINE x == Outermost(t, Other(s), c)
  <2>1. c \in M
    BY <1>1, <1>2
  <2>2. x \in S[c] /\ \A m \in S[c] : m # x => Before(Other(s), x, m)
    BY <1>1, <2>1, OutermostIs
  <2> HIDE DEF x
  <2>3. x \in Q /\ S[c] \subseteq M
    BY <2>2, ForkIs, ShapeIs
  <2>4. ASSUME NEW m \in Q, m # x PROVE Before(Other(s), x, m)
    <3>1. m \in Nodes /\ x \in Nodes /\ Before(s, m, n) /\ Before(s, x, n) /\ m \in M
      BY <1>1, <2>3
    <3>2. CASE Before(s, m, x)
      BY <1>1, <3>1, <3>2, BeforeOrders
    <3>3. CASE ~Before(s, m, x)
      <4>1. n \in S[n] /\ x \in S[n]
        BY <2>2, ForkIs
      <4>2. m \in S[n]
        <5>1. CASE s = "left"
          <6>1. KeyOf[x] <= KeyOf[m] /\ KeyOf[m] <= KeyOf[n]
            BY <1>1, <3>1, <3>3, <5>1, KeysCompare DEF Before
          <6>2. QED
            BY <3>1, <4>1, <6>1, Convex
        <5>2. CASE s = "right"
          <6>1. KeyOf[n] <= KeyOf[m] /\ KeyOf[m] <= KeyOf[x]
            BY <1>1, <3>1, <3>3, <5>2, SidesAre, KeysCompare DEF Before
          <6>2. QED
            BY <3>1, <4>1, <6>1, Convex
        <5>3. QED
          BY <5>1, <5>2, SidesAre
      <4>3. m \notin S[t.child[Other(s)][n]]
        <5>1. m \in S[t.child[Other(s)][n]] => Before(Other(s), m, n)
          BY <1>1, ForkIs
        <5>2. QED
          BY <1>1, <3>1, <5>1, BeforeOrders
      <4>4. m # n
        BY <1>1, <3>1, BeforeOrders
      <4>5. m \in S[c]
        BY <4>2, <4>3, <4>4, ForkIs
      <4>6. QED
        BY <2>2, <2>4, <4>5
    <3>4. QED
      BY <3>2, <3>3
  <2>5. Q \in SUBSET M
    OBVIOUS
  <2>6. Extreme(Other(s), Q) = x
    <3> HIDE DEF Q
    <3>1. QED
      BY <1>1, <2>3, <2>4, <2>5, ExtremeIs
  <2>7. Beside(t, s, n) = x
    BY <1>1, <1>2 DEF Beside, x
  <2>8. QED
    BY <2>6, <2>7
<1>3. CASE c = NIL
  <2> DEFINE T == [m \in Nodes |-> IF m = Child(t, s, Parent(t, m)) THEN Parent(t, m)
                                   ELSE NIL]
             E(m) == EndOf(m, T)
             Top(x) == x \in M /\ T[x] = NIL /\ n \in S[x]
                       /\ \A m \in S[x] : ~Before(s, m, n)
             X == {m \in M : n \in S[m] /\ (\A y \in S[m] : ~Before(s, y, n)) => Top(E(m))}
  <2>1. t.parent \in [Nodes -> NodeOrNil] /\ \A m \in Nodes : Parent(t, m) = t.parent[m]
    BY ShapeIs, LinksAre, NilNotNode DEF Parent
  <2>2. Ends(T)
    <3>1. T \in [Nodes -> NodeOrNil]
      BY <2>1 DEF NodeOrNil
    <3>2. \A m \in Nodes : T[m] = NIL \/ T[m] = t.parent[m]
      BY <2>1
    <3> HIDE DEF T
    <3>3. QED
      BY <3>1, <3>2, WalksUp
  <2>3. /\ E(NIL) = NIL
        /\ \A m \in Nodes : E(m) = IF E(T[m]) # NIL THEN E(T[m]) ELSE m
    <3> HIDE DEF T
    <3>1. QED
      BY <2>2, EndOfIs
  <2>4. \A m \in M : T[m] # NIL =>
          /\ m # t.root /\ T[m] = t.parent[m] /\ T[m] \in M /\ m = t.child[s][T[m]]
    <3>1. SUFFICES ASSUME NEW m \in M, T[m] # NIL
                   PROVE  /\ m # t.root /\ T[m] = t.parent[m] /\ T[m] \in M
                          /\ m = t.child[s][T[m]]
      OBVIOUS
    <3>2. m \in Nodes /\ m # NIL
      BY <1>1, NilNotNode
    <3>3. T[m] = t.parent[m] /\ m = Child(t, s, t.parent[m])
      BY <2>1, <3>1, <3>2
    <3>4. m # t.root
      BY <3>1, <3>2, <3>3, ShapeIs
    <3>5. t.parent[m] \in M
      BY <3>4, HangsOn
    <3>6. QED
      BY <3>1, <3>3, <3>4, <3>5 DEF Child
  <2>5. \A m \in M : T[m] = NIL /\ m # t.root =>
          /\ t.parent[m] \in M /\ m = t.child[Other(s)][t.parent[m]]
    <3>1. SUFFICES ASSUME NEW m \in M, T[m] = NIL, m # t.root
                   PROVE  /\ t.parent[m] \in M /\ m = t.child[Other(s)][t.parent[m]]
      OBVIOUS
    <3>2. PICK q \in Sides : t.child[q][t.parent[m]] = m
      BY <3>1, HangsOn
    <3>3. t.parent[m] \in M /\ t.parent[m] # NIL
      BY <3>1, HangsOn, ShapeIs
    <3>4. q # s
      BY <1>1, <2>1, <3>1, <3>2, <3>3 DEF Child
    <3>5. QED
      BY <3>2, <3>3, <3>4, SidesAre
  <2> HIDE DEF T, E
  <2>6. t.root \in M => t.root \in X
    <3>1. SUFFICES ASSUME t.root \in M, n \in S[t.root],
                          \A y \in S[t.root] : ~Before(s, y, n)
                   PROVE  Top(E(t.root))
      OBVIOUS
    <3>2. T[t.root] = NIL
      BY <2>4, <3>1
    <3>3. E(t.root) = t.root
      BY <1>1, <2>3, <3>1, <3>2
    <3>4. QED
      BY <3>1, <3>2, <3>3
  <2>7. ASSUME NEW m \in M, m \in X, NEW q \in Sides
        PROVE  t.child[q][m] \in X \cup {NIL}
    <3> DEFINE d == t.child[q][m]
    <3>1. SUFFICES ASSUME d \in M, n \in S[d], \A y \in S[d] : ~Before(s, y, n)
                   PROVE  Top(E(d))
      BY ForkIs
    <3>2. d \in Nodes /\ d # NIL /\ t.parent[d] = m /\ m \in Nodes /\ S[d] \subseteq S[m]
      BY <1>1, <3>1, ForkIs, NilNotNode
    <3>3. CASE T[d] = NIL
      <4>1. E(d) = d
        BY <2>3, <3>2, <3>3
      <4>2. QED
        BY <3>1, <3>3, <4>1
    <3>4. CASE T[d] # NIL
      <4>1. T[d] = m /\ d = t.child[s][m]
        BY <2>4, <3>1, <3>2, <3>4
      <4>2. S[m] = {m} \cup S[d] \cup S[t.child[Other(s)][m]]
        BY <4>1, ForkIs
      <4>3. Before(s, n, m)
        BY <3>1, <4>1, ForkIs
      <4>4. ~Before(s, m, n)
        BY <1>1, <3>2, <4>3, BeforeOrders
      <4>5. ASSUME NEW y \in S[t.child[Other(s)][m]] PROVE ~Before(s, y, n)
        <5>1. y \in M /\ Before(Other(s), y, m)
          BY <1>1, ForkIs
        <5>2. Before(s, m, y)
          BY <1>1, <3>2, <5>1, BeforeOrders
        <5>3. Before(s, n, y)
          BY <1>1, <3>2, <4>3, <5>1, <5>2, BeforeOrders
        <5>4. QED
          BY <1>1, <5>1, <5>3, BeforeOrders
      <4>6. Top(E(m))
        BY <2>7, <3>1, <3>2, <4>2, <4>4, <4>5
      <4>7. E(m) # NIL
        BY <4>6, ShapeIs
      <4>8. E(d) = E(m)
        BY <2>3, <3>2, <4>1, <4>7
      <4>9. QED
        BY <4>6, <4>8
    <3>5. QED
      BY <3>3, <3>4
  <2>8. n \in X
    <3>1. M \subseteq X
      <4> HIDE DEF X
      <4>1. QED
        BY <2>6, <2>7, TopDown
    <3>2. QED
      BY <3>1
  <2>9. Top(E(n))
    <3>1. n \in S[n] /\ S[c] = {} /\ S[n] = {n} \cup S[c] \cup S[t.child[Other(s)][n]]
      BY <1>3, ForkIs, ShapeIs
    <3>2. ASSUME NEW y \in S[n] PROVE ~Before(s, y, n)
      <4>1. CASE y = n
        BY <1>1, <4>1, BeforeOrders
      <4>2. CASE y \in S[t.child[Other(s)][n]]
        <5>1. y \in M /\ Before(Other(s), y, n)
          BY <1>1, <4>2, ForkIs
        <5>2. QED
          BY <1>1, <5>1, BeforeOrders
      <4>3. QED
        BY <3>1, <4>1, <4>2
    <3>3. QED
      BY <2>8, <3>1, <3>2
  <2> DEFINE x == E(n)
  <2>10. Beside(t, s, n) = Parent(t, x)
    BY <1>1, <1>3 DEF Beside, E, T
  <2>11. Q \in SUBSET M
    OBVIOUS
  <2>12. CASE x = t.root
    <3>1. Q = {}
      BY <2>9, <2>12, ShapeIs
    <3>2. Parent(t, x) = NIL
      BY <2>9, <2>12, ShapeIs DEF Parent
    <3>3. QED
      BY <2>10, <3>1, <3>2, ExtremeNone
  <2>13. CASE x # t.root
    <3> DEFINE p == t.parent[x]
    <3>1. p \in M /\ x = t.child[Other(s)][p] /\ x \in M
      BY <2>5, <2>9, <2>13
    <3>2. Parent(t, x) = p
      BY <1>1, <2>1, <3>1
    <3> HIDE DEF x, p
    <3>3. /\ S[p] = {p} \cup S[x] \cup S[t.child[s][p]]
          /\ Before(Other(s), n, p)
      BY <1>1, <2>9, <3>1, ForkIs DEF x
    <3>4. p \in Nodes /\ p \in Q
      BY <1>1, <3>1, <3>3, BeforeOrders
    <3>5. ASSUME NEW m \in Q, m # p PROVE Before(Other(s), p, m)
      <4>1. m \in M /\ m \in Nodes /\ Before(s, m, n)
        BY <1>1
      <4>2. m \notin S[x]
        BY <2>9, <4>1 DEF x
      <4>3. CASE Before(s, m, p)
        BY <1>1, <3>4, <4>1, <4>3, BeforeOrders
      <4>4. CASE ~Before(s, m, p)
        <5>1. n \in S[p] /\ p \in S[p]
          BY <2>9, <3>3 DEF x
        <5>2. m \in S[p]
          <6>1. CASE s = "left"
            <7>1. KeyOf[p] <= KeyOf[m] /\ KeyOf[m] <= KeyOf[n]
              BY <1>1, <3>4, <4>1, <4>4, <6>1, KeysCompare DEF Before
            <7>2. QED
              BY <3>1, <4>1, <5>1, <7>1, Convex
          <6>2. CASE s = "right"
            <7>1. KeyOf[n] <= KeyOf[m] /\ KeyOf[m] <= KeyOf[p]
              BY <1>1, <3>4, <4>1, <4>4, <6>2, SidesAre, KeysCompare DEF Before
            <7>2. QED
              BY <3>1, <4>1, <5>1, <7>1, Convex
          <6>3. QED
            BY <6>1, <6>2, SidesAre
        <5>3. m \in S[t.child[s][p]]
          BY <3>3, <3>5, <4>2, <5>2
        <5>4. Before(s, m, p)
          BY <3>1, <5>3, ForkIs
        <5>5. QED
          BY <4>4, <5>4
      <4>5. QED
        BY <4>3, <4>4
    <3>6. Extreme(Other(s), Q) = p
      <4> HIDE DEF Q
      <4>1. QED
        BY <1>1, <2>11, <3>4, <3>5, ExtremeIs
    <3>7. QED
      BY <2>10, <3>2, <3>6 DEF x
  <2>14. QED
    BY <2>12, <2>13
<1>4. QED
  BY <1>2, <1>3

(* The way down to a key.                                                  *)
OnSide(s, j, k) == IF s = "left" THEN j < k ELSE k < j

Descends(t, M, S, k, y) ==
    /\ y \in M
    /\ \A m \in M : KeyOf[m] = k => y = m
    /\ \A s \in Sides : OnSide(s, k, KeyOf[y]) => t.child[s][y] = NIL
    /\ \A z \in M, s \in Sides : y \in S[t.child[s][z]] => OnSide(s, k, KeyOf[z])

LEMMA DescentIs ==
    ASSUME NEW t, NEW M, NEW S, Shape(t, M, S), Outside(t, M), NEW k \in Int
    PROVE  /\ t.root = NIL => EndOf(t.root, Descent(t, k)) = NIL
           /\ t.root # NIL => Descends(t, M, S, k, EndOf(t.root, Descent(t, k)))
<1> DEFINE T == Descent(t, k)
           E(m) == EndOf(m, T)
           Down(y, m) ==
             /\ y \in S[m]
             /\ \A x \in S[m] : KeyOf[x] = k => y = x
             /\ \A s \in Sides : OnSide(s, k, KeyOf[y]) => t.child[s][y] = NIL
             /\ \A z \in S[m] : \A s \in Sides :
                  y \in S[t.child[s][z]] => OnSide(s, k, KeyOf[z])
           X == {m \in M : Down(E(m), m)}
<1>1. /\ NIL \notin Nodes /\ M \subseteq Nodes /\ KeyOf \in [Nodes -> Int]
      /\ NIL \notin M /\ S[NIL] = {}
  BY NilNotNode, KeysCompare, ShapeIs
<1>2. \A m \in Nodes : /\ \A s \in Sides : OnSide(s, k, KeyOf[m]) => T[m] = t.child[s][m]
                       /\ KeyOf[m] = k => T[m] = NIL
                       /\ KeyOf[m] = k \/ \E s \in Sides : OnSide(s, k, KeyOf[m])
  <2>1. SUFFICES ASSUME NEW m \in Nodes
                 PROVE  /\ \A s \in Sides : OnSide(s, k, KeyOf[m]) => T[m] = t.child[s][m]
                        /\ KeyOf[m] = k => T[m] = NIL
                        /\ KeyOf[m] = k \/ \E s \in Sides : OnSide(s, k, KeyOf[m])
    OBVIOUS
  <2>2. KeyOf[m] \in Int /\ m # NIL
    BY <1>1
  <2>3. T[m] = IF k < KeyOf[m] THEN t.child["left"][m]
               ELSE IF k > KeyOf[m] THEN t.child["right"][m] ELSE NIL
    BY <2>2 DEF Descent, Child
  <2>4. QED
    BY <2>2, <2>3, SidesAre DEF OnSide
<1>3. Ends(T)
  <2>1. T \in [Nodes -> NodeOrNil]
    <3>1. ASSUME NEW m \in Nodes PROVE T[m] \in NodeOrNil
      BY <1>2, LinksAre, ShapeIs
    <3>2. T = [m \in Nodes |-> T[m]]
      BY DEF Descent
    <3> HIDE DEF T
    <3>3. QED
      BY <3>1, <3>2
  <2>2. \A m \in Nodes : T[m] = NIL \/ \E s \in Sides : T[m] = t.child[s][m]
    BY <1>2
  <2> HIDE DEF T
  <2>3. QED
    BY <2>1, <2>2, WalksDown
<1>4. E(NIL) = NIL /\ \A m \in Nodes : E(m) = IF E(T[m]) # NIL THEN E(T[m]) ELSE m
  <2> HIDE DEF T
  <2>1. QED
    BY <1>3, EndOfIs
<1> HIDE DEF T, E
<1>5. ASSUME NEW m \in M, \A s \in Sides : t.child[s][m] \in X \cup {NIL}
      PROVE  m \in X
  <2>1. m \in Nodes /\ m \in S[m] /\ \A z \in S[m] : z \in M /\ z \in Nodes
    BY <1>1, ForkIs, SidesAre, ShapeIs
  <2>2. CASE T[m] = NIL
    <3>1. E(m) = m
      BY <1>4, <2>1, <2>2
    <3>2. \A s \in Sides : OnSide(s, k, KeyOf[m]) => t.child[s][m] = NIL
      BY <1>2, <2>1, <2>2
    <3>3. ASSUME NEW x \in S[m], KeyOf[x] = k PROVE m = x
      <4>1. SUFFICES ASSUME NEW s \in Sides, x \in S[t.child[s][m]] PROVE FALSE
        BY ForkIs, SidesAre
      <4>2. Before(s, x, m)
        BY <4>1, ForkIs
      <4>3. OnSide(s, k, KeyOf[m])
        BY <3>3, <4>2 DEF OnSide, Before
      <4>4. QED
        BY <1>1, <3>2, <4>1, <4>3
    <3>4. ASSUME NEW z \in S[m], NEW s \in Sides, m \in S[t.child[s][z]] PROVE FALSE
      <4>1. z \in M /\ z \in S[z] /\ S[z] \subseteq S[m] /\ m \in S[z] /\ m # z
        BY <2>1, <3>4, ForkIs, Nested
      <4>2. PICK q \in Sides : z \in S[t.child[q][m]]
        BY <4>1, ForkIs, SidesAre
      <4>3. t.child[q][m] \in M
        BY <1>1, <4>2, ForkIs
      <4>4. S[z] \subseteq S[t.child[q][m]]
        BY <4>2, <4>3, Nested
      <4>5. m \in S[t.child[q][m]]
        BY <4>1, <4>4
      <4>6. QED
        BY <4>5, ForkIs
    <3>5. QED
      BY <2>1, <3>1, <3>2, <3>3, <3>4
  <2>3. CASE T[m] # NIL
    <3>1. PICK s \in Sides : OnSide(s, k, KeyOf[m])
      BY <1>2, <2>1, <2>3
    <3> DEFINE c == t.child[s][m]
               d == t.child[Other(s)][m]
    <3>2. T[m] = c /\ c \in M /\ c \in X
      BY <1>2, <1>5, <2>1, <2>3, <3>1
    <3>3. Down(E(c), c)
      BY <3>2
    <3> DEFINE y == E(c)
    <3>4. E(m) = y /\ y \in S[c]
      BY <1>1, <1>4, <2>1, <3>2, <3>3, ShapeIs
    <3>5. S[m] = {m} \cup S[c] \cup S[d] /\ S[c] \cap S[d] = {} /\ m \notin S[c]
      BY ForkIs
    <3>6. \A x \in S[m] : KeyOf[x] = k => x \in S[c]
      <4>1. SUFFICES ASSUME NEW x \in S[m], KeyOf[x] = k, x \notin S[c] PROVE FALSE
        OBVIOUS
      <4>2. x # m
        BY <1>1, <2>1, <3>1, <4>1 DEF OnSide
      <4>3. Before(Other(s), x, m)
        BY <3>5, <4>1, <4>2, ForkIs, SidesAre
      <4>4. QED
        BY <1>1, <2>1, <3>1, <4>1, <4>3, SidesAre DEF OnSide, Before
    <3> HIDE DEF y
    <3>7. ASSUME NEW z \in S[m], NEW q \in Sides, y \in S[t.child[q][z]]
          PROVE  OnSide(q, k, KeyOf[z])
      <4>1. CASE z = m
        <5>1. q = s
          BY <3>4, <3>5, <3>7, <4>1, SidesAre
        <5>2. QED
          BY <3>1, <4>1, <5>1
      <4>2. CASE z \in S[c]
        BY <3>3, <3>7, <4>2 DEF y
      <4>3. CASE z \in S[d]
        <5>1. d \in M
          BY <1>1, <4>3, ForkIs, SidesAre
        <5>2. z \in M /\ S[z] \subseteq S[d]
          BY <2>1, <3>7, <4>3, <5>1, Nested
        <5>3. y \in S[z]
          BY <3>7, <5>2, ForkIs
        <5>4. QED
          BY <3>4, <3>5, <5>2, <5>3
      <4>4. QED
        BY <3>5, <4>1, <4>2, <4>3
    <3>8. /\ y \in S[m]
          /\ \A x \in S[m] : KeyOf[x] = k => y = x
          /\ \A q \in Sides : OnSide(q, k, KeyOf[y]) => t.child[q][y] = NIL
      BY <3>3, <3>4, <3>5, <3>6 DEF y
    <3>9. Down(y, m)
      BY <3>7, <3>8
    <3>10. QED
      BY <3>4, <3>9
  <2>4. QED
    BY <2>2, <2>3
<1>6. M \subseteq X
  <2> HIDE DEF X
  <2>1. QED
    BY <1>5, BottomUp
<1>7. t.root # NIL => Down(E(t.root), t.root) /\ S[t.root] = M
  BY <1>6, ShapeIs
<1>8. QED
  BY <1>4, <1>7 DEF Descends, E, T

LEMMA FindIs ==
    ASSUME NEW t, NEW M, NEW S, Shape(t, M, S), Outside(t, M), NEW k \in Int
    PROVE  /\ \A m \in M : KeyOf[m] = k => FIND(t, k) = m
           /\ (\A m \in M : KeyOf[m] # k) => FIND(t, k) = NIL
<1> DEFINE y == EndOf(t.root, Descent(t, k))
<1>1. FIND(t, k) = IF y # NIL /\ KeyOf[y] = k THEN y ELSE NIL
  BY DEF FIND
<1>2. t.root = NIL => y = NIL /\ M = {}
  BY DescentIs, ShapeIs
<1>3. t.root # NIL => Descends(t, M, S, k, y)
  BY DescentIs
<1> HIDE DEF y
<1>4. QED
  BY <1>1, <1>2, <1>3, ShapeIs DEF Descends

LEMMA NFindIs ==
    ASSUME NEW t, NEW M, NEW S, Shape(t, M, S), Outside(t, M), NEW k \in Int
    PROVE  NFIND(t, k) = First({m \in M : k <= KeyOf[m]})
<1> DEFINE Q == {n \in Nodes : k <= KeyOf[n]}
           T == [n \in Nodes |-> Child(t, IF k <= KeyOf[n] THEN "left" ELSE "right", n)]
           E(m) == LastOf(Q, m, T)
           Least(m) == Extreme("left", {x \in S[m] : k <= KeyOf[x]})
           X == {m \in M : E(m) = Least(m)}
<1>1. /\ NIL \notin Nodes /\ M \subseteq Nodes /\ KeyOf \in [Nodes -> Int]
      /\ NIL \notin M /\ S[NIL] = {} /\ "left" \in Sides /\ "right" \in Sides
      /\ Other("left") = "right"
  BY NilNotNode, KeysCompare, ShapeIs, SidesAre
<1>2. \A m \in Nodes : /\ k <= KeyOf[m] => T[m] = t.child["left"][m]
                       /\ ~(k <= KeyOf[m]) => T[m] = t.child["right"][m]
  BY <1>1 DEF Child
<1>3. Ends(T)
  <2>1. T \in [Nodes -> NodeOrNil]
    <3>1. ASSUME NEW m \in Nodes PROVE T[m] \in NodeOrNil
      BY <1>1, <1>2, LinksAre, ShapeIs
    <3>2. T = [m \in Nodes |-> T[m]]
      OBVIOUS
    <3> HIDE DEF T
    <3>3. QED
      BY <3>1, <3>2
  <2>2. \A m \in Nodes : T[m] = NIL \/ \E s \in Sides : T[m] = t.child[s][m]
    BY <1>1, <1>2
  <2> HIDE DEF T
  <2>3. QED
    BY <2>1, <2>2, WalksDown
<1>4. /\ E(NIL) = NIL
      /\ \A m \in Nodes : E(m) = IF E(T[m]) # NIL THEN E(T[m])
                                  ELSE IF m \in Q THEN m ELSE NIL
  <2> HIDE DEF T, Q
  <2>1. QED
    BY <1>3, LastOfIs
<1> HIDE DEF T, E
<1>5. Least(NIL) = NIL
  <2>1. {x \in S[NIL] : k <= KeyOf[x]} = {}
    BY <1>1
  <2>2. QED
    BY <2>1, ExtremeNone
<1>6. ASSUME NEW m \in M, \A s \in Sides : t.child[s][m] \in X \cup {NIL}
      PROVE  m \in X
  <2> DEFINE c == t.child["left"][m]
             d == t.child["right"][m]
             A == {x \in S[c] : k <= KeyOf[x]}
             B == {x \in S[d] : k <= KeyOf[x]}
             Z == {x \in S[m] : k <= KeyOf[x]}
  <2>1. /\ m \in Nodes /\ S[m] = {m} \cup S[c] \cup S[d]
        /\ \A x \in S[c] : x \in M /\ KeyOf[x] < KeyOf[m]
        /\ \A x \in S[d] : x \in M /\ KeyOf[m] < KeyOf[x]
    BY <1>1, ForkIs DEF Before
  <2>2. E(c) = Extreme("left", A) /\ E(d) = Extreme("left", B)
    BY <1>1, <1>4, <1>5, <1>6
  <2>3. CASE ~(k <= KeyOf[m])
    <3>1. Z = B
      BY <1>1, <2>1, <2>3
    <3>2. E(m) = E(d)
      BY <1>2, <1>4, <2>1, <2>3
    <3>3. QED
      BY <2>2, <3>1, <3>2
  <2>4. CASE k <= KeyOf[m] /\ A = {}
    <3>1. m \in Z /\ Z \subseteq M /\ \A x \in Z : x # m => Before("left", m, x)
      BY <2>1, <2>4 DEF Before
    <3>2. Z \in SUBSET M
      BY <3>1
    <3>3. Extreme("left", Z) = m
      <4> HIDE DEF Z
      <4>1. QED
        BY <1>1, <3>1, <3>2, ExtremeIs
    <3>4. E(c) = NIL
      BY <2>2, <2>4, ExtremeNone
    <3>5. E(m) = m
      BY <1>2, <1>4, <2>1, <2>4, <3>4
    <3>6. QED
      BY <3>3, <3>5
  <2>5. CASE k <= KeyOf[m] /\ A # {}
    <3> DEFINE I == {KeyOf[x] - k : x \in A}
    <3>1. \A x \in A : KeyOf[x] - k \in Nat
      BY <1>1, <2>1
    <3>2. I \in SUBSET Nat /\ I # {}
      BY <2>5, <3>1
    <3>3. PICK i \in I : \A j \in I : i <= j
      <4> HIDE DEF I
      <4>1. QED
        BY <3>2, LeastExists
    <3>4. PICK a \in A : i = KeyOf[a] - k
      BY <3>3
    <3>5. \A x \in A : KeyOf[a] <= KeyOf[x]
      <4>1. SUFFICES ASSUME NEW x \in A PROVE KeyOf[a] <= KeyOf[x]
        OBVIOUS
      <4>2. KeyOf[x] \in Int /\ KeyOf[a] \in Int
        BY <1>1, <2>1, <3>4
      <4>3. KeyOf[x] - k \in I
        OBVIOUS
      <4>4. KeyOf[a] - k <= KeyOf[x] - k
        BY <3>3, <3>4, <4>3
      <4>5. QED
        BY <4>2, <4>4
    <3>6. A \in SUBSET M /\ Z \in SUBSET M /\ a \in Z
      BY <2>1, <3>4
    <3>7. \A x \in A : x # a => Before("left", a, x)
      <4>1. SUFFICES ASSUME NEW x \in A, x # a PROVE Before("left", a, x)
        OBVIOUS
      <4>2. x \in M /\ a \in M /\ KeyOf[x] \in Int /\ KeyOf[a] \in Int
        BY <1>1, <3>6
      <4>3. KeyOf[x] # KeyOf[a]
        BY <4>1, <4>2, OneKeyEach
      <4>4. KeyOf[a] <= KeyOf[x]
        BY <3>5, <4>1
      <4>5. QED
        BY <4>2, <4>3, <4>4 DEF Before
    <3>8. \A x \in Z : x # a => Before("left", a, x)
      <4>1. SUFFICES ASSUME NEW x \in Z, x # a PROVE Before("left", a, x)
        OBVIOUS
      <4>2. CASE x \in A
        BY <3>7, <4>1, <4>2
      <4>3. CASE x \notin A
        <5>1. x = m \/ x \in S[d]
          BY <2>1, <4>1, <4>3
        <5>2. KeyOf[a] < KeyOf[m] /\ x \in Nodes /\ a \in Nodes
          BY <1>1, <2>1, <3>4, <3>6, <4>1
        <5>3. KeyOf[m] <= KeyOf[x]
          BY <1>1, <2>1, <5>1
        <5>4. QED
          BY <1>1, <2>1, <5>2, <5>3 DEF Before
      <4>4. QED
        BY <4>2, <4>3
    <3>9. Extreme("left", A) = a /\ Extreme("left", Z) = a
      <4> HIDE DEF A, Z
      <4>1. QED
        BY <1>1, <3>4, <3>6, <3>7, <3>8, ExtremeIs
    <3>10. E(c) = a /\ a # NIL
      BY <1>1, <2>2, <3>6, <3>9
    <3>11. E(m) = a
      BY <1>2, <1>4, <2>1, <2>5, <3>10
    <3>12. QED
      BY <3>9, <3>11
  <2>6. QED
    BY <2>3, <2>4, <2>5
<1>7. M \subseteq X
  <2> HIDE DEF X
  <2>1. QED
    BY <1>6, BottomUp
<1>8. E(t.root) = Least(t.root) /\ S[t.root] = M
  BY <1>4, <1>5, <1>7, ShapeIs
<1>9. QED
  BY <1>8 DEF NFIND, E, T, Extreme

LEMMA LookupsAre ==
    ASSUME NEW M, NEW S, Shape(tree, M, S), Outside(tree, M)
    PROVE  LookupsAgree
<1>1. Members(tree) = M
  BY MembersAre
<1>2. /\ M \subseteq Nodes /\ KeyOf \in [Nodes -> Int] /\ "left" \in Sides /\ "right" \in Sides
      /\ Other("left") = "right" /\ Other("right") = "left"
  BY KeysCompare, ShapeIs, SidesAre
<1>3. MINMAX(tree, "left") = First(M) /\ MINMAX(tree, "right") = Final(M)
  BY <1>2, MinMaxIs DEF Extreme
<1>4. ASSUME NEW n \in Nodes
      PROVE  FIND(tree, KeyOf[n]) = First({m \in M : KeyOf[m] = KeyOf[n]})
  <2> DEFINE Q == {m \in M : KeyOf[m] = KeyOf[n]}
  <2>1. KeyOf[n] \in Int
    BY <1>2
  <2>2. CASE Q = {}
    <3>1. FIND(tree, KeyOf[n]) = NIL
      BY <2>1, <2>2, FindIs
    <3>2. QED
      BY <2>2, <3>1 DEF First
  <2>3. ASSUME NEW m \in Q PROVE FIND(tree, KeyOf[n]) = First(Q)
    <3>1. FIND(tree, KeyOf[n]) = m
      BY <2>1, FindIs
    <3>2. Q = {m}
      BY OneKeyEach
    <3>3. First(Q) = m
      BY <1>2, <3>2 DEF First
    <3>4. QED
      BY <3>1, <3>3
  <2>4. QED
    BY <2>2, <2>3
<1>5. ASSUME NEW n \in Nodes
      PROVE  NFIND(tree, KeyOf[n]) = First({m \in M : KeyOf[m] = KeyOf[n]}
                                            \cup {m \in M : KeyOf[m] > KeyOf[n]})
  <2>1. {m \in M : KeyOf[n] <= KeyOf[m]} = {m \in M : KeyOf[m] = KeyOf[n]}
                                            \cup {m \in M : KeyOf[m] > KeyOf[n]}
    BY <1>2
  <2>2. NFIND(tree, KeyOf[n]) = First({m \in M : KeyOf[n] <= KeyOf[m]})
    BY <1>2, NFindIs
  <2>3. QED
    BY <2>1, <2>2
<1>6. ASSUME NEW n \in M
      PROVE  /\ Beside(tree, "right", n) = First({m \in M : KeyOf[m] > KeyOf[n]})
             /\ Beside(tree, "left", n) = Final({m \in M : KeyOf[m] < KeyOf[n]})
  <2>1. /\ {m \in M : Before("right", m, n)} = {m \in M : KeyOf[m] > KeyOf[n]}
        /\ {m \in M : Before("left", m, n)} = {m \in M : KeyOf[m] < KeyOf[n]}
    BY <1>2 DEF Before
  <2>2. /\ Beside(tree, "right", n) = Extreme("left", {m \in M : Before("right", m, n)})
        /\ Beside(tree, "left", n) = Extreme("right", {m \in M : Before("left", m, n)})
    BY <1>2, BesideIs
  <2>3. QED
    BY <2>1, <2>2 DEF Extreme
<1>7. QED
  BY <1>1, <1>3, <1>4, <1>5, <1>6, Zenon DEF LookupsAgree

-----------------------------------------------------------------------------
(* The writes.  r is t after each of them.                                 *)

Hung(t, n, p, r) ==
    /\ r \in Trees /\ r.root = t.root /\ r.color = t.color /\ r.child = t.child
    /\ \A m \in Nodes : r.parent[m] = IF m = n THEN p ELSE t.parent[m]

Painted(t, n, c, r) ==
    /\ r \in Trees /\ r.root = t.root /\ r.parent = t.parent /\ r.child = t.child
    /\ \A m \in Nodes : r.color[m] = IF m = n THEN c ELSE t.color[m]

ChildSet(t, s, p, c, r) ==
    /\ r \in Trees /\ r.root = t.root /\ r.color = t.color
    /\ \A z \in Sides, m \in Nodes :
         r.child[z][m] = IF m = p /\ z = s THEN c ELSE t.child[z][m]
    /\ \A m \in Nodes : r.parent[m] = IF m = c THEN p ELSE t.parent[m]

RootSet(t, n, r) ==
    /\ r \in Trees /\ r.root = n /\ r.color = t.color /\ r.child = t.child
    /\ \A m \in Nodes : r.parent[m] = IF m = n THEN NIL ELSE t.parent[m]

Transplanted(t, u, v, p, q, r) ==
    /\ r \in Trees /\ r.color = t.color
    /\ r.root = IF p = NIL THEN v ELSE t.root
    /\ \A z \in Sides, m \in Nodes :
         r.child[z][m] = IF m = p /\ z = q THEN v ELSE t.child[z][m]
    /\ \A m \in Nodes : r.parent[m] = IF m = v THEN p ELSE t.parent[m]

LEMMA HangIs ==
    ASSUME NEW t \in Trees, NEW n \in NodeOrNil, NEW p \in NodeOrNil
    PROVE  Hung(t, n, p, Hang(t, n, p))
<1> DEFINE r == Hang(t, n, p)
<1>1. CASE n = NIL
  BY <1>1, NilNotNode DEF Hang, Hung
<1>2. CASE n \in Nodes
  <2>1. r = [t EXCEPT !.parent[n] = p]
    BY <1>2, NilNotNode DEF Hang
  <2>2. QED
    BY <1>2, <2>1 DEF Trees, Hung
<1>3. QED
  BY <1>1, <1>2 DEF NodeOrNil

LEMMA PaintIs ==
    ASSUME NEW t \in Trees, NEW n \in NodeOrNil, NEW c \in {"red", "black"}
    PROVE  Painted(t, n, c, Paint(t, n, c))
<1> DEFINE r == Paint(t, n, c)
<1>1. CASE n = NIL
  BY <1>1, NilNotNode DEF Paint, Painted
<1>2. CASE n \in Nodes
  <2>1. r = [t EXCEPT !.color[n] = c]
    BY <1>2, NilNotNode DEF Paint
  <2>2. QED
    BY <1>2, <2>1 DEF Trees, Painted
<1>3. QED
  BY <1>1, <1>2 DEF NodeOrNil

LEMMA SetChildIs ==
    ASSUME NEW t \in Trees, NEW s \in Sides, NEW p \in NodeOrNil, NEW c \in NodeOrNil
    PROVE  ChildSet(t, s, p, c, SetChild(t, s, p, c))
<1> DEFINE u == IF p = NIL THEN t ELSE [t EXCEPT !.child[s][p] = c]
           r == SetChild(t, s, p, c)
<1>1. /\ u \in Trees /\ u.root = t.root /\ u.color = t.color /\ u.parent = t.parent
      /\ \A z \in Sides, m \in Nodes :
           u.child[z][m] = IF m = p /\ z = s THEN c ELSE t.child[z][m]
  <2>1. CASE p = NIL
    BY <2>1, NilNotNode
  <2>2. CASE p \in Nodes
    <3>1. u = [t EXCEPT !.child[s][p] = c]
      BY <2>2, NilNotNode
    <3>2. t.child[s] \in [Nodes -> NodeOrNil] /\ t.child \in [Sides -> [Nodes -> NodeOrNil]]
      BY LinksAre
    <3>3. u.child = [t.child EXCEPT ![s] = [@ EXCEPT ![p] = c]]
      BY <3>1 DEF Trees
    <3>4. u.child \in [Sides -> [Nodes -> NodeOrNil]]
      BY <2>2, <3>2, <3>3
    <3>5. /\ u.root = t.root /\ u.color = t.color /\ u.parent = t.parent
          /\ u = [root |-> u.root, child |-> u.child, parent |-> u.parent, color |-> u.color]
      BY <3>1 DEF Trees
    <3>6. u \in Trees
      BY <3>4, <3>5, LinksAre DEF Trees
    <3>7. \A z \in Sides, m \in Nodes :
           u.child[z][m] = IF m = p /\ z = s THEN c ELSE t.child[z][m]
      BY <2>2, <3>2, <3>3
    <3>8. QED
      BY <3>5, <3>6, <3>7
  <2>3. QED
    BY <2>1, <2>2 DEF NodeOrNil
<1>2. r = Hang(u, c, p)
  BY DEF SetChild
<1> HIDE DEF u, r
<1>3. Hung(u, c, p, r)
  BY <1>1, <1>2, HangIs
<1>4. ChildSet(t, s, p, c, r)
  BY <1>1, <1>3 DEF Hung, ChildSet
<1>5. QED
  BY <1>4 DEF r

LEMMA SetRootIs ==
    ASSUME NEW t \in Trees, NEW n \in NodeOrNil
    PROVE  RootSet(t, n, SetRoot(t, n))
<1> DEFINE u == [t EXCEPT !.root = n]
           r == SetRoot(t, n)
<1>1. u \in Trees /\ u.root = n /\ u.color = t.color /\ u.child = t.child /\ u.parent = t.parent
  BY DEF Trees
<1>2. r = Hang(u, n, NIL) /\ NIL \in NodeOrNil
  BY DEF SetRoot, NodeOrNil
<1> HIDE DEF u, r
<1>3. Hung(u, n, NIL, r)
  BY <1>1, <1>2, HangIs
<1>4. RootSet(t, n, r)
  BY <1>1, <1>3 DEF Hung, RootSet
<1>5. QED
  BY <1>4 DEF r

LEMMA TransplantIs ==
    ASSUME NEW t \in Trees, NEW u \in Nodes, NEW v \in NodeOrNil
    PROVE  Transplanted(t, u, v, t.parent[u], SideOf(t, u), Transplant(t, u, v))
<1> DEFINE r == Transplant(t, u, v)
           p == t.parent[u]
           q == SideOf(t, u)
<1>1. Parent(t, u) = p /\ p \in NodeOrNil /\ q \in Sides
  BY NilNotNode, LinksAre, SidesAre DEF Parent, SideOf
<1>2. CASE p = NIL
  <2>1. r = SetRoot(t, v)
    BY <1>1, <1>2 DEF Transplant
  <2>2. RootSet(t, v, r)
    BY <2>1, SetRootIs
  <2>3. QED
    BY <1>2, <2>2, NilNotNode DEF RootSet, Transplanted
<1>3. CASE p # NIL
  <2>1. r = SetChild(t, q, p, v)
    BY <1>1, <1>3 DEF Transplant
  <2>2. ChildSet(t, q, p, v, r)
    <3> HIDE DEF p, q
    <3>1. QED
      BY <1>1, <2>1, SetChildIs
  <2>3. QED
    BY <1>3, <2>2 DEF ChildSet, Transplanted
<1>4. QED
  BY <1>2, <1>3

-----------------------------------------------------------------------------
(* The place an element hangs at                                           *)

PlaceOf(t, n) == IF n = t.root THEN {} ELSE {<<t.parent[n], SideOf(t, n)>>}

LEMMA PlaceIs ==
    ASSUME NEW t, NEW M, NEW S, Shape(t, M, S), NEW n \in M
    PROVE  /\ n = t.root <=> t.parent[n] = NIL
           /\ n # t.root => /\ t.parent[n] \in M /\ t.parent[n] # n
                            /\ t.child[SideOf(t, n)][t.parent[n]] = n
           /\ SideOf(t, n) \in Sides
           /\ \A m \in M, s \in Sides :
                t.child[s][m] = n => n # t.root /\ m = t.parent[n] /\ s = SideOf(t, n)
<1>1. n # NIL /\ (n = t.root => t.parent[n] = NIL) /\ NIL \notin M
  BY ShapeIs
<1>2. SideOf(t, n) \in Sides
  BY SidesAre DEF SideOf
<1>3. ASSUME NEW m \in M, NEW s \in Sides, t.child[s][m] = n
      PROVE  n # t.root /\ m = t.parent[n] /\ s = SideOf(t, n) /\ m # n
  <2>1. m = t.parent[n] /\ m # NIL /\ n # t.root
    BY <1>1, <1>3, ForkIs, ShapeIs
  <2>2. Parent(t, n) = m /\ Child(t, "left", m) = t.child["left"][m]
    BY <1>1, <2>1 DEF Parent, Child
  <2>3. n \in S[n] /\ S[t.child[s][m]] \cap S[t.child[Other(s)][m]] = {} /\ m \notin S[n]
    BY <1>3, ForkIs, SidesAre
  <2>4. t.child[Other(s)][m] # n
    BY <1>3, <2>3
  <2>5. s = "left" <=> n = t.child["left"][m]
    BY <1>3, <2>4, SidesAre
  <2>6. QED
    BY <2>1, <2>2, <2>3, <2>5, SidesAre DEF SideOf
<1>4. ASSUME n # t.root
      PROVE  /\ t.parent[n] \in M /\ t.parent[n] # n
             /\ t.child[SideOf(t, n)][t.parent[n]] = n
  <2>1. t.parent[n] \in M /\ \E s \in Sides : t.child[s][t.parent[n]] = n
    BY <1>4, HangsOn
  <2>2. QED
    BY <1>3, <2>1
<1>5. QED
  BY <1>1, <1>2, <1>3, <1>4

-----------------------------------------------------------------------------
(* Rotations                                                               *)

(* r is t with x gone down on side s and its child y in its place.         *)
Turned(t, r, s, x, y) ==
    /\ r \in Trees
    /\ r.root = IF x = t.root THEN y ELSE t.root
    /\ \A z \in Sides, m \in Nodes :
         r.child[z][m] = IF m = y /\ z = s THEN x
                         ELSE IF m = x /\ z = Other(s) THEN t.child[s][y]
                         ELSE IF <<m, z>> \in PlaceOf(t, x) THEN y
                         ELSE t.child[z][m]
    /\ \A m \in Nodes :
         r.parent[m] = IF m = x THEN y
                       ELSE IF m = y THEN t.parent[x]
                       ELSE IF m = t.child[s][y] THEN x
                       ELSE t.parent[m]

LEMMA Around ==
    ASSUME NEW t, NEW M, NEW S, Shape(t, M, S), NEW s \in Sides, NEW x \in M,
           NEW y \in M, y = t.child[Other(s)][x]
    PROVE  /\ x \in Nodes /\ y \in Nodes /\ x # y /\ x # NIL /\ y # NIL
           /\ t.child[s][y] # x /\ t.child[s][y] # y
           /\ t.child[Other(s)][y] # x /\ t.child[Other(s)][y] # y
           /\ t.child[s][x] # x /\ t.child[s][x] # y
           /\ t.child[s][x] # NIL => t.child[s][x] # t.child[s][y]
           /\ t.child[Other(s)][y] # NIL => t.child[Other(s)][y] # t.child[s][y]
           /\ t.parent[x] # x /\ t.parent[x] # y /\ t.parent[y] = x
           /\ t.child[s][y] # NIL => t.parent[x] # t.child[s][y]
           /\ y # t.root
           /\ \A z \in Sides : t.child[z][x] \in M \cup {NIL} /\ t.child[z][y] \in M \cup {NIL}
           /\ t.child[s][y] # NIL => t.parent[t.child[s][y]] = y
           /\ y \in S[x] /\ t.parent[x] \in M \cup {NIL} /\ t.parent[x] \notin S[x]
<1> DEFINE A == t.child[s][x]
           B == t.child[s][y]
           C == t.child[Other(s)][y]
<1>1. /\ x \in Nodes /\ y \in Nodes /\ x # NIL /\ y # NIL
      /\ Other(s) \in Sides /\ Other(Other(s)) = s /\ S[NIL] = {}
      /\ M \subseteq NodeOrNil /\ NIL \notin M
  BY ShapeIs, SidesAre, NilNotNode
<1>2. /\ S[x] = {x} \cup S[A] \cup S[y] /\ S[A] \cap S[y] = {}
      /\ A \in M \cup {NIL}
      /\ \A m \in S[A] : m # x
  BY <1>1, ForkIs
<1>3. t.parent[y] = x /\ \A m \in S[y] : m # x
  BY <1>1, ForkIs
<1>4. /\ S[y] = {y} \cup S[B] \cup S[C] /\ (B # NIL => B # C)
      /\ B \in M \cup {NIL} /\ \A m \in S[B] : m # y
      /\ B # NIL => t.parent[B] = y
  <2>1. S[y] = {y} \cup S[B] \cup S[C] /\ B \in M \cup {NIL}
    BY ForkIs
  <2>2. ASSUME B \in M, B = C PROVE FALSE
    <3>1. \A m \in M, z \in Sides : t.child[z][m] = B => z = SideOf(t, B)
      BY <2>2, PlaceIs
    <3>2. s = SideOf(t, B) /\ Other(s) = SideOf(t, B)
      BY <1>1, <2>2, <3>1
    <3>3. QED
      BY <3>2, SidesAre
  <2>3. \A m \in S[B] : m # y
    BY ForkIs
  <2>4. B # NIL => t.parent[B] = y
    BY ForkIs
  <2>5. QED
    BY <2>1, <2>2, <2>3, <2>4
<1>5. C \in M \cup {NIL} /\ \A m \in S[C] : m # y
  BY <1>1, ForkIs
<1>6. \A m \in M : m \in S[m]
  BY <1>1, ForkIs
<1>7. t.parent[x] \in M => x \in S[t.parent[x]] /\ t.parent[x] \notin S[x]
  <2>1. SUFFICES ASSUME t.parent[x] \in M
                 PROVE  x \in S[t.parent[x]] /\ t.parent[x] \notin S[x]
    OBVIOUS
  <2>2. x # t.root
    BY <1>1, <2>1, PlaceIs
  <2> DEFINE p == t.parent[x]
             q == SideOf(t, x)
  <2>3. t.child[q][p] = x /\ q \in Sides /\ p \in M
    BY <2>1, <2>2, PlaceIs
  <2> HIDE DEF p, q
  <2>4. S[p] = {p} \cup S[x] \cup S[t.child[Other(q)][p]] /\ \A m \in S[x] : m # p
    BY <2>3, ForkIs
  <2>5. QED
    BY <1>6, <2>4 DEF p
<1>8. t.parent[x] \in M \cup {NIL}
  BY PlaceIs, ShapeIs
<1>9. y # t.root
  BY <1>1, <1>3, ShapeIs
<1>10. \A z \in Sides : t.child[z][x] \in M \cup {NIL} /\ t.child[z][y] \in M \cup {NIL}
  BY ForkIs
<1> DEFINE p == t.parent[x]
<1>11. x \in S[x] /\ y \in S[x] /\ (A # NIL => A \in S[A]) /\ (B # NIL => B \in S[B])
       /\ (C # NIL => C \in S[C]) /\ y \in S[y]
  BY <1>1, <1>2, <1>4, <1>5, <1>6
<1>12. p \notin S[x]
  BY <1>1, <1>2, <1>7, <1>8, ShapeIs
<1> HIDE DEF A, B, C, p
<1>13. /\ x # y /\ B # x /\ B # y /\ C # x /\ C # y /\ A # x /\ A # y
       /\ (A # NIL => A # B) /\ (C # NIL => C # B)
       /\ p # x /\ p # y /\ (B # NIL => p # B)
  BY <1>1, <1>2, <1>3, <1>4, <1>5, <1>11, <1>12
<1>14. QED
  BY <1>1, <1>3, <1>4, <1>8, <1>9, <1>10, <1>11, <1>12, <1>13, Zenon DEF A, B, C, p

LEMMA RotateIs ==
    ASSUME NEW t, NEW M, NEW S, Shape(t, M, S), NEW s \in Sides, NEW x \in M,
           NEW y \in M, y = t.child[Other(s)][x]
    PROVE  /\ Turned(t, Rotate(t, s, x), s, x, y)
           /\ Rotate(t, s, x).color = t.color
<1> DEFINE B == t.child[s][y]
           p == t.parent[x]
           q == SideOf(t, x)
           lent == SetChild(t, Other(s), x, B)
           over == Transplant(lent, x, y)
           r == Rotate(t, s, x)
<1>1. /\ t \in Trees /\ x \in Nodes /\ y \in Nodes /\ x # y /\ x # NIL /\ y # NIL
      /\ Other(s) \in Sides /\ Other(s) # s /\ B \in NodeOrNil /\ B # x /\ B # y
      /\ x \in NodeOrNil /\ y \in NodeOrNil
      /\ p # x /\ p # y /\ (B # NIL => p # B) /\ p \in NodeOrNil
      /\ NIL \notin Nodes
  BY Around, ShapeIs, SidesAre, LinksAre, NilNotNode
<1>2. r = SetChild(over, s, y, x)
  BY <1>1 DEF Rotate, Child
<1> HIDE DEF r
<1>3. ChildSet(t, Other(s), x, B, lent)
  <2> HIDE DEF B
  <2>1. QED
    BY <1>1, SetChildIs
<1>4. lent \in Trees /\ lent.parent[x] = p
  BY <1>1, <1>3, Zenon DEF ChildSet
<1>5. SideOf(lent, x) = q
  <2>1. \A z \in Sides, m \in Nodes :
           lent.child[z][m] = IF m = x /\ z = Other(s) THEN B ELSE t.child[z][m]
    BY <1>3, Zenon DEF ChildSet
  <2> HIDE DEF lent
  <2>2. "left" \in Sides /\ (p = NIL \/ p \in Nodes)
    BY <1>1, SidesAre DEF NodeOrNil
  <2>3. Child(lent, "left", p) = Child(t, "left", p)
    BY <1>1, <2>1, <2>2 DEF Child
  <2>4. Parent(lent, x) = p /\ Parent(t, x) = p
    BY <1>1, <1>4 DEF Parent
  <2>5. QED
    BY <2>3, <2>4 DEF SideOf
<1> HIDE DEF lent
<1>6. Transplanted(lent, x, y, p, q, over)
  <2>1. Transplanted(lent, x, y, lent.parent[x], SideOf(lent, x), Transplant(lent, x, y))
    BY <1>1, <1>4, TransplantIs
  <2>2. QED
    BY <1>4, <1>5, <2>1
<1> HIDE DEF over
<1>7. over \in Trees
  BY <1>6 DEF Transplanted
<1>8. ChildSet(over, s, y, x, r)
  BY <1>1, <1>2, <1>7, SetChildIs
<1> HIDE DEF p, q
<1>9. /\ r \in Trees /\ r.root = over.root /\ r.color = over.color
      /\ \A z \in Sides, m \in Nodes :
           r.child[z][m] = IF m = y /\ z = s THEN x ELSE over.child[z][m]
      /\ \A m \in Nodes : r.parent[m] = IF m = x THEN y ELSE over.parent[m]
  BY <1>8 DEF ChildSet
<1>10. /\ over.color = lent.color /\ over.root = IF p = NIL THEN y ELSE lent.root
       /\ \A z \in Sides, m \in Nodes :
            over.child[z][m] = IF m = p /\ z = q THEN y ELSE lent.child[z][m]
       /\ \A m \in Nodes : over.parent[m] = IF m = y THEN p ELSE lent.parent[m]
  BY <1>6 DEF Transplanted
<1>11. /\ lent.root = t.root /\ lent.color = t.color
       /\ \A z \in Sides, m \in Nodes :
            lent.child[z][m] = IF m = x /\ z = Other(s) THEN B ELSE t.child[z][m]
       /\ \A m \in Nodes : lent.parent[m] = IF m = B THEN x ELSE t.parent[m]
  BY <1>3 DEF ChildSet
<1>12. /\ \A m \in Nodes, z \in Sides : <<m, z>> \in PlaceOf(t, x) <=> m = p /\ z = q
       /\ x = t.root <=> p = NIL
  <2>1. x = t.root <=> p = NIL
    BY PlaceIs DEF p
  <2>2. PlaceOf(t, x) = IF x = t.root THEN {} ELSE {<<p, q>>}
    BY DEF PlaceOf, p, q
  <2>3. QED
    BY <1>1, <2>1, <2>2
<1>13. r.root = IF x = t.root THEN y ELSE t.root
  BY <1>9, <1>10, <1>11, <1>12
<1>14. ASSUME NEW z \in Sides, NEW m \in Nodes
       PROVE  r.child[z][m] = IF m = y /\ z = s THEN x
                              ELSE IF m = x /\ z = Other(s) THEN B
                              ELSE IF <<m, z>> \in PlaceOf(t, x) THEN y
                              ELSE t.child[z][m]
  <2>1. r.child[z][m] = IF m = y /\ z = s THEN x ELSE over.child[z][m]
    BY <1>9
  <2>2. over.child[z][m] = IF m = p /\ z = q THEN y ELSE lent.child[z][m]
    BY <1>10
  <2>3. lent.child[z][m] = IF m = x /\ z = Other(s) THEN B ELSE t.child[z][m]
    BY <1>11
  <2>4. <<m, z>> \in PlaceOf(t, x) <=> m = p /\ z = q
    BY <1>12
  <2>5. QED
    BY <1>1, <2>1, <2>2, <2>3, <2>4
<1>15. ASSUME NEW m \in Nodes
       PROVE  r.parent[m] = IF m = x THEN y
                            ELSE IF m = y THEN p
                            ELSE IF m = B THEN x
                            ELSE t.parent[m]
  BY <1>1, <1>9, <1>10, <1>11
<1>16. Turned(t, r, s, x, y)
  BY <1>9, <1>13, <1>14, <1>15, Zenon DEF Turned, B, p
<1>17. r.color = t.color
  BY <1>9, <1>10, <1>11
<1>18. QED
  BY <1>16, <1>17 DEF r

LEMMA PlacesAre ==
    ASSUME NEW t, NEW M, NEW S, Shape(t, M, S), NEW n \in M
    PROVE  /\ \A m \in M, z \in Sides : <<m, z>> \in PlaceOf(t, n) <=> t.child[z][m] = n
           /\ \A m, z : <<m, z>> \in PlaceOf(t, n) => m \in M /\ z \in Sides
<1>1. ASSUME NEW m, NEW z, <<m, z>> \in PlaceOf(t, n)
      PROVE  m \in M /\ z \in Sides /\ t.child[z][m] = n
  <2>1. n # t.root /\ <<m, z>> = <<t.parent[n], SideOf(t, n)>>
    BY <1>1 DEF PlaceOf
  <2>2. m = t.parent[n] /\ z = SideOf(t, n)
    BY <2>1
  <2>3. QED
    BY <2>1, <2>2, PlaceIs
<1>2. ASSUME NEW m \in M, NEW z \in Sides, t.child[z][m] = n
      PROVE  <<m, z>> \in PlaceOf(t, n)
  <2>1. n # t.root /\ m = t.parent[n] /\ z = SideOf(t, n)
    BY <1>2, PlaceIs
  <2>2. QED
    BY <2>1 DEF PlaceOf
<1>3. QED
  BY <1>1, <1>2

LEMMA ForkMade ==
    ASSUME NEW t, NEW M, NEW S, NEW n, NEW s \in Sides,
           Branch(t, M, S, n, s), Branch(t, M, S, n, Other(s)),
           S[n] = {n} \cup S[t.child[s][n]] \cup S[t.child[Other(s)][n]]
    PROVE  Fork(t, M, S, n)
<1>1. \A z \in Sides : z = s \/ z = Other(s)
  BY SidesAre
<1>2. \A z \in Sides : Branch(t, M, S, n, z)
  BY <1>1
<1>3. S[n] = {n} \cup S[t.child["left"][n]] \cup S[t.child["right"][n]]
  BY SidesAre
<1>4. QED
  BY <1>2, <1>3 DEF Fork

(* Nothing outside the tree has its links changed.                         *)
SameOutside(t, r, M) ==
    \A n \in Nodes \ M : /\ r.parent[n] = t.parent[n]
                         /\ \A z \in Sides : r.child[z][n] = t.child[z][n]

TurnedBelow(t, S, s, x, y) ==
    [n \in NodeOrNil |-> IF n = y THEN S[x]
                         ELSE IF n = x THEN {x} \cup S[t.child[s][x]] \cup S[t.child[s][y]]
                         ELSE S[n]]

LEMMA ShapeTurns ==
    ASSUME NEW t, NEW M, NEW S, Shape(t, M, S), NEW s \in Sides, NEW x \in M,
           NEW y \in M, y = t.child[Other(s)][x], NEW r, Turned(t, r, s, x, y)
    PROVE  /\ Shape(r, M, TurnedBelow(t, S, s, x, y))
           /\ SameOutside(t, r, M)
<1> DEFINE Q == TurnedBelow(t, S, s, x, y)
           A == t.child[s][x]
           B == t.child[s][y]
           C == t.child[Other(s)][y]
<1>1. /\ x \in Nodes /\ y \in Nodes /\ x # y /\ x # NIL /\ y # NIL
      /\ B # x /\ B # y /\ C # x /\ C # y /\ A # x /\ A # y
      /\ (A # NIL => A # B) /\ (C # NIL => C # B)
      /\ t.parent[x] # x /\ t.parent[x] # y /\ t.parent[y] = x /\ y # t.root
      /\ A \in M \cup {NIL} /\ B \in M \cup {NIL} /\ C \in M \cup {NIL}
      /\ (B # NIL => t.parent[B] = y) /\ y \in S[x]
  BY Around, SidesAre
<1>2. /\ Other(s) \in Sides /\ Other(s) # s /\ Other(Other(s)) = s
      /\ M \subseteq Nodes /\ NIL \notin M /\ S[NIL] = {} /\ NIL \in NodeOrNil
      /\ \A n \in NodeOrNil : S[n] \subseteq M
      /\ M \subseteq NodeOrNil
  BY SidesAre, ShapeIs
<1>3. /\ r \in Trees
      /\ r.root = IF x = t.root THEN y ELSE t.root
      /\ \A z \in Sides, m \in Nodes :
           r.child[z][m] = IF m = y /\ z = s THEN x
                           ELSE IF m = x /\ z = Other(s) THEN B
                           ELSE IF <<m, z>> \in PlaceOf(t, x) THEN y
                           ELSE t.child[z][m]
      /\ \A m \in Nodes :
           r.parent[m] = IF m = x THEN y
                         ELSE IF m = y THEN t.parent[x]
                         ELSE IF m = B THEN x
                         ELSE t.parent[m]
  BY Zenon DEF Turned
<1>4. /\ \A m \in M, z \in Sides : <<m, z>> \in PlaceOf(t, x) <=> t.child[z][m] = x
      /\ \A m, z : <<m, z>> \in PlaceOf(t, x) => m \in M /\ z \in Sides
  BY PlacesAre
<1>5. /\ Q[y] = S[x] /\ Q[x] = {x} \cup S[A] \cup S[B]
      /\ \A n \in NodeOrNil : n # x /\ n # y => Q[n] = S[n]
      /\ DOMAIN Q = NodeOrNil /\ Q = [n \in NodeOrNil |-> Q[n]]
  BY <1>1, <1>2, Zenon DEF TurnedBelow
<1> HIDE DEF Q
<1>6. /\ S[x] = {x} \cup S[A] \cup S[y] /\ \A m \in S[A] : Before(s, m, x)
      /\ (A # NIL => t.parent[A] = x)
  <2>1. S[x] = {x} \cup S[A] \cup S[y] /\ (A # NIL => t.parent[A] = x)
    BY ForkIs
  <2>2. \A m \in S[A] : Before(s, m, x)
    BY ForkIs
  <2>3. QED
    BY <2>1, <2>2
<1>7. /\ S[y] = {y} \cup S[B] \cup S[C] /\ \A m \in S[B] : Before(s, m, y)
  <2>1. S[y] = {y} \cup S[B] \cup S[C]
    BY ForkIs
  <2>2. \A m \in S[B] : Before(s, m, y)
    BY ForkIs
  <2>3. QED
    BY <2>1, <2>2
<1>8. (\A m \in S[C] : Before(Other(s), m, y)) /\ (C # NIL => t.parent[C] = y)
  BY <1>2, ForkIs
<1>9. \A m \in S[y] : Before(Other(s), m, x)
  BY <1>2, ForkIs
<1>10. y \in S[y]
  BY <1>7
<1> HIDE DEF A, B, C
<1>11. Fork(r, M, Q, x)
  <2>1. r.child[s][x] = A /\ r.child[Other(s)][x] = B
    <3>1. ~(<<x, s>> \in PlaceOf(t, x))
      BY <1>1, <1>4 DEF A
    <3>2. QED
      BY <1>1, <1>2, <1>3, <3>1 DEF A
  <2>2. Q[A] = S[A] /\ Q[B] = S[B]
    BY <1>1, <1>2, <1>5
  <2>3. Branch(r, M, Q, x, s)
    <3>1. A # NIL => r.parent[A] = x
      BY <1>1, <1>2, <1>3, <1>6
    <3>2. QED
      BY <1>1, <1>6, <2>1, <2>2, <3>1 DEF Branch
  <2>4. Branch(r, M, Q, x, Other(s))
    <3>1. B # NIL => r.parent[B] = x
      BY <1>1, <1>2, <1>3
    <3>2. QED
      BY <1>1, <1>7, <1>9, <2>1, <2>2, <3>1 DEF Branch
  <2>5. Q[x] = {x} \cup Q[r.child[s][x]] \cup Q[r.child[Other(s)][x]]
    BY <1>5, <2>1, <2>2
  <2>6. QED
    BY <2>3, <2>4, <2>5, ForkMade
<1>12. Fork(r, M, Q, y)
  <2>1. r.child[s][y] = x /\ r.child[Other(s)][y] = C
    <3>1. ~(<<y, Other(s)>> \in PlaceOf(t, x))
      BY <1>1, <1>2, <1>4 DEF C
    <3>2. QED
      BY <1>1, <1>2, <1>3, <3>1 DEF C
  <2>2. Q[C] = S[C]
    BY <1>1, <1>2, <1>5
  <2>3. Branch(r, M, Q, y, s)
    <3>1. r.parent[x] = y
      BY <1>1, <1>3
    <3>2. Before(s, x, y)
      BY <1>1, <1>2, <1>9, <1>10, BeforeOrders
    <3>3. \A m \in S[A] : Before(s, m, y)
      <4>1. \A m \in S[A] : m \in Nodes
        BY <1>1, <1>2
      <4>2. QED
        BY <1>1, <1>6, <3>2, <4>1, BeforeOrders
    <3>4. \A m \in Q[x] : Before(s, m, y)
      BY <1>5, <1>7, <3>2, <3>3
    <3>5. QED
      BY <2>1, <3>1, <3>4 DEF Branch
  <2>4. Branch(r, M, Q, y, Other(s))
    <3>1. C # NIL => r.parent[C] = y
      BY <1>1, <1>2, <1>3, <1>8
    <3>2. QED
      BY <1>1, <1>8, <2>1, <2>2, <3>1 DEF Branch
  <2>5. Q[y] = {y} \cup Q[r.child[s][y]] \cup Q[r.child[Other(s)][y]]
    BY <1>5, <1>6, <1>7, <2>1, <2>2
  <2>6. QED
    BY <2>3, <2>4, <2>5, ForkMade
<1>13. ASSUME NEW n \in M, n # x, n # y PROVE Fork(r, M, Q, n)
  <2>1. ASSUME NEW z \in Sides
        PROVE  Branch(r, M, Q, n, z) /\ Q[r.child[z][n]] = S[t.child[z][n]]
    <3> DEFINE c == t.child[z][n]
    <3>1. c \in M \cup {NIL} /\ (c # NIL => t.parent[c] = n)
      BY ForkIs
    <3>2. \A m \in S[c] : Before(z, m, n)
      BY ForkIs
    <3>3. n \in Nodes
      BY <1>2
    <3>4. CASE c = x
      <4>1. r.child[z][n] = y
        BY <1>3, <1>4, <1>13, <3>3, <3>4
      <4>2. r.parent[y] = n
        BY <1>1, <1>3, <3>1, <3>4
      <4>3. Q[y] = S[c]
        BY <1>5, <3>4
      <4>4. QED
        BY <3>2, <4>1, <4>2, <4>3 DEF Branch
    <3>5. CASE c # x
      <4>1. r.child[z][n] = c
        BY <1>3, <1>4, <1>13, <3>3, <3>5
      <4>2. c # y
        BY <1>1, <1>13, <3>1
      <4>3. c # NIL => r.parent[c] = n
        BY <1>1, <1>2, <1>3, <1>13, <3>1, <3>5, <4>2
      <4>4. Q[c] = S[c]
        BY <1>2, <1>5, <3>1, <3>5, <4>2
      <4>5. QED
        BY <3>1, <3>2, <4>1, <4>3, <4>4 DEF Branch
    <3>6. QED
      BY <3>4, <3>5
  <2>2. S[n] = {n} \cup S[t.child[s][n]] \cup S[t.child[Other(s)][n]]
    BY ForkIs
  <2>3. Q[n] = S[n]
    BY <1>2, <1>5, <1>13
  <2>4. Q[n] = {n} \cup Q[r.child[s][n]] \cup Q[r.child[Other(s)][n]]
    BY <1>2, <2>1, <2>2, <2>3
  <2>5. QED
    BY <1>2, <2>1, <2>4, ForkMade
<1>14. Shape(r, M, Q)
  <2>1. Q \in [NodeOrNil -> SUBSET M]
    <3>1. \A n \in NodeOrNil : Q[n] \in SUBSET M
      BY <1>1, <1>2, <1>5
    <3>2. QED
      BY <1>5, <3>1
  <2>2. Q[NIL] = {}
    BY <1>1, <1>2, <1>5
  <2>3. r.root \in M \cup {NIL} /\ Q[r.root] = M /\ (r.root # NIL => r.parent[r.root] = NIL)
    <3>1. t.root \in M \cup {NIL} /\ S[t.root] = M /\ (t.root # NIL => t.parent[t.root] = NIL)
      BY ShapeIs
    <3>2. CASE t.root = x
      BY <1>1, <1>3, <1>5, <3>1, <3>2
    <3>3. CASE t.root # x
      <4>1. r.root = t.root
        BY <1>3, <3>3
      <4>2. t.root # NIL => t.root # B
        BY <1>1, <3>1
      <4>3. QED
        BY <1>1, <1>2, <1>3, <1>5, <3>1, <3>3, <4>1, <4>2
    <3>4. QED
      BY <3>2, <3>3
  <2>4. \A n \in M : Fork(r, M, Q, n)
    BY <1>11, <1>12, <1>13
  <2>5. QED
    BY <1>2, <1>3, <2>1, <2>2, <2>3, <2>4, Zenon DEF Shape
<1>15. SameOutside(t, r, M)
  <2>1. ASSUME NEW n \in Nodes \ M
        PROVE  /\ r.parent[n] = t.parent[n]
               /\ \A z \in Sides : r.child[z][n] = t.child[z][n]
    <3>1. n # x /\ n # y /\ n # B /\ n \in Nodes
      BY <1>1, NilNotNode
    <3>2. \A z \in Sides : ~(<<n, z>> \in PlaceOf(t, x))
      BY <1>4
    <3>3. QED
      BY <1>3, <3>1, <3>2
  <2>2. QED
    BY <2>1 DEF SameOutside
<1>16. QED
  BY <1>14, <1>15 DEF Q

-----------------------------------------------------------------------------
(* What changes the elements in the tree                                   *)

(* The elements of M have the links in r that they have in t.              *)
Agree(t, r, M) ==
    /\ r \in Trees
    /\ r.root = t.root
    /\ \A n \in M : /\ r.parent[n] = t.parent[n]
                    /\ \A z \in Sides : r.child[z][n] = t.child[z][n]

LEMMA ShapeAgrees ==
    ASSUME NEW t, NEW M, NEW S, Shape(t, M, S), NEW r, Agree(t, r, M)
    PROVE  Shape(r, M, S)
<1>1. /\ r \in Trees /\ r.root = t.root
      /\ \A n \in M : r.parent[n] = t.parent[n]
      /\ \A n \in M, z \in Sides : r.child[z][n] = t.child[z][n]
  BY DEF Agree
<1>2. ASSUME NEW n \in M PROVE Fork(r, M, S, n)
  <2>1. ASSUME NEW z \in Sides PROVE Branch(r, M, S, n, z)
    <3>1. /\ t.child[z][n] \in M \cup {NIL}
          /\ (t.child[z][n] # NIL => t.parent[t.child[z][n]] = n)
      BY ForkIs
    <3>2. \A m \in S[t.child[z][n]] : Before(z, m, n)
      BY ForkIs
    <3>3. QED
      BY <1>1, <3>1, <3>2 DEF Branch
  <2>2. S[n] = {n} \cup S[t.child["left"][n]] \cup S[t.child["right"][n]]
    BY ForkIs, SidesAre
  <2>3. QED
    BY <1>1, <2>1, <2>2, SidesAre DEF Fork
<1>3. S \in [NodeOrNil -> SUBSET M]
  BY DEF Shape
<1>4. t.root # NIL => r.parent[r.root] = NIL
  BY <1>1, ShapeIs
<1>5. QED
  BY <1>1, <1>2, <1>3, <1>4, ShapeIs DEF Shape

(* The leaf e hangs on y.                                                  *)
Grown(t, s, y, e, r) ==
    /\ r \in Trees
    /\ r.root = t.root
    /\ \A z \in Sides, m \in Nodes :
         r.child[z][m] = IF m = e THEN NIL ELSE IF m = y /\ z = s THEN e ELSE t.child[z][m]
    /\ \A m \in Nodes : r.parent[m] = IF m = e THEN y ELSE t.parent[m]

GrownBelow(S, y, e) ==
    [n \in NodeOrNil |-> IF n = e THEN {e} ELSE IF y \in S[n] THEN S[n] \cup {e} ELSE S[n]]

LEMMA ShapeGrows ==
    ASSUME NEW t, NEW M, NEW S, Shape(t, M, S), NEW s \in Sides, NEW y \in M,
           NEW e \in Nodes, e \notin M, t.child[s][y] = NIL, Before(s, e, y),
           \A n \in M, z \in Sides : y \in S[t.child[z][n]] => Before(z, e, n),
           NEW r, Grown(t, s, y, e, r)
    PROVE  Shape(r, M \cup {e}, GrownBelow(S, y, e))
<1> DEFINE Q == GrownBelow(S, y, e)
           W == M \cup {e}
<1>1. /\ M \subseteq Nodes /\ NIL \notin M /\ S[NIL] = {} /\ NIL \in NodeOrNil
      /\ M \subseteq NodeOrNil /\ e \in NodeOrNil /\ e # NIL
      /\ \A n \in NodeOrNil : S[n] \subseteq M
      /\ Other(s) \in Sides /\ Other(s) # s
  BY ShapeIs, SidesAre, NilNotNode DEF NodeOrNil
<1>2. /\ r \in Trees /\ r.root = t.root
      /\ \A z \in Sides, m \in Nodes :
           r.child[z][m] = IF m = e THEN NIL ELSE IF m = y /\ z = s THEN e ELSE t.child[z][m]
      /\ \A m \in Nodes : r.parent[m] = IF m = e THEN y ELSE t.parent[m]
  BY DEF Grown
<1>3. /\ Q[e] = {e}
      /\ \A n \in NodeOrNil : n # e => Q[n] = IF y \in S[n] THEN S[n] \cup {e} ELSE S[n]
      /\ DOMAIN Q = NodeOrNil /\ Q = [n \in NodeOrNil |-> Q[n]]
  BY <1>1 DEF GrownBelow
<1> HIDE DEF Q
<1>4. Q[NIL] = {}
  BY <1>1, <1>3
<1>5. Fork(r, W, Q, e)
  <2>1. \A z \in Sides : r.child[z][e] = NIL
    BY <1>2
  <2>2. \A z \in Sides : Branch(r, W, Q, e, z)
    BY <1>4, <2>1 DEF Branch
  <2>3. Q[e] = {e} \cup Q[r.child["left"][e]] \cup Q[r.child["right"][e]]
    BY <1>3, <1>4, <2>1, SidesAre
  <2>4. QED
    BY <2>2, <2>3 DEF Fork
<1>6. ASSUME NEW n \in M PROVE Fork(r, W, Q, n)
  <2>1. ASSUME NEW z \in Sides
        PROVE  /\ Branch(r, W, Q, n, z)
               /\ Q[r.child[z][n]] = IF n = y /\ z = s THEN {e}
                                     ELSE IF y \in S[t.child[z][n]]
                                          THEN S[t.child[z][n]] \cup {e}
                                          ELSE S[t.child[z][n]]
    <3> DEFINE c == t.child[z][n]
    <3>1. c \in M \cup {NIL} /\ (c # NIL => t.parent[c] = n)
      BY ForkIs
    <3>2. \A m \in S[c] : Before(z, m, n)
      BY ForkIs
    <3>3. CASE n = y /\ z = s
      <4>1. r.child[z][n] = e /\ r.parent[e] = n
        BY <1>1, <1>2, <3>3
      <4>2. QED
        BY <1>3, <3>3, <4>1 DEF Branch
    <3>4. CASE ~(n = y /\ z = s)
      <4>1. r.child[z][n] = c
        BY <1>1, <1>2, <3>4
      <4>2. c # NIL => r.parent[c] = n
        BY <1>1, <1>2, <3>1
      <4>3. Q[c] = IF y \in S[c] THEN S[c] \cup {e} ELSE S[c]
        BY <1>1, <1>3, <3>1
      <4>4. y \in S[c] => Before(z, e, n)
        OBVIOUS
      <4>5. \A m \in Q[c] : Before(z, m, n)
        BY <3>2, <4>3, <4>4
      <4>6. QED
        BY <3>1, <3>4, <4>1, <4>2, <4>3, <4>5 DEF Branch
    <3>5. QED
      BY <3>3, <3>4
  <2> DEFINE c == t.child[s][n]
             d == t.child[Other(s)][n]
  <2>2. S[n] = {n} \cup S[c] \cup S[d]
    BY ForkIs
  <2>3. Q[n] = IF y \in S[n] THEN S[n] \cup {e} ELSE S[n]
    BY <1>1, <1>3
  <2>4. \A m \in S[d] : m # n
    BY <1>1, ForkIs
  <2>5. /\ Q[r.child[s][n]] = IF n = y THEN {e} ELSE IF y \in S[c] THEN S[c] \cup {e} ELSE S[c]
        /\ Q[r.child[Other(s)][n]] = IF y \in S[d] THEN S[d] \cup {e} ELSE S[d]
    BY <1>1, <2>1
  <2>6. n = y => S[c] = {}
    BY <1>1
  <2> HIDE DEF c, d
  <2>7. Q[n] = {n} \cup Q[r.child[s][n]] \cup Q[r.child[Other(s)][n]]
    <3>1. CASE n = y
      BY <2>2, <2>3, <2>4, <2>5, <2>6, <3>1
    <3>2. CASE n # y
      BY <2>2, <2>3, <2>5, <3>2
    <3>3. QED
      BY <3>1, <3>2
  <2>8. QED
    BY <1>1, <2>1, <2>7, ForkMade
<1>7. Q \in [NodeOrNil -> SUBSET W]
  <2>1. \A n \in NodeOrNil : Q[n] \in SUBSET W
    BY <1>1, <1>3
  <2>2. QED
    BY <1>3, <2>1
<1>8. t.root \in M /\ S[t.root] = M /\ t.parent[t.root] = NIL
  BY ShapeIs
<1>9. r.root \in W \cup {NIL} /\ Q[r.root] = W /\ (r.root # NIL => r.parent[r.root] = NIL)
  BY <1>1, <1>2, <1>3, <1>8
<1>10. W \subseteq Nodes
  BY <1>1
<1>11. \A n \in W : Fork(r, W, Q, n)
  BY <1>5, <1>6
<1>12. Shape(r, W, Q)
  BY <1>2, <1>4, <1>7, <1>9, <1>10, <1>11, Zenon DEF Shape
<1>13. QED
  BY <1>12 DEF Q

(* A first element.                                                        *)
LEMMA ShapeStarts ==
    ASSUME NEW r \in Trees, NEW e \in Nodes, r.root = e, r.parent[e] = NIL,
           \A z \in Sides : r.child[z][e] = NIL
    PROVE  Shape(r, {e}, [n \in NodeOrNil |-> IF n = e THEN {e} ELSE {}])
<1> DEFINE Q == [n \in NodeOrNil |-> IF n = e THEN {e} ELSE {}]
<1>1. e \in NodeOrNil /\ NIL \in NodeOrNil /\ e # NIL
  BY NilNotNode DEF NodeOrNil
<1>2. Q[NIL] = {} /\ Q[e] = {e} /\ Q \in [NodeOrNil -> SUBSET {e}]
  BY <1>1
<1> HIDE DEF Q
<1>3. \A z \in Sides : Branch(r, {e}, Q, e, z)
  BY <1>2 DEF Branch
<1>4. Fork(r, {e}, Q, e)
  BY <1>2, <1>3, SidesAre DEF Fork
<1>5. Shape(r, {e}, Q)
  BY <1>1, <1>2, <1>4 DEF Shape
<1>6. QED
  BY <1>5 DEF Q

(* v stands where e stood.                                                 *)
Handed(t, M, e, v, r) ==
    /\ r \in Trees
    /\ r.color = t.color
    /\ r.root = IF t.root = e THEN v ELSE t.root
    /\ \A m \in M, z \in Sides :
         r.child[z][m] = IF t.child[z][m] = e THEN v ELSE t.child[z][m]
    /\ \A m \in Nodes \ M, z \in Sides : r.child[z][m] = t.child[z][m]
    /\ \A m \in Nodes : r.parent[m] = IF m = v THEN t.parent[e] ELSE t.parent[m]

LEMMA TransplantHands ==
    ASSUME NEW t, NEW M, NEW S, Shape(t, M, S), NEW e \in M, NEW v \in NodeOrNil
    PROVE  Handed(t, M, e, v, Transplant(t, e, v))
<1> DEFINE r == Transplant(t, e, v)
           p == t.parent[e]
           q == SideOf(t, e)
<1>1. t \in Trees /\ e \in Nodes /\ M \subseteq Nodes /\ NIL \notin Nodes /\ e # NIL
  BY ShapeIs, NilNotNode
<1>2. Transplanted(t, e, v, p, q, r)
  <2>1. Transplanted(t, e, v, t.parent[e], SideOf(t, e), Transplant(t, e, v))
    BY <1>1, TransplantIs
  <2>2. QED
    BY <2>1
<1>3. /\ (e = t.root <=> p = NIL) /\ q \in Sides
      /\ (e # t.root => p \in M /\ t.child[q][p] = e)
  BY PlaceIs
<1>4. \A m \in M, z \in Sides : t.child[z][m] = e => m = p /\ z = q
  BY PlaceIs
<1> HIDE DEF p, q, r
<1>5. /\ r \in Trees /\ r.color = t.color
      /\ r.root = IF p = NIL THEN v ELSE t.root
      /\ \A z \in Sides, m \in Nodes :
           r.child[z][m] = IF m = p /\ z = q THEN v ELSE t.child[z][m]
      /\ \A m \in Nodes : r.parent[m] = IF m = v THEN p ELSE t.parent[m]
  BY <1>2 DEF Transplanted
<1>6. ASSUME NEW m \in M, NEW z \in Sides
      PROVE  r.child[z][m] = IF t.child[z][m] = e THEN v ELSE t.child[z][m]
  <2>1. m \in Nodes
    BY <1>1
  <2>2. t.child[z][m] = e <=> m = p /\ z = q
    BY <1>1, <1>3, <1>4, <2>1
  <2>3. QED
    BY <1>5, <2>1, <2>2
<1>7. ASSUME NEW m \in Nodes \ M, NEW z \in Sides PROVE r.child[z][m] = t.child[z][m]
  <2>1. m # p
    BY <1>1, <1>3
  <2>2. QED
    BY <1>5, <2>1
<1>8. r.root = IF t.root = e THEN v ELSE t.root
  BY <1>3, <1>5
<1>9. Handed(t, M, e, v, r)
  BY <1>5, <1>6, <1>7, <1>8 DEF Handed, p
<1>10. QED
  BY <1>9 DEF r

(* An element with a free side is passed by.                               *)
Without(S, e) == [n \in NodeOrNil |-> S[n] \ {e}]

LEMMA ShapeSplices ==
    ASSUME NEW t, NEW M, NEW S, Shape(t, M, S), NEW e \in M, NEW q \in Sides,
           t.child[Other(q)][e] = NIL, NEW x, x = t.child[q][e],
           NEW r, Handed(t, M, e, x, r)
    PROVE  Shape(r, M \ {e}, Without(S, e))
<1> DEFINE Q == Without(S, e)
           W == M \ {e}
<1>1. /\ M \subseteq Nodes /\ NIL \notin M /\ S[NIL] = {} /\ NIL \in NodeOrNil
      /\ M \subseteq NodeOrNil
      /\ \A n \in NodeOrNil : S[n] \subseteq M
  BY ShapeIs
<1>2. /\ r \in Trees
      /\ r.root = IF t.root = e THEN x ELSE t.root
      /\ \A m \in M, z \in Sides :
           r.child[z][m] = IF t.child[z][m] = e THEN x ELSE t.child[z][m]
      /\ \A m \in Nodes : r.parent[m] = IF m = x THEN t.parent[e] ELSE t.parent[m]
  BY DEF Handed
<1>3. \A n \in NodeOrNil : Q[n] = S[n] \ {e}
  BY DEF Without
<1>4. Q \in [NodeOrNil -> SUBSET W]
  BY <1>1 DEF Without
<1> HIDE DEF Q
<1>5. S[e] = {e} \cup S[x] /\ x \in M \cup {NIL} /\ (x # NIL => t.parent[x] = e)
  <2>1. S[e] = {e} \cup S[t.child[q][e]] \cup S[t.child[Other(q)][e]]
    BY ForkIs
  <2>2. x \in M \cup {NIL} /\ (x # NIL => t.parent[x] = e)
    BY ForkIs
  <2>3. QED
    BY <1>1, <2>1, <2>2
<1>6. \A m \in S[x] : m # e
  BY ForkIs
<1>7. x # e
  <2>1. x # NIL => x \in S[x]
    BY <1>5, ForkIs
  <2>2. QED
    BY <1>1, <1>6, <2>1
<1>8. Q[x] = Q[e] /\ Q[x] = S[x]
  <2>1. x \in NodeOrNil /\ e \in NodeOrNil
    BY <1>1, <1>5
  <2>2. Q[x] = S[x] \ {e} /\ Q[e] = S[e] \ {e}
    BY <1>3, <2>1
  <2>3. QED
    BY <1>5, <1>6, <2>2
<1>9. e # t.root => t.parent[e] # e
  BY PlaceIs
<1>10. ASSUME NEW n \in W PROVE Fork(r, W, Q, n)
  <2>1. n \in M /\ n # e
    OBVIOUS
  <2>2. ASSUME NEW z \in Sides
        PROVE  Branch(r, W, Q, n, z) /\ Q[r.child[z][n]] = Q[t.child[z][n]]
    <3> DEFINE c == t.child[z][n]
    <3>1. c \in M \cup {NIL} /\ (c # NIL => t.parent[c] = n)
      BY <2>1, ForkIs
    <3>2. \A m \in S[c] : Before(z, m, n)
      BY <2>1, ForkIs
    <3>3. \A m \in Q[c] : Before(z, m, n)
      BY <1>1, <1>3, <3>1, <3>2
    <3>4. CASE c = e
      <4>1. r.child[z][n] = x
        BY <1>2, <2>1, <3>4
      <4>2. t.parent[e] = n
        BY <1>1, <3>1, <3>4
      <4>3. x # NIL => r.parent[x] = n
        BY <1>1, <1>2, <1>5, <4>2
      <4>4. QED
        BY <1>5, <1>7, <1>8, <3>3, <3>4, <4>1, <4>3 DEF Branch
    <3>5. CASE c # e
      <4>1. r.child[z][n] = c
        BY <1>2, <2>1, <3>5
      <4>2. c # NIL => c # x
        BY <1>5, <2>1, <3>1
      <4>3. c # NIL => r.parent[c] = n
        BY <1>1, <1>2, <3>1, <4>2
      <4>4. QED
        BY <3>1, <3>3, <3>5, <4>1, <4>3 DEF Branch
    <3>6. QED
      BY <3>4, <3>5
  <2>3. S[n] = {n} \cup S[t.child["left"][n]] \cup S[t.child["right"][n]]
    BY <2>1, ForkIs, SidesAre
  <2>4. \A z \in Sides : t.child[z][n] \in NodeOrNil
    BY <1>1, <2>1, ForkIs
  <2>5. /\ Q[t.child["left"][n]] = S[t.child["left"][n]] \ {e}
        /\ Q[t.child["right"][n]] = S[t.child["right"][n]] \ {e}
        /\ Q[n] = S[n] \ {e}
    BY <1>1, <1>3, <2>1, <2>4, SidesAre
  <2>6. Q[n] = {n} \cup Q[r.child["left"][n]] \cup Q[r.child["right"][n]]
    BY <2>1, <2>2, <2>3, <2>5, SidesAre
  <2>7. QED
    BY <2>2, <2>6 DEF Fork
<1>11. r.root \in W \cup {NIL} /\ Q[r.root] = W /\ (r.root # NIL => r.parent[r.root] = NIL)
  <2>1. t.root \in M \cup {NIL} /\ S[t.root] = M /\ (t.root # NIL => t.parent[t.root] = NIL)
    BY ShapeIs
  <2>2. CASE t.root = e
    BY <1>1, <1>2, <1>3, <1>5, <1>7, <1>8, <2>1, <2>2
  <2>3. CASE t.root # e
    <3>1. r.root = t.root /\ t.root # x
      BY <1>1, <1>2, <1>5, <2>1, <2>3
    <3>2. Q[t.root] = S[t.root] \ {e}
      BY <1>1, <1>3, <2>1
    <3>3. QED
      BY <1>1, <1>2, <2>1, <2>3, <3>1, <3>2
  <2>4. QED
    BY <2>2, <2>3
<1>12. Q[NIL] = {}
  BY <1>1, <1>3
<1>13. W \subseteq Nodes /\ \A n \in W : Fork(r, W, Q, n)
  BY <1>1, <1>10
<1>14. Shape(r, W, Q)
  BY <1>2, <1>4, <1>11, <1>12, <1>13, Zenon DEF Shape
<1>15. QED
  BY <1>14 DEF Q

(* y, which is not in the tree, takes e's place in it and e's children.    *)
Replaced(t, M, e, y, r) ==
    /\ r \in Trees
    /\ r.root = IF t.root = e THEN y ELSE t.root
    /\ \A m \in M \ {e}, z \in Sides :
         r.child[z][m] = IF t.child[z][m] = e THEN y ELSE t.child[z][m]
    /\ \A z \in Sides : r.child[z][y] = t.child[z][e]
    /\ r.parent[y] = t.parent[e]
    /\ \A m \in M \ {e} : r.parent[m] = IF t.parent[m] = e THEN y ELSE t.parent[m]

Instead(M, S, e, y) ==
    [n \in NodeOrNil |->
       LET k == IF n = y THEN e ELSE n
       IN {m \in (M \ {e}) \cup {y} : m \in S[k] \/ (m = y /\ e \in S[k])}]

LEMMA ShapeReplaces ==
    ASSUME NEW t, NEW M, NEW S, Shape(t, M, S), NEW e \in M, NEW y \in Nodes \ M,
           NEW r, Replaced(t, M, e, y, r),
           \A m \in M \ {e}, z \in Sides : Before(z, m, e) <=> Before(z, m, y)
    PROVE  Shape(r, (M \ {e}) \cup {y}, Instead(M, S, e, y))
<1> DEFINE Q == Instead(M, S, e, y)
           W == (M \ {e}) \cup {y}
<1>1. /\ M \subseteq Nodes /\ NIL \notin M /\ S[NIL] = {} /\ NIL \in NodeOrNil
      /\ M \subseteq NodeOrNil /\ y \in NodeOrNil /\ y # NIL /\ e # NIL /\ e # y
      /\ \A n \in NodeOrNil : S[n] \subseteq M
  BY ShapeIs, NilNotNode DEF NodeOrNil
<1>2. /\ r \in Trees
      /\ r.root = IF t.root = e THEN y ELSE t.root
      /\ \A m \in M \ {e}, z \in Sides :
           r.child[z][m] = IF t.child[z][m] = e THEN y ELSE t.child[z][m]
      /\ \A z \in Sides : r.child[z][y] = t.child[z][e]
      /\ r.parent[y] = t.parent[e]
      /\ \A m \in M \ {e} : r.parent[m] = IF t.parent[m] = e THEN y ELSE t.parent[m]
  BY DEF Replaced
<1>3. Q \in [NodeOrNil -> SUBSET W]
  BY DEF Instead
<1>4. /\ \A n \in NodeOrNil : n # y =>
           Q[n] = {m \in W : m \in S[n] \/ (m = y /\ e \in S[n])}
      /\ Q[y] = {m \in W : m \in S[e] \/ (m = y /\ e \in S[e])}
  BY <1>1 DEF Instead
<1> HIDE DEF Q
<1>5. \A m \in M \ {e}, z \in Sides : Before(z, e, m) => Before(z, y, m)
  <2>1. SUFFICES ASSUME NEW m \in M \ {e}, NEW z \in Sides, Before(z, e, m)
                 PROVE  Before(z, y, m)
    OBVIOUS
  <2>2. m \in Nodes /\ e \in Nodes /\ Other(z) \in Sides /\ Other(Other(z)) = z
    BY <1>1, SidesAre
  <2>3. Before(Other(z), m, e)
    BY <2>1, <2>2, BeforeOrders
  <2>4. Before(Other(z), m, y)
    BY <2>2, <2>3
  <2>5. QED
    BY <2>2, <2>4, BeforeOrders
<1>6. ASSUME NEW n \in M \ {e} PROVE Fork(r, W, Q, n)
  <2>1. n \in M /\ n # e /\ n # y
    BY <1>1
  <2>2. ASSUME NEW z \in Sides
        PROVE  /\ Branch(r, W, Q, n, z)
               /\ Q[r.child[z][n]] = {m \in W : \/ m \in S[t.child[z][n]]
                                                \/ m = y /\ e \in S[t.child[z][n]]}
    <3> DEFINE c == t.child[z][n]
               R == {m \in W : m \in S[c] \/ (m = y /\ e \in S[c])}
    <3>1. c \in M \cup {NIL} /\ (c # NIL => t.parent[c] = n)
      BY <2>1, ForkIs
    <3>2. \A m \in S[c] : Before(z, m, n)
      BY <2>1, ForkIs
    <3>3. \A m \in R : Before(z, m, n)
      BY <1>5, <3>2
    <3>4. CASE c = e
      <4>1. r.child[z][n] = y /\ r.parent[y] = n
        BY <1>1, <1>2, <3>1, <3>4
      <4>2. Q[y] = R
        BY <1>4, <3>4
      <4>3. QED
        BY <3>3, <4>1, <4>2 DEF Branch
    <3>5. CASE c # e
      <4>1. r.child[z][n] = c
        BY <1>2, <3>5
      <4>2. c # NIL => r.parent[c] = n
        BY <1>2, <2>1, <3>1, <3>5
      <4>3. Q[c] = R
        BY <1>1, <1>4, <3>1
      <4>4. QED
        BY <3>1, <3>3, <3>5, <4>1, <4>2, <4>3 DEF Branch
    <3>6. QED
      BY <3>4, <3>5
  <2>3. S[n] = {n} \cup S[t.child["left"][n]] \cup S[t.child["right"][n]]
    BY <2>1, ForkIs, SidesAre
  <2>4. Q[n] = {m \in W : m \in S[n] \/ (m = y /\ e \in S[n])}
    BY <1>1, <1>4, <2>1
  <2>5. Q[n] = {n} \cup Q[r.child["left"][n]] \cup Q[r.child["right"][n]]
    BY <2>1, <2>2, <2>3, <2>4, SidesAre
  <2>6. QED
    BY <2>2, <2>5 DEF Fork
<1>7. Fork(r, W, Q, y)
  <2>1. ASSUME NEW z \in Sides
        PROVE  /\ Branch(r, W, Q, y, z)
               /\ Q[r.child[z][y]] = {m \in W : m \in S[t.child[z][e]]}
               /\ e \notin S[t.child[z][e]]
    <3> DEFINE c == t.child[z][e]
    <3>1. c \in M \cup {NIL} /\ (c # NIL => t.parent[c] = e)
      BY ForkIs
    <3>2. \A m \in S[c] : Before(z, m, e) /\ m # e /\ m \in M
      BY ForkIs
    <3>3. c # e
      <4>1. c # NIL => c \in S[c]
        BY <3>1, ForkIs
      <4>2. QED
        BY <1>1, <3>2, <4>1
    <3>4. r.child[z][y] = c
      BY <1>2
    <3>5. c # NIL => r.parent[c] = y
      BY <1>2, <3>1, <3>3
    <3>6. Q[c] = {m \in W : m \in S[c]}
      BY <1>1, <1>4, <3>1, <3>2
    <3>7. \A m \in Q[c] : Before(z, m, y)
      BY <3>2, <3>6
    <3>8. QED
      BY <3>1, <3>2, <3>3, <3>4, <3>5, <3>6, <3>7 DEF Branch
  <2>2. S[e] = {e} \cup S[t.child["left"][e]] \cup S[t.child["right"][e]]
    BY ForkIs, SidesAre
  <2>3. Q[y] = {y} \cup Q[r.child["left"][y]] \cup Q[r.child["right"][y]]
    <3>1. y \notin S[t.child["left"][e]] /\ y \notin S[t.child["right"][e]]
      BY ForkIs, SidesAre
    <3>2. QED
      BY <1>1, <1>4, <2>1, <2>2, <3>1, SidesAre
  <2>4. QED
    BY <2>1, <2>3 DEF Fork
<1>8. r.root \in W \cup {NIL} /\ Q[r.root] = W /\ (r.root # NIL => r.parent[r.root] = NIL)
  <2>1. t.root \in M /\ S[t.root] = M /\ t.parent[t.root] = NIL
    BY <1>1, ShapeIs
  <2>2. CASE t.root = e
    BY <1>1, <1>2, <1>4, <2>1, <2>2
  <2>3. CASE t.root # e
    BY <1>1, <1>2, <1>4, <2>1, <2>3
  <2>4. QED
    BY <2>2, <2>3
<1>9. Q[NIL] = {}
  BY <1>1, <1>4
<1>10. W \subseteq Nodes /\ \A n \in W : Fork(r, W, Q, n)
  BY <1>1, <1>6, <1>7
<1>11. Shape(r, W, Q)
  BY <1>2, <1>3, <1>8, <1>9, <1>10, Zenon DEF Shape
<1>12. QED
  BY <1>11 DEF Q

(* Only the element that is on its way out has links, into the tree.       *)
Loose(t, M, e) ==
    \A n \in Nodes \ M :
      /\ t.parent[n] \in IF n = e THEN M \cup {NIL} ELSE {NIL}
      /\ \A z \in Sides : t.child[z][n] \in IF n = e THEN M \cup {NIL} ELSE {NIL}

LEMMA LooseIs ==
    ASSUME NEW t, NEW M, NEW e, Loose(t, M, e)
    PROVE  Outside(t, M)
BY DEF Loose, Outside

(* The links around an element.                                            *)
Round(t, M, e) ==
    /\ \A z \in Sides : /\ t.child[z][e] \in M \cup {NIL} /\ t.child[z][e] # e
                        /\ t.child[z][e] # NIL => t.parent[t.child[z][e]] = e
    /\ t.parent[e] \in M \cup {NIL} /\ t.parent[e] # e
    /\ SideOf(t, e) \in Sides
    /\ t.parent[e] = NIL <=> t.root = e
    /\ \A m \in M, z \in Sides : t.child[z][m] = e <=> m = t.parent[e] /\ z = SideOf(t, e)
    /\ \A m \in M : t.parent[m] = e <=> \E z \in Sides : m = t.child[z][e]

LEMMA RoundIs ==
    ASSUME NEW t, NEW M, NEW S, Shape(t, M, S), NEW e \in M
    PROVE  Round(t, M, e)
<1>1. NIL \notin M /\ e # NIL /\ e \in Nodes
  BY ShapeIs, NilNotNode
<1>2. /\ e = t.root <=> t.parent[e] = NIL
      /\ e # t.root => /\ t.parent[e] \in M /\ t.parent[e] # e
                       /\ t.child[SideOf(t, e)][t.parent[e]] = e
      /\ SideOf(t, e) \in Sides
      /\ \A m \in M, z \in Sides : t.child[z][m] = e => m = t.parent[e] /\ z = SideOf(t, e)
  BY PlaceIs
<1>3. t.parent[e] \in M \cup {NIL} /\ t.parent[e] # e
  BY <1>1, <1>2
<1>4. ASSUME NEW z \in Sides
      PROVE  /\ t.child[z][e] \in M \cup {NIL} /\ t.child[z][e] # e
             /\ t.child[z][e] # NIL => t.parent[t.child[z][e]] = e
  <2>1. /\ t.child[z][e] \in M \cup {NIL}
        /\ t.child[z][e] # NIL => t.parent[t.child[z][e]] = e
    BY ForkIs
  <2>2. QED
    BY <1>1, <1>3, <2>1
<1>5. ASSUME NEW m \in M, t.parent[m] = e PROVE \E z \in Sides : m = t.child[z][e]
  <2>1. m # t.root
    BY <1>1, <1>5, ShapeIs
  <2>2. t.child[SideOf(t, m)][t.parent[m]] = m /\ SideOf(t, m) \in Sides
    BY <2>1, PlaceIs
  <2>3. QED
    BY <1>5, <2>2
<1>6. \A m \in M, z \in Sides : m = t.child[z][e] => t.parent[m] = e
  BY <1>1, <1>4
<1>7. \A m \in M, z \in Sides : t.child[z][m] = e <=> m = t.parent[e] /\ z = SideOf(t, e)
  BY <1>1, <1>2
<1>8. QED
  BY <1>2, <1>3, <1>4, <1>5, <1>6, <1>7 DEF Round

(* The successor of an element with two children.                          *)
LEMMA SuccessorIs ==
    ASSUME NEW t, NEW M, NEW S, Shape(t, M, S), Outside(t, M), NEW e \in M,
           t.child["right"][e] # NIL,
           NEW y, y = Outermost(t, "left", t.child["right"][e])
    PROVE  /\ y \in M /\ y # e /\ y \in S[t.child["right"][e]] /\ t.child["left"][y] = NIL
           /\ y # t.root /\ y \in S[e] /\ t.parent[y] \in S[e]
           /\ \A m \in M \ {e, y}, z \in Sides : Before(z, m, e) <=> Before(z, m, y)
<1> DEFINE c == t.child["right"][e]
<1>1. /\ "left" \in Sides /\ "right" \in Sides /\ Other("left") = "right"
      /\ Other("right") = "left" /\ M \subseteq Nodes /\ KeyOf \in [Nodes -> Int]
      /\ NIL \notin M
  BY SidesAre, ShapeIs, KeysCompare
<1>2. c \in M
  BY <1>1, ForkIs
<1>3. y \in S[c] /\ t.child["left"][y] = NIL
  BY <1>1, <1>2, OutermostIs
<1>4. \A m \in S[c] : m # y => Before("left", y, m)
  BY <1>1, <1>2, OutermostIs
<1>5. \A m \in S[c] : m \in M /\ Before("right", m, e) /\ m # e
  BY <1>1, ForkIs
<1>6. S[e] = {e} \cup S[c] \cup S[t.child["left"][e]]
  BY <1>1, ForkIs
<1>7. \A m \in S[t.child["left"][e]] : Before("left", m, e)
  BY <1>1, ForkIs
<1>8. y \in S[e] /\ y # e /\ y \in M /\ e \in S[e]
  BY <1>3, <1>5, <1>6
<1>9. t.parent[y] \in S[e]
  BY <1>8, HangsBelow
<1>10. y # t.root
  <2>1. S[e] \subseteq M
    BY <1>1, ShapeIs
  <2>2. QED
    BY <1>1, <1>8, <1>9, <2>1, PlaceIs
<1>11. ASSUME NEW m \in M \ {e, y}
       PROVE  /\ KeyOf[m] < KeyOf[e] <=> KeyOf[m] < KeyOf[y]
              /\ KeyOf[e] < KeyOf[m] <=> KeyOf[y] < KeyOf[m]
  <2>1. KeyOf[m] \in Int /\ KeyOf[e] \in Int /\ KeyOf[y] \in Int
    BY <1>1, <1>8
  <2>2. KeyOf[e] < KeyOf[y]
    BY <1>3, <1>5 DEF Before
  <2>3. KeyOf[m] # KeyOf[e] /\ KeyOf[m] # KeyOf[y]
    BY <1>8, OneKeyEach
  <2>4. ASSUME KeyOf[e] <= KeyOf[m], KeyOf[m] <= KeyOf[y] PROVE FALSE
    <3>1. m \in S[e]
      BY <1>8, <2>4, Convex
    <3>2. m \notin S[t.child["left"][e]]
      BY <1>7, <2>1, <2>3, <2>4 DEF Before
    <3>3. m \in S[c]
      BY <1>6, <3>1, <3>2
    <3>4. KeyOf[y] < KeyOf[m]
      BY <1>4, <3>3 DEF Before
    <3>5. QED
      BY <2>1, <2>4, <3>4
  <2>5. QED
    BY <2>1, <2>2, <2>3, <2>4
<1>12. \A m \in M \ {e, y}, z \in Sides : Before(z, m, e) <=> Before(z, m, y)
  BY <1>1, <1>11, SidesAre DEF Before
<1>13. QED
  BY <1>3, <1>8, <1>9, <1>10, <1>12

(* What RemoveInner leaves, by way of the tree without e's successor y.    *)
(* c cuts out e: y leaves its place to x, and takes that of e.             *)
InnerCut(M, e, y, x, gone, c) ==
    /\ Replaced(gone, M \ {y}, e, y, c.tree)
    /\ \A m \in Nodes : c.tree.color[m] = IF m = y THEN tree.color[e] ELSE tree.color[m]
    /\ Loose(c.tree, M \ {e}, e)
    /\ c.lost = tree.color[y]
    /\ c.at = x
    /\ c.above = IF tree.parent[y] = e THEN y ELSE tree.parent[y]

LEMMA RemoveInnerIs ==
    ASSUME NEW M, NEW S, Shape(tree, M, S), Loose(tree, M, NIL), NEW e \in M,
           \A z \in Sides : tree.child[z][e] # NIL,
           NEW y, y = Outermost(tree, "left", tree.child["right"][e]),
           NEW x, x = tree.child["right"][y],
           NEW gone, gone = Transplant(tree, y, x)
    PROVE  InnerCut(M, e, y, x, gone, RemoveInner(e))
<1> DEFINE near == tree.parent[y] = e
           N == M \ {y}
           apart == IF near THEN Hang(tree, x, y)
                    ELSE SetChild(gone, "right", y, gone.child["right"][e])
           moved == Transplant(apart, e, y)
           L == gone.child["left"][e]
           R == gone.child["right"][e]
           last == SetChild(moved, "left", y, moved.child["left"][e])
           fin == Paint(last, y, moved.color[e])
           p == gone.parent[e]
           q == SideOf(gone, e)
           G == Without(S, y)
<1>1. /\ RemoveInner(e).tree = fin
      /\ RemoveInner(e).lost = tree.color[y]
      /\ RemoveInner(e).at = x
      /\ RemoveInner(e).above = IF near THEN y ELSE tree.parent[y]
  BY Zenon DEF RemoveInner
<1>2. /\ "left" \in Sides /\ "right" \in Sides /\ "left" # "right" /\ Other("left") = "right"
      /\ Other("right") = "left" /\ Sides = {"left", "right"}
      /\ M \subseteq Nodes /\ NIL \notin M /\ NIL \notin Nodes
      /\ NIL \in NodeOrNil /\ M \subseteq NodeOrNil /\ tree \in Trees
  BY SidesAre, ShapeIs, NilNotNode
<1>3. Outside(tree, M)
  BY LooseIs
<1>4. /\ y \in M /\ y # e /\ y \in S[tree.child["right"][e]] /\ tree.child["left"][y] = NIL
      /\ y # tree.root /\ y \in S[e]
  BY <1>2, <1>3, SuccessorIs
<1>5. x \in M \cup {NIL} /\ (x # NIL => tree.parent[x] = y) /\ x # e /\ x # y
  <2>1. x \in M \cup {NIL} /\ (x # NIL => tree.parent[x] = y)
    BY <1>2, <1>4, ForkIs
  <2>2. \A m \in S[x] : m # y
    BY <1>2, <1>4, ForkIs
  <2>3. tree.child["right"][e] \in M /\ \A m \in S[tree.child["right"][e]] : m # e
    BY <1>2, <1>4, ForkIs
  <2>4. S[y] \subseteq S[tree.child["right"][e]]
    BY <1>4, <2>3, Nested
  <2>5. S[y] = {y} \cup S[x] \cup S[tree.child["left"][y]]
    BY <1>2, <1>4, ForkIs
  <2>6. x # NIL => x \in S[x]
    BY <1>2, <2>1, ForkIs
  <2>7. QED
    BY <1>2, <1>4, <2>1, <2>2, <2>3, <2>4, <2>5, <2>6
<1>6. Handed(tree, M, y, x, gone)
  <2>1. x \in NodeOrNil
    BY <1>2, <1>5
  <2>2. QED
    BY <1>4, <2>1, TransplantHands
<1>7. Shape(gone, N, G)
  BY <1>2, <1>4, <1>6, ShapeSplices
<1>8. /\ gone \in Trees /\ gone.color = tree.color /\ gone.root = tree.root
      /\ \A m \in M, z \in Sides :
           gone.child[z][m] = IF tree.child[z][m] = y THEN x ELSE tree.child[z][m]
      /\ \A m \in Nodes \ M, z \in Sides : gone.child[z][m] = tree.child[z][m]
      /\ \A m \in Nodes : gone.parent[m] = IF m = x THEN tree.parent[y] ELSE tree.parent[m]
  BY <1>4, <1>6, Zenon DEF Handed
<1>9. /\ e \in N /\ N \subseteq NodeOrNil /\ e \in Nodes /\ y \in Nodes /\ y \in NodeOrNil /\ y # NIL
      /\ N \subseteq M /\ y \notin N /\ NIL \notin N /\ \A m \in M : m = y \/ m \in N
  BY <1>2, <1>4
<1> HIDE DEF N, G
<1>10. /\ L \in N \cup {NIL} /\ R \in N \cup {NIL} /\ L # e /\ R # e
       /\ L \in NodeOrNil /\ R \in NodeOrNil
       /\ p \in N \cup {NIL} /\ p # e /\ p # y /\ q \in Sides
       /\ (p = NIL <=> gone.root = e)
  <2>1. Round(gone, N, e)
    BY <1>7, <1>9, RoundIs
  <2>2. QED
    BY <1>2, <1>9, <2>1, Zenon DEF Round
<1>11. \A m \in N, z \in Sides : gone.child[z][m] = e <=> m = p /\ z = q
  <2>1. Round(gone, N, e)
    BY <1>7, <1>9, RoundIs
  <2>2. QED
    BY <2>1, Zenon DEF Round
<1>12. \A m \in N : gone.parent[m] = e <=> m = L \/ m = R
  <2>1. Round(gone, N, e)
    BY <1>7, <1>9, RoundIs
  <2>2. \A m \in N : gone.parent[m] = e <=> \E z \in Sides : m = gone.child[z][e]
    BY <2>1, Zenon DEF Round
  <2>3. QED
    BY <1>2, <2>2, Zenon
<1>13. near => tree.child["right"][e] = y /\ R = x
  <2>1. SUFFICES ASSUME near PROVE tree.child["right"][e] = y /\ R = x
    OBVIOUS
  <2>2. tree.child[SideOf(tree, y)][e] = y /\ SideOf(tree, y) \in Sides
    BY <1>4, <2>1, PlaceIs
  <2>3. S[tree.child["right"][e]] \cap S[tree.child["left"][e]] = {}
    BY <1>2, ForkIs
  <2>4. y \in S[y]
    BY <1>2, <1>4, ForkIs
  <2>5. tree.child["left"][e] # y
    BY <1>4, <2>3, <2>4
  <2>6. SideOf(tree, y) = "right"
    BY <1>2, <2>2, <2>5
  <2>7. tree.child["right"][e] = y
    BY <2>2, <2>6
  <2>8. gone.child["right"][e] = x
    BY <1>2, <1>8, <2>7, Zenon
  <2>9. QED
    BY <2>7, <2>8
<1>14. tree.child["left"][e] # y
  <2>1. S[tree.child["right"][e]] \cap S[tree.child["left"][e]] = {}
    BY <1>2, ForkIs
  <2>2. y \in S[y]
    BY <1>2, <1>4, ForkIs
  <2>3. QED
    BY <1>4, <2>1, <2>2
<1> HIDE DEF L, R, p, q, near
<1>15. /\ apart \in Trees /\ apart.root = gone.root /\ apart.color = tree.color
       /\ \A m \in Nodes \ {e}, z \in Sides :
            apart.child[z][m] = IF m = y /\ z = "right" THEN R ELSE gone.child[z][m]
       /\ apart.child["left"][e] = L
       /\ apart.child["right"][e] = y \/ apart.child["right"][e] = R
       /\ \A m \in Nodes : apart.parent[m] = IF m = R THEN y ELSE gone.parent[m]
  <2>1. CASE near
    <3>1. apart = Hang(tree, x, y) /\ x \in NodeOrNil
      BY <1>2, <1>5, <2>1
    <3> HIDE DEF apart
    <3>2. Hung(tree, x, y, apart)
      BY <1>2, <1>9, <3>1, HangIs
    <3>3. /\ apart \in Trees /\ apart.root = tree.root /\ apart.color = tree.color
          /\ apart.child = tree.child
          /\ \A m \in Nodes : apart.parent[m] = IF m = x THEN y ELSE tree.parent[m]
      BY <3>2 DEF Hung
    <3>4. \A m \in M, z \in Sides : tree.child[z][m] = y => m = e
      BY <1>4, <2>1, PlaceIs DEF near
    <3>5. \A m \in Nodes \ {e}, z \in Sides : tree.child[z][m] = gone.child[z][m]
      BY <1>8, <3>4, Zenon
    <3>6. \A m \in Nodes : apart.parent[m] = IF m = R THEN y ELSE gone.parent[m]
      BY <1>8, <1>13, <2>1, <3>3, Zenon
    <3>7. apart.child["left"][e] = L
      <4>1. gone.child["left"][e] = tree.child["left"][e]
        BY <1>2, <1>8, <1>14, Zenon
      <4>2. QED
        BY <3>3, <4>1 DEF L
    <3>8. gone.child["right"][y] = R
      BY <1>2, <1>4, <1>5, <1>8, <1>13, <2>1, Zenon
    <3>9. apart.child["right"][e] = y
      BY <1>13, <2>1, <3>3
    <3>10. ASSUME NEW m \in Nodes \ {e}, NEW z \in Sides
           PROVE  apart.child[z][m] = IF m = y /\ z = "right" THEN R ELSE gone.child[z][m]
      BY <3>3, <3>5, <3>8
    <3>11. apart.root = gone.root /\ apart.color = tree.color
      BY <1>8, <3>3, Zenon
    <3>12. QED
      BY <3>3, <3>6, <3>7, <3>9, <3>10, <3>11, Zenon
  <2>2. CASE ~near
    <3>1. apart = SetChild(gone, "right", y, R)
      BY <2>2 DEF R
    <3> HIDE DEF apart
    <3>2. ChildSet(gone, "right", y, R, apart)
      BY <1>2, <1>8, <1>9, <1>10, <3>1, SetChildIs, Zenon
    <3>3. /\ apart \in Trees /\ apart.root = gone.root /\ apart.color = gone.color
          /\ \A z \in Sides, m \in Nodes :
               apart.child[z][m] = IF m = y /\ z = "right" THEN R ELSE gone.child[z][m]
          /\ \A m \in Nodes : apart.parent[m] = IF m = R THEN y ELSE gone.parent[m]
      BY <3>2, Zenon DEF ChildSet
    <3>4. apart.child["left"][e] = L /\ apart.child["right"][e] = R
      BY <1>2, <1>4, <1>9, <3>3, Zenon DEF L, R
    <3>5. ASSUME NEW m \in Nodes \ {e}, NEW z \in Sides
          PROVE  apart.child[z][m] = IF m = y /\ z = "right" THEN R ELSE gone.child[z][m]
      BY <3>3
    <3>6. apart.root = gone.root /\ apart.color = tree.color
      BY <1>8, <3>3, Zenon
    <3>7. QED
      BY <3>3, <3>4, <3>5, <3>6, Zenon
  <2>3. QED
    BY <2>1, <2>2, Zenon
<1> HIDE DEF apart
<1>16. apart.parent[e] = p
  BY <1>9, <1>10, <1>15, Zenon DEF p
<1>17. SideOf(apart, e) = q
  <2>1. p = NIL \/ p \in Nodes \ {e}
    BY <1>2, <1>9, <1>10
  <2>2. Child(apart, "left", p) = Child(gone, "left", p)
    BY <1>2, <1>15, <2>1, Zenon DEF Child
  <2>3. Parent(apart, e) = p /\ Parent(gone, e) = p
    BY <1>2, <1>9, <1>16 DEF Parent, p
  <2>4. QED
    BY <2>2, <2>3 DEF SideOf, q
<1>18. Transplanted(apart, e, y, p, q, moved)
  <2>1. Transplanted(apart, e, y, apart.parent[e], SideOf(apart, e), Transplant(apart, e, y))
    BY <1>9, <1>15, TransplantIs
  <2>2. QED
    BY <1>16, <1>17, <2>1
<1> HIDE DEF moved
<1>19. /\ moved \in Trees /\ moved.color = tree.color
       /\ moved.root = IF p = NIL THEN y ELSE gone.root
       /\ \A z \in Sides, m \in Nodes :
            moved.child[z][m] = IF m = p /\ z = q THEN y ELSE apart.child[z][m]
       /\ \A m \in Nodes : moved.parent[m] = IF m = y THEN p ELSE apart.parent[m]
  BY <1>15, <1>18, Zenon DEF Transplanted
<1>20. moved.child["left"][e] = L /\ moved.color[e] = tree.color[e]
  BY <1>2, <1>9, <1>10, <1>15, <1>19, Zenon
<1>21. ChildSet(moved, "left", y, L, last)
  BY <1>2, <1>9, <1>10, <1>19, <1>20, SetChildIs
<1> HIDE DEF last
<1>22. /\ last \in Trees /\ last.color = tree.color /\ last.root = moved.root
       /\ \A z \in Sides, m \in Nodes :
            last.child[z][m] = IF m = y /\ z = "left" THEN L ELSE moved.child[z][m]
       /\ \A m \in Nodes : last.parent[m] = IF m = L THEN y ELSE moved.parent[m]
  BY <1>19, <1>21 DEF ChildSet
<1>23. Painted(last, y, tree.color[e], fin)
  <2>1. tree.color[e] \in {"red", "black"}
    BY <1>2, <1>9, LinksAre
  <2>2. QED
    BY <1>9, <1>20, <1>22, <2>1, PaintIs
<1> HIDE DEF fin
<1>24. /\ fin \in Trees /\ fin.root = last.root /\ fin.child = last.child
       /\ fin.parent = last.parent
       /\ \A m \in Nodes : fin.color[m] = IF m = y THEN tree.color[e] ELSE tree.color[m]
  BY <1>22, <1>23 DEF Painted
<1>25. ASSUME NEW m \in Nodes \ {e}, NEW z \in Sides
       PROVE  fin.child[z][m] = IF m = y THEN (IF z = "left" THEN L ELSE R)
                                ELSE IF m = p /\ z = q THEN y
                                ELSE gone.child[z][m]
  <2>1. fin.child[z][m] = IF m = y /\ z = "left" THEN L ELSE moved.child[z][m]
    BY <1>22, <1>24
  <2>2. moved.child[z][m] = IF m = p /\ z = q THEN y ELSE apart.child[z][m]
    BY <1>19
  <2>3. apart.child[z][m] = IF m = y /\ z = "right" THEN R ELSE gone.child[z][m]
    BY <1>15
  <2>4. QED
    BY <1>2, <1>10, <2>1, <2>2, <2>3, Zenon
<1>26. ASSUME NEW m \in Nodes
       PROVE  fin.parent[m] = IF m = y THEN p ELSE IF m = L \/ m = R THEN y ELSE gone.parent[m]
  <2>1. fin.parent[m] = IF m = L THEN y ELSE moved.parent[m]
    BY <1>22, <1>24
  <2>2. moved.parent[m] = IF m = y THEN p ELSE apart.parent[m]
    BY <1>19
  <2>3. apart.parent[m] = IF m = R THEN y ELSE gone.parent[m]
    BY <1>15
  <2>4. y # L
    BY <1>9, <1>10
  <2>5. QED
    BY <2>1, <2>2, <2>3, <2>4
<1>27. /\ fin.root = IF gone.root = e THEN y ELSE gone.root
       /\ fin.parent[e] = p
       /\ fin.child["left"][e] = L
       /\ fin.child["right"][e] = y \/ fin.child["right"][e] = R
  <2>1. fin.parent[e] = p
    BY <1>4, <1>9, <1>10, <1>26, Zenon DEF p
  <2>2. ASSUME NEW z \in Sides PROVE fin.child[z][e] = apart.child[z][e]
    <3>1. fin.child[z][e] = IF e = y /\ z = "left" THEN L ELSE moved.child[z][e]
      BY <1>9, <1>22, <1>24
    <3>2. moved.child[z][e] = IF e = p /\ z = q THEN y ELSE apart.child[z][e]
      BY <1>9, <1>19
    <3>3. QED
      BY <1>4, <1>10, <3>1, <3>2
  <2>3. fin.root = IF gone.root = e THEN y ELSE gone.root
    BY <1>10, <1>19, <1>22, <1>24
  <2>4. QED
    BY <1>2, <1>15, <2>1, <2>2, <2>3, Zenon
<1>28. Replaced(gone, N, e, y, fin)
  <2>1. ASSUME NEW m \in N \ {e}, NEW z \in Sides
        PROVE  fin.child[z][m] = IF gone.child[z][m] = e THEN y ELSE gone.child[z][m]
    <3>1. m \in Nodes /\ m # y /\ m # e
      BY <1>2, <1>9
    <3>2. fin.child[z][m] = IF m = p /\ z = q THEN y ELSE gone.child[z][m]
      BY <1>25, <3>1
    <3>3. QED
      BY <1>11, <3>2, Zenon
  <2>2. ASSUME NEW m \in N \ {e}
        PROVE  fin.parent[m] = IF gone.parent[m] = e THEN y ELSE gone.parent[m]
    <3>1. m \in Nodes /\ m # y
      BY <1>2, <1>9
    <3>2. fin.parent[m] = IF m = L \/ m = R THEN y ELSE gone.parent[m]
      BY <1>26, <3>1
    <3>3. QED
      BY <1>12, <3>2
  <2>3. ASSUME NEW z \in Sides PROVE fin.child[z][y] = gone.child[z][e]
    <3>1. fin.child[z][y] = IF z = "left" THEN L ELSE R
      BY <1>4, <1>9, <1>25
    <3>2. QED
      BY <1>2, <3>1 DEF L, R
  <2>4. fin.parent[y] = p
    BY <1>9, <1>26
  <2>5. QED
    BY <1>24, <1>27, <2>1, <2>2, <2>3, <2>4, Zenon DEF Replaced, p
<1>29. Loose(fin, M \ {e}, e)
  <2>1. ASSUME NEW n \in Nodes \ M
        PROVE  fin.parent[n] = NIL /\ \A z \in Sides : fin.child[z][n] = NIL
    <3>1. tree.parent[n] = NIL /\ \A z \in Sides : tree.child[z][n] = NIL
      BY <1>2 DEF Loose
    <3>2. n # p /\ n # y /\ n # e /\ n # L /\ n # R /\ n # x /\ n \in Nodes
      BY <1>2, <1>4, <1>5, <1>9, <1>10
    <3>3. fin.parent[n] = gone.parent[n] /\ \A z \in Sides : fin.child[z][n] = gone.child[z][n]
      BY <1>25, <1>26, <3>2, Zenon
    <3>4. gone.parent[n] = NIL
      BY <1>8, <3>1, <3>2, Zenon
    <3>5. \A z \in Sides : gone.child[z][n] = NIL
      BY <1>8, <3>1, Zenon
    <3>6. QED
      BY <3>3, <3>4, <3>5, Zenon
  <2>2. p \in (M \ {e}) \cup {NIL} /\ L \in (M \ {e}) \cup {NIL} /\ R \in (M \ {e}) \cup {NIL}
    BY <1>10 DEF N
  <2>3. /\ fin.parent[e] \in (M \ {e}) \cup {NIL}
        /\ \A z \in Sides : fin.child[z][e] \in (M \ {e}) \cup {NIL}
    BY <1>2, <1>4, <1>27, <2>2
  <2>4. ASSUME NEW n \in Nodes \ (M \ {e})
        PROVE  /\ fin.parent[n] \in IF n = e THEN (M \ {e}) \cup {NIL} ELSE {NIL}
               /\ \A z \in Sides :
                    fin.child[z][n] \in IF n = e THEN (M \ {e}) \cup {NIL} ELSE {NIL}
    <3>1. CASE n = e
      BY <2>3, <3>1
    <3>2. CASE n # e
      BY <2>1, <3>2
    <3>3. QED
      BY <3>1, <3>2
  <2>5. QED
    BY <2>4 DEF Loose
<1>30. QED
  BY <1>1, <1>24, <1>28, <1>29 DEF N, near, InnerCut

-----------------------------------------------------------------------------
(* The rounds                                                              *)

(* u has the links of t.                                                   *)
Repainted(t, u) ==
    u \in Trees /\ u.root = t.root /\ u.parent = t.parent /\ u.child = t.child

LEMMA RepaintIs ==
    ASSUME NEW t, NEW u, Repainted(t, u), NEW n \in NodeOrNil, NEW c \in {"red", "black"}
    PROVE  Repainted(t, Paint(u, n, c)) /\ Painted(u, n, c, Paint(u, n, c))
<1>1. u \in Trees
  BY DEF Repainted
<1>2. Painted(u, n, c, Paint(u, n, c))
  BY <1>1, PaintIs
<1>3. QED
  BY <1>2 DEF Painted, Repainted

LEMMA RepaintKeeps ==
    ASSUME NEW t, NEW M, NEW S, Shape(t, M, S), NEW u, Repainted(t, u)
    PROVE  Shape(u, M, S) /\ SameOutside(t, u, M)
<1>1. Agree(t, u, M)
  BY DEF Agree, Repainted
<1>2. Shape(u, M, S)
  BY <1>1, ShapeAgrees
<1>3. QED
  BY <1>2 DEF SameOutside, Repainted

LEMMA RepaintTurns ==
    ASSUME NEW t, NEW M, NEW S, Shape(t, M, S), NEW u, Repainted(t, u),
           NEW s \in Sides, NEW x \in M, NEW y \in M, y = t.child[Other(s)][x]
    PROVE  /\ Turned(t, Rotate(u, s, x), s, x, y)
           /\ Rotate(u, s, x).color = u.color
<1> DEFINE r == Rotate(u, s, x)
<1>1. Shape(u, M, S)
  BY RepaintKeeps
<1>2. u.root = t.root /\ u.parent = t.parent /\ u.child = t.child
  BY DEF Repainted
<1>3. Turned(u, r, s, x, y) /\ r.color = u.color
  <2>1. y = u.child[Other(s)][x]
    BY <1>2
  <2>2. QED
    BY <1>1, <2>1, RotateIs
<1>4. PlaceOf(u, x) = PlaceOf(t, x)
  <2>1. SideOf(u, x) = SideOf(t, x)
    BY <1>2 DEF SideOf, Child, Parent
  <2>2. QED
    BY <1>2, <2>1 DEF PlaceOf
<1> HIDE DEF r
<1>5. Turned(t, r, s, x, y)
  BY <1>2, <1>3, <1>4 DEF Turned
<1>6. QED
  BY <1>3, <1>5 DEF r

(* The locals of a call between two of its rounds.                         *)
Fixes == [call : {"none", "insert", "remove"}, elm : NodeOrNil, at : NodeOrNil,
          above : NodeOrNil]

Working(t, M, f) ==
    /\ f \in Fixes
    /\ f.call = "none" => f = NoFix
    /\ f.call = "insert" => f.elm = NIL /\ f.at \in M /\ f.above = NIL
    /\ f.call = "remove" => /\ f.elm \in Nodes \ M
                            /\ f.at \in M \cup {NIL}
                            /\ f.above \in M \cup {NIL}
                            /\ f.at # t.root => f.above \in M
    /\ t.root # NIL /\ t.root # f.at => t.color[t.root] = "black"

Kept(t, M, S, f) == Shape(t, M, S) /\ Loose(t, M, f.elm) /\ Working(t, M, f)

LEMMA WorkingIs ==
    ASSUME NEW M, Working(tree, M, fix)
    PROVE  /\ fix.call \in {"none", "insert", "remove"}
           /\ fix.call = "none" => fix = NoFix
           /\ fix.call = "insert" => fix.elm = NIL /\ fix.at \in M /\ fix.above = NIL
           /\ fix.call = "remove" => /\ fix.elm \in Nodes \ M
                                     /\ fix.at \in M \cup {NIL}
                                     /\ fix.above \in M \cup {NIL}
                                     /\ fix.at # tree.root => fix.above \in M
           /\ tree.root # NIL /\ tree.root # fix.at => tree.color[tree.root] = "black"
           /\ fix = [call |-> fix.call, elm |-> fix.elm, at |-> fix.at, above |-> fix.above]
BY DEF Working, Fixes

(* Around a clash of reds.                                                 *)
ClashAt(t, z, p, g, s, u) ==
    /\ z # p /\ p # g /\ z # t.root /\ p # t.root
    /\ t.parent[z] = p /\ t.parent[p] = g
    /\ s \in Sides /\ s = SideOf(t, p) /\ t.child[s][g] = p
    /\ u = t.child[Other(s)][g] /\ u # p
    /\ t.color[p] = "red"
    /\ t.child[SideOf(t, z)][p] = z /\ SideOf(t, z) \in Sides

LEMMA ClashIs ==
    ASSUME NEW M, NEW S, Kept(tree, M, S, fix), fix.call = "insert", Clash,
           NEW z, z = fix.at, NEW p, p = tree.parent[z], NEW g, g = tree.parent[p],
           NEW s, s = SideOf(tree, p), NEW u, u = tree.child[Other(s)][g]
    PROVE  /\ z \in M /\ p \in M /\ g \in M /\ u \in M \cup {NIL}
           /\ ClashAt(tree, z, p, g, s, u)
           /\ Parent(tree, fix.at) = p /\ Grandparent = g /\ Uncle = u
           /\ Inner <=> z = tree.child[Other(s)][p]
<1>1. Shape(tree, M, S) /\ Working(tree, M, fix)
  BY DEF Kept
<1>2. z \in M /\ NIL \notin M /\ M \subseteq Nodes /\ z # NIL
  BY <1>1, WorkingIs, ShapeIs
<1>3. Parent(tree, z) = p /\ z # tree.root
  BY <1>2 DEF Parent, Clash
<1>4. p \in M /\ p # z /\ tree.child[SideOf(tree, z)][p] = z /\ SideOf(tree, z) \in Sides
  BY <1>1, <1>2, <1>3, PlaceIs
<1>5. Color(tree, p) = "red"
  BY <1>3 DEF Clash
<1>6. tree.color[p] = "red" /\ p # NIL
  BY <1>5 DEF Color
<1>7. p # tree.root
  BY <1>1, <1>2, <1>3, <1>6, WorkingIs
<1>8. g \in M /\ g # p /\ tree.child[SideOf(tree, p)][g] = p /\ SideOf(tree, p) \in Sides
  BY <1>1, <1>4, <1>7, PlaceIs
<1>9. s \in Sides /\ tree.child[s][g] = p /\ Other(s) \in Sides /\ Other(s) # s
  BY <1>8, SidesAre
<1>10. u \in M \cup {NIL}
  BY <1>1, <1>8, <1>9, RoundIs, Zenon DEF Round
<1>11. u # p
  <2>1. \A m \in M, q \in Sides : tree.child[q][m] = p => q = SideOf(tree, p)
    BY <1>1, <1>4, PlaceIs
  <2>2. QED
    BY <1>8, <1>9, <2>1
<1>12. Parent(tree, p) = g
  BY <1>6 DEF Parent
<1>13. g # NIL
  BY <1>2, <1>8
<1>14. Grandparent = g
  BY <1>3, <1>12 DEF Grandparent
<1>15. Uncle = u
  BY <1>3, <1>13, <1>14 DEF Uncle, Child
<1>16. Inner <=> z = tree.child[Other(s)][p]
  BY <1>3, <1>6 DEF Inner, Child
<1>17. ClashAt(tree, z, p, g, s, u)
  BY <1>3, <1>4, <1>6, <1>7, <1>8, <1>9, <1>11 DEF ClashAt
<1>18. QED
  BY <1>2, <1>3, <1>4, <1>8, <1>10, <1>14, <1>15, <1>16, <1>17, Zenon

LEMMA InsertRecolorIs ==
    ASSUME NEW M, NEW S, Kept(tree, M, S, fix), InsertRecolor,
           NEW z, z = fix.at, NEW p, p = tree.parent[z], NEW g, g = tree.parent[p],
           NEW s, s = SideOf(tree, p), NEW u, u = tree.child[Other(s)][g]
    PROVE  /\ z \in M /\ p \in M /\ g \in M /\ u \in M
           /\ ClashAt(tree, z, p, g, s, u) /\ tree.color[u] = "red"
           /\ Repainted(tree, tree')
           /\ \A m \in Nodes : tree'.color[m] =
                IF m = g THEN "red" ELSE IF m = u \/ m = p THEN "black" ELSE tree.color[m]
           /\ fix' = [fix EXCEPT !.at = g]
<1>1. /\ z \in M /\ p \in M /\ g \in M /\ u \in M \cup {NIL}
      /\ ClashAt(tree, z, p, g, s, u)
      /\ Parent(tree, fix.at) = p /\ Grandparent = g /\ Uncle = u
  BY ClashIs DEF InsertRecolor
<1>2. Shape(tree, M, S)
  BY DEF Kept
<1>3. u \in M /\ tree.color[u] = "red"
  BY <1>1, Zenon DEF InsertRecolor, Color
<1>4. M \subseteq NodeOrNil /\ tree \in Trees
  BY <1>2, ShapeIs
<1> DEFINE t1 == Paint(tree, p, "black")
           t2 == Paint(t1, u, "black")
           t3 == Paint(t2, g, "red")
<1>5. tree' = t3 /\ fix' = [fix EXCEPT !.at = g]
  BY <1>1, Zenon DEF InsertRecolor
<1>6. Repainted(tree, tree)
  BY <1>4 DEF Repainted
<1>7. Repainted(tree, t1) /\ Painted(tree, p, "black", t1)
  BY <1>1, <1>4, <1>6, RepaintIs, Zenon
<1> HIDE DEF t1
<1>8. Repainted(tree, t2) /\ Painted(t1, u, "black", t2)
  BY <1>3, <1>4, <1>7, RepaintIs
<1> HIDE DEF t2
<1>9. Repainted(tree, t3) /\ Painted(t2, g, "red", t3)
  BY <1>1, <1>4, <1>8, RepaintIs, Zenon
<1> HIDE DEF t3
<1>10. \A m \in Nodes : t3.color[m] =
         IF m = g THEN "red" ELSE IF m = u \/ m = p THEN "black" ELSE tree.color[m]
  BY <1>7, <1>8, <1>9 DEF Painted
<1>11. QED
  BY <1>1, <1>3, <1>5, <1>9, <1>10, Zenon

LEMMA InsertStraightenIs ==
    ASSUME NEW M, NEW S, Kept(tree, M, S, fix), InsertStraighten,
           NEW z, z = fix.at, NEW p, p = tree.parent[z], NEW g, g = tree.parent[p],
           NEW s, s = SideOf(tree, p), NEW u, u = tree.child[Other(s)][g]
    PROVE  /\ z \in M /\ p \in M /\ g \in M /\ ClashAt(tree, z, p, g, s, u)
           /\ z = tree.child[Other(s)][p]
           /\ Turned(tree, tree', s, p, z) /\ tree'.color = tree.color
           /\ fix' = [fix EXCEPT !.at = p]
<1>1. /\ z \in M /\ p \in M /\ g \in M
      /\ ClashAt(tree, z, p, g, s, u)
      /\ Parent(tree, fix.at) = p
      /\ z = tree.child[Other(s)][p]
  BY ClashIs DEF InsertStraighten
<1>2. Shape(tree, M, S) /\ s \in Sides
  BY <1>1, Zenon DEF Kept, ClashAt
<1>3. tree' = Rotate(tree, s, p) /\ fix' = [fix EXCEPT !.at = p]
  BY <1>1, Zenon DEF InsertStraighten
<1>4. Turned(tree, Rotate(tree, s, p), s, p, z) /\ Rotate(tree, s, p).color = tree.color
  BY <1>1, <1>2, RotateIs, Zenon
<1>5. QED
  BY <1>1, <1>3, <1>4, Zenon

LEMMA InsertRotateIs ==
    ASSUME NEW M, NEW S, Kept(tree, M, S, fix), InsertRotate,
           NEW z, z = fix.at, NEW p, p = tree.parent[z], NEW g, g = tree.parent[p],
           NEW s, s = SideOf(tree, p), NEW u, u = tree.child[Other(s)][g]
    PROVE  /\ z \in M /\ p \in M /\ g \in M /\ u \in M \cup {NIL}
           /\ ClashAt(tree, z, p, g, s, u) /\ Color(tree, u) = "black"
           /\ z # tree.child[Other(s)][p]
           /\ Turned(tree, tree', Other(s), g, p)
           /\ \A m \in Nodes : tree'.color[m] =
                IF m = g THEN "red" ELSE IF m = p THEN "black" ELSE tree.color[m]
           /\ fix' = fix
<1>1. /\ z \in M /\ p \in M /\ g \in M /\ u \in M \cup {NIL}
      /\ ClashAt(tree, z, p, g, s, u)
      /\ Parent(tree, fix.at) = p /\ Grandparent = g /\ Uncle = u
      /\ z # tree.child[Other(s)][p]
  BY ClashIs DEF InsertRotate
<1>2. Shape(tree, M, S) /\ s \in Sides /\ tree.child[s][g] = p
  BY <1>1 DEF Kept, ClashAt
<1>3. M \subseteq NodeOrNil /\ tree \in Trees /\ Other(s) \in Sides /\ Other(Other(s)) = s
  BY <1>2, ShapeIs, SidesAre
<1> DEFINE t1 == Paint(tree, p, "black")
           t2 == Paint(t1, g, "red")
           t3 == Rotate(t2, Other(s), g)
<1>4. tree' = t3 /\ fix' = fix /\ Color(tree, u) = "black"
  BY <1>1, Zenon DEF InsertRotate
<1>5. Repainted(tree, tree)
  BY <1>3 DEF Repainted
<1>6. Repainted(tree, t1) /\ Painted(tree, p, "black", t1)
  BY <1>1, <1>3, <1>5, RepaintIs, Zenon
<1> HIDE DEF t1
<1>7. Repainted(tree, t2) /\ Painted(t1, g, "red", t2)
  BY <1>1, <1>3, <1>6, RepaintIs, Zenon
<1> HIDE DEF t2
<1>8. Turned(tree, t3, Other(s), g, p) /\ t3.color = t2.color
  <2> DEFINE q == Other(s)
  <2>1. q \in Sides /\ p = tree.child[Other(q)][g]
    BY <1>2, <1>3
  <2> HIDE DEF q
  <2>2. Turned(tree, Rotate(t2, q, g), q, g, p) /\ Rotate(t2, q, g).color = t2.color
    <3>1. Shape(tree, M, S) /\ Repainted(tree, t2) /\ q \in Sides /\ g \in M /\ p \in M
      BY <1>1, <1>2, <1>7, <2>1, Zenon
    <3>2. \A y \in M : y = tree.child[Other(q)][g] =>
             Turned(tree, Rotate(t2, q, g), q, g, y) /\ Rotate(t2, q, g).color = t2.color
      BY <3>1, RepaintTurns
    <3>3. QED
      BY <2>1, <3>1, <3>2, Zenon
  <2>3. QED
    BY <2>2 DEF q
<1> HIDE DEF t3
<1>9. \A m \in Nodes : t3.color[m] =
         IF m = g THEN "red" ELSE IF m = p THEN "black" ELSE tree.color[m]
  BY <1>6, <1>7, <1>8 DEF Painted
<1>10. QED
  BY <1>1, <1>4, <1>8, <1>9, Zenon

LEMMA FixMoves ==
    ASSUME NEW f \in Fixes, NEW b, NEW c
    PROVE  [f EXCEPT !.at = b, !.above = c] =
             [call |-> f.call, elm |-> f.elm, at |-> b, above |-> c]
<1> DEFINE h == [f EXCEPT !.at = b]
<1>1. h = [call |-> f.call, elm |-> f.elm, at |-> b, above |-> f.above]
  BY DEF Fixes
<1> HIDE DEF h
<1>2. [h EXCEPT !.above = c] = [call |-> f.call, elm |-> f.elm, at |-> b, above |-> c]
  BY <1>1
<1>3. QED
  BY <1>2 DEF h

(* Around a shortage.                                                      *)
LEMMA ShortageIs ==
    ASSUME NEW M, NEW S, Kept(tree, M, S, fix), fix.call = "remove", Short,
           NEW a, a = fix.above, NEW s, s = ShortSide, NEW w, w = tree.child[Other(s)][a]
    PROVE  /\ a \in M /\ s \in Sides /\ Other(s) \in Sides /\ w \in M \cup {NIL}
           /\ Sibling = w /\ w # a /\ w # tree.root
           /\ NearNephew = Child(tree, s, w) /\ FarNephew = Child(tree, Other(s), w)
           /\ Color(tree, fix.above) = tree.color[a]
           /\ fix.at # tree.root
<1>1. Shape(tree, M, S) /\ Working(tree, M, fix)
  BY DEF Kept
<1>2. fix.at # tree.root /\ a \in M
  BY <1>1, WorkingIs DEF Short
<1>3. a # NIL /\ a \in Nodes
  BY <1>1, <1>2, ShapeIs
<1>4. s \in Sides /\ Other(s) \in Sides
  BY SidesAre DEF ShortSide
<1>5. w \in M \cup {NIL} /\ w # a
  BY <1>1, <1>2, <1>4, RoundIs DEF Round
<1>6. Sibling = w
  BY <1>3 DEF Sibling, Child
<1>7. w # tree.root
  <2>1. CASE w = NIL
    <3>1. S[NIL] = {} /\ S[tree.root] = M
      BY <1>1, ShapeIs
    <3>2. QED
      BY <1>2, <2>1, <3>1
  <2>2. CASE w \in M
    <3>1. \A m \in M, q \in Sides : tree.child[q][m] = w => w # tree.root
      BY <1>1, <2>2, PlaceIs
    <3>2. QED
      BY <1>2, <1>4, <3>1
  <2>3. QED
    BY <1>5, <2>1, <2>2
<1>8. Color(tree, fix.above) = tree.color[a]
  BY <1>3 DEF Color
<1>9. NearNephew = Child(tree, s, w) /\ FarNephew = Child(tree, Other(s), w)
  BY <1>6 DEF NearNephew, FarNephew
<1>10. QED
  BY <1>2, <1>4, <1>5, <1>6, <1>7, <1>8, <1>9

LEMMA RemoveLiftIs ==
    ASSUME NEW M, NEW S, Kept(tree, M, S, fix), RemoveLift,
           NEW a, a = fix.above, NEW s, s = ShortSide, NEW w, w = tree.child[Other(s)][a]
    PROVE  /\ a \in M /\ s \in Sides /\ w \in M /\ w # a /\ w # tree.root
           /\ tree.color[w] = "red" /\ fix.at # tree.root
           /\ Color(tree, fix.at) = "black"
           /\ Turned(tree, tree', s, a, w)
           /\ \A m \in Nodes : tree'.color[m] =
                IF m = a THEN "red" ELSE IF m = w THEN "black" ELSE tree.color[m]
           /\ fix' = fix
<1>1. /\ a \in M /\ s \in Sides /\ w \in M \cup {NIL}
      /\ Sibling = w /\ w # a /\ w # tree.root /\ fix.at # tree.root
  BY ShortageIs DEF RemoveLift
<1>2. Shape(tree, M, S)
  BY DEF Kept
<1>3. w \in M /\ tree.color[w] = "red"
  BY <1>1 DEF RemoveLift, Color
<1>4. M \subseteq NodeOrNil /\ tree \in Trees
  BY <1>2, ShapeIs
<1> DEFINE t1 == Paint(tree, w, "black")
           t2 == Paint(t1, a, "red")
           t3 == Rotate(t2, s, a)
<1>5. tree' = t3 /\ fix' = fix /\ Color(tree, fix.at) = "black"
  BY <1>1, Zenon DEF RemoveLift, Short
<1>6. Repainted(tree, tree)
  BY <1>4 DEF Repainted
<1>7. Repainted(tree, t1) /\ Painted(tree, w, "black", t1)
  BY <1>3, <1>4, <1>6, RepaintIs
<1> HIDE DEF t1
<1>8. Repainted(tree, t2) /\ Painted(t1, a, "red", t2)
  BY <1>1, <1>4, <1>7, RepaintIs
<1> HIDE DEF t2
<1>9. Turned(tree, t3, s, a, w) /\ t3.color = t2.color
  BY <1>1, <1>2, <1>3, <1>8, RepaintTurns
<1> HIDE DEF t3
<1>10. \A m \in Nodes : t3.color[m] =
         IF m = a THEN "red" ELSE IF m = w THEN "black" ELSE tree.color[m]
  BY <1>7, <1>8, <1>9 DEF Painted
<1>11. QED
  BY <1>1, <1>3, <1>5, <1>9, <1>10

LEMMA RemoveRecolorIs ==
    ASSUME NEW M, NEW S, Kept(tree, M, S, fix), RemoveRecolor,
           NEW a, a = fix.above, NEW s, s = ShortSide, NEW w, w = tree.child[Other(s)][a]
    PROVE  /\ a \in M /\ s \in Sides /\ w \in M \cup {NIL} /\ w # a /\ w # tree.root
           /\ Color(tree, w) = "black" /\ fix.at # tree.root
           /\ Color(tree, fix.at) = "black"
           /\ w # NIL => \A z \in Sides : Color(tree, tree.child[z][w]) = "black"
           /\ Repainted(tree, tree')
           /\ \A m \in Nodes : tree'.color[m] = IF m = w THEN "red" ELSE tree.color[m]
           /\ fix' = [call |-> "remove", elm |-> fix.elm, at |-> a, above |-> tree.parent[a]]
<1>1. /\ a \in M /\ s \in Sides /\ w \in M \cup {NIL}
      /\ Sibling = w /\ w # a /\ w # tree.root /\ fix.at # tree.root
      /\ NearNephew = Child(tree, s, w) /\ FarNephew = Child(tree, Other(s), w)
  BY ShortageIs DEF RemoveRecolor
<1>2. Shape(tree, M, S)
  BY DEF Kept
<1>3. M \subseteq NodeOrNil /\ tree \in Trees /\ a # NIL /\ w \in NodeOrNil
  BY <1>1, <1>2, ShapeIs
<1>4. /\ tree' = Paint(tree, w, "red") /\ Color(tree, w) = "black"
      /\ Color(tree, fix.at) = "black"
      /\ Color(tree, NearNephew) = "black" /\ Color(tree, FarNephew) = "black"
  BY <1>1, Zenon DEF RemoveRecolor, Short, BlackSibling
<1>5. fix' = [call |-> "remove", elm |-> fix.elm, at |-> a, above |-> tree.parent[a]]
  <2>1. fix \in Fixes /\ fix.call = "remove" /\ Parent(tree, a) = tree.parent[a]
    BY <1>3 DEF RemoveRecolor, Parent, Kept, Working
  <2>2. fix' = [fix EXCEPT !.at = a, !.above = Parent(tree, a)]
    BY Zenon DEF RemoveRecolor
  <2>3. QED
    BY <2>1, <2>2, FixMoves, Zenon
<1>6. Repainted(tree, tree)
  BY <1>3 DEF Repainted
<1>7. Repainted(tree, tree') /\ Painted(tree, w, "red", tree')
  BY <1>3, <1>4, <1>6, RepaintIs
<1>8. \A m \in Nodes : tree'.color[m] = IF m = w THEN "red" ELSE tree.color[m]
  BY <1>7 DEF Painted
<1>9. ASSUME w # NIL, NEW z \in Sides
      PROVE  Color(tree, tree.child[z][w]) = "black"
  <2>1. z = s \/ z = Other(s)
    BY <1>1, SidesAre
  <2>2. QED
    BY <1>1, <1>4, <1>9, <2>1 DEF Child
<1>10. QED
  BY <1>1, <1>4, <1>5, <1>7, <1>8, <1>9, Zenon

LEMMA RemoveStraightenIs ==
    ASSUME NEW M, NEW S, Kept(tree, M, S, fix), RemoveStraighten,
           NEW a, a = fix.above, NEW s, s = ShortSide, NEW w, w = tree.child[Other(s)][a],
           NEW n, n = tree.child[s][w]
    PROVE  /\ a \in M /\ s \in Sides /\ w \in M /\ w # a /\ w # tree.root
           /\ n \in M /\ n # w /\ n # tree.root
           /\ tree.color[w] = "black" /\ tree.color[n] = "red"
           /\ Color(tree, tree.child[Other(s)][w]) = "black"
           /\ fix.at # tree.root /\ Color(tree, fix.at) = "black"
           /\ Turned(tree, tree', Other(s), w, n)
           /\ \A m \in Nodes : tree'.color[m] =
                IF m = w THEN "red" ELSE IF m = n THEN "black" ELSE tree.color[m]
           /\ fix' = fix
<1>1. /\ a \in M /\ s \in Sides /\ w \in M \cup {NIL} /\ Other(s) \in Sides
      /\ Sibling = w /\ w # a /\ w # tree.root /\ fix.at # tree.root
      /\ NearNephew = Child(tree, s, w) /\ FarNephew = Child(tree, Other(s), w)
  BY ShortageIs DEF RemoveStraighten
<1>2. Shape(tree, M, S)
  BY DEF Kept
<1>3. /\ Color(tree, w) = "black" /\ Color(tree, fix.at) = "black"
      /\ Color(tree, NearNephew) = "red" /\ Color(tree, FarNephew) = "black"
  BY <1>1, Zenon DEF RemoveStraighten, Short, BlackSibling
<1>4. w \in M /\ NearNephew = n /\ NearNephew # NIL
  <2>1. NearNephew # NIL
    BY <1>3 DEF Color
  <2>2. w # NIL
    BY <1>1, <2>1 DEF Child
  <2>3. QED
    BY <1>1, <2>1, <2>2 DEF Child
<1>5. w # NIL /\ M \subseteq NodeOrNil /\ tree \in Trees
  BY <1>2, <1>4, ShapeIs
<1>6. n \in M /\ n # w
  BY <1>1, <1>2, <1>4, RoundIs DEF Round
<1>7. n # tree.root
  <2>1. \A m \in M, q \in Sides : tree.child[q][m] = n => n # tree.root
    BY <1>2, <1>6, PlaceIs
  <2>2. QED
    BY <1>1, <1>4, <2>1
<1>8. /\ tree.color[w] = "black" /\ tree.color[n] = "red"
      /\ Color(tree, tree.child[Other(s)][w]) = "black"
  BY <1>1, <1>3, <1>4, <1>5 DEF Color, Child
<1> DEFINE t1 == Paint(tree, n, "black")
           t2 == Paint(t1, w, "red")
           t3 == Rotate(t2, Other(s), w)
<1>9. tree' = t3 /\ fix' = fix
  BY <1>1, <1>4, Zenon DEF RemoveStraighten
<1>10. Repainted(tree, tree)
  BY <1>5 DEF Repainted
<1>11. Repainted(tree, t1) /\ Painted(tree, n, "black", t1)
  BY <1>5, <1>6, <1>10, RepaintIs
<1> HIDE DEF t1
<1>12. Repainted(tree, t2) /\ Painted(t1, w, "red", t2)
  BY <1>4, <1>5, <1>11, RepaintIs
<1> HIDE DEF t2
<1>13. Turned(tree, t3, Other(s), w, n) /\ t3.color = t2.color
  <2> DEFINE q == Other(s)
  <2>1. q \in Sides /\ n = tree.child[Other(q)][w]
    BY <1>1, SidesAre
  <2> HIDE DEF q
  <2>2. Turned(tree, Rotate(t2, q, w), q, w, n) /\ Rotate(t2, q, w).color = t2.color
    <3>1. \A y \in M : y = tree.child[Other(q)][w] =>
             Turned(tree, Rotate(t2, q, w), q, w, y) /\ Rotate(t2, q, w).color = t2.color
      BY <1>2, <1>4, <1>12, <2>1, RepaintTurns
    <3>2. QED
      BY <1>6, <2>1, <3>1
  <2>3. QED
    BY <2>2 DEF q
<1> HIDE DEF t3
<1>14. \A m \in Nodes : t3.color[m] =
         IF m = w THEN "red" ELSE IF m = n THEN "black" ELSE tree.color[m]
  BY <1>11, <1>12, <1>13 DEF Painted
<1>15. QED
  BY <1>1, <1>3, <1>4, <1>6, <1>7, <1>8, <1>9, <1>13, <1>14, Zenon

LEMMA RemoveRotateIs ==
    ASSUME NEW M, NEW S, Kept(tree, M, S, fix), RemoveRotate,
           NEW a, a = fix.above, NEW s, s = ShortSide, NEW w, w = tree.child[Other(s)][a],
           NEW f, f = tree.child[Other(s)][w]
    PROVE  /\ a \in M /\ s \in Sides /\ w \in M /\ w # a /\ w # tree.root
           /\ f \in M /\ f # w /\ f # a
           /\ tree.color[w] = "black" /\ tree.color[f] = "red"
           /\ fix.at # tree.root /\ Color(tree, fix.at) = "black"
           /\ Turned(tree, tree', s, a, w)
           /\ \A m \in Nodes : tree'.color[m] =
                IF m = f \/ m = a THEN "black"
                ELSE IF m = w THEN tree.color[a] ELSE tree.color[m]
           /\ fix' = [call |-> "remove", elm |-> fix.elm, at |-> tree'.root, above |-> NIL]
<1>1. /\ a \in M /\ s \in Sides /\ w \in M \cup {NIL} /\ Other(s) \in Sides
      /\ Sibling = w /\ w # a /\ w # tree.root /\ fix.at # tree.root
      /\ FarNephew = Child(tree, Other(s), w) /\ Color(tree, fix.above) = tree.color[a]
  BY ShortageIs DEF RemoveRotate
<1>2. Shape(tree, M, S)
  BY DEF Kept
<1>3. /\ Color(tree, w) = "black" /\ Color(tree, fix.at) = "black"
      /\ Color(tree, FarNephew) = "red"
  BY <1>1, Zenon DEF RemoveRotate, Short, BlackSibling
<1>4. w \in M /\ FarNephew = f /\ FarNephew # NIL
  <2>1. FarNephew # NIL
    BY <1>3 DEF Color
  <2>2. w # NIL
    BY <1>1, <2>1 DEF Child
  <2>3. QED
    BY <1>1, <2>1, <2>2 DEF Child
<1>5. w # NIL /\ M \subseteq NodeOrNil /\ tree \in Trees /\ M \subseteq Nodes
  BY <1>2, <1>4, ShapeIs
<1>6. f \in M /\ f # w
  BY <1>1, <1>2, <1>4, RoundIs DEF Round
<1>7. f # a
  BY <1>1, <1>2, <1>4, Around
<1>8. tree.color[w] = "black" /\ tree.color[f] = "red"
  BY <1>3, <1>4, <1>5 DEF Color
<1>9. tree.color[a] \in {"red", "black"}
  BY <1>1, <1>5, LinksAre
<1> DEFINE t1 == Paint(tree, w, tree.color[a])
           t2 == Paint(t1, a, "black")
           t3 == Paint(t2, f, "black")
           t4 == Rotate(t3, s, a)
<1>10. /\ tree' = t4
       /\ fix' = [call |-> "remove", elm |-> fix.elm, at |-> tree'.root, above |-> NIL]
  <2>1. tree' = t4 /\ fix' = [fix EXCEPT !.at = tree'.root, !.above = NIL]
    BY <1>1, <1>4, Zenon DEF RemoveRotate
  <2>2. fix \in Fixes /\ fix.call = "remove"
    BY DEF RemoveRotate, Kept, Working
  <2>3. \A b : [fix EXCEPT !.at = b, !.above = NIL] =
               [call |-> "remove", elm |-> fix.elm, at |-> b, above |-> NIL]
    BY <2>2, FixMoves, Zenon
  <2>4. QED
    BY <2>1, <2>3, Zenon
<1>11. Repainted(tree, tree)
  BY <1>5 DEF Repainted
<1>12. Repainted(tree, t1) /\ Painted(tree, w, tree.color[a], t1)
  BY <1>4, <1>5, <1>9, <1>11, RepaintIs
<1> HIDE DEF t1
<1>13. Repainted(tree, t2) /\ Painted(t1, a, "black", t2)
  BY <1>1, <1>5, <1>12, RepaintIs
<1> HIDE DEF t2
<1>14. Repainted(tree, t3) /\ Painted(t2, f, "black", t3)
  BY <1>5, <1>6, <1>13, RepaintIs
<1> HIDE DEF t3
<1>15. Turned(tree, t4, s, a, w) /\ t4.color = t3.color
  BY <1>1, <1>2, <1>4, <1>14, RepaintTurns
<1> HIDE DEF t4
<1>16. \A m \in Nodes : t4.color[m] =
         IF m = f \/ m = a THEN "black" ELSE IF m = w THEN tree.color[a] ELSE tree.color[m]
  BY <1>12, <1>13, <1>14, <1>15, <1>6, <1>7 DEF Painted
<1>17. QED
  BY <1>1, <1>3, <1>4, <1>6, <1>7, <1>8, <1>10, <1>15, <1>16

(* e is red and has y above it and nothing below.                          *)
Bare(t, e, y, r) ==
    /\ r \in Trees /\ r.root = t.root
    /\ \A m \in Nodes : r.parent[m] = IF m = e THEN y ELSE t.parent[m]
    /\ \A m \in Nodes : r.color[m] = IF m = e THEN "red" ELSE t.color[m]
    /\ \A m \in Nodes, z \in Sides : r.child[z][m] = IF m = e THEN NIL ELSE t.child[z][m]

LEMMA BareIs ==
    ASSUME NEW t \in Trees, NEW e \in Nodes, NEW y \in NodeOrNil
    PROVE  Bare(t, e, y, [t EXCEPT !.parent[e] = y, !.color[e] = "red",
                                   !.child["left"][e] = NIL, !.child["right"][e] = NIL])
<1>0. PICK r : r = [t EXCEPT !.parent[e] = y, !.color[e] = "red",
                             !.child["left"][e] = NIL, !.child["right"][e] = NIL]
  OBVIOUS
<1> DEFINE c1 == [t.child EXCEPT !["left"] = [@ EXCEPT ![e] = NIL]]
           c2 == [c1 EXCEPT !["right"] = [@ EXCEPT ![e] = NIL]]
           p1 == [t.parent EXCEPT ![e] = y]
           o1 == [t.color EXCEPT ![e] = "red"]
<1>1. r = [root |-> t.root, child |-> c2, parent |-> p1, color |-> o1]
  BY <1>0 DEF Trees
<1>2. /\ t.root \in NodeOrNil /\ t.parent \in [Nodes -> NodeOrNil]
      /\ t.color \in [Nodes -> {"red", "black"}]
      /\ t.child \in [Sides -> [Nodes -> NodeOrNil]] /\ NIL \in NodeOrNil
  BY LinksAre DEF NodeOrNil
<1>3. p1 \in [Nodes -> NodeOrNil] /\ \A m \in Nodes : p1[m] = IF m = e THEN y ELSE t.parent[m]
  BY <1>2
<1>4. /\ o1 \in [Nodes -> {"red", "black"}]
      /\ \A m \in Nodes : o1[m] = IF m = e THEN "red" ELSE t.color[m]
  BY <1>2
<1>5. /\ c1 \in [Sides -> [Nodes -> NodeOrNil]]
      /\ \A m \in Nodes, z \in Sides :
           c1[z][m] = IF m = e /\ z = "left" THEN NIL ELSE t.child[z][m]
  BY <1>2 DEF Sides
<1> HIDE DEF c1, p1, o1
<1>6. /\ c2 \in [Sides -> [Nodes -> NodeOrNil]]
      /\ \A m \in Nodes, z \in Sides :
           c2[z][m] = IF m = e /\ z = "right" THEN NIL ELSE c1[z][m]
  BY <1>2, <1>5 DEF Sides
<1> HIDE DEF c2
<1>7. r \in Trees
  BY <1>1, <1>2, <1>3, <1>4, <1>6 DEF Trees
<1>8. \A m \in Nodes, z \in Sides : r.child[z][m] = IF m = e THEN NIL ELSE t.child[z][m]
  BY <1>1, <1>5, <1>6 DEF Sides
<1>9. QED
  <2>1. Bare(t, e, y, r)
    BY <1>1, <1>3, <1>4, <1>7, <1>8 DEF Bare
  <2>2. QED
    BY <1>0, <2>1

LEMMA ResetIs ==
    ASSUME NEW t, NEW M, NEW S, Shape(t, M, S), NEW e \in Nodes \ M, Loose(t, M, e)
    PROVE  /\ Agree(t, Reset(t, e), M)
           /\ Loose(Reset(t, e), M, NIL)
           /\ \A m \in M : Reset(t, e).color[m] = t.color[m]
<1>1. t \in Trees /\ t.root \in NodeOrNil /\ NIL \in NodeOrNil /\ M \subseteq Nodes /\ NIL \notin M
      /\ (t.root # NIL => t.parent[t.root] = NIL) /\ e \in Nodes /\ e \notin M /\ t.root \in M \cup {NIL}
  BY ShapeIs
<1> DEFINE h == Hang(t, t.root, NIL)
           r == Reset(t, e)
<1>2. Hung(t, t.root, NIL, h)
  BY <1>1, HangIs
<1>3. r = [h EXCEPT !.parent[e] = NIL, !.color[e] = "red",
                    !.child["left"][e] = NIL, !.child["right"][e] = NIL]
  BY DEF Reset
<1> HIDE DEF h
<1>4. h \in Trees /\ h.root = t.root /\ h.color = t.color /\ h.child = t.child
  BY <1>2 DEF Hung
<1>5. \A m \in Nodes : h.parent[m] = t.parent[m]
  BY <1>1, <1>2, NilNotNode DEF Hung
<1> HIDE DEF r
<1>6. /\ r \in Trees /\ r.root = h.root
      /\ \A m \in Nodes : r.parent[m] = IF m = e THEN NIL ELSE h.parent[m]
      /\ \A m \in Nodes : r.color[m] = IF m = e THEN "red" ELSE h.color[m]
      /\ \A m \in Nodes, z \in Sides : r.child[z][m] = IF m = e THEN NIL ELSE h.child[z][m]
  <2>1. Bare(h, e, NIL, r)
    BY <1>1, <1>3, <1>4, BareIs, Zenon
  <2>2. QED
    BY <2>1 DEF Bare
<1>7. Agree(t, r, M)
  BY <1>1, <1>4, <1>5, <1>6 DEF Agree
<1>8. Loose(r, M, NIL)
  <2> SUFFICES ASSUME NEW n \in Nodes \ M
               PROVE  r.parent[n] = NIL /\ \A z \in Sides : r.child[z][n] = NIL
    BY NilNotNode DEF Loose
  <2>1. n # e => t.parent[n] = NIL /\ \A z \in Sides : t.child[z][n] = NIL
    BY DEF Loose
  <2>2. QED
    BY <1>4, <1>5, <1>6, <2>1
<1>9. QED
  BY <1>1, <1>4, <1>6, <1>7, <1>8 DEF r

LEMMA InsertDoneIs ==
    ASSUME NEW M, NEW S, Kept(tree, M, S, fix), InsertDone
    PROVE  /\ Agree(tree, tree', M) /\ SameOutside(tree, tree', M)
           /\ \A m \in Nodes : tree'.color[m] = IF m = tree.root THEN "black" ELSE tree.color[m]
           /\ fix' = NoFix /\ fix.elm = NIL /\ fix.at \in M
           /\ fix.at = tree.root \/ Color(tree, Parent(tree, fix.at)) = "black"
<1>1. Shape(tree, M, S) /\ Working(tree, M, fix)
  BY DEF Kept
<1>2. /\ tree \in Trees /\ tree.root \in NodeOrNil /\ NIL \in NodeOrNil
      /\ (tree.root # NIL => tree.parent[tree.root] = NIL)
      /\ M \subseteq Nodes /\ tree.root \in M \cup {NIL}
  BY <1>1, ShapeIs
<1> DEFINE t1 == Paint(tree, tree.root, "black")
           t2 == Hang(t1, tree.root, NIL)
<1>3. tree' = t2 /\ fix' = NoFix /\ fix.call = "insert" /\ ~Clash
  BY Zenon DEF InsertDone
<1>4. Painted(tree, tree.root, "black", t1)
  BY <1>2, PaintIs
<1> HIDE DEF t1
<1>5. t1 \in Trees /\ t1.root = tree.root /\ t1.parent = tree.parent /\ t1.child = tree.child
  BY <1>4 DEF Painted
<1>6. Hung(t1, tree.root, NIL, t2)
  BY <1>2, <1>5, HangIs
<1> HIDE DEF t2
<1>7. /\ t2 \in Trees /\ t2.root = tree.root /\ t2.child = tree.child /\ t2.color = t1.color
      /\ \A m \in Nodes : t2.parent[m] = tree.parent[m]
  BY <1>2, <1>5, <1>6, NilNotNode DEF Hung
<1>8. Agree(tree, t2, M) /\ SameOutside(tree, t2, M)
  BY <1>2, <1>7 DEF Agree, SameOutside
<1>9. \A m \in Nodes : t2.color[m] = IF m = tree.root THEN "black" ELSE tree.color[m]
  BY <1>4, <1>7 DEF Painted
<1>10. fix.elm = NIL /\ fix.at \in M
  BY <1>1, <1>3, WorkingIs
<1>11. fix.at = tree.root \/ Color(tree, Parent(tree, fix.at)) = "black"
  <2>1. fix.at \in Nodes /\ fix.at # NIL
    BY <1>1, <1>10, ShapeIs
  <2>2. Parent(tree, fix.at) \in NodeOrNil
    BY <1>2, <2>1, LinksAre DEF Parent
  <2>3. Color(tree, Parent(tree, fix.at)) \in {"red", "black"}
    BY <1>2, <2>2, LinksAre DEF Color, NodeOrNil
  <2>4. QED
    BY <1>3, <2>3 DEF Clash
<1>12. QED
  BY <1>3, <1>8, <1>9, <1>10, <1>11

LEMMA RemoveDoneIs ==
    ASSUME NEW M, NEW S, Kept(tree, M, S, fix), RemoveDone
    PROVE  /\ Agree(tree, tree', M) /\ Loose(tree', M, NIL)
           /\ \A m \in M : tree'.color[m] = IF m = fix.at THEN "black" ELSE tree.color[m]
           /\ fix' = NoFix /\ fix.at \in M \cup {NIL}
           /\ fix.at = tree.root \/ Color(tree, fix.at) = "red"
<1>1. Shape(tree, M, S) /\ Working(tree, M, fix) /\ Loose(tree, M, fix.elm)
  BY DEF Kept
<1>2. tree \in Trees /\ M \subseteq Nodes /\ M \subseteq NodeOrNil /\ NIL \in NodeOrNil
  BY <1>1, ShapeIs
<1> DEFINE t1 == Paint(tree, fix.at, "black")
           t2 == Reset(t1, fix.elm)
<1>3. tree' = t2 /\ fix' = NoFix /\ fix.call = "remove" /\ ~Short
  BY Zenon DEF RemoveDone
<1>4. fix.elm \in Nodes \ M /\ fix.at \in M \cup {NIL}
  BY <1>1, <1>3, WorkingIs
<1>5. Repainted(tree, tree)
  BY <1>2 DEF Repainted
<1>6. Repainted(tree, t1) /\ Painted(tree, fix.at, "black", t1)
  BY <1>2, <1>4, <1>5, RepaintIs
<1> HIDE DEF t1
<1>7. Shape(t1, M, S)
  BY <1>1, <1>6, RepaintKeeps
<1>8. Loose(t1, M, fix.elm)
  BY <1>1, <1>6 DEF Loose, Repainted
<1>9. Agree(t1, t2, M) /\ Loose(t2, M, NIL) /\ \A m \in M : t2.color[m] = t1.color[m]
  BY <1>4, <1>7, <1>8, ResetIs
<1> HIDE DEF t2
<1>10. Agree(tree, t2, M)
  BY <1>6, <1>9 DEF Agree, Repainted
<1>11. \A m \in M : t2.color[m] = IF m = fix.at THEN "black" ELSE tree.color[m]
  BY <1>2, <1>6, <1>9 DEF Painted
<1>12. fix.at = tree.root \/ Color(tree, fix.at) = "red"
  <2>1. Color(tree, fix.at) \in {"red", "black"}
    BY <1>2, <1>4, LinksAre DEF Color
  <2>2. QED
    BY <1>3, <2>1 DEF Short
<1>13. QED
  BY <1>3, <1>4, <1>9, <1>10, <1>11, <1>12

(* A new leaf below y on side s, at the place of its key.                  *)
LeafAt(t, M, S, s, y, e) ==
    /\ y \in M /\ s \in Sides /\ t.child[s][y] = NIL /\ Before(s, e, y)
    /\ \A n \in M, z \in Sides : y \in S[t.child[z][n]] => Before(z, e, n)

LEMMA InsertLinkIs ==
    ASSUME NEW M, NEW S, Kept(tree, M, S, fix), NEW e \in Nodes, InsertLink(e)
    PROVE  /\ fix = NoFix /\ e \notin M /\ \A m \in M : KeyOf[m] # KeyOf[e]
           /\ \A m \in Nodes : tree'.color[m] = IF m = e THEN "red" ELSE tree.color[m]
           /\ fix' = [call |-> "insert", elm |-> NIL, at |-> e, above |-> NIL]
           /\ ret' = NIL
           /\ Loose(tree', M \cup {e}, NIL)
           /\ tree.root = NIL =>
                /\ M = {} /\ tree' \in Trees /\ tree'.root = e /\ tree'.parent[e] = NIL
                /\ \A z \in Sides : tree'.child[z][e] = NIL
           /\ tree.root # NIL =>
                \E y, s : LeafAt(tree, M, S, s, y, e) /\ Grown(tree, s, y, e, tree')
<1>1. Shape(tree, M, S)
  BY DEF Kept
<1> DEFINE y == EndOf(tree.root, Descent(tree, KeyOf[e]))
           k == KeyOf[e]
           leaf == [tree EXCEPT !.parent[e] = y, !.color[e] = "red",
                                !.child["left"][e] = NIL, !.child["right"][e] = NIL]
           q == IF KeyOf[e] < KeyOf[y] THEN "left" ELSE "right"
<1>2. /\ fix = NoFix /\ FIND(tree, k) = NIL /\ ret' = NIL
      /\ tree' = IF y = NIL THEN [leaf EXCEPT !.root = e] ELSE SetChild(leaf, q, y, e)
      /\ fix' = [call |-> "insert", elm |-> NIL, at |-> e, above |-> NIL]
  BY DEF InsertLink, NoFix
<1>3. Loose(tree, M, NIL)
  BY <1>2 DEF Kept, NoFix
<1>4. Outside(tree, M) /\ k \in Int
  BY <1>3, LooseIs, KeysCompare
<1>5. /\ tree \in Trees /\ M \subseteq Nodes /\ NIL \in NodeOrNil /\ NIL \notin M
      /\ tree.root \in M \cup {NIL} /\ S[NIL] = {} /\ S[tree.root] = M
  BY <1>1, ShapeIs
<1>6. \A m \in M : KeyOf[m] # k
  <2>1. \A m \in M : KeyOf[m] = k => FIND(tree, k) = m
    BY <1>1, <1>4, FindIs
  <2>2. QED
    BY <1>2, <1>5, <2>1
<1>7. e \notin M
  BY <1>6
<1>8. tree.root = NIL => y = NIL
  BY <1>1, <1>4, DescentIs
<1>9. tree.root # NIL => Descends(tree, M, S, k, y)
  BY <1>1, <1>4, DescentIs
<1>10. y \in NodeOrNil
  BY <1>5, <1>8, <1>9 DEF Descends, NodeOrNil
<1> HIDE DEF y
<1>11. /\ leaf \in Trees /\ leaf.root = tree.root
       /\ \A m \in Nodes : leaf.parent[m] = IF m = e THEN y ELSE tree.parent[m]
       /\ \A m \in Nodes : leaf.color[m] = IF m = e THEN "red" ELSE tree.color[m]
       /\ \A m \in Nodes, z \in Sides : leaf.child[z][m] = IF m = e THEN NIL ELSE tree.child[z][m]
  <2>1. leaf = [tree EXCEPT !.parent[e] = y, !.color[e] = "red",
                            !.child["left"][e] = NIL, !.child["right"][e] = NIL]
    OBVIOUS
  <2> HIDE DEF leaf
  <2>2. Bare(tree, e, y, leaf)
    BY <1>5, <1>10, <2>1, BareIs, Zenon
  <2>3. QED
    BY <2>2 DEF Bare
<1> HIDE DEF leaf
<1>12. ASSUME tree.root = NIL
       PROVE  /\ M = {} /\ tree' \in Trees /\ tree'.root = e /\ tree'.parent[e] = NIL
              /\ \A z \in Sides : tree'.child[z][e] = NIL
              /\ tree'.color = leaf.color
              /\ Loose(tree', M \cup {e}, NIL)
  <2>1. M = {} /\ y = NIL /\ tree' = [leaf EXCEPT !.root = e]
    BY <1>2, <1>5, <1>8, <1>12
  <2>2. /\ tree' \in Trees /\ tree'.root = e /\ tree'.parent = leaf.parent
        /\ tree'.child = leaf.child /\ tree'.color = leaf.color
    BY <1>11, <2>1 DEF Trees, NodeOrNil
  <2>3. Loose(tree', M \cup {e}, NIL)
    BY <1>3, <1>11, <2>2, NilNotNode DEF Loose
  <2>4. QED
    BY <1>11, <2>1, <2>2, <2>3
<1>13. ASSUME tree.root # NIL
       PROVE  /\ LeafAt(tree, M, S, q, y, e) /\ Grown(tree, q, y, e, tree')
              /\ tree'.color = leaf.color
              /\ Loose(tree', M \cup {e}, NIL)
  <2>1. Descends(tree, M, S, k, y)
    BY <1>9, <1>13
  <2>2. y \in M /\ y # NIL /\ y # e /\ q \in Sides /\ y \in Nodes
    BY <1>5, <1>7, <2>1 DEF Descends, Sides
  <2>3. OnSide(q, k, KeyOf[y])
    <3>1. KeyOf[y] # k /\ KeyOf[y] \in Int
      BY <1>6, <2>2, KeysCompare
    <3>2. QED
      BY <1>4, <3>1 DEF OnSide
  <2>4. LeafAt(tree, M, S, q, y, e)
    <3>1. tree.child[q][y] = NIL
      BY <2>1, <2>2, <2>3 DEF Descends
    <3>2. \A n \in M, z \in Sides : y \in S[tree.child[z][n]] => OnSide(z, k, KeyOf[n])
      BY <2>1 DEF Descends
    <3>3. QED
      BY <2>2, <2>3, <3>1, <3>2 DEF LeafAt, OnSide, Before
  <2> HIDE DEF q
  <2>5. ChildSet(leaf, q, y, e, tree')
    <3>1. e \in NodeOrNil /\ tree' = SetChild(leaf, q, y, e)
      BY <1>2, <2>2 DEF NodeOrNil
    <3>2. QED
      BY <1>10, <1>11, <2>2, <3>1, SetChildIs
  <2>6. Grown(tree, q, y, e, tree')
    <3>1. \A z \in Sides, m \in Nodes :
            tree'.child[z][m] = IF m = e THEN NIL ELSE IF m = y /\ z = q THEN e ELSE tree.child[z][m]
      BY <1>11, <2>2, <2>5 DEF ChildSet
    <3>2. \A m \in Nodes : tree'.parent[m] = IF m = e THEN y ELSE tree.parent[m]
      BY <1>11, <2>5 DEF ChildSet
    <3>3. tree' \in Trees /\ tree'.root = tree.root
      BY <1>11, <2>5 DEF ChildSet
    <3>4. QED
      BY <3>1, <3>2, <3>3 DEF Grown
  <2>7. Loose(tree', M \cup {e}, NIL)
    <3> SUFFICES ASSUME NEW n \in Nodes \ (M \cup {e})
                 PROVE  tree'.parent[n] = NIL /\ \A z \in Sides : tree'.child[z][n] = NIL
      BY NilNotNode DEF Loose
    <3>1. tree.parent[n] = NIL /\ \A z \in Sides : tree.child[z][n] = NIL
      BY <1>3, NilNotNode DEF Loose
    <3>2. n # y /\ n # e
      BY <2>2
    <3>3. QED
      BY <2>6, <3>1, <3>2 DEF Grown
  <2>8. tree'.color = leaf.color
    BY <2>5 DEF ChildSet
  <2>9. QED
    BY <2>4, <2>6, <2>7, <2>8
<1>14. tree'.color = leaf.color /\ Loose(tree', M \cup {e}, NIL)
  BY <1>12, <1>13
<1>15. QED
  BY <1>2, <1>6, <1>7, <1>11, <1>12, <1>13, <1>14

(* The cut out of an element with a free side, and of one without.         *)
LEMMA EdgeCutIs ==
    ASSUME NEW M, NEW S, Shape(tree, M, S), Loose(tree, M, NIL), NEW e \in M,
           \E z \in Sides : tree.child[z][e] = NIL
    PROVE  \E q \in Sides :
             /\ tree.child[Other(q)][e] = NIL
             /\ Handed(tree, M, e, tree.child[q][e], RemoveEdge(e).tree)
             /\ Shape(RemoveEdge(e).tree, M \ {e}, Without(S, e))
             /\ Loose(RemoveEdge(e).tree, M \ {e}, e)
             /\ RemoveEdge(e).lost = tree.color[e]
             /\ RemoveEdge(e).at = tree.child[q][e]
             /\ RemoveEdge(e).above = tree.parent[e]
<1>1. \E q \in Sides : /\ tree.child[Other(q)][e] = NIL
                       /\ q = IF tree.child["left"][e] = NIL THEN "right" ELSE "left"
  BY SidesAre
<1>2. PICK q \in Sides : /\ tree.child[Other(q)][e] = NIL
                         /\ q = IF tree.child["left"][e] = NIL THEN "right" ELSE "left"
  BY <1>1
<1> DEFINE x == tree.child[q][e]
           r == RemoveEdge(e).tree
<1>3. /\ r = Transplant(tree, e, x) /\ RemoveEdge(e).lost = tree.color[e]
      /\ RemoveEdge(e).at = x /\ RemoveEdge(e).above = tree.parent[e]
  BY <1>2 DEF RemoveEdge
<1>4. Round(tree, M, e)
  BY RoundIs
<1>5. M \subseteq NodeOrNil /\ NIL \in NodeOrNil /\ M \subseteq Nodes /\ e \in Nodes
  BY ShapeIs
<1>6. x \in NodeOrNil /\ x \in M \cup {NIL}
  BY <1>4, <1>5 DEF Round
<1> HIDE DEF x, r
<1>7. Handed(tree, M, e, x, r)
  BY <1>3, <1>6, TransplantHands
<1>8. Shape(r, M \ {e}, Without(S, e))
  BY <1>2, <1>7, ShapeSplices DEF x
<1>9. Loose(r, M \ {e}, e)
  <2> SUFFICES ASSUME NEW n \in Nodes \ (M \ {e})
               PROVE  /\ r.parent[n] \in IF n = e THEN (M \ {e}) \cup {NIL} ELSE {NIL}
                      /\ \A z \in Sides :
                           r.child[z][n] \in IF n = e THEN (M \ {e}) \cup {NIL} ELSE {NIL}
    BY DEF Loose
  <2>1. CASE n = e
    <3>1. /\ tree.parent[e] \in M \cup {NIL} /\ tree.parent[e] # e
          /\ \A z \in Sides : tree.child[z][e] \in M \cup {NIL} /\ tree.child[z][e] # e
      BY <1>4 DEF Round
    <3>2. r.parent[e] = tree.parent[e]
      BY <1>5, <1>7 DEF Handed
    <3>3. \A z \in Sides : r.child[z][e] = tree.child[z][e]
      BY <1>7, <3>1 DEF Handed
    <3>4. QED
      BY <2>1, <3>1, <3>2, <3>3
  <2>2. CASE n # e
    <3>1. n \in Nodes \ M /\ n # x
      BY <1>5, <1>6, <2>2, NilNotNode
    <3>2. tree.parent[n] = NIL /\ \A z \in Sides : tree.child[z][n] = NIL
      BY <3>1, NilNotNode DEF Loose
    <3>3. QED
      BY <1>7, <2>2, <3>1, <3>2 DEF Handed
  <2>3. QED
    BY <2>1, <2>2
<1>10. QED
  BY <1>2, <1>3, <1>7, <1>8, <1>9 DEF x, r

LEMMA InnerCutIs ==
    ASSUME NEW M, NEW S, Shape(tree, M, S), Loose(tree, M, NIL), NEW e \in M,
           \A z \in Sides : tree.child[z][e] # NIL
    PROVE  \E y \in M : \E gone :
             /\ y # e /\ y # tree.root /\ y \in S[e] /\ tree.child["left"][y] = NIL
             /\ Handed(tree, M, y, tree.child["right"][y], gone)
             /\ Shape(gone, M \ {y}, Without(S, y))
             /\ InnerCut(M, e, y, tree.child["right"][y], gone, RemoveInner(e))
             /\ Shape(RemoveInner(e).tree, M \ {e}, Instead(M \ {y}, Without(S, y), e, y))
<1> DEFINE r == RemoveInner(e).tree
<1>0. PICK y, x, gone : /\ y = Outermost(tree, "left", tree.child["right"][e])
                        /\ x = tree.child["right"][y]
                        /\ gone = Transplant(tree, y, x)
  OBVIOUS
<1>1. Outside(tree, M) /\ tree.child["right"][e] # NIL /\ "right" \in Sides /\ "left" \in Sides
      /\ Other("right") = "left"
  BY LooseIs, SidesAre
<1>2. /\ y \in M /\ y # e /\ tree.child["left"][y] = NIL /\ y # tree.root /\ y \in S[e]
      /\ \A m \in M \ {e, y}, z \in Sides : Before(z, m, e) <=> Before(z, m, y)
  BY <1>0, <1>1, SuccessorIs
<1>3. InnerCut(M, e, y, x, gone, RemoveInner(e)) /\ Replaced(gone, M \ {y}, e, y, r)
  <2>1. InnerCut(M, e, y, x, gone, RemoveInner(e))
    BY <1>0, RemoveInnerIs
  <2>2. QED
    BY <2>1 DEF InnerCut, r
<1> HIDE DEF r
<1>4. x \in M \cup {NIL} /\ x \in NodeOrNil
  BY <1>0, <1>1, <1>2, RoundIs, ShapeIs DEF Round
<1>5. Handed(tree, M, y, x, gone)
  BY <1>0, <1>2, <1>4, TransplantHands
<1>6. Shape(gone, M \ {y}, Without(S, y))
  BY <1>0, <1>1, <1>2, <1>5, ShapeSplices
<1>7. e \in M \ {y} /\ y \in Nodes \ (M \ {y})
  BY <1>2, ShapeIs
<1>8. ((M \ {y}) \ {e}) \cup {y} = M \ {e}
  BY <1>2
<1>9. Shape(r, ((M \ {y}) \ {e}) \cup {y}, Instead(M \ {y}, Without(S, y), e, y))
  <2>1. \A m \in (M \ {y}) \ {e}, z \in Sides : Before(z, m, e) <=> Before(z, m, y)
    BY <1>2
  <2>2. QED
    BY <1>3, <1>6, <1>7, <2>1, ShapeReplaces
<1>10. QED
  BY <1>0, <1>2, <1>3, <1>5, <1>6, <1>8, <1>9 DEF r

-----------------------------------------------------------------------------
(* What every step keeps                                                   *)

LEMMA LooseSame ==
    ASSUME NEW t, NEW r, NEW M, NEW e, Loose(t, M, e), SameOutside(t, r, M)
    PROVE  Loose(r, M, e)
BY DEF Loose, SameOutside

(* Turning and painting keep the members, and with the locals and the      *)
(* root's colour in order the call goes on.                                *)
LEMMA TurnKept ==
    ASSUME NEW M, NEW S, Kept(tree, M, S, fix), NEW s \in Sides, NEW x \in M, NEW y \in M,
           y = tree.child[Other(s)][x], Turned(tree, tree', s, x, y),
           Working(tree', M, fix'), fix'.elm = fix.elm
    PROVE  \E Q : Kept(tree', M, Q, fix')
<1>1. Shape(tree, M, S) /\ Loose(tree, M, fix.elm)
  BY DEF Kept
<1>2. Shape(tree', M, TurnedBelow(tree, S, s, x, y)) /\ SameOutside(tree, tree', M)
  BY <1>1, ShapeTurns
<1>3. Loose(tree', M, fix'.elm)
  BY <1>1, <1>2, LooseSame
<1>4. QED
  BY <1>2, <1>3 DEF Kept

LEMMA PaintKept ==
    ASSUME NEW M, NEW S, Kept(tree, M, S, fix), Repainted(tree, tree'),
           Working(tree', M, fix'), fix'.elm = fix.elm
    PROVE  \E Q : Kept(tree', M, Q, fix')
<1>1. Shape(tree, M, S) /\ Loose(tree, M, fix.elm)
  BY DEF Kept
<1>2. Shape(tree', M, S) /\ SameOutside(tree, tree', M)
  BY <1>1, RepaintKeeps
<1>3. Loose(tree', M, fix'.elm)
  BY <1>1, <1>2, LooseSame
<1>4. QED
  BY <1>2, <1>3 DEF Kept

LEMMA InsertRecolorKept ==
    ASSUME NEW M, NEW S, Kept(tree, M, S, fix), InsertRecolor
    PROVE  \E Q : Kept(tree', M, Q, fix')
<1>1. PICK z, p, g, s, u : /\ z = fix.at /\ p = tree.parent[z] /\ g = tree.parent[p]
                           /\ s = SideOf(tree, p) /\ u = tree.child[Other(s)][g]
  OBVIOUS
<1>2. /\ z \in M /\ p \in M /\ g \in M /\ u \in M
      /\ ClashAt(tree, z, p, g, s, u)
      /\ Repainted(tree, tree')
      /\ \A m \in Nodes : tree'.color[m] =
           IF m = g THEN "red" ELSE IF m = u \/ m = p THEN "black" ELSE tree.color[m]
      /\ fix' = [fix EXCEPT !.at = g]
  BY <1>1, InsertRecolorIs
<1>3. Working(tree, M, fix) /\ tree.root \in M \cup {NIL} /\ M \subseteq Nodes /\ NIL \notin M
  BY ShapeIs DEF Kept
<1>4. fix.call = "insert" /\ tree.root # z
  BY <1>2 DEF InsertRecolor, ClashAt
<1>5. fix' = [call |-> "insert", elm |-> NIL, at |-> g, above |-> NIL]
  BY <1>2, <1>3, <1>4 DEF Working, Fixes
<1>6. tree'.root = tree.root /\ (tree.root # NIL => tree.color[tree.root] = "black")
  BY <1>1, <1>2, <1>3, <1>4, Zenon DEF Repainted, Working
<1>7. Working(tree', M, fix') /\ fix'.elm = fix.elm
  BY <1>2, <1>3, <1>4, <1>5, <1>6 DEF Working, Fixes, NodeOrNil
<1>8. QED
  BY <1>2, <1>7, PaintKept

LEMMA InsertStraightenKept ==
    ASSUME NEW M, NEW S, Kept(tree, M, S, fix), InsertStraighten
    PROVE  \E Q : Kept(tree', M, Q, fix')
<1>1. PICK z, p, g, s, u : /\ z = fix.at /\ p = tree.parent[z] /\ g = tree.parent[p]
                           /\ s = SideOf(tree, p) /\ u = tree.child[Other(s)][g]
  OBVIOUS
<1>2. /\ z \in M /\ p \in M /\ g \in M /\ ClashAt(tree, z, p, g, s, u)
      /\ z = tree.child[Other(s)][p]
      /\ Turned(tree, tree', s, p, z) /\ tree'.color = tree.color
      /\ fix' = [fix EXCEPT !.at = p]
  BY <1>1, InsertStraightenIs
<1>3. Working(tree, M, fix) /\ tree.root \in M \cup {NIL} /\ M \subseteq Nodes /\ NIL \notin M
  BY ShapeIs DEF Kept
<1>4. fix.call = "insert" /\ tree.root # z /\ tree.root # p /\ s \in Sides
  BY <1>2 DEF InsertStraighten, ClashAt
<1>5. fix' = [call |-> "insert", elm |-> NIL, at |-> p, above |-> NIL]
  BY <1>2, <1>3, <1>4 DEF Working, Fixes
<1>6. tree'.root = tree.root /\ (tree.root # NIL => tree'.color[tree.root] = "black")
  BY <1>1, <1>2, <1>3, <1>4, Zenon DEF Turned, Working
<1>7. Working(tree', M, fix') /\ fix'.elm = fix.elm
  BY <1>2, <1>3, <1>4, <1>5, <1>6 DEF Working, Fixes, NodeOrNil
<1>8. QED
  BY <1>2, <1>4, <1>7, TurnKept

LEMMA InsertRotateKept ==
    ASSUME NEW M, NEW S, Kept(tree, M, S, fix), InsertRotate
    PROVE  \E Q : Kept(tree', M, Q, fix')
<1>1. PICK z, p, g, s, u : /\ z = fix.at /\ p = tree.parent[z] /\ g = tree.parent[p]
                           /\ s = SideOf(tree, p) /\ u = tree.child[Other(s)][g]
  OBVIOUS
<1>2. /\ z \in M /\ p \in M /\ g \in M
      /\ ClashAt(tree, z, p, g, s, u)
      /\ Turned(tree, tree', Other(s), g, p)
      /\ \A m \in Nodes : tree'.color[m] =
           IF m = g THEN "red" ELSE IF m = p THEN "black" ELSE tree.color[m]
      /\ fix' = fix
  BY <1>1, InsertRotateIs
<1>3. Working(tree, M, fix) /\ tree.root \in M \cup {NIL} /\ M \subseteq Nodes /\ NIL \notin M
  BY ShapeIs DEF Kept
<1>4. /\ fix.call = "insert" /\ tree.root # z /\ tree.root # p /\ s \in Sides
      /\ tree.child[s][g] = p /\ p # g
  BY <1>2 DEF InsertRotate, ClashAt
<1>5. fix = [call |-> "insert", elm |-> NIL, at |-> z, above |-> NIL]
  BY <1>1, <1>2, <1>3, <1>4, Zenon DEF Working, Fixes
<1>6. tree'.root = IF g = tree.root THEN p ELSE tree.root
  BY <1>2 DEF Turned
<1>7. tree.root # NIL => tree'.color[tree'.root] = "black"
  BY <1>1, <1>2, <1>3, <1>4, <1>6, Zenon DEF Working
<1>8. Working(tree', M, fix') /\ fix'.elm = fix.elm
  BY <1>2, <1>3, <1>4, <1>5, <1>6, <1>7 DEF Working, Fixes, NodeOrNil
<1>9. QED
  <2> DEFINE q == Other(s)
  <2>1. q \in Sides /\ p = tree.child[Other(q)][g]
    BY <1>4, SidesAre
  <2>2. Turned(tree, tree', q, g, p)
    BY <1>2
  <2> HIDE DEF q
  <2>3. QED
    BY <1>2, <1>8, <2>1, <2>2, TurnKept

LEMMA InsertDoneKept ==
    ASSUME NEW M, NEW S, Kept(tree, M, S, fix), InsertDone
    PROVE  \E Q : Kept(tree', M, Q, fix')
<1>1. /\ Agree(tree, tree', M) /\ SameOutside(tree, tree', M)
      /\ \A m \in Nodes : tree'.color[m] = IF m = tree.root THEN "black" ELSE tree.color[m]
      /\ fix' = NoFix /\ fix.elm = NIL
  BY InsertDoneIs
<1>2. Shape(tree, M, S) /\ Loose(tree, M, NIL)
  BY <1>1 DEF Kept
<1>3. Shape(tree', M, S)
  BY <1>1, <1>2, ShapeAgrees
<1>4. Loose(tree', M, NIL)
  BY <1>1, <1>2, LooseSame
<1>5. tree.root \in M \cup {NIL} /\ M \subseteq Nodes
  BY <1>2, ShapeIs
<1>6. tree'.root = tree.root
  BY <1>1 DEF Agree
<1>7. tree'.root # NIL => tree'.color[tree'.root] = "black"
  BY <1>1, <1>5, <1>6
<1>8. Working(tree', M, NoFix)
  BY <1>7 DEF Working, NoFix, Fixes, NodeOrNil
<1>9. QED
  BY <1>1, <1>3, <1>4, <1>8 DEF Kept, NoFix

(* The locals in REMOVE's loop.                                            *)
LEMMA RemovingIs ==
    ASSUME NEW M, NEW S, Kept(tree, M, S, fix), fix.call = "remove"
    PROVE  /\ fix = [call |-> "remove", elm |-> fix.elm, at |-> fix.at, above |-> fix.above]
           /\ fix.elm \in Nodes \ M /\ fix.at \in M \cup {NIL} /\ fix.above \in M \cup {NIL}
           /\ tree.root # NIL /\ tree.root # fix.at => tree.color[tree.root] = "black"
           /\ tree \in Trees /\ tree.root \in M \cup {NIL} /\ M \subseteq Nodes /\ NIL \notin M
BY ShapeIs, WorkingIs DEF Kept

LEMMA RemoveLiftKept ==
    ASSUME NEW M, NEW S, Kept(tree, M, S, fix), RemoveLift
    PROVE  \E Q : Kept(tree', M, Q, fix')
<1>1. PICK a, s, w : a = fix.above /\ s = ShortSide /\ w = tree.child[Other(s)][a]
  OBVIOUS
<1>2. /\ a \in M /\ s \in Sides /\ w \in M /\ w # a /\ w # tree.root /\ fix.at # tree.root
      /\ Turned(tree, tree', s, a, w)
      /\ \A m \in Nodes : tree'.color[m] =
           IF m = a THEN "red" ELSE IF m = w THEN "black" ELSE tree.color[m]
      /\ fix' = fix
  BY <1>1, RemoveLiftIs
<1>3. fix.call = "remove"
  BY DEF RemoveLift
<1>4. /\ fix.elm \in Nodes \ M /\ fix.at \in M \cup {NIL} /\ fix.above \in M \cup {NIL}
      /\ tree.root # NIL /\ tree.root # fix.at => tree.color[tree.root] = "black"
      /\ tree.root \in M \cup {NIL} /\ M \subseteq Nodes /\ NIL \notin M
  BY <1>3, RemovingIs
<1>5. tree'.root = IF a = tree.root THEN w ELSE tree.root
  BY <1>2 DEF Turned
<1>6. tree'.root # NIL => tree'.color[tree'.root] = "black"
  BY <1>2, <1>4, <1>5
<1>7. Working(tree', M, fix')
  BY <1>1, <1>2, <1>3, <1>4, <1>6 DEF Kept, Working
<1>8. QED
  BY <1>1, <1>2, <1>7, TurnKept

LEMMA RemoveRecolorKept ==
    ASSUME NEW M, NEW S, Kept(tree, M, S, fix), RemoveRecolor
    PROVE  \E Q : Kept(tree', M, Q, fix')
<1>1. PICK a, s, w : a = fix.above /\ s = ShortSide /\ w = tree.child[Other(s)][a]
  OBVIOUS
<1>2. /\ a \in M /\ w \in M \cup {NIL} /\ w # tree.root /\ fix.at # tree.root
      /\ Repainted(tree, tree')
      /\ \A m \in Nodes : tree'.color[m] = IF m = w THEN "red" ELSE tree.color[m]
      /\ fix' = [call |-> "remove", elm |-> fix.elm, at |-> a, above |-> tree.parent[a]]
  BY <1>1, RemoveRecolorIs
<1>3. fix.call = "remove" /\ Shape(tree, M, S)
  BY DEF RemoveRecolor, Kept
<1>4. /\ fix = [call |-> "remove", elm |-> fix.elm, at |-> fix.at, above |-> fix.above]
      /\ fix.elm \in Nodes \ M
      /\ tree.root # NIL /\ tree.root # fix.at => tree.color[tree.root] = "black"
      /\ tree.root \in M \cup {NIL} /\ M \subseteq Nodes /\ NIL \notin M
  BY <1>3, RemovingIs
<1>5. fix' = [call |-> "remove", elm |-> fix.elm, at |-> a, above |-> tree.parent[a]]
  BY <1>2
<1>6. tree.parent[a] \in M \cup {NIL} /\ (a # tree.root => tree.parent[a] \in M)
  BY <1>2, <1>3, RoundIs DEF Round
<1>7. tree'.root = tree.root
  BY <1>2 DEF Repainted
<1>8. tree'.root # NIL => tree'.color[tree'.root] = "black"
  BY <1>2, <1>4, <1>7
<1>9. Working(tree', M, fix') /\ fix'.elm = fix.elm
  BY <1>2, <1>4, <1>5, <1>6, <1>7, <1>8 DEF Working, Fixes, NodeOrNil
<1>10. QED
  BY <1>2, <1>9, PaintKept

LEMMA RemoveStraightenKept ==
    ASSUME NEW M, NEW S, Kept(tree, M, S, fix), RemoveStraighten
    PROVE  \E Q : Kept(tree', M, Q, fix')
<1>1. PICK a, s, w, n : /\ a = fix.above /\ s = ShortSide /\ w = tree.child[Other(s)][a]
                        /\ n = tree.child[s][w]
  OBVIOUS
<1>2. /\ a \in M /\ s \in Sides /\ w \in M /\ w # tree.root /\ n \in M /\ n # tree.root
      /\ fix.at # tree.root
      /\ Turned(tree, tree', Other(s), w, n)
      /\ \A m \in Nodes : tree'.color[m] =
           IF m = w THEN "red" ELSE IF m = n THEN "black" ELSE tree.color[m]
      /\ fix' = fix
  BY <1>1, RemoveStraightenIs
<1>3. fix.call = "remove"
  BY DEF RemoveStraighten
<1>4. /\ fix.elm \in Nodes \ M /\ fix.at \in M \cup {NIL} /\ fix.above \in M \cup {NIL}
      /\ tree.root # NIL /\ tree.root # fix.at => tree.color[tree.root] = "black"
      /\ tree.root \in M \cup {NIL} /\ M \subseteq Nodes /\ NIL \notin M
  BY <1>3, RemovingIs
<1>5. tree'.root = tree.root
  BY <1>2 DEF Turned
<1>6. tree'.root # NIL => tree'.color[tree'.root] = "black"
  BY <1>2, <1>4, <1>5
<1>7. Working(tree', M, fix')
  BY <1>1, <1>2, <1>3, <1>4, <1>6 DEF Kept, Working
<1>8. QED
  <2> DEFINE q == Other(s)
  <2>1. q \in Sides /\ n = tree.child[Other(q)][w]
    BY <1>1, <1>2, SidesAre
  <2>2. Turned(tree, tree', q, w, n) /\ fix'.elm = fix.elm
    BY <1>2
  <2> HIDE DEF q
  <2>3. QED
    BY <1>2, <1>7, <2>1, <2>2, TurnKept

LEMMA RemoveRotateKept ==
    ASSUME NEW M, NEW S, Kept(tree, M, S, fix), RemoveRotate
    PROVE  \E Q : Kept(tree', M, Q, fix')
<1>1. PICK a, s, w, f : /\ a = fix.above /\ s = ShortSide /\ w = tree.child[Other(s)][a]
                        /\ f = tree.child[Other(s)][w]
  OBVIOUS
<1>2. /\ a \in M /\ s \in Sides /\ w \in M
      /\ Turned(tree, tree', s, a, w)
      /\ fix' = [call |-> "remove", elm |-> fix.elm, at |-> tree'.root, above |-> NIL]
  BY <1>1, RemoveRotateIs
<1>3. fix.call = "remove"
  BY DEF RemoveRotate
<1>4. /\ fix = [call |-> "remove", elm |-> fix.elm, at |-> fix.at, above |-> fix.above]
      /\ fix.elm \in Nodes \ M
      /\ tree.root \in M \cup {NIL} /\ M \subseteq Nodes /\ NIL \notin M
  BY <1>3, RemovingIs
<1>5. fix' = [call |-> "remove", elm |-> fix.elm, at |-> tree'.root, above |-> NIL]
  BY <1>2
<1>6. tree'.root \in M \cup {NIL}
  BY <1>2, <1>4 DEF Turned
<1>7. Working(tree', M, fix') /\ fix'.elm = fix.elm
  BY <1>4, <1>5, <1>6 DEF Working, Fixes, NodeOrNil
<1>8. QED
  BY <1>1, <1>2, <1>7, TurnKept

LEMMA RemoveDoneKept ==
    ASSUME NEW M, NEW S, Kept(tree, M, S, fix), RemoveDone
    PROVE  \E Q : Kept(tree', M, Q, fix')
<1>1. /\ Agree(tree, tree', M) /\ Loose(tree', M, NIL)
      /\ \A m \in M : tree'.color[m] = IF m = fix.at THEN "black" ELSE tree.color[m]
      /\ fix' = NoFix
  BY RemoveDoneIs
<1>2. Shape(tree, M, S) /\ fix.call = "remove"
  BY DEF Kept, RemoveDone
<1>3. Shape(tree', M, S)
  BY <1>1, <1>2, ShapeAgrees
<1>4. /\ tree.root # NIL /\ tree.root # fix.at => tree.color[tree.root] = "black"
      /\ tree.root \in M \cup {NIL}
  BY <1>2, RemovingIs
<1>5. tree'.root = tree.root
  BY <1>1 DEF Agree
<1>6. tree'.root # NIL => tree'.color[tree'.root] = "black"
  BY <1>1, <1>4, <1>5
<1>7. Working(tree', M, NoFix)
  BY <1>6 DEF Working, NoFix, Fixes, NodeOrNil
<1>8. QED
  BY <1>1, <1>3, <1>7 DEF Kept, NoFix

LEMMA InsertLinkKept ==
    ASSUME NEW M, NEW S, Kept(tree, M, S, fix), NEW e \in Nodes, InsertLink(e)
    PROVE  /\ e \notin M /\ ret' = NIL /\ \A m \in M : KeyOf[m] # KeyOf[e]
           /\ \E Q : Kept(tree', M \cup {e}, Q, fix')
<1>1. /\ fix = NoFix /\ e \notin M /\ \A m \in M : KeyOf[m] # KeyOf[e]
      /\ \A m \in Nodes : tree'.color[m] = IF m = e THEN "red" ELSE tree.color[m]
      /\ fix' = [call |-> "insert", elm |-> NIL, at |-> e, above |-> NIL]
      /\ ret' = NIL
      /\ Loose(tree', M \cup {e}, NIL)
      /\ tree.root = NIL =>
           /\ M = {} /\ tree' \in Trees /\ tree'.root = e /\ tree'.parent[e] = NIL
           /\ \A z \in Sides : tree'.child[z][e] = NIL
      /\ tree.root # NIL =>
           \E y, s : LeafAt(tree, M, S, s, y, e) /\ Grown(tree, s, y, e, tree')
  BY InsertLinkIs
<1>2. /\ Shape(tree, M, S) /\ tree.root \in M \cup {NIL} /\ M \subseteq Nodes /\ NIL \notin Nodes
      /\ tree.root # NIL => tree.color[tree.root] = "black"
  BY <1>1, ShapeIs, NilNotNode DEF Kept, Working, NoFix
<1>3. CASE tree.root = NIL
  <2> DEFINE Q == [n \in NodeOrNil |-> IF n = e THEN {e} ELSE {}]
  <2>1. Shape(tree', {e}, Q)
    BY <1>1, <1>3, ShapeStarts
  <2> HIDE DEF Q
  <2>2. Shape(tree', M \cup {e}, Q)
    BY <1>1, <1>3, <2>1
  <2>3. Working(tree', M \cup {e}, fix')
    BY <1>1, <1>3 DEF Working, Fixes, NodeOrNil
  <2>4. Kept(tree', M \cup {e}, Q, fix')
    BY <1>1, <2>2, <2>3 DEF Kept
  <2>5. QED
    BY <1>1, <2>4
<1>4. CASE tree.root # NIL
  <2>1. PICK y, s : LeafAt(tree, M, S, s, y, e) /\ Grown(tree, s, y, e, tree')
    BY <1>1, <1>4
  <2>2. Shape(tree', M \cup {e}, GrownBelow(S, y, e))
    <3>1. /\ y \in M /\ s \in Sides /\ tree.child[s][y] = NIL /\ Before(s, e, y)
          /\ \A n \in M, z \in Sides : y \in S[tree.child[z][n]] => Before(z, e, n)
      BY <2>1 DEF LeafAt
    <3>2. QED
      BY <1>1, <1>2, <2>1, <3>1, ShapeGrows
  <2>3. tree'.root = tree.root
    BY <2>1 DEF Grown
  <2>4. tree'.color[tree'.root] = "black"
    BY <1>1, <1>2, <1>4, <2>3
  <2>5. Working(tree', M \cup {e}, fix')
    BY <1>1, <2>4 DEF Working, Fixes, NodeOrNil
  <2>6. Kept(tree', M \cup {e}, GrownBelow(S, y, e), fix')
    BY <1>1, <2>2, <2>5 DEF Kept
  <2>7. QED
    BY <1>1, <2>6
<1>5. QED
  BY <1>3, <1>4

(* c cuts e out and leaves the shape S of what remains.                    *)
CutOut(M, e, S, c) ==
    /\ Shape(c.tree, M \ {e}, S) /\ Loose(c.tree, M \ {e}, e)
    /\ c.at \in (M \ {e}) \cup {NIL} /\ c.above \in (M \ {e}) \cup {NIL}
    /\ c.at # c.tree.root => c.above \in M \ {e}
    /\ c.tree.root # NIL /\ c.tree.root # c.at => c.tree.color[c.tree.root] = "black"
    /\ c.lost \in {"red", "black"}
    /\ c.lost = "red" /\ c.tree.root # NIL => c.tree.root # c.at

LEMMA EdgeCutKeeps ==
    ASSUME NEW M, NEW S, Kept(tree, M, S, fix), fix = NoFix, NEW e \in M,
           \E z \in Sides : tree.child[z][e] = NIL
    PROVE  \E Q : CutOut(M, e, Q, RemoveEdge(e))
<1>1. Shape(tree, M, S) /\ Loose(tree, M, NIL)
      /\ (tree.root # NIL => tree.color[tree.root] = "black")
  BY DEF Kept, NoFix, Working
<1>2. PICK q \in Sides :
        /\ tree.child[Other(q)][e] = NIL
        /\ Handed(tree, M, e, tree.child[q][e], RemoveEdge(e).tree)
        /\ Shape(RemoveEdge(e).tree, M \ {e}, Without(S, e))
        /\ Loose(RemoveEdge(e).tree, M \ {e}, e)
        /\ RemoveEdge(e).lost = tree.color[e]
        /\ RemoveEdge(e).at = tree.child[q][e]
        /\ RemoveEdge(e).above = tree.parent[e]
  BY <1>1, EdgeCutIs
<1>3. PICK c : c = RemoveEdge(e)
  OBVIOUS
<1>4. Round(tree, M, e)
  BY <1>1, RoundIs
<1>5. /\ M \subseteq Nodes /\ NIL \notin M /\ tree \in Trees
      /\ tree.color \in [Nodes -> {"red", "black"}]
      /\ tree.root \in M \cup {NIL}
  BY <1>1, ShapeIs, LinksAre
<1>6. c.at \in (M \ {e}) \cup {NIL} /\ c.above \in (M \ {e}) \cup {NIL}
  BY <1>2, <1>3, <1>4 DEF Round
<1>7. c.tree.root = (IF tree.root = e THEN c.at ELSE tree.root) /\ c.tree.color = tree.color
  BY <1>2, <1>3 DEF Handed
<1>8. c.at # c.tree.root => c.above \in M \ {e}
  BY <1>2, <1>3, <1>4, <1>6, <1>7 DEF Round
<1>9. c.tree.root # NIL /\ c.tree.root # c.at => c.tree.color[c.tree.root] = "black"
  BY <1>1, <1>7
<1>10. c.lost = tree.color[e] /\ c.lost \in {"red", "black"}
  BY <1>2, <1>3, <1>5
<1>11. c.lost = "red" /\ c.tree.root # NIL => c.tree.root # c.at
  <2> SUFFICES ASSUME c.lost = "red", c.tree.root # NIL, c.tree.root = c.at
               PROVE  FALSE
    OBVIOUS
  <2>1. tree.root # e
    BY <1>1, <1>5, <1>10
  <2>2. tree.child[q][e] = tree.root /\ tree.root \in M
    BY <1>2, <1>3, <1>5, <1>7, <2>1
  <2>3. \A m \in M, z \in Sides : tree.child[z][m] = tree.root => tree.root # tree.root
    BY <1>1, <2>2, PlaceIs
  <2>4. QED
    BY <2>2, <2>3
<1>12. CutOut(M, e, Without(S, e), c)
  BY <1>2, <1>3, <1>6, <1>8, <1>9, <1>10, <1>11 DEF CutOut
<1>13. QED
  BY <1>3, <1>12

LEMMA InnerCutKeeps ==
    ASSUME NEW M, NEW S, Kept(tree, M, S, fix), fix = NoFix, NEW e \in M,
           \A z \in Sides : tree.child[z][e] # NIL
    PROVE  \E Q : CutOut(M, e, Q, RemoveInner(e))
<1>1. Shape(tree, M, S) /\ Loose(tree, M, NIL)
      /\ (tree.root # NIL => tree.color[tree.root] = "black")
  BY DEF Kept, NoFix, Working
<1>0. PICK y \in M : \E gone :
        /\ y # e /\ y # tree.root /\ y \in S[e] /\ tree.child["left"][y] = NIL
        /\ Handed(tree, M, y, tree.child["right"][y], gone)
        /\ Shape(gone, M \ {y}, Without(S, y))
        /\ InnerCut(M, e, y, tree.child["right"][y], gone, RemoveInner(e))
        /\ Shape(RemoveInner(e).tree, M \ {e}, Instead(M \ {y}, Without(S, y), e, y))
  BY <1>1, InnerCutIs
<1>2. PICK gone :
        /\ y # e /\ y # tree.root /\ y \in S[e] /\ tree.child["left"][y] = NIL
        /\ Handed(tree, M, y, tree.child["right"][y], gone)
        /\ Shape(gone, M \ {y}, Without(S, y))
        /\ InnerCut(M, e, y, tree.child["right"][y], gone, RemoveInner(e))
        /\ Shape(RemoveInner(e).tree, M \ {e}, Instead(M \ {y}, Without(S, y), e, y))
  BY <1>0
<1>3. PICK c : c = RemoveInner(e)
  OBVIOUS
<1>4. PICK x : x = tree.child["right"][y]
  OBVIOUS
<1>5. /\ Replaced(gone, M \ {y}, e, y, c.tree) /\ Loose(c.tree, M \ {e}, e)
      /\ \A m \in Nodes : c.tree.color[m] = IF m = y THEN tree.color[e] ELSE tree.color[m]
      /\ c.lost = tree.color[y] /\ c.at = x
      /\ c.above = IF tree.parent[y] = e THEN y ELSE tree.parent[y]
  BY <1>2, <1>3, <1>4 DEF InnerCut
<1>6. Round(tree, M, y) /\ Round(tree, M, e) /\ "right" \in Sides
  BY <1>1, RoundIs, SidesAre
<1>7. /\ M \subseteq Nodes /\ NIL \notin M /\ tree \in Trees
      /\ tree.color \in [Nodes -> {"red", "black"}]
      /\ tree.root \in M \cup {NIL}
  BY <1>1, ShapeIs, LinksAre
<1>8. x \in M \cup {NIL} /\ x # y /\ x # tree.root /\ x # e
  <2>1. x \in M \cup {NIL} /\ x # y
    BY <1>4, <1>6 DEF Round
  <2>2. x # tree.root
    <3>1. tree.root # NIL /\ tree.root \in M /\ tree.parent[tree.root] = NIL
      <4>1. S[NIL] = {} /\ S[tree.root] = M
        BY <1>1, ShapeIs
      <4>2. QED
        BY <1>1, <1>7, <4>1, ShapeIs
    <3>2. x # NIL => tree.parent[x] = y
      BY <1>4, <1>6 DEF Round
    <3>3. QED
      BY <1>7, <3>1, <3>2
  <2>3. x # e
    <3>1. \A m \in S[x] : m # y
      BY <1>1, <1>4, <1>6, ForkIs
    <3>2. QED
      BY <1>2, <3>1
  <2>4. QED
    BY <2>1, <2>2, <2>3
<1>9. tree.parent[y] \in M
  BY <1>2, <1>6 DEF Round
<1>10. c.at \in (M \ {e}) \cup {NIL} /\ c.above \in M \ {e}
  BY <1>2, <1>5, <1>8, <1>9
<1>11. c.tree.root = IF tree.root = e THEN y ELSE tree.root
  BY <1>2, <1>5 DEF Handed, Replaced
<1>12. c.tree.root # c.at
  BY <1>5, <1>8, <1>11
<1>13. c.tree.root # NIL => c.tree.color[c.tree.root] = "black"
  BY <1>1, <1>2, <1>5, <1>7, <1>11
<1>14. c.lost \in {"red", "black"}
  BY <1>5, <1>7
<1>15. CutOut(M, e, Instead(M \ {y}, Without(S, y), e, y), c)
  BY <1>2, <1>3, <1>5, <1>10, <1>12, <1>13, <1>14 DEF CutOut
<1>16. QED
  BY <1>3, <1>15

LEMMA RemoveUnlinkKept ==
    ASSUME NEW M, NEW S, Kept(tree, M, S, fix), NEW e, RemoveUnlink(e)
    PROVE  /\ e \in M /\ ret' = NIL
           /\ \E Q : Kept(tree', M \ {e}, Q, fix')
<1> DEFINE c == IF NIL \in {tree.child[s][e] : s \in Sides} THEN RemoveEdge(e)
                ELSE RemoveInner(e)
<1>1. /\ fix = NoFix /\ e \in Members(tree) /\ ret' = NIL
      /\ IF c.lost = "black"
         THEN /\ tree' = c.tree
              /\ fix' = [call |-> "remove", elm |-> e, at |-> c.at, above |-> c.above]
         ELSE tree' = Reset(c.tree, e) /\ UNCHANGED fix
  BY Zenon DEF RemoveUnlink
<1>2. Shape(tree, M, S) /\ Loose(tree, M, NIL)
  BY <1>1 DEF Kept, NoFix
<1>3. e \in M /\ M \subseteq Nodes
  BY <1>1, <1>2, LooseIs, MembersAre, ShapeIs
<1>4. PICK Q : CutOut(M, e, Q, c)
  <2>1. CASE \E z \in Sides : tree.child[z][e] = NIL
    <3>1. c = RemoveEdge(e)
      BY <2>1
    <3> HIDE DEF c
    <3>2. QED
      BY <1>1, <1>3, <2>1, <3>1, EdgeCutKeeps
  <2>2. CASE \A z \in Sides : tree.child[z][e] # NIL
    <3>1. c = RemoveInner(e)
      BY <2>2
    <3> HIDE DEF c
    <3>2. QED
      BY <1>1, <1>3, <2>2, <3>1, InnerCutKeeps
  <2>3. QED
    BY <2>1, <2>2
<1> HIDE DEF c
<1>5. /\ Shape(c.tree, M \ {e}, Q) /\ Loose(c.tree, M \ {e}, e)
      /\ c.at \in (M \ {e}) \cup {NIL} /\ c.above \in (M \ {e}) \cup {NIL}
      /\ c.at # c.tree.root => c.above \in M \ {e}
      /\ c.tree.root # NIL /\ c.tree.root # c.at => c.tree.color[c.tree.root] = "black"
      /\ c.lost = "red" /\ c.tree.root # NIL => c.tree.root # c.at
  BY <1>4 DEF CutOut
<1>6. CASE c.lost = "black"
  <2>1. /\ tree' = c.tree
        /\ fix' = [call |-> "remove", elm |-> e, at |-> c.at, above |-> c.above]
    BY <1>1, <1>6
  <2>2. Working(tree', M \ {e}, fix')
    BY <1>3, <1>5, <2>1 DEF Working, Fixes, NodeOrNil
  <2>3. Kept(tree', M \ {e}, Q, fix')
    BY <1>5, <2>1, <2>2 DEF Kept
  <2>4. QED
    BY <1>1, <1>3, <2>3
<1>7. CASE c.lost # "black"
  <2>1. tree' = Reset(c.tree, e) /\ fix' = NoFix
    BY <1>1, <1>7
  <2>2. e \in Nodes \ (M \ {e})
    BY <1>3
  <2>3. /\ Agree(c.tree, tree', M \ {e}) /\ Loose(tree', M \ {e}, NIL)
        /\ \A m \in M \ {e} : tree'.color[m] = c.tree.color[m]
    BY <1>5, <2>1, <2>2, ResetIs
  <2>4. Shape(tree', M \ {e}, Q)
    BY <1>5, <2>3, ShapeAgrees
  <2>5. tree'.root # NIL => tree'.color[tree'.root] = "black"
    <3>1. c.lost = "red"
      BY <1>4, <1>7 DEF CutOut
    <3>2. tree'.root = c.tree.root /\ c.tree.root \in (M \ {e}) \cup {NIL}
      BY <1>5, <2>3, ShapeIs DEF Agree
    <3>3. QED
      BY <1>5, <2>3, <3>1, <3>2
  <2>6. Working(tree', M \ {e}, NoFix)
    BY <2>5 DEF Working, NoFix, Fixes, NodeOrNil
  <2>7. Kept(tree', M \ {e}, Q, fix')
    BY <2>1, <2>3, <2>4, <2>6 DEF Kept, NoFix
  <2>8. QED
    BY <1>1, <1>3, <2>7
<1>8. QED
  BY <1>6, <1>7

(* The invariant of the links: the members form a search tree S, the other *)
(* elements are loose, and the locals of the call name members.            *)
InShape == \E M, S : Kept(tree, M, S, fix)

LEMMA InShapeMembers ==
    ASSUME NEW M, NEW S, Kept(tree, M, S, fix)
    PROVE  Members(tree) = M /\ Shape(tree, M, S) /\ Outside(tree, M)
<1>1. Shape(tree, M, S) /\ Outside(tree, M)
  BY LooseIs DEF Kept
<1>2. QED
  BY <1>1, MembersAre

LEMMA InShapeMembersNext ==
    ASSUME NEW M, NEW S, Kept(tree', M, S, fix')
    PROVE  Members(tree') = M
<1>1. Shape(tree', M, S) /\ Outside(tree', M)
  BY LooseIs DEF Kept
<1>2. QED
  BY <1>1, MembersAre

LEMMA InShapeStarts ==
    ASSUME Init
    PROVE  Kept(tree, {}, [n \in NodeOrNil |-> {}], fix)
<1> DEFINE S == [n \in NodeOrNil |-> {}]
<1>1. /\ tree.root = NIL /\ tree \in Trees /\ fix = NoFix
      /\ \A n \in Nodes : tree.parent[n] = NIL /\ \A z \in Sides : tree.child[z][n] = NIL
  BY DEF Init, Trees, NodeOrNil
<1>2. S \in [NodeOrNil -> SUBSET {}] /\ S[NIL] = {}
  BY DEF NodeOrNil
<1> HIDE DEF S
<1>3. Shape(tree, {}, S)
  BY <1>1, <1>2 DEF Shape
<1>4. Loose(tree, {}, NIL)
  BY <1>1, NilNotNode DEF Loose
<1>5. Working(tree, {}, NoFix)
  BY <1>1 DEF Working, NoFix, Fixes, NodeOrNil
<1>6. Kept(tree, {}, S, fix)
  BY <1>1, <1>3, <1>4, <1>5 DEF Kept, NoFix
<1>7. QED
  BY <1>6 DEF S

(* How a step changes the members M.                                       *)
Elements(M, N) ==
    \/ N = M /\ UNCHANGED ret
    \/ \E e \in Nodes : /\ N = M /\ ret' \in M /\ KeyOf[ret'] = KeyOf[e]
    \/ \E e \in Nodes : /\ N = M \cup {e} /\ ret' = NIL
                        /\ \A m \in M : KeyOf[m] # KeyOf[e]
    \/ \E e \in M : N = M \ {e} /\ ret' = NIL

LEMMA RoundKept ==
    ASSUME NEW M, NEW S, Kept(tree, M, S, fix), Fix
    PROVE  ret' = ret /\ \E Q : Kept(tree', M, Q, fix')
<1>1. CASE InsertRecolor
  BY <1>1, InsertRecolorKept DEF InsertRecolor
<1>2. CASE InsertStraighten
  BY <1>2, InsertStraightenKept DEF InsertStraighten
<1>3. CASE InsertRotate
  BY <1>3, InsertRotateKept DEF InsertRotate
<1>4. CASE InsertDone
  BY <1>4, InsertDoneKept DEF InsertDone
<1>5. CASE RemoveLift
  BY <1>5, RemoveLiftKept DEF RemoveLift
<1>6. CASE RemoveRecolor
  BY <1>6, RemoveRecolorKept DEF RemoveRecolor
<1>7. CASE RemoveStraighten
  BY <1>7, RemoveStraightenKept DEF RemoveStraighten
<1>8. CASE RemoveRotate
  BY <1>8, RemoveRotateKept DEF RemoveRotate
<1>9. CASE RemoveDone
  BY <1>9, RemoveDoneKept DEF RemoveDone
<1>10. QED
  BY <1>1, <1>2, <1>3, <1>4, <1>5, <1>6, <1>7, <1>8, <1>9 DEF Fix

LEMMA InsertTakenKept ==
    ASSUME NEW M, NEW S, Kept(tree, M, S, fix), NEW e \in Nodes, InsertTaken(e)
    PROVE  /\ Kept(tree', M, S, fix')
           /\ ret' \in M /\ KeyOf[ret'] = KeyOf[e]
<1>1. Shape(tree, M, S) /\ Outside(tree, M) /\ KeyOf[e] \in Int
  BY InShapeMembers, KeysCompare
<1>2. FIND(tree, KeyOf[e]) # NIL /\ ret' = FIND(tree, KeyOf[e]) /\ tree' = tree /\ fix' = fix
  BY DEF InsertTaken
<1>3. \A m \in M : KeyOf[m] = KeyOf[e] => FIND(tree, KeyOf[e]) = m
  BY <1>1, FindIs
<1>4. (\A m \in M : KeyOf[m] # KeyOf[e]) => FIND(tree, KeyOf[e]) = NIL
  BY <1>1, FindIs
<1>5. QED
  BY <1>2, <1>3, <1>4

LEMMA StepKept ==
    ASSUME NEW M, NEW S, Kept(tree, M, S, fix), [Next]_treeVars
    PROVE  \E N, Q : Kept(tree', N, Q, fix') /\ Elements(M, N)
<1>1. CASE UNCHANGED treeVars
  <2>1. tree' = tree /\ fix' = fix /\ ret' = ret
    BY <1>1 DEF treeVars
  <2>2. Kept(tree', M, S, fix')
    BY <2>1
  <2>3. QED
    BY <2>1, <2>2 DEF Elements
<1>2. ASSUME NEW e \in Nodes, InsertTaken(e)
      PROVE  \E N, Q : Kept(tree', N, Q, fix') /\ Elements(M, N)
  BY <1>2, InsertTakenKept DEF Elements
<1>3. ASSUME NEW e \in Nodes, InsertLink(e)
      PROVE  \E N, Q : Kept(tree', N, Q, fix') /\ Elements(M, N)
  BY <1>3, InsertLinkKept DEF Elements
<1>4. ASSUME NEW e \in Nodes, RemoveUnlink(e)
      PROVE  \E N, Q : Kept(tree', N, Q, fix') /\ Elements(M, N)
  BY <1>4, RemoveUnlinkKept DEF Elements
<1>5. CASE Fix
  BY <1>5, RoundKept DEF Elements
<1>6. QED
  BY <1>1, <1>2, <1>3, <1>4, <1>5 DEF Next

LEMMA AlwaysInShape == Spec => []InShape
<1>1. Init => InShape
  BY InShapeStarts DEF InShape
<1>2. InShape /\ [Next]_treeVars => InShape'
  <2> SUFFICES ASSUME InShape, [Next]_treeVars
               PROVE  InShape'
    OBVIOUS
  <2>1. PICK M, S : Kept(tree, M, S, fix)
    BY DEF InShape
  <2>2. \E N, Q : Kept(tree', N, Q, fix')
    BY <2>1, StepKept
  <2>3. QED
    BY <2>2 DEF InShape
<1>3. QED
  BY <1>1, <1>2, PTL DEF Spec

(* LinksMirror: after every INSERT, REMOVE and round of a fix-up, each     *)
(* child link of set_left, set_right, the rotations and the transplant has *)
(* its parent link, and the root has none, for every tree and every key.   *)
THEOREM TreeLinksMirror == Spec => []LinksMirror
<1>1. InShape => LinksMirror
  <2> SUFFICES ASSUME InShape
               PROVE  LinksMirror
    OBVIOUS
  <2>1. PICK M, S : Kept(tree, M, S, fix)
    BY DEF InShape
  <2>2. Members(tree) = M /\ Shape(tree, M, S)
    BY <2>1, InShapeMembers
  <2>3. Parent(tree, tree.root) = NIL
    BY <2>2, ShapeIs DEF Parent
  <2>4. ASSUME NEW n \in M, NEW s \in Sides, Child(tree, s, n) # NIL
        PROVE  Parent(tree, Child(tree, s, n)) = n
    <3>1. tree.child[s][n] # NIL => tree.parent[tree.child[s][n]] = n
      BY <2>2, <2>4, ForkIs
    <3>2. QED
      BY <2>4, <3>1 DEF Parent, Child
  <2>5. QED
    BY <2>2, <2>3, <2>4 DEF LinksMirror
<1>2. QED
  BY <1>1, AlwaysInShape, PTL

(* LookupsAgree: FIND, NFIND, MIN, MAX, NEXT and PREV answer as the ordered*)
(* set of the elements does, for every key, between calls and in the       *)
(* middle of every fix-up.                                                 *)
THEOREM TreeLookupsAgree == Spec => []LookupsAgree
<1>1. InShape => LookupsAgree
  <2> SUFFICES ASSUME InShape
               PROVE  LookupsAgree
    OBVIOUS
  <2>1. PICK M, S : Kept(tree, M, S, fix)
    BY DEF InShape
  <2>2. Shape(tree, M, S) /\ Outside(tree, M)
    BY <2>1, InShapeMembers
  <2>3. QED
    BY <2>2, LookupsAre
<1>2. QED
  BY <1>1, AlwaysInShape, PTL

LEMMA SetSteps ==
    ASSUME InShape, [Next]_treeVars
    PROVE  [Set!Next]_Set!setVars
<1>1. PICK M, S : Kept(tree, M, S, fix)
  BY DEF InShape
<1>2. PICK N, Q : Kept(tree', N, Q, fix') /\ Elements(M, N)
  BY <1>1, StepKept
<1>3. Members(tree) = M /\ Members(tree') = N
  BY <1>1, <1>2, InShapeMembers, InShapeMembersNext
<1>4. M \subseteq Nodes
  BY <1>1, InShapeMembers, ShapeIs
<1>5. CASE N = M /\ UNCHANGED ret
  BY <1>3, <1>5 DEF Set!setVars
<1>6. ASSUME NEW e \in Nodes, N = M, ret' \in M, KeyOf[ret'] = KeyOf[e]
      PROVE  Set!Next
  BY <1>3, <1>6 DEF Set!Next, Set!InsertTaken, Set!Holders
<1>7. ASSUME NEW e \in Nodes, N = M \cup {e}, ret' = NIL, \A m \in M : KeyOf[m] # KeyOf[e]
      PROVE  Set!Next
  BY <1>3, <1>7 DEF Set!Next, Set!Insert, Set!Holders
<1>8. ASSUME NEW e \in M, N = M \ {e}, ret' = NIL
      PROVE  Set!Next
  BY <1>3, <1>4, <1>8 DEF Set!Next, Set!Remove
<1>9. QED
  BY <1>2, <1>5, <1>6, <1>7, <1>8 DEF Elements

(* RefinesSet: RB_INSERT and RB_REMOVE change the set of the elements as   *)
(* rix_tree.h promises, at once, and no round of a fix-up changes it.      *)
THEOREM TreeRefinesSet == Spec => RefinesSet
<1>1. Init => Set!Init
  <2> SUFFICES ASSUME Init
               PROVE  Set!Init
    OBVIOUS
  <2>1. Members(tree) = {}
    BY InShapeStarts, InShapeMembers
  <2>2. QED
    BY <2>1 DEF Init, Set!Init
<1>2. InShape /\ [Next]_treeVars => [Set!Next]_Set!setVars
  BY SetSteps
<1>3. QED
  BY <1>1, <1>2, AlwaysInShape, PTL DEF Spec, RefinesSet, Set!Spec

-----------------------------------------------------------------------------
(* The black heights                                                       *)

Blk(t, n) == IF t.color[n] = "black" THEN 1 ELSE 0
Owe(P, n, s) == IF <<n, s>> \in P THEN 1 ELSE 0

(* b gives the black elements on every way down from an element, counting  *)
(* one more at each of the places P.                                       *)
Level(t, b, P, n) == \A s \in Sides : b[n] = b[t.child[s][n]] + Owe(P, n, s) + Blk(t, n)

Balanced(t, M, b, P) ==
    /\ b \in [NodeOrNil -> Nat]
    /\ b[NIL] = 0
    /\ \A n \in M : Level(t, b, P, n)

LEMMA LevelIs ==
    ASSUME NEW t, NEW M, NEW b, NEW P, Balanced(t, M, b, P), NEW n \in M, NEW s \in Sides
    PROVE  b[n] = b[t.child[s][n]] + Owe(P, n, s) + Blk(t, n)
BY DEF Balanced, Level

LEMMA LevelMade ==
    ASSUME NEW t, NEW b, NEW P, NEW n, NEW s \in Sides,
           b[n] = b[t.child[s][n]] + Owe(P, n, s) + Blk(t, n),
           b[n] = b[t.child[Other(s)][n]] + Owe(P, n, Other(s)) + Blk(t, n)
    PROVE  Level(t, b, P, n)
<1>1. \A z \in Sides : z = s \/ z = Other(s)
  BY SidesAre
<1>2. QED
  BY <1>1 DEF Level

LEMMA CountsAre ==
    /\ \A t, n : Blk(t, n) \in {0, 1}
    /\ \A P, n, s : Owe(P, n, s) \in {0, 1}
    /\ \A n, s : Owe({}, n, s) = 0
    /\ \A n, s, m, z : Owe({<<m, z>>}, n, s) = IF n = m /\ s = z THEN 1 ELSE 0
BY DEF Blk, Owe

(* Where links and colours are the same, so are the heights.               *)
LEMMA LevelStays ==
    ASSUME NEW t, NEW M, NEW b, NEW P, Balanced(t, M, b, P), NEW n \in M,
           NEW r, NEW c, NEW Q, c[n] = b[n], r.color[n] = t.color[n],
           \A z \in Sides : /\ c[r.child[z][n]] = b[t.child[z][n]]
                            /\ Owe(Q, n, z) = Owe(P, n, z)
    PROVE  Level(r, c, Q, n)
<1> SUFFICES ASSUME NEW z \in Sides
             PROVE  c[n] = c[r.child[z][n]] + Owe(Q, n, z) + Blk(r, n)
  BY DEF Level
<1>1. b[n] = b[t.child[z][n]] + Owe(P, n, z) + Blk(t, n)
  BY LevelIs
<1>2. Blk(r, n) = Blk(t, n)
  BY DEF Blk
<1>3. QED
  BY <1>1, <1>2

(* A rotation that swaps the colours of x and the red y below it.          *)
LEMMA TurnBalances ==
    ASSUME NEW t, NEW M, NEW S, Shape(t, M, S), NEW s \in Sides, NEW x \in M, NEW y \in M,
           y = t.child[Other(s)][x], NEW r, Turned(t, r, s, x, y),
           NEW b, NEW P, Balanced(t, M, b, P), t.color[y] = "red",
           r.color[x] = "red", r.color[y] = t.color[x],
           \A n \in M \ {x, y} : r.color[n] = t.color[n],
           <<x, Other(s)>> \notin P, \A z \in Sides : <<y, z>> \notin P
    PROVE  \E c : Balanced(r, M, c, P)
<1> DEFINE c == [n \in NodeOrNil |-> IF n = x THEN b[y] ELSE IF n = y THEN b[x] ELSE b[n]]
           o == Other(s)
<1>1. /\ b \in [NodeOrNil -> Nat] /\ b[NIL] = 0
      /\ M \subseteq Nodes /\ M \subseteq NodeOrNil /\ NIL \in NodeOrNil /\ NIL \notin M
  BY ShapeIs DEF Balanced
<1>2. /\ x # y /\ t.child[s][y] # x /\ t.child[s][y] # y
      /\ t.child[o][y] # x /\ t.child[o][y] # y
      /\ t.child[s][x] # x /\ t.child[s][x] # y
      /\ \A z \in Sides : t.child[z][x] \in M \cup {NIL} /\ t.child[z][y] \in M \cup {NIL}
  BY Around
<1>3. /\ c \in [NodeOrNil -> Nat] /\ c[NIL] = 0 /\ c[x] = b[y] /\ c[y] = b[x]
      /\ \A n \in M \cup {NIL} : n # x /\ n # y => c[n] = b[n]
  BY <1>1, <1>2
<1>4. o \in Sides /\ o # s /\ \A z \in Sides : z = s \/ z = o
  BY SidesAre
<1>5. /\ b[x] = b[t.child[s][x]] + Owe(P, x, s) + Blk(t, x)
      /\ b[x] = b[y] + Blk(t, x)
      /\ b[y] = b[t.child[s][y]] /\ b[y] = b[t.child[o][y]]
  <2>1. /\ b[x] = b[t.child[s][x]] + Owe(P, x, s) + Blk(t, x)
        /\ b[x] = b[t.child[o][x]] + Owe(P, x, o) + Blk(t, x)
        /\ b[y] = b[t.child[s][y]] + Owe(P, y, s) + Blk(t, y)
        /\ b[y] = b[t.child[o][y]] + Owe(P, y, o) + Blk(t, y)
    BY <1>4, LevelIs
  <2>2. Owe(P, x, o) = 0 /\ Owe(P, y, s) = 0 /\ Owe(P, y, o) = 0 /\ Blk(t, y) = 0
    BY <1>4 DEF Owe, Blk
  <2>3. Blk(t, x) \in Nat /\ b[t.child[s][y]] \in Nat /\ b[t.child[o][y]] \in Nat /\ b[y] \in Nat
    BY <1>1, <1>2, <1>4, CountsAre
  <2>4. QED
    BY <2>1, <2>2, <2>3
<1>6. /\ Blk(r, x) = 0 /\ Blk(r, y) = Blk(t, x) /\ Blk(t, x) \in Nat
      /\ b[x] \in Nat /\ b[y] \in Nat
  BY <1>1, CountsAre DEF Blk
<1>7. Owe(P, x, o) = 0 /\ Owe(P, y, s) = 0 /\ Owe(P, y, o) = 0 /\ Owe(P, x, s) \in Nat
  BY <1>4, CountsAre DEF Owe
<1>8. /\ r.child[s][y] = x /\ r.child[o][x] = t.child[s][y]
      /\ r.child[s][x] = t.child[s][x] /\ r.child[o][y] = t.child[o][y]
  <2>1. \A z \in Sides, m \in Nodes :
          r.child[z][m] = IF m = y /\ z = s THEN x
                          ELSE IF m = x /\ z = o THEN t.child[s][y]
                          ELSE IF <<m, z>> \in PlaceOf(t, x) THEN y
                          ELSE t.child[z][m]
    BY Zenon DEF Turned
  <2>2. \A z \in Sides : <<x, z>> \notin PlaceOf(t, x) /\ <<y, z>> \notin PlaceOf(t, x)
    <3>1. \A m \in M, z \in Sides : <<m, z>> \in PlaceOf(t, x) <=> t.child[z][m] = x
      BY PlacesAre, Zenon
    <3>2. t.child[o][x] # x
      BY <1>2
    <3>3. QED
      BY <1>2, <1>4, <3>1, <3>2
  <2>3. QED
    BY <1>1, <1>2, <1>4, <2>1, <2>2
<1> HIDE DEF c
<1>80. c[x] = b[y] /\ c[y] = b[x]
  BY <1>3
<1>9. Level(r, c, P, x)
  <2>1. c[r.child[s][x]] = b[t.child[s][x]] /\ c[r.child[o][x]] = b[t.child[s][y]]
    BY <1>2, <1>3, <1>8
  <2>2. b[t.child[s][x]] \in Nat
    BY <1>1, <1>2
  <2>3. c[x] = c[r.child[s][x]] + Owe(P, x, s) + Blk(r, x)
    BY <1>5, <1>6, <1>7, <1>80, <2>1, <2>2
  <2>4. c[x] = c[r.child[o][x]] + Owe(P, x, o) + Blk(r, x)
    <3>1. c[x] = c[r.child[o][x]] /\ c[x] \in Nat
      BY <1>5, <1>6, <1>80, <2>1, Zenon
    <3>2. QED
      BY <1>6, <1>7, <3>1
  <2>5. QED
    BY <2>3, <2>4, LevelMade
<1>10. Level(r, c, P, y)
  <2>1. c[r.child[s][y]] = b[y] /\ c[r.child[o][y]] = b[t.child[o][y]]
    BY <1>2, <1>3, <1>4, <1>8
  <2>2. c[y] = c[r.child[s][y]] + Owe(P, y, s) + Blk(r, y)
    BY <1>5, <1>6, <1>7, <1>80, <2>1
  <2>3. c[y] = c[r.child[o][y]] + Owe(P, y, o) + Blk(r, y)
    BY <1>5, <1>6, <1>7, <1>80, <2>1
  <2>4. QED
    BY <2>2, <2>3, LevelMade, Zenon
<1>11. ASSUME NEW n \in M, n # x, n # y
       PROVE  Level(r, c, P, n)
  <2>1. ASSUME NEW z \in Sides
        PROVE  c[r.child[z][n]] = b[t.child[z][n]]
    <3>1. r.child[z][n] = IF t.child[z][n] = x THEN y ELSE t.child[z][n]
      <4>1. <<n, z>> \in PlaceOf(t, x) <=> t.child[z][n] = x
        BY <1>11, <2>1, PlacesAre
      <4>2. n \in Nodes
        BY <1>1
      <4>3. QED
        BY <1>11, <2>1, <4>1, <4>2 DEF Turned
    <3>2. t.child[z][n] \in M \cup {NIL}
      BY <1>11, <2>1, ForkIs
    <3>3. t.child[z][n] # y
      <4>1. \A m \in M, q \in Sides : t.child[q][m] = y => m = t.parent[y]
        BY PlaceIs
      <4>2. t.child[o][x] = y
        OBVIOUS
      <4>3. QED
        BY <1>4, <1>11, <2>1, <4>1, <4>2
    <3>4. QED
      BY <1>3, <3>1, <3>2, <3>3
  <2>2. c[n] = b[n]
    BY <1>3, <1>11
  <2>3. QED
    BY <1>11, <2>1, <2>2, LevelStays
<1>12. Balanced(r, M, c, P)
  BY <1>3, <1>9, <1>10, <1>11 DEF Balanced
<1>13. QED
  BY <1>12

(* The links that a rotation leaves.                                       *)
TurnedLinks(t, r, M, s, o, x, y) ==
    /\ r.child[s][y] = x /\ r.child[o][x] = t.child[s][y]
    /\ r.child[s][x] = t.child[s][x] /\ r.child[o][y] = t.child[o][y]
    /\ \A n \in M, z \in Sides : n # x /\ n # y =>
         r.child[z][n] = IF t.child[z][n] = x THEN y ELSE t.child[z][n]
    /\ \A n \in M, z \in Sides : n # x => t.child[z][n] # y
    /\ \A n \in M : n # x /\ n # y => r.parent[n] = IF n = t.child[s][y] THEN x ELSE t.parent[n]
    /\ r.parent[x] = y /\ r.parent[y] = t.parent[x] /\ t.parent[y] = x
    /\ \A n \in M : n = t.child[s][y] => t.parent[n] = y

LEMMA TurnedLinksAre ==
    ASSUME NEW t, NEW M, NEW S, Shape(t, M, S), NEW s \in Sides, NEW x \in M, NEW y \in M,
           y = t.child[Other(s)][x], NEW r, Turned(t, r, s, x, y)
    PROVE  TurnedLinks(t, r, M, s, Other(s), x, y)
<1> DEFINE o == Other(s)
<1>1. M \subseteq Nodes /\ NIL \notin M
  BY ShapeIs
<1>2. /\ x # y /\ t.child[s][y] # x /\ t.child[s][y] # y
      /\ t.child[o][y] # x /\ t.child[o][y] # y
      /\ t.child[s][x] # x /\ t.child[s][x] # y
      /\ t.parent[y] = x /\ (t.child[s][y] # NIL => t.parent[t.child[s][y]] = y)
  BY Around
<1>3. o \in Sides /\ o # s /\ \A z \in Sides : z = s \/ z = o
  BY SidesAre
<1>4. \A z \in Sides, m \in Nodes :
        r.child[z][m] = IF m = y /\ z = s THEN x
                        ELSE IF m = x /\ z = o THEN t.child[s][y]
                        ELSE IF <<m, z>> \in PlaceOf(t, x) THEN y
                        ELSE t.child[z][m]
  BY Zenon DEF Turned
<1>5. \A m \in M, z \in Sides : <<m, z>> \in PlaceOf(t, x) <=> t.child[z][m] = x
  BY PlacesAre, Zenon
<1>6. t.child[o][x] = y
  OBVIOUS
<1>7. \A n \in M, z \in Sides : n # x => t.child[z][n] # y
  <2>1. \A m \in M, q \in Sides : t.child[q][m] = y => m = t.parent[y]
    BY PlaceIs
  <2>2. QED
    BY <1>2, <2>1
<1>8. /\ r.child[s][y] = x /\ r.child[o][x] = t.child[s][y]
      /\ r.child[s][x] = t.child[s][x] /\ r.child[o][y] = t.child[o][y]
  <2>1. <<x, s>> \notin PlaceOf(t, x) /\ <<y, o>> \notin PlaceOf(t, x)
    BY <1>2, <1>3, <1>5
  <2>2. QED
    BY <1>1, <1>2, <1>3, <1>4, <2>1
<1>9. \A n \in M, z \in Sides : n # x /\ n # y =>
        r.child[z][n] = IF t.child[z][n] = x THEN y ELSE t.child[z][n]
  BY <1>1, <1>4, <1>5, Zenon
<1>10. /\ \A n \in M : n # x /\ n # y =>
            r.parent[n] = IF n = t.child[s][y] THEN x ELSE t.parent[n]
       /\ r.parent[x] = y /\ r.parent[y] = t.parent[x]
  BY <1>1, <1>2 DEF Turned
<1>11. \A n \in M : n = t.child[s][y] => t.parent[n] = y
  BY <1>1, <1>2
<1>12. QED
  BY <1>2, <1>7, <1>8, <1>9, <1>10, <1>11, Zenon DEF TurnedLinks

(* x, y and f in a line on side o, and what hangs on their other sides.    *)
Lined(t, M, s, o, x, y, f) ==
    /\ x # y /\ f # x /\ f # y
    /\ t.child[o][x] = y /\ t.child[o][y] = f
    /\ \A z \in Sides : t.child[z][f] \in (M \cup {NIL}) \ {x, y, f}
    /\ t.child[s][x] \in (M \cup {NIL}) \ {x, y, f}
    /\ t.child[s][y] \in (M \cup {NIL}) \ {x, y, f}
    /\ \A n \in M, z \in Sides : t.child[z][n] = f => n = y /\ z = o

LEMMA LinedAre ==
    ASSUME NEW t, NEW M, NEW S, Shape(t, M, S), NEW s \in Sides, NEW x \in M, NEW y \in M,
           y = t.child[Other(s)][x], NEW f \in M, f = t.child[Other(s)][y]
    PROVE  Lined(t, M, s, Other(s), x, y, f)
<1> DEFINE o == Other(s)
<1>1. /\ x # y /\ t.child[s][y] # x /\ t.child[s][y] # y
      /\ t.child[o][y] # x /\ t.child[o][y] # y
      /\ t.child[s][x] # x /\ t.child[s][x] # y
      /\ t.child[s][x] \in M \cup {NIL} /\ t.child[s][y] \in M \cup {NIL}
      /\ y \in S[x] /\ t.parent[y] = x
  BY Around
<1>2. o \in Sides /\ o # s
  BY SidesAre
<1>3. t.child[o][x] = y /\ t.child[o][y] = f
  OBVIOUS
<1>4. S[y] = {y} \cup S[t.child[o][y]] \cup S[t.child[Other(o)][y]]
  BY <1>2, ForkIs
<1>5. f \in S[f]
  BY ForkIs
<1>6. t.parent[x] \notin S[x]
  BY Around
<1>7. \A m \in M, z \in Sides : t.child[z][m] \in M \cup {NIL} /\ t.child[z][m] # m
  BY RoundIs DEF Round
<1>8. \A m \in M, q \in Sides : t.child[q][m] = f => m = t.parent[f] /\ q = SideOf(t, f)
  BY PlaceIs
<1>9. \A m \in M, q \in Sides : t.child[q][m] = y => m = t.parent[y]
  BY PlaceIs
<1>10. \A m \in M, q \in Sides : t.child[q][m] = x => m = t.parent[x]
  BY PlaceIs
<1>11. S[y] \subseteq S[x]
  BY <1>1, Nested
<1> HIDE DEF o
<1>12. f \in S[x]
  BY <1>3, <1>4, <1>5, <1>11
<1>13. f # x /\ f # y
  BY <1>1, <1>3
<1>14. \A n \in M, z \in Sides : t.child[z][n] = f => n = y /\ z = o
  BY <1>2, <1>3, <1>8
<1>15. \A z \in Sides : t.child[z][f] \in (M \cup {NIL}) \ {x, y, f}
  BY <1>1, <1>6, <1>7, <1>9, <1>10, <1>12, <1>13
<1>16. t.child[s][x] # f /\ t.child[s][y] # f
  BY <1>1, <1>2, <1>14
<1>17. Lined(t, M, s, o, x, y, f)
  BY <1>1, <1>3, <1>13, <1>14, <1>15, <1>16, Zenon DEF Lined
<1>18. QED
  BY <1>17 DEF o

(* The rotation that makes up for the one black that x is short of on side *)
(* s, out of the red f.                                                    *)
LEMMA LinePays ==
    ASSUME NEW t, NEW M, NEW S, Shape(t, M, S), NEW s \in Sides, NEW o \in Sides, o # s,
           NEW x \in M, NEW y \in M, NEW f \in M, NEW r,
           Lined(t, M, s, o, x, y, f), TurnedLinks(t, r, M, s, o, x, y),
           NEW b, Balanced(t, M, b, {<<x, s>>}),
           t.color[y] = "black", t.color[f] = "red",
           r.color[x] = "black", r.color[f] = "black", r.color[y] = t.color[x],
           \A n \in M \ {x, y, f} : r.color[n] = t.color[n]
    PROVE  \E c : Balanced(r, M, c, {})
<1> DEFINE c == [n \in NodeOrNil |-> IF n = x THEN b[y] ELSE IF n = y THEN b[x]
                                     ELSE IF n = f THEN b[f] + 1 ELSE b[n]]
           P == {<<x, s>>}
<1>1. /\ b \in [NodeOrNil -> Nat] /\ b[NIL] = 0
      /\ M \subseteq Nodes /\ M \subseteq NodeOrNil /\ NIL \in NodeOrNil /\ NIL \notin M
  BY ShapeIs DEF Balanced
<1>2. /\ x # y /\ f # x /\ f # y
      /\ t.child[o][x] = y /\ t.child[o][y] = f
      /\ \A z \in Sides : t.child[z][f] \in (M \cup {NIL}) \ {x, y, f}
      /\ t.child[s][x] \in (M \cup {NIL}) \ {x, y, f}
      /\ t.child[s][y] \in (M \cup {NIL}) \ {x, y, f}
      /\ \A n \in M, z \in Sides : t.child[z][n] = f => n = y /\ z = o
  BY DEF Lined
<1>3. o = Other(s) /\ s = Other(o)
  BY SidesAre
<1>4. /\ r.child[s][y] = x /\ r.child[o][x] = t.child[s][y]
      /\ r.child[s][x] = t.child[s][x] /\ r.child[o][y] = t.child[o][y]
      /\ \A n \in M, z \in Sides : n # x /\ n # y =>
           r.child[z][n] = IF t.child[z][n] = x THEN y ELSE t.child[z][n]
      /\ \A n \in M, z \in Sides : n # x => t.child[z][n] # y
  BY DEF TurnedLinks
<1>5. /\ c \in [NodeOrNil -> Nat] /\ c[NIL] = 0
      /\ c[x] = b[y] /\ c[y] = b[x] /\ c[f] = b[f] + 1
      /\ \A n \in M \cup {NIL} : n # x /\ n # y /\ n # f => c[n] = b[n]
  BY <1>1, <1>2
<1>6. \A n \in M \cup {NIL} : b[n] \in Nat
  BY <1>1
<1>7. /\ Owe(P, x, s) = 1 /\ Owe(P, x, o) = 0
      /\ \A n \in M, z \in Sides : n # x => Owe(P, n, z) = 0
      /\ \A n, z : Owe({}, n, z) = 0
  BY CountsAre
<1>8. Balanced(t, M, b, P)
  OBVIOUS
<1> HIDE DEF c, P
<1>9. Blk(t, y) = 1 /\ Blk(t, f) = 0 /\ Blk(t, x) \in Nat
  BY CountsAre DEF Blk
<1>10. /\ Blk(r, x) = 1 /\ Blk(r, f) = 1 /\ Blk(r, y) = Blk(t, x)
  BY DEF Blk
<1>11. b[x] = b[t.child[s][x]] + 1 + Blk(t, x)
  BY <1>7, <1>8, LevelIs
<1>12. b[x] = b[y] + Blk(t, x)
  <2>1. b[x] = b[t.child[o][x]] + Owe(P, x, o) + Blk(t, x)
    BY <1>8, LevelIs
  <2>2. b[y] \in Nat
    BY <1>6
  <2>3. QED
    BY <1>2, <1>7, <1>9, <2>1, <2>2
<1>13. b[y] = b[t.child[s][y]] + 1 /\ b[t.child[s][y]] \in Nat
  <2>1. b[y] = b[t.child[s][y]] + Owe(P, y, s) + Blk(t, y)
    BY <1>8, LevelIs
  <2>2. b[t.child[s][y]] \in Nat /\ Owe(P, y, s) = 0
    BY <1>2, <1>6, <1>7
  <2>3. QED
    BY <1>9, <2>1, <2>2
<1>14. b[y] = b[f] + 1
  <2>1. b[y] = b[t.child[o][y]] + Owe(P, y, o) + Blk(t, y)
    BY <1>8, LevelIs
  <2>2. b[f] \in Nat /\ Owe(P, y, o) = 0
    BY <1>2, <1>6, <1>7
  <2>3. QED
    BY <1>2, <1>9, <2>1, <2>2
<1>15. \A z \in Sides : b[f] = b[t.child[z][f]]
  <2>1. \A z \in Sides : b[f] = b[t.child[z][f]] + Owe(P, f, z) + Blk(t, f)
    BY <1>8, LevelIs
  <2>2. \A z \in Sides : b[t.child[z][f]] \in Nat /\ Owe(P, f, z) = 0
    BY <1>2, <1>6, <1>7
  <2>3. QED
    BY <1>9, <2>1, <2>2
<1>16. b[x] \in Nat /\ b[y] \in Nat /\ b[f] \in Nat /\ b[t.child[s][x]] \in Nat
  BY <1>2, <1>6
<1>17. Level(r, c, {}, x)
  <2>1. c[r.child[s][x]] = b[t.child[s][x]] /\ c[r.child[o][x]] = b[t.child[s][y]]
    BY <1>2, <1>4, <1>5
  <2>2. b[y] = b[t.child[s][x]] + 1
    BY <1>9, <1>11, <1>12, <1>16
  <2>3. c[x] = c[r.child[s][x]] + Owe({}, x, s) + Blk(r, x)
    BY <1>5, <1>7, <1>10, <1>16, <2>1, <2>2
  <2>4. c[x] = c[r.child[o][x]] + Owe({}, x, o) + Blk(r, x)
    BY <1>5, <1>7, <1>10, <1>13, <2>1
  <2>5. QED
    BY <1>3, <2>3, <2>4, LevelMade
<1>18. Level(r, c, {}, y)
  <2>1. c[r.child[s][y]] = b[y] /\ c[r.child[o][y]] = b[y]
    BY <1>2, <1>4, <1>5, <1>14
  <2>2. c[y] = c[r.child[s][y]] + Owe({}, y, s) + Blk(r, y)
    BY <1>5, <1>7, <1>9, <1>10, <1>12, <1>16, <2>1
  <2>3. c[y] = c[r.child[o][y]] + Owe({}, y, o) + Blk(r, y)
    BY <1>5, <1>7, <1>9, <1>10, <1>12, <1>16, <2>1
  <2>4. QED
    BY <1>3, <2>2, <2>3, LevelMade
<1>19. Level(r, c, {}, f)
  <2>1. ASSUME NEW z \in Sides
        PROVE  c[f] = c[r.child[z][f]] + Owe({}, f, z) + Blk(r, f)
    <3>1. r.child[z][f] = t.child[z][f]
      BY <1>2, <1>4
    <3>2. c[r.child[z][f]] = b[f]
      BY <1>2, <1>5, <1>15, <3>1
    <3>3. QED
      BY <1>5, <1>7, <1>10, <1>16, <3>2
  <2>2. QED
    BY <2>1 DEF Level
<1>20. ASSUME NEW n \in M, n # x, n # y, n # f
       PROVE  Level(r, c, {}, n)
  <2>1. ASSUME NEW z \in Sides
        PROVE  c[r.child[z][n]] = b[t.child[z][n]] /\ Owe({}, n, z) = Owe(P, n, z)
    <3>1. r.child[z][n] = IF t.child[z][n] = x THEN y ELSE t.child[z][n]
      BY <1>4, <1>20
    <3>2. t.child[z][n] \in M \cup {NIL}
      BY <1>20, <2>1, ForkIs
    <3>3. t.child[z][n] # y /\ t.child[z][n] # f
      BY <1>2, <1>4, <1>20
    <3>4. QED
      BY <1>5, <1>7, <1>20, <3>1, <3>2, <3>3
  <2>2. c[n] = b[n] /\ r.color[n] = t.color[n]
    BY <1>5, <1>20
  <2>3. QED
    BY <1>8, <1>20, <2>1, <2>2, LevelStays
<1>21. Balanced(r, M, c, {})
  BY <1>5, <1>17, <1>18, <1>19, <1>20 DEF Balanced
<1>22. QED
  BY <1>21

LEMMA TurnPays ==
    ASSUME NEW t, NEW M, NEW S, Shape(t, M, S), NEW s \in Sides, NEW x \in M, NEW y \in M,
           y = t.child[Other(s)][x], NEW f \in M, f = t.child[Other(s)][y],
           NEW r, Turned(t, r, s, x, y),
           NEW b, Balanced(t, M, b, {<<x, s>>}),
           t.color[y] = "black", t.color[f] = "red",
           r.color[x] = "black", r.color[f] = "black", r.color[y] = t.color[x],
           \A n \in M \ {x, y, f} : r.color[n] = t.color[n]
    PROVE  \E c : Balanced(r, M, c, {})
<1>1. PICK o : o = Other(s)
  OBVIOUS
<1>2. o \in Sides /\ o # s
  BY <1>1, SidesAre
<1>3. TurnedLinks(t, r, M, s, o, x, y)
  BY <1>1, TurnedLinksAre
<1>4. Lined(t, M, s, o, x, y, f)
  BY <1>1, LinedAre
<1>5. QED
  BY <1>2, <1>3, <1>4, LinePays

(* Two red children take the blackness of the element they hang on.        *)
LEMMA ShareBalances ==
    ASSUME NEW t, NEW M, NEW S, Shape(t, M, S), NEW g \in M, NEW p \in M, NEW u \in M,
           \A z \in Sides : t.child[z][g] \in {p, u}, t.parent[p] = g, t.parent[u] = g,
           NEW b, Balanced(t, M, b, {}), NEW r, Repainted(t, r),
           t.color[g] = "black", t.color[p] = "red", t.color[u] = "red",
           r.color[g] = "red", r.color[p] = "black", r.color[u] = "black",
           \A n \in M \ {g, p, u} : r.color[n] = t.color[n]
    PROVE  \E c : Balanced(r, M, c, {})
<1> DEFINE c == [n \in NodeOrNil |-> IF n \in {p, u} THEN b[n] + 1 ELSE b[n]]
<1>1. /\ b \in [NodeOrNil -> Nat] /\ b[NIL] = 0
      /\ M \subseteq Nodes /\ M \subseteq NodeOrNil /\ NIL \in NodeOrNil /\ NIL \notin M
  BY ShapeIs DEF Balanced
<1>2. /\ c \in [NodeOrNil -> Nat] /\ c[NIL] = 0 /\ c[p] = b[p] + 1 /\ c[u] = b[u] + 1
      /\ \A n \in M \cup {NIL} : n # p /\ n # u => c[n] = b[n]
  BY <1>1
<1> HIDE DEF c
<1>3. \A n \in M \cup {NIL} : b[n] \in Nat
  BY <1>1
<1>4. \A n, z : Owe({}, n, z) = 0
  BY CountsAre
<1>5. \A n \in M, z \in Sides : t.child[z][n] \in M \cup {NIL} /\ r.child[z][n] = t.child[z][n]
  BY RoundIs DEF Round, Repainted
<1>6. \A n \in M, z \in Sides : n # g => t.child[z][n] # p /\ t.child[z][n] # u
  BY PlaceIs
<1>7. \A n \in M, z \in Sides : b[n] = b[t.child[z][n]] + Owe({}, n, z) + Blk(t, n)
  BY LevelIs
<1>8. p # g /\ u # g
  BY RoundIs DEF Round
<1>9. \A z \in Sides : c[g] = c[r.child[z][g]] + Owe({}, g, z) + Blk(r, g)
  <2>1. Blk(t, g) = 1 /\ Blk(r, g) = 0
    BY DEF Blk
  <2>2. ASSUME NEW z \in Sides
        PROVE  c[g] = c[r.child[z][g]] + Owe({}, g, z) + Blk(r, g)
    <3>1. PICK k : k = t.child[z][g]
      OBVIOUS
    <3>2. k \in {p, u} /\ b[k] \in Nat /\ c[k] = b[k] + 1 /\ r.child[z][g] = k
      BY <1>2, <1>3, <1>5, <3>1
    <3>3. b[g] = b[k] + 1
      BY <1>4, <1>7, <2>1, <3>1, <3>2
    <3>4. c[g] = b[g]
      BY <1>2, <1>8
    <3>5. QED
      BY <1>4, <2>1, <3>2, <3>3, <3>4
  <2>3. QED
    BY <2>2
<1>10. ASSUME NEW n \in {p, u}
       PROVE  \A z \in Sides : c[n] = c[r.child[z][n]] + Owe({}, n, z) + Blk(r, n)
  <2>1. Blk(t, n) = 0 /\ Blk(r, n) = 1
    BY DEF Blk
  <2>2. ASSUME NEW z \in Sides
        PROVE  c[n] = c[r.child[z][n]] + Owe({}, n, z) + Blk(r, n)
    <3>1. PICK k : k = t.child[z][n]
      OBVIOUS
    <3>2. k \in M \cup {NIL} /\ k # p /\ k # u /\ r.child[z][n] = k
      BY <1>5, <1>6, <1>8, <3>1
    <3>3. b[k] \in Nat /\ c[k] = b[k]
      BY <1>2, <1>3, <3>2
    <3>4. b[n] = b[k]
      BY <1>4, <1>7, <2>1, <3>1, <3>3
    <3>5. c[n] = b[n] + 1
      BY <1>2
    <3>6. QED
      BY <1>4, <2>1, <3>2, <3>3, <3>4, <3>5
  <2>3. QED
    BY <2>2
<1>11. ASSUME NEW n \in M, n # g, n # p, n # u
       PROVE  Level(r, c, {}, n)
  <2>1. \A z \in Sides : c[r.child[z][n]] = b[t.child[z][n]] /\ Owe({}, n, z) = Owe({}, n, z)
    BY <1>2, <1>5, <1>6, <1>11
  <2>2. c[n] = b[n] /\ r.color[n] = t.color[n]
    BY <1>2, <1>11
  <2>3. QED
    BY <1>11, <2>1, <2>2, LevelStays
<1>12. Balanced(r, M, c, {})
  BY <1>2, <1>9, <1>10, <1>11 DEF Balanced, Level
<1>13. QED
  BY <1>12

(* A red element turns black where its place is owed one.                  *)
LEMMA PaintPays ==
    ASSUME NEW t, NEW M, NEW S, Shape(t, M, S), NEW e \in M, t.color[e] = "red",
           NEW b, Balanced(t, M, b, PlaceOf(t, e)), NEW r, Agree(t, r, M),
           r.color[e] = "black", \A n \in M \ {e} : r.color[n] = t.color[n]
    PROVE  \E c : Balanced(r, M, c, {})
<1> DEFINE c == [n \in NodeOrNil |-> IF n = e THEN b[n] + 1 ELSE b[n]]
<1>1. /\ b \in [NodeOrNil -> Nat] /\ b[NIL] = 0
      /\ M \subseteq Nodes /\ M \subseteq NodeOrNil /\ NIL \in NodeOrNil /\ NIL \notin M
  BY ShapeIs DEF Balanced
<1>2. /\ c \in [NodeOrNil -> Nat] /\ c[NIL] = 0 /\ c[e] = b[e] + 1
      /\ \A n \in M \cup {NIL} : n # e => c[n] = b[n]
  BY <1>1
<1> HIDE DEF c
<1>3. \A n \in M \cup {NIL} : b[n] \in Nat
  BY <1>1
<1>4. \A n, z : Owe({}, n, z) = 0
  BY CountsAre
<1>5. \A n \in M, z \in Sides : /\ t.child[z][n] \in M \cup {NIL} /\ t.child[z][n] # n
                                /\ r.child[z][n] = t.child[z][n]
  BY RoundIs DEF Round, Agree
<1>6. ASSUME NEW n \in M, NEW z \in Sides
      PROVE  c[n] = c[r.child[z][n]] + Owe({}, n, z) + Blk(r, n)
  <2>1. PICK k : k = t.child[z][n]
    OBVIOUS
  <2>2. k \in M \cup {NIL} /\ k # n /\ r.child[z][n] = k /\ b[k] \in Nat
    BY <1>3, <1>5, <2>1
  <2>3. b[n] = b[k] + Owe(PlaceOf(t, e), n, z) + Blk(t, n)
    BY <2>1, LevelIs
  <2>4. <<n, z>> \in PlaceOf(t, e) <=> k = e
    BY <2>1, PlacesAre
  <2>5. Blk(t, n) \in Nat /\ b[n] \in Nat
    BY <1>3, CountsAre
  <2>6. CASE k = e
    <3>1. Owe(PlaceOf(t, e), n, z) = 1
      BY <2>4, <2>6 DEF Owe
    <3>2. Blk(r, n) = Blk(t, n)
      BY <2>2, <2>6 DEF Blk
    <3>3. c[n] = b[n] /\ c[k] = b[k] + 1
      BY <1>2, <2>2, <2>6
    <3>4. QED
      BY <1>4, <2>2, <2>3, <2>5, <3>1, <3>2, <3>3
  <2>7. CASE k # e
    <3>1. Owe(PlaceOf(t, e), n, z) = 0
      BY <2>4, <2>7 DEF Owe
    <3>2. c[k] = b[k]
      BY <1>2, <2>2, <2>7
    <3>3. CASE n = e
      <4>1. Blk(r, n) = 1 /\ Blk(t, n) = 0
        BY <3>3 DEF Blk
      <4>2. c[n] = b[n] + 1
        BY <1>2, <3>3
      <4>3. QED
        BY <1>4, <2>2, <2>3, <3>1, <3>2, <4>1, <4>2
    <3>4. CASE n # e
      <4>1. Blk(r, n) = Blk(t, n)
        BY <3>4 DEF Blk
      <4>2. c[n] = b[n]
        BY <1>2, <3>4
      <4>3. QED
        BY <1>4, <2>2, <2>3, <2>5, <3>1, <3>2, <4>1, <4>2
    <3>5. QED
      BY <3>3, <3>4
  <2>8. QED
    BY <2>6, <2>7
<1>7. Balanced(r, M, c, {})
  BY <1>2, <1>6 DEF Balanced, Level
<1>8. QED
  BY <1>7

LEMMA OweAt ==
    ASSUME NEW t, NEW M, NEW S, Shape(t, M, S), NEW e \in M
    PROVE  \A n \in M, z \in Sides :
             Owe(PlaceOf(t, e), n, z) = IF t.child[z][n] = e THEN 1 ELSE 0
<1>1. \A n \in M, z \in Sides : <<n, z>> \in PlaceOf(t, e) <=> t.child[z][n] = e
  BY PlacesAre, Zenon
<1>2. QED
  BY <1>1, Zenon DEF Owe

(* The sibling of what is short of one turns red: both are short of it.    *)
LEMMA MoveBalances ==
    ASSUME NEW t, NEW M, NEW S, Shape(t, M, S), NEW a \in M, NEW s \in Sides, NEW w \in M,
           w = t.child[Other(s)][a], NEW b, Balanced(t, M, b, {<<a, s>>}),
           t.color[w] = "black", NEW r, Repainted(t, r), r.color[w] = "red",
           \A n \in M \ {w} : r.color[n] = t.color[n]
    PROVE  \E c : Balanced(r, M, c, PlaceOf(t, a))
<1>1. PICK o : o = Other(s)
  OBVIOUS
<1>2. PICK P : P = {<<a, s>>}
  OBVIOUS
<1>3. PICK Q : Q = PlaceOf(t, a)
  OBVIOUS
<1> DEFINE c == [n \in NodeOrNil |-> IF n \in {a, w} THEN b[n] - 1 ELSE b[n]]
<1>4. /\ b \in [NodeOrNil -> Nat] /\ b[NIL] = 0
      /\ M \subseteq Nodes /\ M \subseteq NodeOrNil /\ NIL \in NodeOrNil /\ NIL \notin M
  BY ShapeIs DEF Balanced
<1>5. o \in Sides /\ o # s /\ \A z \in Sides : z = s \/ z = o
  BY <1>1, SidesAre
<1>6. /\ a # w /\ t.child[o][a] = w /\ t.child[s][a] # w /\ t.child[s][a] # a
      /\ t.child[s][w] # a /\ t.child[o][w] # a /\ t.child[s][w] # w /\ t.child[o][w] # w
      /\ t.parent[w] = a
  BY <1>1, Around
<1>7. \A n \in M, z \in Sides : t.child[z][n] \in M \cup {NIL} /\ r.child[z][n] = t.child[z][n]
  BY RoundIs DEF Round, Repainted
<1>8. \A n \in M, z \in Sides : n # a => t.child[z][n] # w
  BY <1>6, PlaceIs
<1>9. \A n \in M \cup {NIL} : b[n] \in Nat
  BY <1>4
<1>10. Balanced(t, M, b, P)
  BY <1>2
<1>11. \A n \in M, z \in Sides : b[n] = b[t.child[z][n]] + Owe(P, n, z) + Blk(t, n)
  BY <1>10, LevelIs
<1>12. Owe(P, a, s) = 1 /\ \A n \in M, z \in Sides : n # a \/ z # s => Owe(P, n, z) = 0
  BY <1>2, CountsAre
<1>13. \A n \in M, z \in Sides : Owe(Q, n, z) = IF t.child[z][n] = a THEN 1 ELSE 0
  BY <1>3, OweAt
<1>14. \A n \in M : Blk(t, n) \in Nat
  BY CountsAre
<1>15. Blk(t, w) = 1 /\ Blk(r, w) = 0 /\ \A n \in M : n # w => Blk(r, n) = Blk(t, n)
  BY DEF Blk
<1>16. b[w] - 1 \in Nat /\ b[w] = b[t.child[s][w]] + 1 /\ b[w] = b[t.child[o][w]] + 1
  <2>1. \A z \in Sides : b[w] = b[t.child[z][w]] + Owe(P, w, z) + Blk(t, w)
    BY <1>11
  <2>2. \A z \in Sides : b[t.child[z][w]] \in Nat
    BY <1>7, <1>9
  <2>3. \A z \in Sides : Owe(P, w, z) = 0
    BY <1>6, <1>12
  <2>4. \A z \in Sides : b[w] = b[t.child[z][w]] + 1
    BY <1>15, <2>1, <2>2, <2>3
  <2>5. QED
    BY <1>5, <2>2, <2>4
<1>17. b[a] = b[w] + Blk(t, a) /\ b[a] = b[t.child[s][a]] + 1 + Blk(t, a) /\ b[a] - 1 \in Nat
  <2>1. b[a] = b[t.child[s][a]] + Owe(P, a, s) + Blk(t, a)
    BY <1>11
  <2>2. b[a] = b[t.child[o][a]] + Owe(P, a, o) + Blk(t, a)
    BY <1>5, <1>11
  <2>3. Owe(P, a, o) = 0 /\ Owe(P, a, s) = 1 /\ t.child[o][a] = w
    BY <1>5, <1>6, <1>12
  <2>4. b[w] \in Nat /\ b[t.child[s][a]] \in Nat /\ Blk(t, a) \in Nat
    BY <1>7, <1>9, <1>14
  <2>5. b[a] = b[w] + Blk(t, a)
    BY <2>2, <2>3, <2>4
  <2>6. b[a] = b[t.child[s][a]] + 1 + Blk(t, a)
    BY <2>1, <2>3
  <2>7. QED
    BY <2>4, <2>5, <2>6
<1>18. c \in [NodeOrNil -> Nat]
  BY <1>4, <1>16, <1>17
<1>19. /\ c[NIL] = 0 /\ c[a] = b[a] - 1 /\ c[w] = b[w] - 1
       /\ \A n \in M \cup {NIL} : n # a /\ n # w => c[n] = b[n]
  BY <1>4
<1> HIDE DEF c
<1>20. Level(r, c, Q, a)
  <2>1. Owe(Q, a, s) = 0 /\ Owe(Q, a, o) = 0
    BY <1>5, <1>6, <1>13
  <2>2. c[r.child[s][a]] = b[t.child[s][a]] /\ c[r.child[o][a]] = b[w] - 1
    BY <1>5, <1>6, <1>7, <1>19
  <2>3. b[t.child[s][a]] \in Nat /\ b[w] \in Nat /\ Blk(t, a) \in Nat /\ Blk(r, a) = Blk(t, a)
    BY <1>6, <1>7, <1>9, <1>14, <1>15
  <2>4. c[a] = c[r.child[s][a]] + Owe(Q, a, s) + Blk(r, a)
    BY <1>17, <1>19, <2>1, <2>2, <2>3
  <2>5. c[a] = c[r.child[o][a]] + Owe(Q, a, o) + Blk(r, a)
    BY <1>17, <1>19, <2>1, <2>2, <2>3
  <2>6. QED
    BY <1>1, <2>4, <2>5, LevelMade
<1>21. Level(r, c, Q, w)
  <2>1. Owe(Q, w, s) = 0 /\ Owe(Q, w, o) = 0
    BY <1>5, <1>6, <1>13
  <2>2. c[r.child[s][w]] = b[t.child[s][w]] /\ c[r.child[o][w]] = b[t.child[o][w]]
    BY <1>5, <1>6, <1>7, <1>19
  <2>3. b[t.child[s][w]] \in Nat /\ b[t.child[o][w]] \in Nat /\ Blk(r, w) = 0
    BY <1>5, <1>7, <1>9, <1>15
  <2>4. c[w] = c[r.child[s][w]] + Owe(Q, w, s) + Blk(r, w)
    <3>1. c[w] = b[t.child[s][w]]
      BY <1>16, <1>19, <2>3
    <3>2. QED
      BY <2>1, <2>2, <2>3, <3>1
  <2>5. c[w] = c[r.child[o][w]] + Owe(Q, w, o) + Blk(r, w)
    <3>1. c[w] = b[t.child[o][w]]
      BY <1>16, <1>19, <2>3
    <3>2. QED
      BY <2>1, <2>2, <2>3, <3>1
  <2>6. QED
    BY <1>1, <2>4, <2>5, LevelMade, Zenon
<1>22. ASSUME NEW n \in M, n # a, n # w
       PROVE  Level(r, c, Q, n)
  <2>1. ASSUME NEW z \in Sides
        PROVE  c[n] = c[r.child[z][n]] + Owe(Q, n, z) + Blk(r, n)
    <3>1. PICK k : k = t.child[z][n]
      OBVIOUS
    <3>2. k \in M \cup {NIL} /\ k # w /\ r.child[z][n] = k /\ b[k] \in Nat
      BY <1>7, <1>8, <1>9, <1>22, <3>1
    <3>3. b[n] = b[k] + Owe(P, n, z) + Blk(t, n)
      BY <1>11, <1>22, <3>1
    <3>4. Owe(P, n, z) = 0 /\ Blk(r, n) = Blk(t, n) /\ Blk(t, n) \in Nat /\ c[n] = b[n]
      BY <1>12, <1>14, <1>15, <1>19, <1>22
    <3>5. CASE k = a
      <4>1. Owe(Q, n, z) = 1 /\ c[k] = b[k] - 1
        BY <1>13, <1>19, <1>22, <3>1, <3>5
      <4>2. QED
        BY <3>2, <3>3, <3>4, <4>1
    <3>6. CASE k # a
      <4>1. Owe(Q, n, z) = 0 /\ c[k] = b[k]
        BY <1>13, <1>19, <1>22, <3>1, <3>2, <3>6
      <4>2. QED
        BY <3>2, <3>3, <3>4, <4>1
    <3>7. QED
      BY <3>5, <3>6
  <2>2. QED
    BY <2>1 DEF Level
<1>23. Balanced(r, M, c, Q)
  BY <1>18, <1>19, <1>20, <1>21, <1>22 DEF Balanced
<1>24. QED
  BY <1>3, <1>23

(* A black element with a free side leaves its place short of one.         *)
LEMMA SpliceBalances ==
    ASSUME NEW t, NEW M, NEW S, Shape(t, M, S), NEW e \in M, NEW q \in Sides,
           t.child[Other(q)][e] = NIL, NEW x, x = t.child[q][e],
           NEW r, Handed(t, M, e, x, r), NEW b, Balanced(t, M, b, {})
    PROVE  /\ Balanced(r, M \ {e}, b, IF t.color[e] = "black" THEN PlaceOf(t, e) ELSE {})
           /\ x \in M => t.color[x] # "black"
<1>1. PICK Q : Q = IF t.color[e] = "black" THEN PlaceOf(t, e) ELSE {}
  OBVIOUS
<1>2. /\ b \in [NodeOrNil -> Nat] /\ b[NIL] = 0
      /\ M \subseteq Nodes /\ M \subseteq NodeOrNil /\ NIL \in NodeOrNil /\ NIL \notin M
  BY ShapeIs DEF Balanced
<1>3. \A n \in M \cup {NIL} : b[n] \in Nat
  BY <1>2
<1>4. \A n \in M, z \in Sides : b[n] = b[t.child[z][n]] + Owe({}, n, z) + Blk(t, n)
  BY LevelIs
<1>5. \A n, z : Owe({}, n, z) = 0
  BY CountsAre
<1>6. \A n \in M : Blk(t, n) \in Nat
  BY CountsAre
<1>7. \A n \in M, z \in Sides : t.child[z][n] \in M \cup {NIL}
  BY RoundIs DEF Round
<1>8. x \in M \cup {NIL} /\ Other(q) \in Sides
  BY <1>7, SidesAre
<1>9. \A n \in M, z \in Sides : b[n] = b[t.child[z][n]] + Blk(t, n)
  BY <1>3, <1>4, <1>5, <1>6, <1>7
<1>10. b[e] = Blk(t, e) /\ b[x] = 0
  <2>1. b[e] = b[NIL] + Blk(t, e)
    BY <1>8, <1>9
  <2>2. b[e] = b[x] + Blk(t, e)
    BY <1>9
  <2>3. b[x] \in Nat /\ Blk(t, e) \in Nat
    BY <1>3, <1>6, <1>8
  <2>4. QED
    BY <1>2, <2>1, <2>2, <2>3
<1>11. x \in M => t.color[x] # "black"
  <2>1. ASSUME x \in M, t.color[x] = "black" PROVE FALSE
    <3>1. PICK k : k = t.child[q][x]
      OBVIOUS
    <3>2. b[x] = b[k] + Blk(t, x) /\ b[k] \in Nat
      BY <1>3, <1>7, <1>9, <2>1, <3>1
    <3>3. Blk(t, x) = 1
      BY <2>1 DEF Blk
    <3>4. QED
      BY <1>10, <3>2, <3>3
  <2>2. QED
    BY <2>1
<1>12. \A n \in M, z \in Sides : Owe(Q, n, z) = IF t.child[z][n] = e THEN Blk(t, e) ELSE 0
  <2>1. \A n \in M, z \in Sides : <<n, z>> \in PlaceOf(t, e) <=> t.child[z][n] = e
    BY PlacesAre, Zenon
  <2>2. CASE t.color[e] = "black"
    <3>1. Q = PlaceOf(t, e) /\ Blk(t, e) = 1
      BY <1>1, <2>2 DEF Blk
    <3>2. QED
      BY <2>1, <3>1, Zenon DEF Owe
  <2>3. CASE t.color[e] # "black"
    <3>1. Q = {} /\ Blk(t, e) = 0
      BY <1>1, <2>3 DEF Blk
    <3>2. QED
      BY <1>5, <3>1
  <2>4. QED
    BY <2>2, <2>3
<1>13. ASSUME NEW n \in M \ {e}
       PROVE  Level(r, b, Q, n)
  <2>1. ASSUME NEW z \in Sides
        PROVE  b[n] = b[r.child[z][n]] + Owe(Q, n, z) + Blk(r, n)
    <3>1. PICK k : k = t.child[z][n]
      OBVIOUS
    <3>2. r.child[z][n] = IF k = e THEN x ELSE k
      BY <3>1 DEF Handed
    <3>3. r.color = t.color
      BY DEF Handed
    <3>4. Blk(r, n) = Blk(t, n) /\ Blk(t, n) \in Nat
      BY <1>6, <3>3 DEF Blk
    <3>5. b[n] = b[k] + Blk(t, n) /\ b[k] \in Nat
      BY <1>3, <1>7, <1>9, <3>1
    <3>6. CASE k = e
      <4>1. Owe(Q, n, z) = Blk(t, e) /\ r.child[z][n] = x
        BY <1>12, <3>1, <3>2, <3>6
      <4>2. b[n] = Blk(t, e) + Blk(t, n) /\ Blk(t, e) \in Nat
        BY <1>6, <1>10, <3>5, <3>6
      <4>3. QED
        BY <1>10, <3>4, <4>1, <4>2
    <3>7. CASE k # e
      <4>1. Owe(Q, n, z) = 0 /\ r.child[z][n] = k
        BY <1>12, <3>1, <3>2, <3>7
      <4>2. QED
        BY <3>4, <3>5, <4>1
    <3>8. QED
      BY <3>6, <3>7
  <2>2. QED
    BY <2>1 DEF Level
<1>14. Balanced(r, M \ {e}, b, Q)
  BY <1>2, <1>13 DEF Balanced
<1>15. QED
  BY <1>1, <1>10, <1>11, <1>14

(* Another element y takes the place and the colour of e, and what e owes. *)
Swapped(t, M, e, y, r, P, Q) ==
    /\ r.color[y] = t.color[e]
    /\ \A n \in M \ {e} : r.color[n] = t.color[n]
    /\ \A n \in M \ {e}, z \in Sides : Owe(Q, n, z) = Owe(P, n, z)
    /\ \A z \in Sides : Owe(Q, y, z) = Owe(P, e, z)

LEMMA SwapBalances ==
    ASSUME NEW t, NEW M, NEW S, Shape(t, M, S), NEW e \in M, NEW y \in Nodes \ M,
           NEW r, Replaced(t, M, e, y, r),
           NEW b, NEW P, Balanced(t, M, b, P), NEW Q, Swapped(t, M, e, y, r, P, Q)
    PROVE  \E c : Balanced(r, (M \ {e}) \cup {y}, c, Q)
<1> DEFINE c == [n \in NodeOrNil |-> IF n = y THEN b[e] ELSE b[n]]
<1>1. /\ b \in [NodeOrNil -> Nat] /\ b[NIL] = 0
      /\ M \subseteq Nodes /\ M \subseteq NodeOrNil /\ NIL \in NodeOrNil /\ NIL \notin M
      /\ y \in NodeOrNil /\ y # NIL /\ y \notin M
  BY ShapeIs, NilNotNode DEF Balanced, NodeOrNil
<1>2. /\ c \in [NodeOrNil -> Nat] /\ c[NIL] = 0 /\ c[y] = b[e]
      /\ \A n \in M \cup {NIL} : c[n] = b[n]
  BY <1>1
<1> HIDE DEF c
<1>3. \A n \in M, z \in Sides : b[n] = b[t.child[z][n]] + Owe(P, n, z) + Blk(t, n)
  BY LevelIs
<1>4. \A n \in M, z \in Sides : t.child[z][n] \in M \cup {NIL} /\ t.child[z][n] # n
  BY RoundIs DEF Round
<1>5. /\ \A m \in M \ {e}, z \in Sides :
           r.child[z][m] = IF t.child[z][m] = e THEN y ELSE t.child[z][m]
      /\ \A z \in Sides : r.child[z][y] = t.child[z][e]
  BY DEF Replaced
<1>6. /\ r.color[y] = t.color[e]
      /\ \A n \in M \ {e} : r.color[n] = t.color[n]
      /\ \A n \in M \ {e}, z \in Sides : Owe(Q, n, z) = Owe(P, n, z)
      /\ \A z \in Sides : Owe(Q, y, z) = Owe(P, e, z)
  BY DEF Swapped
<1>7. ASSUME NEW z \in Sides
      PROVE  c[y] = c[r.child[z][y]] + Owe(Q, y, z) + Blk(r, y)
  <2>1. c[r.child[z][y]] = b[t.child[z][e]]
    BY <1>2, <1>4, <1>5
  <2>2. Blk(r, y) = Blk(t, e)
    BY <1>6 DEF Blk
  <2>3. b[e] = b[t.child[z][e]] + Owe(P, e, z) + Blk(t, e)
    BY <1>3
  <2>4. QED
    BY <1>2, <1>6, <2>1, <2>2, <2>3
<1>8. ASSUME NEW n \in M \ {e}
      PROVE  Level(r, c, Q, n)
  <2>1. ASSUME NEW z \in Sides
        PROVE  c[r.child[z][n]] = b[t.child[z][n]] /\ Owe(Q, n, z) = Owe(P, n, z)
    <3>1. PICK k : k = t.child[z][n]
      OBVIOUS
    <3>2. k \in M \cup {NIL} /\ r.child[z][n] = IF k = e THEN y ELSE k
      BY <1>4, <1>5, <3>1
    <3>3. c[r.child[z][n]] = b[k]
      BY <1>2, <3>2
    <3>4. QED
      BY <1>6, <3>1, <3>3
  <2>2. c[n] = b[n] /\ r.color[n] = t.color[n] /\ n \in M
    BY <1>2, <1>6
  <2>3. QED
    BY <2>1, <2>2, LevelStays
<1>9. Level(r, c, Q, y)
  BY <1>7 DEF Level
<1>10. Balanced(r, (M \ {e}) \cup {y}, c, Q)
  BY <1>2, <1>8, <1>9 DEF Balanced
<1>11. QED
  BY <1>10

(* A red leaf.                                                             *)
LEMMA LeafBalances ==
    ASSUME NEW t, NEW M, NEW S, Shape(t, M, S), NEW s \in Sides, NEW y \in M,
           NEW e \in Nodes \ M, t.child[s][y] = NIL, NEW r, Grown(t, s, y, e, r),
           r.color[e] = "red", \A n \in M : r.color[n] = t.color[n],
           NEW b, Balanced(t, M, b, {})
    PROVE  \E c : Balanced(r, M \cup {e}, c, {})
<1> DEFINE c == [n \in NodeOrNil |-> IF n = e THEN 0 ELSE b[n]]
<1>1. /\ b \in [NodeOrNil -> Nat] /\ b[NIL] = 0
      /\ M \subseteq Nodes /\ M \subseteq NodeOrNil /\ NIL \in NodeOrNil /\ NIL \notin M
      /\ e \in NodeOrNil /\ e # NIL /\ e \notin M /\ e \in Nodes
  BY ShapeIs, NilNotNode DEF Balanced, NodeOrNil
<1>2. /\ c \in [NodeOrNil -> Nat] /\ c[NIL] = 0 /\ c[e] = 0
      /\ \A n \in M \cup {NIL} : c[n] = b[n]
  BY <1>1
<1> HIDE DEF c
<1>3. \A n \in M, z \in Sides : t.child[z][n] \in M \cup {NIL}
  BY RoundIs DEF Round
<1>4. \A z \in Sides, m \in Nodes :
        r.child[z][m] = IF m = e THEN NIL ELSE IF m = y /\ z = s THEN e ELSE t.child[z][m]
  BY DEF Grown
<1>5. Level(r, c, {}, e)
  <2>1. Blk(r, e) = 0 /\ \A z \in Sides : Owe({}, e, z) = 0
    BY CountsAre DEF Blk
  <2>2. \A z \in Sides : r.child[z][e] = NIL
    BY <1>1, <1>4
  <2>3. QED
    BY <1>2, <2>1, <2>2 DEF Level
<1>6. ASSUME NEW n \in M
      PROVE  Level(r, c, {}, n)
  <2>1. ASSUME NEW z \in Sides
        PROVE  c[r.child[z][n]] = b[t.child[z][n]] /\ Owe({}, n, z) = Owe({}, n, z)
    <3>1. r.child[z][n] = IF n = y /\ z = s THEN e ELSE t.child[z][n]
      BY <1>1, <1>4
    <3>2. CASE n = y /\ z = s
      <4>1. r.child[z][n] = e /\ t.child[z][n] = NIL
        BY <3>1, <3>2
      <4>2. QED
        BY <1>1, <1>2, <4>1
    <3>3. CASE ~(n = y /\ z = s)
      <4>1. r.child[z][n] = t.child[z][n] /\ t.child[z][n] \in M \cup {NIL}
        BY <1>3, <3>1, <3>3
      <4>2. QED
        BY <1>2, <4>1
    <3>4. QED
      BY <3>2, <3>3
  <2>2. c[n] = b[n] /\ r.color[n] = t.color[n]
    BY <1>2
  <2>3. QED
    BY <2>1, <2>2, LevelStays
<1>7. Balanced(r, M \cup {e}, c, {})
  BY <1>2, <1>5, <1>6 DEF Balanced
<1>8. QED
  BY <1>7

LEMMA RootBalances ==
    ASSUME NEW r, NEW e \in Nodes, r.color[e] = "red", \A z \in Sides : r.child[z][e] = NIL
    PROVE  \E c : Balanced(r, {e}, c, {})
<1> DEFINE c == [n \in NodeOrNil |-> 0]
<1>1. c \in [NodeOrNil -> Nat] /\ c[NIL] = 0 /\ c[e] = 0
  BY DEF NodeOrNil
<1>2. Blk(r, e) = 0 /\ \A z \in Sides : Owe({}, e, z) = 0
  BY CountsAre DEF Blk
<1> HIDE DEF c
<1>3. Level(r, c, {}, e)
  BY <1>1, <1>2 DEF Level
<1>4. Balanced(r, {e}, c, {})
  BY <1>1, <1>3 DEF Balanced
<1>5. QED
  BY <1>4

LEMMA SameBalances ==
    ASSUME NEW t, NEW M, NEW r, Agree(t, r, M), \A n \in M : r.color[n] = t.color[n],
           NEW b, NEW P, Balanced(t, M, b, P)
    PROVE  Balanced(r, M, b, P)
<1>1. ASSUME NEW n \in M
      PROVE  Level(r, b, P, n)
  <2>1. \A z \in Sides : b[r.child[z][n]] = b[t.child[z][n]] /\ Owe(P, n, z) = Owe(P, n, z)
    BY DEF Agree
  <2>2. QED
    BY <2>1, LevelStays
<1>2. QED
  BY <1>1 DEF Balanced

-----------------------------------------------------------------------------
(* Red-black but for the fix-up                                            *)

(* The place that is owed one is that of xi.                               *)
Debt(t, f, P) ==
    IF f.call = "remove" /\ f.above # NIL
    THEN \E s \in Sides : P = {<<f.above, s>>} /\ t.child[s][f.above] = f.at
    ELSE P = {}

Even(t, M, f) == \E b, P : Balanced(t, M, b, P) /\ Debt(t, f, P)

Colored(t, M, f) ==
    /\ f.call = "insert" => t.color[f.at] = "red"
    /\ \A n \in M \ {f.at} :
         t.color[n] = "red" =>
           /\ n # t.root
           /\ \/ t.color[t.parent[n]] = "black"
              \/ f.call = "remove" /\ t.parent[n] = f.at

LEMMA EvenInsert ==
    ASSUME NEW t, NEW M, NEW f, f.call # "remove"
    PROVE  /\ Even(t, M, f) => \E b : Balanced(t, M, b, {})
           /\ (\E b : Balanced(t, M, b, {})) => Even(t, M, f)
BY DEF Even, Debt

LEMMA TurnStaysEven ==
    ASSUME NEW t, NEW M, NEW S, Shape(t, M, S), NEW s \in Sides, NEW x \in M, NEW y \in M,
           y = t.child[Other(s)][x], NEW r, Turned(t, r, s, x, y),
           NEW b, Balanced(t, M, b, {}), t.color[y] = "red",
           r.color[x] = "red", r.color[y] = t.color[x],
           \A n \in M \ {x, y} : r.color[n] = t.color[n]
    PROVE  \E c : Balanced(r, M, c, {})
<1>1. PICK P : P = {}
  OBVIOUS
<1>2. Balanced(t, M, b, P) /\ <<x, Other(s)>> \notin P /\ \A z \in Sides : <<y, z>> \notin P
  BY <1>1
<1>3. \E c : Balanced(r, M, c, P)
  BY <1>2, TurnBalances
<1>4. QED
  BY <1>1, <1>3

(* INSERT's z is red, and the parent of the red above it is black.         *)
LEMMA ClashColors ==
    ASSUME NEW t, NEW M, NEW f, Colored(t, M, f), f.call = "insert",
           NEW z, z = f.at, NEW p \in M, p # z, t.color[p] = "red"
    PROVE  t.color[z] = "red" /\ t.color[t.parent[p]] = "black"
<1>1. p \in M \ {f.at} /\ f.call # "remove"
  OBVIOUS
<1>2. QED
  BY <1>1 DEF Colored

LEMMA InsertRecolorEven ==
    ASSUME NEW M, NEW S, Kept(tree, M, S, fix), Colored(tree, M, fix), Even(tree, M, fix),
           InsertRecolor
    PROVE  Colored(tree', M, fix') /\ Even(tree', M, fix')
<1>1. PICK z, p, g, s, u : /\ z = fix.at /\ p = tree.parent[z] /\ g = tree.parent[p]
                           /\ s = SideOf(tree, p) /\ u = tree.child[Other(s)][g]
  OBVIOUS
<1>2. /\ z \in M /\ p \in M /\ g \in M /\ u \in M
      /\ ClashAt(tree, z, p, g, s, u) /\ tree.color[u] = "red"
      /\ Repainted(tree, tree')
      /\ \A m \in Nodes : tree'.color[m] =
           IF m = g THEN "red" ELSE IF m = u \/ m = p THEN "black" ELSE tree.color[m]
      /\ fix' = [fix EXCEPT !.at = g]
  <2>1. z = fix.at
    BY <1>1
  <2>2. p = tree.parent[z]
    BY <1>1
  <2>3. g = tree.parent[p]
    BY <1>1
  <2>4. s = SideOf(tree, p)
    BY <1>1
  <2>5. u = tree.child[Other(s)][g]
    BY <1>1
  <2>6. /\ z \in M /\ p \in M /\ g \in M /\ u \in M
        /\ ClashAt(tree, z, p, g, s, u) /\ Repainted(tree, tree')
    BY <2>1, <2>2, <2>3, <2>4, <2>5, InsertRecolorIs
  <2>7. tree.color[u] = "red"
    BY <2>1, <2>2, <2>3, <2>4, <2>5, InsertRecolorIs
  <2>8. fix' = [fix EXCEPT !.at = g]
    BY <2>1, <2>2, <2>3, <2>4, <2>5, InsertRecolorIs
  <2>9. \A m \in Nodes : tree'.color[m] =
          IF m = g THEN "red" ELSE IF m = u \/ m = p THEN "black" ELSE tree.color[m]
    BY <2>1, <2>2, <2>3, <2>4, <2>5, InsertRecolorIs
  <2>10. QED
    BY <2>6, <2>7, <2>8, <2>9
<1>3. /\ z # p /\ p # g /\ z # tree.root /\ tree.parent[z] = p /\ tree.parent[p] = g
      /\ s \in Sides /\ tree.child[s][g] = p /\ tree.child[Other(s)][g] = u /\ u # p
      /\ tree.color[p] = "red"
  BY <1>2 DEF ClashAt
<1>4. Shape(tree, M, S) /\ Working(tree, M, fix) /\ M \subseteq Nodes /\ NIL \notin M
  BY ShapeIs DEF Kept
<1>5. fix.call = "insert" /\ fix' = [call |-> "insert", elm |-> NIL, at |-> g, above |-> NIL]
  BY <1>2, <1>4 DEF InsertRecolor, Working, Fixes
<1>6. tree.color[z] = "red" /\ tree.color[g] = "black"
  <2>1. z = fix.at /\ fix.call = "insert"
    BY <1>1, <1>5
  <2>2. tree.color[z] = "red" /\ tree.color[tree.parent[p]] = "black"
    BY <1>2, <1>3, <2>1, ClashColors
  <2>3. QED
    BY <1>3, <2>2
<1>7. tree.parent[u] = g /\ u # g
  BY <1>2, <1>3, <1>4, RoundIs, SidesAre DEF Round
<1>8. \A q \in Sides : tree.child[q][g] \in {p, u}
  BY <1>3, SidesAre
<1>9. tree'.root = tree.root /\ tree'.parent = tree.parent
  BY <1>2 DEF Repainted
<1>10. Colored(tree', M, fix')
  <2>1. tree'.color[fix'.at] = "red"
    BY <1>2, <1>4, <1>5
  <2>2. ASSUME NEW n \in M, n # g, tree'.color[n] = "red"
        PROVE  n # tree'.root /\ tree'.color[tree'.parent[n]] = "black"
    <3>1. n # u /\ n # p /\ tree.color[n] = "red"
      BY <1>2, <1>4, <2>2
    <3>2. CASE n = z
      BY <1>2, <1>3, <1>4, <1>9, <3>2
    <3>3. CASE n # z
      <4>1. n # tree.root /\ tree.color[tree.parent[n]] = "black"
        BY <1>1, <1>5, <3>1, <3>3 DEF Colored
      <4>2. tree.parent[n] \in M
        BY <1>4, <4>1, HangsOn
      <4>3. tree.parent[n] # g
        <5>1. \A m \in M : tree.parent[m] = g => \E q \in Sides : m = tree.child[q][g]
          BY <1>2, <1>4, RoundIs DEF Round
        <5>2. QED
          BY <1>8, <3>1, <5>1
      <4>4. QED
        BY <1>2, <1>4, <1>9, <4>1, <4>2, <4>3
    <3>4. QED
      BY <3>2, <3>3
  <2>3. QED
    BY <1>5, <2>1, <2>2 DEF Colored
<1>11. Even(tree', M, fix')
  <2>1. PICK b : Balanced(tree, M, b, {})
    BY <1>5, EvenInsert
  <2>2. /\ tree'.color[g] = "red" /\ tree'.color[p] = "black" /\ tree'.color[u] = "black"
        /\ \A n \in M \ {g, p, u} : tree'.color[n] = tree.color[n]
    BY <1>2, <1>3, <1>4, <1>7
  <2>3. \E c : Balanced(tree', M, c, {})
    BY <1>2, <1>3, <1>4, <1>6, <1>7, <1>8, <2>1, <2>2, ShareBalances
  <2>4. fix'.call # "remove"
    BY <1>5
  <2>5. QED
    BY <2>3, <2>4, EvenInsert
<1>12. QED
  BY <1>10, <1>11

LEMMA InsertStraightenEven ==
    ASSUME NEW M, NEW S, Kept(tree, M, S, fix), Colored(tree, M, fix), Even(tree, M, fix),
           InsertStraighten
    PROVE  Colored(tree', M, fix') /\ Even(tree', M, fix')
<1>1. PICK z, p, g, s, u : /\ z = fix.at /\ p = tree.parent[z] /\ g = tree.parent[p]
                           /\ s = SideOf(tree, p) /\ u = tree.child[Other(s)][g]
  OBVIOUS
<1>2. /\ z \in M /\ p \in M /\ g \in M /\ ClashAt(tree, z, p, g, s, u)
      /\ z = tree.child[Other(s)][p]
      /\ Turned(tree, tree', s, p, z) /\ tree'.color = tree.color
      /\ fix' = [fix EXCEPT !.at = p]
  BY <1>1, InsertStraightenIs
<1>3. /\ z # p /\ p # g /\ z # tree.root /\ p # tree.root
      /\ tree.parent[z] = p /\ tree.parent[p] = g
      /\ s \in Sides /\ tree.color[p] = "red"
  BY <1>2 DEF ClashAt
<1>4. Shape(tree, M, S) /\ Working(tree, M, fix) /\ M \subseteq Nodes /\ NIL \notin M
  BY ShapeIs DEF Kept
<1>5. fix.call = "insert" /\ fix' = [call |-> "insert", elm |-> NIL, at |-> p, above |-> NIL]
  BY <1>2, <1>4 DEF InsertStraighten, Working, Fixes
<1>50. fix.call = "insert" /\ fix.at = z
  BY <1>1, <1>5
<1>6. tree.color[z] = "red" /\ tree.color[g] = "black"
  BY <1>2, <1>3, <1>50 DEF Colored
<1>7. TurnedLinks(tree, tree', M, s, Other(s), p, z)
  BY <1>2, <1>3, <1>4, TurnedLinksAre
<1>8. /\ \A n \in M : n # p /\ n # z =>
           tree'.parent[n] = IF n = tree.child[s][z] THEN p ELSE tree.parent[n]
      /\ tree'.parent[z] = g
      /\ \A n \in M : n = tree.child[s][z] => tree.parent[n] = z
      /\ tree'.root = tree.root
  BY <1>2, <1>3, <1>7 DEF TurnedLinks, Turned
<1>9. Colored(tree', M, fix')
  <2>1. ASSUME NEW n \in M, n # p, tree'.color[n] = "red"
        PROVE  n # tree'.root /\ tree'.color[tree'.parent[n]] = "black"
    <3>1. CASE n = z
      BY <1>2, <1>3, <1>6, <1>8, <3>1
    <3>2. CASE n # z
      <4>1. n # tree.root /\ tree.color[tree.parent[n]] = "black"
        <5>1. tree.color[n] = "red"
          BY <1>2, <2>1
        <5>2. QED
          BY <1>50, <3>2, <5>1 DEF Colored
      <4>2. n # tree.child[s][z]
        BY <1>6, <1>8, <4>1
      <4>3. QED
        BY <1>2, <1>8, <2>1, <3>2, <4>1, <4>2
    <3>3. QED
      BY <3>1, <3>2
  <2>2. tree'.color[fix'.at] = "red"
    BY <1>2, <1>3, <1>5
  <2>3. QED
    BY <1>5, <2>1, <2>2 DEF Colored
<1>10. Even(tree', M, fix')
  <2>1. PICK b : Balanced(tree, M, b, {})
    BY <1>5, EvenInsert
  <2>2. /\ tree'.color[p] = "red" /\ tree'.color[z] = tree.color[p]
        /\ \A n \in M \ {p, z} : tree'.color[n] = tree.color[n]
    BY <1>2, <1>3, <1>6
  <2>3. \E c : Balanced(tree', M, c, {})
    BY <1>2, <1>3, <1>4, <1>6, <2>1, <2>2, TurnStaysEven
  <2>4. fix'.call # "remove"
    BY <1>5
  <2>5. QED
    BY <2>3, <2>4, EvenInsert
<1>11. QED
  BY <1>9, <1>10

LEMMA InsertRotateEven ==
    ASSUME NEW M, NEW S, Kept(tree, M, S, fix), Colored(tree, M, fix), Even(tree, M, fix),
           InsertRotate
    PROVE  Colored(tree', M, fix') /\ Even(tree', M, fix')
<1>1. PICK z, p, g, s, u : /\ z = fix.at /\ p = tree.parent[z] /\ g = tree.parent[p]
                           /\ s = SideOf(tree, p) /\ u = tree.child[Other(s)][g]
  OBVIOUS
<1>2. /\ z \in M /\ p \in M /\ g \in M /\ u \in M \cup {NIL}
      /\ ClashAt(tree, z, p, g, s, u) /\ Color(tree, u) = "black"
      /\ Turned(tree, tree', Other(s), g, p)
      /\ \A m \in Nodes : tree'.color[m] =
           IF m = g THEN "red" ELSE IF m = p THEN "black" ELSE tree.color[m]
      /\ fix' = fix
  BY <1>1, InsertRotateIs
<1>3. /\ z # p /\ p # g /\ z # tree.root /\ p # tree.root
      /\ tree.parent[z] = p /\ tree.parent[p] = g
      /\ s \in Sides /\ tree.child[s][g] = p /\ tree.child[Other(s)][g] = u /\ u # p
      /\ tree.color[p] = "red"
  BY <1>2 DEF ClashAt
<1>4. Shape(tree, M, S) /\ M \subseteq Nodes /\ NIL \notin M
  BY ShapeIs DEF Kept
<1>5. fix.call = "insert" /\ fix'.call = "insert" /\ fix'.at = z
  BY <1>1, <1>2, Zenon DEF InsertRotate
<1>6. tree.color[z] = "red" /\ tree.color[g] = "black" /\ z # g
  <2>1. z = fix.at
    BY <1>1
  <2>2. tree.color[z] = "red" /\ tree.color[tree.parent[p]] = "black"
    BY <1>2, <1>3, <1>5, <2>1, ClashColors
  <2>3. QED
    BY <1>3, <2>2
<1>7. PICK o : o = Other(s)
  OBVIOUS
<1>8. o \in Sides /\ Other(o) = s /\ \A q \in Sides : q = s \/ q = o
  BY <1>3, <1>7, SidesAre
<1>9. p = tree.child[Other(o)][g] /\ Turned(tree, tree', o, g, p)
  BY <1>2, <1>3, <1>7, <1>8
<1>10. TurnedLinks(tree, tree', M, o, Other(o), g, p)
  BY <1>2, <1>4, <1>8, <1>9, TurnedLinksAre
<1>11. /\ \A n \in M : n # g /\ n # p =>
            tree'.parent[n] = IF n = tree.child[o][p] THEN g ELSE tree.parent[n]
       /\ tree'.parent[g] = p
       /\ \A n \in M : n = tree.child[o][p] => tree.parent[n] = p
       /\ tree'.root = IF g = tree.root THEN p ELSE tree.root
  BY <1>9, <1>10, Zenon DEF TurnedLinks, Turned
<1>12. Colored(tree', M, fix')
  <2>1. tree'.color[fix'.at] = "red"
    BY <1>2, <1>3, <1>4, <1>5, <1>6
  <2>2. ASSUME NEW n \in M, n # z, tree'.color[n] = "red"
        PROVE  n # tree'.root /\ tree'.color[tree'.parent[n]] = "black"
    <3>1. n # p
      BY <1>2, <1>3, <1>4, <2>2
    <3>2. CASE n = g
      BY <1>2, <1>3, <1>4, <1>11, <3>2
    <3>3. CASE n # g
      <4>1. tree.color[n] = "red"
        BY <1>4, <1>2, <2>2, <3>1, <3>3
      <4>2. n # tree.root /\ tree.color[tree.parent[n]] = "black"
        BY <1>1, <1>5, <2>2, <4>1 DEF Colored
      <4>3. n # tree.child[o][p] /\ tree.parent[n] # p
        BY <1>3, <1>11, <4>2
      <4>4. tree.parent[n] \in M
        BY <1>4, <4>2, HangsOn
      <4>5. n # u
        <5>1. Color(tree, n) = "red"
          BY <1>4, <4>1 DEF Color
        <5>2. QED
          BY <1>2, <5>1
      <4>6. tree.parent[n] # g
        <5>1. \A m \in M : tree.parent[m] = g => \E q \in Sides : m = tree.child[q][g]
          BY <1>2, <1>4, RoundIs DEF Round
        <5>2. QED
          BY <1>3, <1>7, <1>8, <3>1, <4>5, <5>1
      <4>7. QED
        BY <1>2, <1>4, <1>11, <3>1, <3>3, <4>2, <4>3, <4>4, <4>6
    <3>4. QED
      BY <3>2, <3>3
  <2>3. QED
    BY <1>5, <2>1, <2>2 DEF Colored
<1>13. Even(tree', M, fix')
  <2>1. PICK b : Balanced(tree, M, b, {})
    BY <1>5, EvenInsert
  <2>2. /\ tree'.color[g] = "red" /\ tree'.color[p] = tree.color[g]
        /\ \A n \in M \ {g, p} : tree'.color[n] = tree.color[n]
    BY <1>2, <1>3, <1>4, <1>6
  <2>3. \E c : Balanced(tree', M, c, {})
    BY <1>2, <1>3, <1>4, <1>8, <1>9, <2>1, <2>2, TurnStaysEven
  <2>4. fix'.call # "remove"
    BY <1>5
  <2>5. QED
    BY <2>3, <2>4, EvenInsert
<1>14. QED
  BY <1>12, <1>13

(* The element at the end of a fix-up, if it is red, turns black.          *)
LEMMA PaintStaysEven ==
    ASSUME NEW t, NEW M, NEW S, Shape(t, M, S), NEW e \in M, NEW r, Agree(t, r, M),
           \A n \in M : r.color[n] = IF n = e THEN "black" ELSE t.color[n],
           NEW b, NEW P, Balanced(t, M, b, P), P = PlaceOf(t, e),
           t.color[e] # "red" => P = {}
    PROVE  \E c : Balanced(r, M, c, {})
<1>1. CASE t.color[e] = "red"
  <2>1. Balanced(t, M, b, PlaceOf(t, e))
    OBVIOUS
  <2>2. r.color[e] = "black" /\ \A n \in M \ {e} : r.color[n] = t.color[n]
    OBVIOUS
  <2>3. QED
    BY <1>1, <2>1, <2>2, PaintPays
<1>2. CASE t.color[e] # "red"
  <2>1. t.color[e] = "black"
    BY <1>2, ShapeIs, LinksAre
  <2>2. \A n \in M : r.color[n] = t.color[n]
    BY <2>1
  <2>3. Balanced(r, M, b, P) /\ P = {}
    BY <1>2, <2>2, SameBalances
  <2>4. QED
    BY <2>3
<1>3. QED
  BY <1>1, <1>2

LEMMA InsertDoneEven ==
    ASSUME NEW M, NEW S, Kept(tree, M, S, fix), Colored(tree, M, fix), Even(tree, M, fix),
           InsertDone
    PROVE  Colored(tree', M, fix') /\ Even(tree', M, fix')
<1>1. /\ Agree(tree, tree', M)
      /\ \A m \in Nodes : tree'.color[m] = IF m = tree.root THEN "black" ELSE tree.color[m]
      /\ fix' = NoFix /\ fix.at \in M
      /\ fix.at = tree.root \/ Color(tree, Parent(tree, fix.at)) = "black"
  BY InsertDoneIs
<1>2. Shape(tree, M, S) /\ M \subseteq Nodes /\ NIL \notin M
  BY ShapeIs DEF Kept
<1>3. fix.call = "insert" /\ fix'.call = "none" /\ fix'.at = NIL
  BY <1>1 DEF InsertDone, NoFix
<1>4. tree'.root = tree.root /\ \A n \in M : tree'.parent[n] = tree.parent[n]
  BY <1>1 DEF Agree
<1>5. Colored(tree', M, fix')
  <2>1. ASSUME NEW n \in M, tree'.color[n] = "red"
        PROVE  n # tree'.root /\ tree'.color[tree'.parent[n]] = "black"
    <3>1. n # tree.root /\ tree.color[n] = "red"
      BY <1>1, <1>2, <2>1
    <3>2. tree.parent[n] \in M
      BY <1>2, <3>1, HangsOn
    <3>3. tree.color[tree.parent[n]] = "black"
      <4>1. CASE n = fix.at
        <5>1. Parent(tree, n) = tree.parent[n] /\ tree.parent[n] # NIL
          BY <1>2, <3>2 DEF Parent
        <5>2. QED
          BY <1>1, <3>1, <4>1, <5>1 DEF Color
      <4>2. CASE n # fix.at
        BY <1>3, <3>1, <4>2 DEF Colored
      <4>3. QED
        BY <4>1, <4>2
    <3>4. QED
      BY <1>1, <1>2, <1>4, <3>1, <3>2, <3>3
  <2>2. QED
    BY <1>3, <2>1 DEF Colored
<1>6. Even(tree', M, fix')
  <2>1. PICK b : Balanced(tree, M, b, {})
    BY <1>3, EvenInsert
  <2>2. tree.root \in M
    BY <1>1, <1>2, ShapeIs
  <2>3. PICK e : e = tree.root
    OBVIOUS
  <2>4. PICK P : P = PlaceOf(tree, e)
    OBVIOUS
  <2>5. P = {}
    BY <2>3, <2>4 DEF PlaceOf
  <2>6. e \in M /\ Balanced(tree, M, b, P)
        /\ \A n \in M : tree'.color[n] = IF n = e THEN "black" ELSE tree.color[n]
    BY <1>1, <1>2, <2>1, <2>2, <2>3, <2>5
  <2>7. \E c : Balanced(tree', M, c, {})
    BY <1>1, <1>2, <2>4, <2>5, <2>6, PaintStaysEven
  <2>8. fix'.call # "remove"
    BY <1>3
  <2>9. QED
    BY <2>7, <2>8, EvenInsert
<1>7. QED
  BY <1>5, <1>6

(* While xi is short, its place is owed one, so that it has a sibling.     *)
LEMMA DebtIs ==
    ASSUME NEW M, NEW S, Kept(tree, M, S, fix), fix.call = "remove", Short,
           NEW b, NEW P, Balanced(tree, M, b, P), Debt(tree, fix, P),
           NEW a, a = fix.above, NEW s, s = ShortSide, NEW w, w = tree.child[Other(s)][a]
    PROVE  /\ P = {<<a, s>>} /\ tree.child[s][a] = fix.at
           /\ w \in M /\ w # fix.at
<1>1. Shape(tree, M, S)
  BY DEF Kept
<1>2. a \in M /\ s \in Sides /\ w \in M \cup {NIL}
  BY ShortageIs
<1>3. NIL \notin M /\ M \subseteq NodeOrNil /\ NIL \in NodeOrNil
  BY <1>1, ShapeIs
<1>4. PICK q \in Sides : P = {<<a, q>>} /\ tree.child[q][a] = fix.at
  BY <1>2, <1>3 DEF Debt
<1>5. PICK o : o = Other(q)
  OBVIOUS
<1>6. o \in Sides /\ o # q
  BY <1>5, SidesAre
<1>7. PICK v : v = tree.child[o][a]
  OBVIOUS
<1>8. v \in M \cup {NIL} /\ fix.at \in M \cup {NIL}
  BY <1>1, <1>2, <1>4, <1>6, <1>7, RoundIs DEF Round
<1>9. b[NIL] = 0 /\ b[v] \in Nat /\ b[fix.at] \in Nat
  BY <1>3, <1>8 DEF Balanced
<1>10. b[v] = b[fix.at] + 1
  <2>1. b[a] = b[fix.at] + Owe(P, a, q) + Blk(tree, a)
    BY <1>2, <1>4, LevelIs
  <2>2. b[a] = b[v] + Owe(P, a, o) + Blk(tree, a)
    BY <1>2, <1>6, <1>7, LevelIs
  <2>3. Owe(P, a, q) = 1 /\ Owe(P, a, o) = 0 /\ Blk(tree, a) \in Nat
    BY <1>4, <1>6, CountsAre
  <2>4. QED
    BY <1>9, <2>1, <2>2, <2>3
<1>11. v # NIL /\ v # fix.at
  BY <1>9, <1>10
<1>12. q = s
  <2>1. Child(tree, "left", fix.above) = tree.child["left"][a]
    BY <1>2, <1>3 DEF Child
  <2>2. s = IF fix.at = tree.child["left"][a] THEN "left" ELSE "right"
    BY <2>1 DEF ShortSide
  <2>3. CASE q = "left"
    BY <1>4, <2>2, <2>3
  <2>4. CASE q = "right"
    <3>1. o = "left"
      BY <1>5, <2>4, SidesAre
    <3>2. QED
      BY <1>7, <1>11, <2>2, <2>4, <3>1
  <2>5. QED
    BY <2>3, <2>4, SidesAre
<1>13. v = w
  BY <1>5, <1>7, <1>12
<1>14. QED
  BY <1>4, <1>8, <1>11, <1>12, <1>13

LEMMA RemoveLiftEven ==
    ASSUME NEW M, NEW S, Kept(tree, M, S, fix), Colored(tree, M, fix), Even(tree, M, fix),
           RemoveLift
    PROVE  Colored(tree', M, fix') /\ Even(tree', M, fix')
<1>1. PICK a, s, w : a = fix.above /\ s = ShortSide /\ w = tree.child[Other(s)][a]
  OBVIOUS
<1>2. /\ a \in M /\ s \in Sides /\ w \in M /\ w # a /\ w # tree.root
      /\ tree.color[w] = "red" /\ fix.at # tree.root
      /\ Color(tree, fix.at) = "black"
      /\ Turned(tree, tree', s, a, w)
      /\ \A m \in Nodes : tree'.color[m] =
           IF m = a THEN "red" ELSE IF m = w THEN "black" ELSE tree.color[m]
      /\ fix' = fix
  BY <1>1, RemoveLiftIs
<1>3. fix.call = "remove" /\ Short
  BY DEF RemoveLift
<1>4. Shape(tree, M, S) /\ M \subseteq Nodes /\ NIL \notin M
  BY ShapeIs DEF Kept
<1>5. PICK b, P : Balanced(tree, M, b, P) /\ Debt(tree, fix, P)
  BY DEF Even
<1>6. /\ P = {<<a, s>>} /\ tree.child[s][a] = fix.at /\ w # fix.at
  BY <1>1, <1>3, <1>5, DebtIs
<1>7. PICK o : o = Other(s)
  OBVIOUS
<1>8. o \in Sides /\ o # s /\ tree.child[o][a] = w /\ \A q \in Sides : q = s \/ q = o
  BY <1>1, <1>2, <1>7, SidesAre
<1>9. TurnedLinks(tree, tree', M, s, o, a, w)
  BY <1>1, <1>2, <1>4, <1>7, TurnedLinksAre
<1>10. /\ \A n \in M : n # a /\ n # w =>
            tree'.parent[n] = IF n = tree.child[s][w] THEN a ELSE tree.parent[n]
       /\ tree'.parent[a] = w /\ tree.parent[w] = a
       /\ \A n \in M : n = tree.child[s][w] => tree.parent[n] = w
       /\ tree'.root = IF a = tree.root THEN w ELSE tree.root
       /\ tree'.child[s][a] = tree.child[s][a]
  BY <1>2, <1>9 DEF TurnedLinks, Turned
<1>11. \A m \in M : tree.parent[m] = a => m = w \/ m = fix.at
  <2>1. \A m \in M : tree.parent[m] = a => \E q \in Sides : m = tree.child[q][a]
    BY <1>2, <1>4, RoundIs DEF Round
  <2>2. QED
    BY <1>6, <1>8, <2>1
<1>12. a # fix.at
  BY <1>2, <1>4, <1>6, RoundIs DEF Round
<1>13. tree.color[a] = "black"
  BY <1>2, <1>6, <1>10, <1>12 DEF Colored
<1>14. Colored(tree', M, fix')
  <2>1. ASSUME NEW n \in M, n # fix.at, tree'.color[n] = "red"
        PROVE  /\ n # tree'.root
               /\ tree'.color[tree'.parent[n]] = "black" \/ tree'.parent[n] = fix.at
    <3>1. n # w
      BY <1>2, <1>4, <2>1
    <3>2. CASE n = a
      BY <1>2, <1>4, <1>10, <3>2
    <3>3. CASE n # a
      <4>1. tree.color[n] = "red"
        BY <1>2, <1>4, <2>1, <3>1, <3>3
      <4>2. /\ n # tree.root
            /\ tree.color[tree.parent[n]] = "black" \/ tree.parent[n] = fix.at
        BY <2>1, <4>1 DEF Colored
      <4>3. n # tree.child[s][w]
        BY <1>2, <1>6, <1>10, <4>2
      <4>4. tree'.parent[n] = tree.parent[n] /\ tree.parent[n] # a /\ n # tree'.root
        BY <1>10, <1>11, <2>1, <3>1, <3>3, <4>2, <4>3
      <4>5. tree.parent[n] \in M
        BY <1>4, <4>2, HangsOn
      <4>6. tree.color[tree.parent[n]] = "black" => tree'.color[tree.parent[n]] = "black"
        BY <1>2, <1>4, <4>4, <4>5
      <4>7. QED
        BY <4>2, <4>4, <4>6
    <3>4. QED
      BY <3>2, <3>3
  <2>2. fix'.call = "remove" /\ fix'.at = fix.at
    BY <1>2, <1>3
  <2>3. QED
    BY <2>1, <2>2 DEF Colored
<1>15. Even(tree', M, fix')
  <2>1. /\ tree'.color[a] = "red" /\ tree'.color[w] = tree.color[a]
        /\ \A n \in M \ {a, w} : tree'.color[n] = tree.color[n]
    BY <1>2, <1>4, <1>13
  <2>2. <<a, Other(s)>> \notin P /\ \A q \in Sides : <<w, q>> \notin P
    BY <1>2, <1>6, <1>7, <1>8
  <2>3. PICK c : Balanced(tree', M, c, P)
    BY <1>1, <1>2, <1>4, <1>5, <2>1, <2>2, TurnBalances
  <2>4. Debt(tree', fix', P)
    BY <1>1, <1>2, <1>3, <1>4, <1>6, <1>10 DEF Debt
  <2>5. QED
    BY <2>3, <2>4 DEF Even
<1>16. QED
  BY <1>14, <1>15

LEMMA RemoveRecolorEven ==
    ASSUME NEW M, NEW S, Kept(tree, M, S, fix), Colored(tree, M, fix), Even(tree, M, fix),
           RemoveRecolor
    PROVE  Colored(tree', M, fix') /\ Even(tree', M, fix')
<1>1. PICK a, s, w : a = fix.above /\ s = ShortSide /\ w = tree.child[Other(s)][a]
  OBVIOUS
<1>2. /\ a \in M /\ s \in Sides /\ w # a /\ w # tree.root
      /\ Color(tree, w) = "black" /\ fix.at # tree.root
      /\ Color(tree, fix.at) = "black"
      /\ w # NIL => \A z \in Sides : Color(tree, tree.child[z][w]) = "black"
      /\ Repainted(tree, tree')
      /\ \A m \in Nodes : tree'.color[m] = IF m = w THEN "red" ELSE tree.color[m]
      /\ fix' = [call |-> "remove", elm |-> fix.elm, at |-> a, above |-> tree.parent[a]]
  BY <1>1, RemoveRecolorIs
<1>3. fix.call = "remove" /\ Short
  BY DEF RemoveRecolor
<1>4. Shape(tree, M, S) /\ M \subseteq Nodes /\ NIL \notin M
  BY ShapeIs DEF Kept
<1>5. PICK b, P : Balanced(tree, M, b, P) /\ Debt(tree, fix, P)
  BY DEF Even
<1>6. /\ P = {<<a, s>>} /\ tree.child[s][a] = fix.at /\ w # fix.at /\ w \in M
  BY <1>1, <1>3, <1>5, DebtIs
<1>7. tree'.root = tree.root /\ tree'.parent = tree.parent /\ tree'.child = tree.child
  BY <1>2 DEF Repainted
<1>8. tree.parent[w] = a
  BY <1>1, <1>2, <1>4, <1>6, Around
<1>9. tree.color[w] = "black" /\ \A z \in Sides : Color(tree, tree.child[z][w]) = "black"
  BY <1>2, <1>4, <1>6 DEF Color
<1>10. Colored(tree', M, fix')
  <2>1. ASSUME NEW n \in M, n # a, tree'.color[n] = "red"
        PROVE  /\ n # tree'.root
               /\ tree'.color[tree'.parent[n]] = "black" \/ tree'.parent[n] = a
    <3>1. CASE n = w
      BY <1>2, <1>7, <1>8, <3>1
    <3>2. CASE n # w
      <4>1. tree.color[n] = "red"
        BY <1>2, <1>4, <2>1, <3>2
      <4>2. Color(tree, n) = "red"
        BY <1>4, <4>1 DEF Color
      <4>3. n # fix.at
        BY <1>2, <4>2
      <4>4. /\ n # tree.root
            /\ tree.color[tree.parent[n]] = "black" \/ tree.parent[n] = fix.at
        BY <4>1, <4>3 DEF Colored
      <4>5. tree.parent[n] \in M
        BY <1>4, <4>4, HangsOn
      <4>6. tree.color[tree.parent[n]] = "black"
        <5>1. CASE tree.parent[n] = fix.at
          <6>1. fix.at # NIL
            BY <1>4, <4>5, <5>1
          <6>2. QED
            BY <1>2, <5>1, <6>1 DEF Color
        <5>2. QED
          BY <4>4, <5>1
      <4>7. tree.parent[n] # w
        <5>1. \A m \in M : tree.parent[m] = w => \E q \in Sides : m = tree.child[q][w]
          BY <1>4, <1>6, RoundIs DEF Round
        <5>2. QED
          BY <1>9, <4>2, <5>1
      <4>8. tree'.color[tree.parent[n]] = "black"
        BY <1>2, <1>4, <4>5, <4>6, <4>7
      <4>9. QED
        BY <1>7, <4>4, <4>8
    <3>3. QED
      BY <3>1, <3>2
  <2>2. fix'.call = "remove" /\ fix'.at = a
    BY <1>2
  <2>3. QED
    BY <2>1, <2>2 DEF Colored
<1>11. Even(tree', M, fix')
  <2>1. tree'.color[w] = "red" /\ \A n \in M \ {w} : tree'.color[n] = tree.color[n]
    BY <1>2, <1>4, <1>6
  <2>2. Balanced(tree, M, b, {<<a, s>>})
    BY <1>5, <1>6
  <2>3. PICK c : Balanced(tree', M, c, PlaceOf(tree, a))
    BY <1>1, <1>2, <1>4, <1>6, <1>9, <2>1, <2>2, MoveBalances
  <2>4. Debt(tree', fix', PlaceOf(tree, a))
    <3>1. a = tree.root <=> tree.parent[a] = NIL
      BY <1>2, <1>4, PlaceIs
    <3>2. a # tree.root => /\ tree.child[SideOf(tree, a)][tree.parent[a]] = a
                           /\ SideOf(tree, a) \in Sides
      BY <1>2, <1>4, PlaceIs
    <3>3. fix'.call = "remove" /\ fix'.at = a /\ fix'.above = tree.parent[a]
      BY <1>2
    <3>4. QED
      BY <1>7, <3>1, <3>2, <3>3 DEF Debt, PlaceOf
  <2>5. QED
    BY <2>3, <2>4 DEF Even
<1>12. QED
  BY <1>10, <1>11

LEMMA HungIs ==
    ASSUME NEW t, NEW M, NEW S, Shape(t, M, S), NEW q \in Sides, NEW x \in M, NEW y \in M,
           y = t.child[q][x]
    PROVE  t.parent[y] = x /\ t.parent[x] # y
<1>1. PICK s : s = Other(q)
  OBVIOUS
<1>2. s \in Sides /\ Other(s) = q
  BY <1>1, SidesAre
<1>3. y = t.child[Other(s)][x]
  BY <1>2
<1>4. QED
  BY <1>2, <1>3, Around

LEMMA RemoveStraightenEven ==
    ASSUME NEW M, NEW S, Kept(tree, M, S, fix), Colored(tree, M, fix), Even(tree, M, fix),
           RemoveStraighten
    PROVE  Colored(tree', M, fix') /\ Even(tree', M, fix')
<1>1. PICK a, s, w, n : /\ a = fix.above /\ s = ShortSide /\ w = tree.child[Other(s)][a]
                        /\ n = tree.child[s][w]
  OBVIOUS
<1>2. /\ a \in M /\ s \in Sides /\ w \in M /\ w # a /\ w # tree.root
      /\ n \in M /\ n # w /\ n # tree.root
      /\ tree.color[w] = "black" /\ tree.color[n] = "red"
      /\ Color(tree, tree.child[Other(s)][w]) = "black"
      /\ fix.at # tree.root /\ Color(tree, fix.at) = "black"
      /\ Turned(tree, tree', Other(s), w, n)
      /\ \A m \in Nodes : tree'.color[m] =
           IF m = w THEN "red" ELSE IF m = n THEN "black" ELSE tree.color[m]
      /\ fix' = fix
  BY <1>1, RemoveStraightenIs
<1>3. fix.call = "remove" /\ Short
  BY DEF RemoveStraighten
<1>4. Shape(tree, M, S) /\ M \subseteq Nodes /\ NIL \notin M
  BY ShapeIs DEF Kept
<1>5. PICK b, P : Balanced(tree, M, b, P) /\ Debt(tree, fix, P)
  BY DEF Even
<1>6. /\ P = {<<a, s>>} /\ tree.child[s][a] = fix.at /\ w # fix.at
  BY <1>1, <1>3, <1>5, DebtIs
<1>7. PICK o : o = Other(s)
  OBVIOUS
<1>8. o \in Sides /\ o # s /\ Other(o) = s /\ \A q \in Sides : q = s \/ q = o
  BY <1>2, <1>7, SidesAre
<1>9. n = tree.child[Other(o)][w] /\ Turned(tree, tree', o, w, n)
  BY <1>1, <1>2, <1>7, <1>8, Zenon
<1>10. TurnedLinks(tree, tree', M, o, Other(o), w, n)
  BY <1>2, <1>4, <1>8, <1>9, TurnedLinksAre
<1>11. /\ \A m \in M : m # w /\ m # n =>
            tree'.parent[m] = IF m = tree.child[o][n] THEN w ELSE tree.parent[m]
       /\ tree'.parent[w] = n /\ tree.parent[n] = w
       /\ \A m \in M : m = tree.child[o][n] => tree.parent[m] = n
       /\ tree'.root = tree.root
       /\ \A m \in M, z \in Sides : m # w /\ m # n =>
            tree'.child[z][m] = IF tree.child[z][m] = w THEN n ELSE tree.child[z][m]
  BY <1>2, <1>9, <1>10, Zenon DEF TurnedLinks, Turned
<1>12. n # fix.at /\ n # a
  <2>0. w = tree.child[o][a]
    BY <1>1, <1>7
  <2>1. tree.parent[w] = a /\ tree.parent[a] # w
    BY <1>2, <1>4, <1>8, <2>0, HungIs
  <2>2. fix.at # NIL => tree.parent[fix.at] = a
    BY <1>2, <1>4, <1>6, RoundIs DEF Round
  <2>3. \A m \in M, z \in Sides : tree.child[z][m] = a => m = tree.parent[a]
    BY <1>2, <1>4, PlaceIs
  <2>4. tree.parent[a] # w
    BY <2>1
  <2>5. QED
    BY <1>1, <1>2, <1>4, <1>11, <2>1, <2>2, <2>3, <2>4, Zenon
<1>13. Colored(tree', M, fix')
  <2>1. ASSUME NEW m \in M, m # fix.at, tree'.color[m] = "red"
        PROVE  /\ m # tree'.root
               /\ tree'.color[tree'.parent[m]] = "black" \/ tree'.parent[m] = fix.at
    <3>1. CASE m = w
      BY <1>2, <1>4, <1>11, <3>1
    <3>2. CASE m # w
      <4>1. tree.color[m] = "red" /\ m # n
        BY <1>2, <1>4, <2>1, <3>2
      <4>2. /\ m # tree.root
            /\ tree.color[tree.parent[m]] = "black" \/ tree.parent[m] = fix.at
        BY <2>1, <4>1 DEF Colored
      <4>3. m # tree.child[o][n]
        BY <1>2, <1>11, <1>12, <4>2
      <4>4. Color(tree, m) = "red"
        BY <1>4, <4>1 DEF Color
      <4>5. tree.parent[m] # w
        <5>1. \A i \in M : tree.parent[i] = w => \E q \in Sides : i = tree.child[q][w]
          BY <1>2, <1>4, RoundIs DEF Round
        <5>2. QED
          BY <1>1, <1>2, <1>7, <1>8, <4>1, <4>4, <5>1, Zenon
      <4>6. tree'.parent[m] = tree.parent[m]
        BY <1>11, <2>1, <3>2, <4>1, <4>3
      <4>7. tree.parent[m] \in M
        BY <1>4, <4>2, HangsOn
      <4>8. tree.color[tree.parent[m]] = "black" => tree'.color[tree.parent[m]] = "black"
        BY <1>2, <1>4, <4>5, <4>7
      <4>9. QED
        BY <1>11, <4>2, <4>6, <4>8
    <3>3. QED
      BY <3>1, <3>2
  <2>2. fix'.call = "remove" /\ fix'.at = fix.at
    BY <1>2, <1>3
  <2>3. QED
    BY <2>1, <2>2 DEF Colored
<1>14. Even(tree', M, fix')
  <2>1. /\ tree'.color[w] = "red" /\ tree'.color[n] = tree.color[w]
        /\ \A m \in M \ {w, n} : tree'.color[m] = tree.color[m]
    BY <1>2, <1>4
  <2>2. <<w, Other(o)>> \notin P /\ \A q \in Sides : <<n, q>> \notin P
    BY <1>2, <1>6, <1>12
  <2>3. PICK c : Balanced(tree', M, c, P)
    BY <1>2, <1>4, <1>5, <1>8, <1>9, <2>1, <2>2, TurnBalances
  <2>4. tree'.child[s][a] = fix.at
    BY <1>2, <1>6, <1>11, <1>12
  <2>5. Debt(tree', fix', P)
    BY <1>1, <1>2, <1>3, <1>4, <1>6, <2>4, Zenon DEF Debt
  <2>6. QED
    BY <2>3, <2>5 DEF Even
<1>15. QED
  BY <1>13, <1>14

LEMMA RemoveRotateEven ==
    ASSUME NEW M, NEW S, Kept(tree, M, S, fix), Colored(tree, M, fix), Even(tree, M, fix),
           RemoveRotate
    PROVE  Colored(tree', M, fix') /\ Even(tree', M, fix')
<1>1. PICK a, s, w, f : /\ a = fix.above /\ s = ShortSide /\ w = tree.child[Other(s)][a]
                        /\ f = tree.child[Other(s)][w]
  OBVIOUS
<1>2. /\ a \in M /\ s \in Sides /\ w \in M /\ w # a /\ w # tree.root
      /\ f \in M /\ f # w /\ f # a
      /\ tree.color[w] = "black" /\ tree.color[f] = "red"
      /\ fix.at # tree.root /\ Color(tree, fix.at) = "black"
      /\ Turned(tree, tree', s, a, w)
      /\ \A m \in Nodes : tree'.color[m] =
           IF m = f \/ m = a THEN "black"
           ELSE IF m = w THEN tree.color[a] ELSE tree.color[m]
      /\ fix' = [call |-> "remove", elm |-> fix.elm, at |-> tree'.root, above |-> NIL]
  BY <1>1, RemoveRotateIs
<1>3. fix.call = "remove" /\ Short
  BY DEF RemoveRotate
<1>4. Shape(tree, M, S) /\ M \subseteq Nodes /\ NIL \notin M
  BY ShapeIs DEF Kept
<1>5. PICK b, P : Balanced(tree, M, b, P) /\ Debt(tree, fix, P)
  BY DEF Even
<1>6. /\ P = {<<a, s>>} /\ tree.child[s][a] = fix.at /\ w # fix.at
  BY <1>1, <1>3, <1>5, DebtIs
<1>7. PICK o : o = Other(s)
  OBVIOUS
<1>8. o \in Sides /\ o # s /\ \A q \in Sides : q = s \/ q = o
  BY <1>2, <1>7, SidesAre
<1>9. TurnedLinks(tree, tree', M, s, o, a, w)
  BY <1>1, <1>2, <1>4, <1>7, TurnedLinksAre
<1>10. /\ \A n \in M : n # a /\ n # w =>
            tree'.parent[n] = IF n = tree.child[s][w] THEN a ELSE tree.parent[n]
       /\ tree'.parent[w] = tree.parent[a]
       /\ tree'.root = IF a = tree.root THEN w ELSE tree.root
  BY <1>2, <1>9 DEF TurnedLinks, Turned
<1>11. a # fix.at
  BY <1>2, <1>4, <1>6, RoundIs DEF Round
<1>12. ASSUME NEW n \in M, n # fix.at, tree.color[n] = "red"
       PROVE  n # tree.root /\ tree.parent[n] \in M /\ tree.color[tree.parent[n]] = "black"
  <2>1. /\ n # tree.root
        /\ tree.color[tree.parent[n]] = "black" \/ tree.parent[n] = fix.at
    BY <1>12 DEF Colored
  <2>2. tree.parent[n] \in M
    BY <1>4, <2>1, HangsOn
  <2>3. CASE tree.parent[n] = fix.at
    <3>1. fix.at # NIL
      BY <1>4, <2>2, <2>3
    <3>2. QED
      BY <1>2, <2>1, <2>2, <2>3, <3>1 DEF Color
  <2>4. QED
    BY <2>1, <2>2, <2>3
<1>13. Colored(tree', M, fix')
  <2>1. ASSUME NEW n \in M, n # tree'.root, tree'.color[n] = "red"
        PROVE  tree'.color[tree'.parent[n]] = "black"
    <3>1. n # f /\ n # a
      BY <1>2, <1>4, <2>1
    <3>2. CASE n = w
      <4>1. tree.color[a] = "red"
        BY <1>2, <1>4, <2>1, <3>1, <3>2
      <4>2. tree.parent[a] \in M /\ tree.color[tree.parent[a]] = "black"
        BY <1>2, <1>11, <1>12, <4>1
      <4>3. tree.parent[a] # w
        BY <1>1, <1>2, <1>4, Around
      <4>4. tree'.color[tree.parent[a]] = "black"
        BY <1>2, <1>4, <4>2, <4>3
      <4>5. QED
        BY <1>10, <3>2, <4>4
    <3>3. CASE n # w
      <4>1. tree.color[n] = "red"
        BY <1>2, <1>4, <2>1, <3>1, <3>3
      <4>2. Color(tree, n) = "red"
        BY <1>4, <4>1 DEF Color
      <4>3. n # fix.at
        BY <1>2, <4>2
      <4>4. tree.parent[n] \in M /\ tree.color[tree.parent[n]] = "black"
        BY <1>12, <4>1, <4>3
      <4>5. tree'.parent[n] = IF n = tree.child[s][w] THEN a ELSE tree.parent[n]
        BY <1>10, <3>1, <3>3
      <4>6. CASE n = tree.child[s][w]
        BY <1>2, <1>4, <4>5, <4>6
      <4>7. CASE n # tree.child[s][w]
        <5>1. tree.parent[n] # w
          <6>1. \A i \in M : tree.parent[i] = w => \E q \in Sides : i = tree.child[q][w]
            BY <1>2, <1>4, RoundIs DEF Round
          <6>2. QED
            BY <1>1, <1>7, <1>8, <3>1, <4>7, <6>1
        <5>2. tree'.color[tree.parent[n]] = "black"
          BY <1>2, <1>4, <4>4, <5>1
        <5>3. QED
          BY <4>5, <4>7, <5>2
      <4>8. QED
        BY <4>6, <4>7
    <3>4. QED
      BY <3>2, <3>3
  <2>2. fix'.call = "remove" /\ fix'.at = tree'.root
    BY <1>2
  <2>3. QED
    BY <2>1, <2>2 DEF Colored
<1>14. Even(tree', M, fix')
  <2>1. Balanced(tree, M, b, {<<a, s>>})
    BY <1>5, <1>6
  <2>2. /\ tree'.color[a] = "black" /\ tree'.color[f] = "black"
        /\ tree'.color[w] = tree.color[a]
        /\ \A n \in M \ {a, w, f} : tree'.color[n] = tree.color[n]
    BY <1>2, <1>4
  <2>3. w = tree.child[Other(s)][a]
    BY <1>1
  <2>4. f = tree.child[Other(s)][w]
    BY <1>1
  <2>5. PICK c : Balanced(tree', M, c, {})
    BY <1>2, <1>4, <2>1, <2>2, <2>3, <2>4, TurnPays
  <2>6. Debt(tree', fix', {})
    BY <1>2 DEF Debt
  <2>7. QED
    BY <2>5, <2>6 DEF Even
<1>15. QED
  BY <1>13, <1>14

LEMMA RemoveDoneEven ==
    ASSUME NEW M, NEW S, Kept(tree, M, S, fix), Colored(tree, M, fix), Even(tree, M, fix),
           RemoveDone
    PROVE  Colored(tree', M, fix') /\ Even(tree', M, fix')
<1>1. /\ Agree(tree, tree', M)
      /\ \A m \in M : tree'.color[m] = IF m = fix.at THEN "black" ELSE tree.color[m]
      /\ fix' = NoFix /\ fix.at \in M \cup {NIL}
      /\ fix.at = tree.root \/ Color(tree, fix.at) = "red"
  BY RemoveDoneIs
<1>2. Shape(tree, M, S) /\ M \subseteq Nodes /\ NIL \notin M
  BY ShapeIs DEF Kept
<1>3. fix.call = "remove" /\ fix'.call = "none" /\ fix'.at = NIL
  BY <1>1 DEF RemoveDone, NoFix
<1>4. tree'.root = tree.root /\ \A n \in M : tree'.parent[n] = tree.parent[n]
  BY <1>1 DEF Agree
<1>5. \A n \in M : n # tree.root => tree.parent[n] \in M
  BY <1>2, HangsOn
<1>6. Colored(tree', M, fix')
  <2>1. ASSUME NEW n \in M, tree'.color[n] = "red"
        PROVE  n # tree'.root /\ tree'.color[tree'.parent[n]] = "black"
    <3>1. n # fix.at /\ tree.color[n] = "red"
      BY <1>1, <2>1
    <3>2. /\ n # tree.root
          /\ tree.color[tree.parent[n]] = "black" \/ tree.parent[n] = fix.at
      BY <3>1 DEF Colored
    <3>3. QED
      BY <1>1, <1>4, <1>5, <3>2
  <2>2. QED
    BY <1>3, <2>1 DEF Colored
<1>7. PICK b, P : Balanced(tree, M, b, P) /\ Debt(tree, fix, P)
  BY DEF Even
<1>8. \E c : Balanced(tree', M, c, {})
  <2>1. CASE fix.at \in M
    <3>1. PICK e : e = fix.at
      OBVIOUS
    <3>2. e \in M /\ \A n \in M : tree'.color[n] = IF n = e THEN "black" ELSE tree.color[n]
      BY <1>1, <2>1, <3>1
    <3>3. e = tree.root \/ tree.color[e] = "red"
      BY <1>1, <1>2, <2>1, <3>1 DEF Color
    <3>4. fix.above \in M \cup {NIL} /\ (e # tree.root => fix.above \in M)
      BY <1>3, <3>1, WorkingIs DEF Kept
    <3>5. \A m \in M, q \in Sides :
            tree.child[q][m] = e => e # tree.root /\ m = tree.parent[e] /\ q = SideOf(tree, e)
      BY <1>2, <3>2, PlaceIs
    <3>6. P = PlaceOf(tree, e) /\ (tree.color[e] # "red" => P = {})
      <4>1. CASE fix.above = NIL
        BY <1>2, <1>3, <1>7, <3>4, <4>1 DEF Debt, PlaceOf
      <4>2. CASE fix.above # NIL
        <5>1. PICK q \in Sides : P = {<<fix.above, q>>} /\ tree.child[q][fix.above] = e
          BY <1>3, <1>7, <3>1, <4>2 DEF Debt
        <5>2. e # tree.root /\ fix.above = tree.parent[e] /\ q = SideOf(tree, e)
          BY <3>4, <3>5, <4>2, <5>1
        <5>3. QED
          BY <3>3, <5>1, <5>2 DEF PlaceOf
      <4>3. QED
        BY <4>1, <4>2
    <3>7. QED
      BY <1>1, <1>2, <1>7, <3>2, <3>6, PaintStaysEven
  <2>2. CASE fix.at \notin M
    <3>1. fix.at = NIL
      BY <1>1, <2>2
    <3>2. tree.root = NIL
      BY <1>1, <3>1 DEF Color
    <3>3. M = {}
      BY <1>2, <3>2, ShapeIs
    <3>4. Balanced(tree', M, b, {})
      BY <1>7, <3>3 DEF Balanced
    <3>5. QED
      BY <3>4
  <2>3. QED
    BY <2>1, <2>2
<1>9. Even(tree', M, fix')
  <2>1. fix'.call # "remove"
    BY <1>3
  <2>2. QED
    BY <1>8, <2>1, EvenInsert
<1>10. QED
  BY <1>6, <1>9

LEMMA InsertLinkEven ==
    ASSUME NEW M, NEW S, Kept(tree, M, S, fix), Colored(tree, M, fix), Even(tree, M, fix),
           NEW e \in Nodes, InsertLink(e)
    PROVE  Colored(tree', M \cup {e}, fix') /\ Even(tree', M \cup {e}, fix')
<1>1. /\ fix = NoFix /\ e \notin M
      /\ \A m \in Nodes : tree'.color[m] = IF m = e THEN "red" ELSE tree.color[m]
      /\ fix' = [call |-> "insert", elm |-> NIL, at |-> e, above |-> NIL]
      /\ tree.root = NIL =>
           /\ M = {} /\ tree' \in Trees /\ tree'.root = e /\ tree'.parent[e] = NIL
           /\ \A z \in Sides : tree'.child[z][e] = NIL
      /\ tree.root # NIL =>
           \E y, s : LeafAt(tree, M, S, s, y, e) /\ Grown(tree, s, y, e, tree')
  BY InsertLinkIs
<1>2. Shape(tree, M, S) /\ M \subseteq Nodes /\ NIL \notin M /\ e \in Nodes \ M
  BY <1>1, ShapeIs DEF Kept
<1>3. fix.call = "none" /\ fix.at = NIL
  BY <1>1 DEF NoFix
<1>4. fix'.call = "insert" /\ fix'.at = e
  BY <1>1
<1>5. PICK b : Balanced(tree, M, b, {})
  <2>1. fix.call # "remove"
    BY <1>3
  <2>2. QED
    BY <2>1, EvenInsert
<1>6. tree'.color[e] = "red" /\ \A m \in M : tree'.color[m] = tree.color[m]
  BY <1>1, <1>2
<1>7. CASE tree.root = NIL
  <2>1. M \cup {e} = {e} /\ \A z \in Sides : tree'.child[z][e] = NIL
    BY <1>1, <1>7
  <2>2. \E c : Balanced(tree', M \cup {e}, c, {})
    BY <1>6, <2>1, RootBalances
  <2>3. Colored(tree', M \cup {e}, fix')
    BY <1>4, <1>6, <2>1 DEF Colored
  <2>4. fix'.call # "remove"
    BY <1>4
  <2>5. QED
    BY <2>2, <2>3, <2>4, EvenInsert
<1>8. CASE tree.root # NIL
  <2>1. PICK y, s : LeafAt(tree, M, S, s, y, e) /\ Grown(tree, s, y, e, tree')
    BY <1>1, <1>8
  <2>2. y \in M /\ s \in Sides /\ tree.child[s][y] = NIL
    BY <2>1 DEF LeafAt
  <2>3. \E c : Balanced(tree', M \cup {e}, c, {})
    BY <1>2, <1>5, <1>6, <2>1, <2>2, LeafBalances
  <2>4. tree'.root = tree.root /\ \A m \in M : tree'.parent[m] = tree.parent[m]
    BY <1>2, <2>1 DEF Grown
  <2>5. ASSUME NEW n \in M, tree'.color[n] = "red"
        PROVE  n # tree'.root /\ tree'.color[tree'.parent[n]] = "black"
    <3>1. tree.color[n] = "red" /\ n # fix.at
      BY <1>2, <1>3, <1>6, <2>5
    <3>2. n # tree.root /\ tree.color[tree.parent[n]] = "black"
      BY <1>3, <3>1 DEF Colored
    <3>3. tree.parent[n] \in M
      BY <1>2, <3>2, HangsOn
    <3>4. QED
      BY <1>6, <2>4, <3>2, <3>3
  <2>6. Colored(tree', M \cup {e}, fix')
    BY <1>4, <1>6, <2>5 DEF Colored
  <2>7. fix'.call # "remove"
    BY <1>4
  <2>8. QED
    BY <2>3, <2>6, <2>7, EvenInsert
<1>9. QED
  BY <1>7, <1>8

(* What a cut leaves: c.at may be red under a red or as the root, and its  *)
(* place is short of one when a black element is lost.                     *)
Paid(M, e, c) ==
    \E b, P :
      /\ Balanced(c.tree, M \ {e}, b, P)
      /\ IF c.lost = "black" /\ c.above # NIL
         THEN \E s \in Sides : P = {<<c.above, s>>} /\ c.tree.child[s][c.above] = c.at
         ELSE P = {}

Fit(M, e, c) ==
    /\ c.lost = "red" => c.at = NIL
    /\ Paid(M, e, c)
    /\ \A n \in (M \ {e}) \ {c.at} :
         c.tree.color[n] = "red" =>
           /\ n # c.tree.root
           /\ c.tree.color[c.tree.parent[n]] = "black" \/ c.tree.parent[n] = c.at

(* Between calls the tree is red-black.                                    *)
LEMMA RestingIs ==
    ASSUME NEW M, NEW S, Kept(tree, M, S, fix), Colored(tree, M, fix), Even(tree, M, fix),
           fix = NoFix
    PROVE  /\ Shape(tree, M, S) /\ Loose(tree, M, NIL) /\ M \subseteq Nodes /\ NIL \notin M
           /\ \E b : Balanced(tree, M, b, {})
           /\ \A n \in M : tree.color[n] \in {"red", "black"}
           /\ \A n \in M : tree.color[n] = "red" =>
                /\ n # tree.root /\ tree.parent[n] \in M
                /\ tree.color[tree.parent[n]] = "black"
<1>1. Shape(tree, M, S) /\ Loose(tree, M, NIL) /\ M \subseteq Nodes /\ NIL \notin M
  BY ShapeIs DEF Kept, NoFix
<1>2. fix.call = "none" /\ fix.at = NIL
  BY DEF NoFix
<1>3. \E b : Balanced(tree, M, b, {})
  <2>1. fix.call # "remove"
    BY <1>2
  <2>2. QED
    BY <2>1, EvenInsert
<1>4. \A n \in M : tree.color[n] \in {"red", "black"}
  BY <1>1, ShapeIs, LinksAre
<1>5. ASSUME NEW n \in M, tree.color[n] = "red"
      PROVE  /\ n # tree.root /\ tree.parent[n] \in M
             /\ tree.color[tree.parent[n]] = "black"
  <2>1. n # tree.root /\ tree.color[tree.parent[n]] = "black"
    BY <1>1, <1>2, <1>5 DEF Colored
  <2>2. QED
    BY <1>1, <2>1, HangsOn
<1>6. QED
  BY <1>1, <1>3, <1>4, <1>5

(* The place that is short when e has left.                                *)
Vacated(t, e) == IF t.color[e] = "black" THEN PlaceOf(t, e) ELSE {}

LEMMA SpliceOwes ==
    ASSUME NEW t, NEW M, NEW S, Shape(t, M, S), NEW e \in M, NEW q \in Sides,
           t.child[Other(q)][e] = NIL, NEW x, x = t.child[q][e],
           NEW r, Handed(t, M, e, x, r), NEW b, Balanced(t, M, b, {})
    PROVE  Balanced(r, M \ {e}, b, Vacated(t, e)) /\ (x \in M => t.color[x] # "black")
BY SpliceBalances, Zenon DEF Vacated

LEMMA EdgeCutFits ==
    ASSUME NEW M, NEW S, Kept(tree, M, S, fix), Colored(tree, M, fix), Even(tree, M, fix),
           fix = NoFix, NEW e \in M, \E z \in Sides : tree.child[z][e] = NIL
    PROVE  Fit(M, e, RemoveEdge(e))
<1>1. /\ Shape(tree, M, S) /\ Loose(tree, M, NIL) /\ M \subseteq Nodes /\ NIL \notin M
      /\ \E b : Balanced(tree, M, b, {})
      /\ \A n \in M : tree.color[n] \in {"red", "black"}
      /\ \A n \in M : tree.color[n] = "red" =>
           /\ n # tree.root /\ tree.parent[n] \in M
           /\ tree.color[tree.parent[n]] = "black"
  BY RestingIs
<1>2. PICK q \in Sides :
        /\ tree.child[Other(q)][e] = NIL
        /\ Handed(tree, M, e, tree.child[q][e], RemoveEdge(e).tree)
        /\ Shape(RemoveEdge(e).tree, M \ {e}, Without(S, e))
        /\ Loose(RemoveEdge(e).tree, M \ {e}, e)
        /\ RemoveEdge(e).lost = tree.color[e]
        /\ RemoveEdge(e).at = tree.child[q][e]
        /\ RemoveEdge(e).above = tree.parent[e]
  BY <1>1, EdgeCutIs
<1>3. PICK c : c = RemoveEdge(e)
  OBVIOUS
<1>4. PICK x : x = tree.child[q][e]
  OBVIOUS
<1>5. PICK r : r = c.tree
  OBVIOUS
<1>6. Handed(tree, M, e, x, r) /\ c.lost = tree.color[e] /\ c.at = x /\ c.above = tree.parent[e]
  BY <1>2, <1>3, <1>4, <1>5
<1>7. PICK b : Balanced(tree, M, b, {})
  BY <1>1
<1>8. PICK Q : Q = Vacated(tree, e)
  OBVIOUS
<1>9. Balanced(r, M \ {e}, b, Q) /\ (x \in M => tree.color[x] # "black")
  <2>1. tree.child[Other(q)][e] = NIL
    BY <1>2
  <2>2. Handed(tree, M, e, x, r)
    BY <1>6
  <2>3. Shape(tree, M, S)
    BY <1>1
  <2>4. QED
    BY <1>4, <1>7, <1>8, <2>1, <2>2, <2>3, SpliceOwes
<1>10. /\ x \in M \cup {NIL} /\ x # e /\ (x # NIL => tree.parent[x] = e)
       /\ tree.parent[e] \in M \cup {NIL} /\ SideOf(tree, e) \in Sides
       /\ tree.parent[e] = NIL <=> tree.root = e
       /\ tree.parent[e] # NIL => tree.child[SideOf(tree, e)][tree.parent[e]] = e
       /\ \A m \in M : tree.parent[m] = e <=> \E z \in Sides : m = tree.child[z][e]
  BY <1>1, <1>4, RoundIs DEF Round
<1>11. c.lost = "red" => c.at = NIL
  BY <1>1, <1>6, <1>9, <1>10
<1>12. ASSUME NEW n \in M \ {e}, n # x, r.color[n] = "red"
       PROVE  n # r.root /\ r.color[r.parent[n]] = "black"
  <2>1. /\ r.color = tree.color /\ r.root = (IF tree.root = e THEN x ELSE tree.root)
        /\ r.parent[n] = tree.parent[n]
    BY <1>1, <1>6, <1>12 DEF Handed
  <2>2. QED
    BY <1>1, <1>12, <2>1
<1>13. Paid(M, e, c)
  <2>1. CASE tree.color[e] = "black" /\ tree.parent[e] # NIL
    <3>1. PICK s : s = SideOf(tree, e)
      OBVIOUS
    <3>2. tree.parent[e] \in M /\ s \in Sides /\ tree.child[s][tree.parent[e]] = e
      BY <1>10, <2>1, <3>1
    <3>3. r.child[s][tree.parent[e]] = x
      BY <1>6, <3>2 DEF Handed
    <3>4. Balanced(r, M \ {e}, b, {<<tree.parent[e], s>>})
      BY <1>9, <1>10, <1>8, <2>1, <3>1 DEF PlaceOf, Vacated
    <3>5. QED
      BY <1>5, <1>6, <2>1, <3>2, <3>3, <3>4 DEF Paid
  <2>2. CASE ~(tree.color[e] = "black" /\ tree.parent[e] # NIL)
    <3>1. Balanced(r, M \ {e}, b, {})
      BY <1>9, <1>10, <1>8, <2>2 DEF PlaceOf, Vacated
    <3>2. QED
      BY <1>5, <1>6, <2>2, <3>1 DEF Paid
  <2>3. QED
    BY <2>1, <2>2
<1>14. Fit(M, e, c)
  BY <1>5, <1>6, <1>11, <1>12, <1>13 DEF Fit
<1>15. QED
  BY <1>3, <1>14

(* What is owed when y goes away from its place and stands for e.          *)
LEMMA InnerCutPays ==
    ASSUME NEW M, NEW S, Shape(tree, M, S), NEW e \in M, NEW y \in M, y # e, y # tree.root,
           tree.child["left"][y] = NIL, NEW x, x = tree.child["right"][y], x # e,
           NEW gone, Handed(tree, M, y, x, gone), Shape(gone, M \ {y}, Without(S, y)),
           NEW c, InnerCut(M, e, y, x, gone, c), NEW b, Balanced(tree, M, b, {})
    PROVE  /\ x \in M => tree.color[x] # "black"
           /\ Paid(M, e, c)
<1>1. /\ M \subseteq Nodes /\ NIL \notin M /\ "right" \in Sides /\ Other("right") = "left"
  BY ShapeIs, SidesAre
<1>2. Balanced(gone, M \ {y}, b, Vacated(tree, y)) /\ (x \in M => tree.color[x] # "black")
  <2>1. tree.child[Other("right")][y] = NIL
    BY <1>1
  <2>2. QED
    BY <1>1, <2>1, SpliceOwes
<1>3. PICK r : r = c.tree
  OBVIOUS
<1>4. /\ Replaced(gone, M \ {y}, e, y, r)
      /\ \A m \in Nodes : r.color[m] = IF m = y THEN tree.color[e] ELSE tree.color[m]
      /\ c.lost = tree.color[y] /\ c.at = x
      /\ c.above = IF tree.parent[y] = e THEN y ELSE tree.parent[y]
  BY <1>3 DEF InnerCut
<1>5. gone.color = tree.color
  BY DEF Handed
<1>6. /\ r.color[y] = gone.color[e]
      /\ \A n \in (M \ {y}) \ {e} : r.color[n] = gone.color[n]
  BY <1>1, <1>4, <1>5
<1>7. PICK p, s : p = tree.parent[y] /\ s = SideOf(tree, y)
  OBVIOUS
<1>8. /\ p \in M /\ p # y /\ s \in Sides /\ tree.child[s][p] = y
      /\ Vacated(tree, y) = IF tree.color[y] = "black" THEN {<<p, s>>} ELSE {}
  BY <1>7, PlaceIs DEF Vacated, PlaceOf
<1>9. PICK P, Q : /\ P = Vacated(tree, y)
                  /\ Q = IF tree.color[y] = "black" THEN {<<c.above, s>>} ELSE {}
  OBVIOUS
<1>10. c.above = (IF p = e THEN y ELSE p) /\ c.above \in M
  BY <1>4, <1>7, <1>8
<1>11. (\A n \in (M \ {y}) \ {e}, z \in Sides : Owe(Q, n, z) = Owe(P, n, z))
       /\ (\A z \in Sides : Owe(Q, y, z) = Owe(P, e, z))
  <2>1. CASE tree.color[y] = "black"
    <3>1. P = {<<p, s>>} /\ Q = {<<c.above, s>>}
      BY <1>8, <1>9, <2>1
    <3>2. /\ \A n, z : Owe(P, n, z) = IF p = n /\ z = s THEN 1 ELSE 0
          /\ \A n, z : Owe(Q, n, z) = IF c.above = n /\ z = s THEN 1 ELSE 0
      BY <3>1 DEF Owe
    <3>3. QED
      BY <1>8, <1>10, <3>2
  <2>2. CASE tree.color[y] # "black"
    <3>1. P = {} /\ Q = {}
      BY <1>8, <1>9, <2>2
    <3>2. QED
      BY <3>1 DEF Owe
  <2>3. QED
    BY <2>1, <2>2
<1>12. PICK N : N = M \ {y}
  OBVIOUS
<1>13. \E d : Balanced(r, (N \ {e}) \cup {y}, d, Q)
  <2>1. e \in N /\ y \in Nodes \ N
    BY <1>1, <1>12
  <2>2. Balanced(gone, N, b, P) /\ Shape(gone, N, Without(S, y))
    BY <1>2, <1>9, <1>12
  <2>3. Replaced(gone, N, e, y, r)
    BY <1>4, <1>12
  <2>4. r.color[y] = gone.color[e] /\ \A n \in N \ {e} : r.color[n] = gone.color[n]
    BY <1>6, <1>12
  <2>5. /\ \A n \in N \ {e}, z \in Sides : Owe(Q, n, z) = Owe(P, n, z)
        /\ \A z \in Sides : Owe(Q, y, z) = Owe(P, e, z)
    BY <1>11, <1>12
  <2>6. Swapped(gone, N, e, y, r, P, Q)
    BY <2>4, <2>5 DEF Swapped
  <2>7. QED
    BY <2>1, <2>2, <2>3, <2>6, SwapBalances
<1>14. r.child[s][c.above] = x
  <2>1. gone.child[s][p] = x /\ p \in M \ {y}
    BY <1>1, <1>8 DEF Handed
  <2>2. CASE p = e
    <3>1. r.child[s][y] = gone.child[s][e]
      BY <1>4, <1>8 DEF Replaced
    <3>2. QED
      BY <1>10, <2>1, <2>2, <3>1
  <2>3. CASE p # e
    <3>1. r.child[s][p] = IF gone.child[s][p] = e THEN y ELSE gone.child[s][p]
      BY <1>4, <1>8, <2>1, <2>3 DEF Replaced
    <3>2. QED
      BY <1>10, <2>1, <2>3, <3>1
  <2>4. QED
    BY <2>2, <2>3
<1>15. c.above # NIL
  BY <1>1, <1>10
<1>16. PICK d : Balanced(r, M \ {e}, d, Q)
  <2>1. (N \ {e}) \cup {y} = M \ {e}
    BY <1>12
  <2>2. QED
    BY <1>13, <2>1
<1>17. /\ Balanced(c.tree, M \ {e}, d, Q)
       /\ IF c.lost = "black" /\ c.above # NIL
          THEN \E z \in Sides : Q = {<<c.above, z>>} /\ c.tree.child[z][c.above] = c.at
          ELSE Q = {}
  <2>1. Balanced(c.tree, M \ {e}, d, Q)
    BY <1>3, <1>16
  <2>2. CASE tree.color[y] = "black"
    BY <1>3, <1>4, <1>8, <1>9, <1>14, <1>15, <2>1, <2>2
  <2>3. CASE tree.color[y] # "black"
    BY <1>4, <1>9, <2>1, <2>3
  <2>4. QED
    BY <2>2, <2>3
<1>18. QED
  BY <1>2, <1>17 DEF Paid

LEMMA InnerCutFits ==
    ASSUME NEW M, NEW S, Kept(tree, M, S, fix), Colored(tree, M, fix), Even(tree, M, fix),
           fix = NoFix, NEW e \in M, \A z \in Sides : tree.child[z][e] # NIL
    PROVE  Fit(M, e, RemoveInner(e))
<1>1. /\ Shape(tree, M, S) /\ Loose(tree, M, NIL) /\ M \subseteq Nodes /\ NIL \notin M
      /\ \E b : Balanced(tree, M, b, {})
      /\ \A n \in M : tree.color[n] \in {"red", "black"}
      /\ \A n \in M : tree.color[n] = "red" =>
           /\ n # tree.root /\ tree.parent[n] \in M
           /\ tree.color[tree.parent[n]] = "black"
  BY RestingIs
<1>2. PICK y \in M : \E gone :
        /\ y # e /\ y # tree.root /\ y \in S[e] /\ tree.child["left"][y] = NIL
        /\ Handed(tree, M, y, tree.child["right"][y], gone)
        /\ Shape(gone, M \ {y}, Without(S, y))
        /\ InnerCut(M, e, y, tree.child["right"][y], gone, RemoveInner(e))
        /\ Shape(RemoveInner(e).tree, M \ {e}, Instead(M \ {y}, Without(S, y), e, y))
  BY <1>1, InnerCutIs
<1>3. PICK gone :
        /\ y # e /\ y # tree.root /\ y \in S[e] /\ tree.child["left"][y] = NIL
        /\ Handed(tree, M, y, tree.child["right"][y], gone)
        /\ Shape(gone, M \ {y}, Without(S, y))
        /\ InnerCut(M, e, y, tree.child["right"][y], gone, RemoveInner(e))
  BY <1>2
<1>4. PICK c : c = RemoveInner(e)
  OBVIOUS
<1>5. PICK x : x = tree.child["right"][y]
  OBVIOUS
<1>6. Handed(tree, M, y, x, gone) /\ InnerCut(M, e, y, x, gone, c)
  BY <1>3, <1>4, <1>5
<1>7. PICK r : r = c.tree
  OBVIOUS
<1>8. /\ Replaced(gone, M \ {y}, e, y, r)
      /\ \A m \in Nodes : r.color[m] = IF m = y THEN tree.color[e] ELSE tree.color[m]
      /\ c.lost = tree.color[y] /\ c.at = x
  BY <1>6, <1>7 DEF InnerCut
<1>9. /\ x \in M \cup {NIL} /\ x # y /\ x # e
      /\ x # NIL => tree.parent[x] = y
      /\ \A m \in M : tree.parent[m] = y => m = x
  <2>1. "right" \in Sides /\ \A z \in Sides : z = "left" \/ z = "right"
    BY SidesAre
  <2>2. /\ x \in M \cup {NIL} /\ x # y /\ (x # NIL => tree.parent[x] = y)
        /\ \A m \in M : tree.parent[m] = y => \E z \in Sides : m = tree.child[z][y]
    BY <1>1, <1>5, <2>1, RoundIs DEF Round
  <2>3. \A m \in M : tree.parent[m] = y => m = x
    BY <1>1, <1>3, <1>5, <2>1, <2>2
  <2>4. \A m \in S[x] : m # y
    BY <1>1, <1>5, <2>1, ForkIs
  <2>5. QED
    BY <1>3, <2>2, <2>3, <2>4
<1>10. /\ x \in M => tree.color[x] # "black"
       /\ Paid(M, e, c)
  <2>1. PICK b : Balanced(tree, M, b, {})
    BY <1>1
  <2>2. /\ y # e /\ y # tree.root /\ tree.child["left"][y] = NIL
        /\ Shape(tree, M, S) /\ Shape(gone, M \ {y}, Without(S, y))
    BY <1>1, <1>3
  <2>3. QED
    BY <1>5, <1>6, <1>9, <2>1, <2>2, InnerCutPays
<1>11. c.lost = "red" => c.at = NIL
  BY <1>1, <1>8, <1>9, <1>10
<1>12. gone.root = tree.root /\ \A n \in M : n # x => gone.parent[n] = tree.parent[n]
  BY <1>1, <1>3, <1>6 DEF Handed
<1>13. r.root = IF tree.root = e THEN y ELSE tree.root
  BY <1>8, <1>12 DEF Replaced
<1>14. ASSUME NEW n \in M \ {e}, n # x, r.color[n] = "red"
       PROVE  n # r.root /\ r.color[r.parent[n]] = "black"
  <2>1. CASE n = y
    <3>1. tree.color[e] = "red"
      BY <1>1, <1>8, <1>14, <2>1
    <3>2. /\ e # tree.root /\ tree.parent[e] \in M /\ tree.color[tree.parent[e]] = "black"
          /\ tree.parent[e] # y
      BY <1>1, <1>9, <3>1
    <3>3. r.parent[y] = tree.parent[e]
      BY <1>8, <1>9, <1>12 DEF Replaced
    <3>4. QED
      BY <1>1, <1>3, <1>8, <1>13, <2>1, <3>2, <3>3
  <2>2. CASE n # y
    <3>1. tree.color[n] = "red"
      BY <1>1, <1>8, <1>14, <2>2
    <3>2. /\ n # tree.root /\ tree.parent[n] \in M /\ tree.color[tree.parent[n]] = "black"
          /\ tree.parent[n] # y
      BY <1>1, <1>9, <1>14, <3>1
    <3>3. r.parent[n] = IF tree.parent[n] = e THEN y ELSE tree.parent[n]
      BY <1>8, <1>12, <1>14, <2>2 DEF Replaced
    <3>4. r.color[r.parent[n]] = "black"
      BY <1>1, <1>8, <3>2, <3>3
    <3>5. QED
      BY <1>13, <2>2, <3>2, <3>4
  <2>3. QED
    BY <2>1, <2>2
<1>15. Fit(M, e, c)
  BY <1>7, <1>8, <1>10, <1>11, <1>14 DEF Fit
<1>16. QED
  BY <1>4, <1>15

LEMMA RemoveUnlinkEven ==
    ASSUME NEW M, NEW S, Kept(tree, M, S, fix), Colored(tree, M, fix), Even(tree, M, fix),
           NEW e, RemoveUnlink(e)
    PROVE  /\ e \in M
           /\ Colored(tree', M \ {e}, fix') /\ Even(tree', M \ {e}, fix')
<1> DEFINE c == IF NIL \in {tree.child[s][e] : s \in Sides} THEN RemoveEdge(e)
                ELSE RemoveInner(e)
<1>1. /\ fix = NoFix /\ e \in Members(tree)
      /\ IF c.lost = "black"
         THEN /\ tree' = c.tree
              /\ fix' = [call |-> "remove", elm |-> e, at |-> c.at, above |-> c.above]
         ELSE tree' = Reset(c.tree, e) /\ UNCHANGED fix
  BY Zenon DEF RemoveUnlink
<1>2. Shape(tree, M, S) /\ Loose(tree, M, NIL)
  BY <1>1 DEF Kept, NoFix
<1>3. e \in M /\ M \subseteq Nodes
  BY <1>1, <1>2, LooseIs, MembersAre, ShapeIs
<1>4. Fit(M, e, c) /\ \E Q : CutOut(M, e, Q, c)
  <2>1. CASE \E z \in Sides : tree.child[z][e] = NIL
    <3>1. c = RemoveEdge(e)
      BY <2>1
    <3> HIDE DEF c
    <3>2. Fit(M, e, c)
      BY <1>1, <1>3, <2>1, <3>1, EdgeCutFits
    <3>3. \E Q : CutOut(M, e, Q, c)
      BY <1>1, <1>3, <2>1, <3>1, EdgeCutKeeps
    <3>4. QED
      BY <3>2, <3>3
  <2>2. CASE \A z \in Sides : tree.child[z][e] # NIL
    <3>1. c = RemoveInner(e)
      BY <2>2
    <3> HIDE DEF c
    <3>2. Fit(M, e, c)
      BY <1>1, <1>3, <2>2, <3>1, InnerCutFits
    <3>3. \E Q : CutOut(M, e, Q, c)
      BY <1>1, <1>3, <2>2, <3>1, InnerCutKeeps
    <3>4. QED
      BY <3>2, <3>3
  <2>3. QED
    BY <2>1, <2>2
<1> HIDE DEF c
<1>5. PICK Q : CutOut(M, e, Q, c)
  BY <1>4
<1>6. /\ Shape(c.tree, M \ {e}, Q) /\ Loose(c.tree, M \ {e}, e) /\ NIL \notin M \ {e}
      /\ c.lost \in {"red", "black"}
  BY <1>5, ShapeIs DEF CutOut
<1>7. PICK b, P :
        /\ Balanced(c.tree, M \ {e}, b, P)
        /\ IF c.lost = "black" /\ c.above # NIL
           THEN \E s \in Sides : P = {<<c.above, s>>} /\ c.tree.child[s][c.above] = c.at
           ELSE P = {}
  BY <1>4 DEF Fit, Paid
<1>8. /\ c.lost = "red" => c.at = NIL
      /\ \A n \in (M \ {e}) \ {c.at} :
           c.tree.color[n] = "red" =>
             /\ n # c.tree.root
             /\ c.tree.color[c.tree.parent[n]] = "black" \/ c.tree.parent[n] = c.at
  BY <1>4 DEF Fit
<1>9. CASE c.lost = "black"
  <2>1. /\ tree' = c.tree
        /\ fix'.call = "remove" /\ fix'.at = c.at /\ fix'.above = c.above
    BY <1>1, <1>9
  <2>2. Colored(tree', M \ {e}, fix')
    BY <1>8, <2>1 DEF Colored
  <2>3. Debt(tree', fix', P)
    BY <1>7, <1>9, <2>1 DEF Debt
  <2>4. Balanced(tree', M \ {e}, b, P)
    BY <1>7, <2>1
  <2>5. QED
    BY <1>3, <2>2, <2>3, <2>4 DEF Even
<1>10. CASE c.lost = "red"
  <2>1. tree' = Reset(c.tree, e) /\ fix'.call = "none" /\ fix'.at = NIL
    BY <1>1, <1>10 DEF NoFix
  <2>2. e \in Nodes \ (M \ {e})
    BY <1>3
  <2>3. /\ Agree(c.tree, tree', M \ {e})
        /\ \A m \in M \ {e} : tree'.color[m] = c.tree.color[m]
    BY <1>6, <2>1, <2>2, ResetIs
  <2>4. Balanced(c.tree, M \ {e}, b, {})
    BY <1>7, <1>10
  <2>5. Balanced(tree', M \ {e}, b, {})
    BY <2>3, <2>4, SameBalances
  <2>6. Even(tree', M \ {e}, fix')
    <3>1. fix'.call # "remove"
      BY <2>1
    <3>2. QED
      BY <2>5, <3>1, EvenInsert
  <2>7. tree'.root = c.tree.root /\ \A n \in M \ {e} : tree'.parent[n] = c.tree.parent[n]
    BY <2>3 DEF Agree
  <2>8. ASSUME NEW n \in M \ {e}, tree'.color[n] = "red"
        PROVE  n # tree'.root /\ tree'.color[tree'.parent[n]] = "black"
    <3>1. /\ n # c.tree.root
          /\ c.tree.color[c.tree.parent[n]] = "black" \/ c.tree.parent[n] = c.at
      BY <1>6, <1>8, <1>10, <2>3, <2>8
    <3>2. c.tree.parent[n] \in M \ {e}
      BY <1>6, <2>8, <3>1, HangsOn
    <3>3. c.tree.parent[n] # c.at
      BY <1>6, <1>8, <1>10, <3>2
    <3>4. QED
      BY <2>3, <2>7, <3>1, <3>2, <3>3
  <2>9. Colored(tree', M \ {e}, fix')
    BY <2>1, <2>8 DEF Colored
  <2>10. QED
    BY <1>3, <2>6, <2>9
<1>11. QED
  BY <1>6, <1>9, <1>10

(* The invariant of colours and heights, with that of the links.           *)
RedBlack == \E M, S : Kept(tree, M, S, fix) /\ Colored(tree, M, fix) /\ Even(tree, M, fix)

LEMMA RedBlackStarts == Init => RedBlack
<1> SUFFICES ASSUME Init PROVE RedBlack
  OBVIOUS
<1>1. PICK S : S = [n \in NodeOrNil |-> {}]
  OBVIOUS
<1>2. Kept(tree, {}, S, fix)
  BY <1>1, InShapeStarts
<1>3. fix.call = "none"
  BY DEF Init, NoFix
<1>4. Colored(tree, {}, fix)
  BY <1>3 DEF Colored
<1>5. PICK b : b = [n \in NodeOrNil |-> 0]
  OBVIOUS
<1>6. Balanced(tree, {}, b, {})
  BY <1>5 DEF Balanced, NodeOrNil
<1>7. Even(tree, {}, fix)
  BY <1>3, <1>6, EvenInsert
<1>8. QED
  BY <1>2, <1>4, <1>7 DEF RedBlack

(* A round of a fix-up changes no member, and keeps the heights.           *)
LEMMA RoundEven ==
    ASSUME NEW M, NEW S, Kept(tree, M, S, fix), Colored(tree, M, fix), Even(tree, M, fix), Fix
    PROVE  Colored(tree', M, fix') /\ Even(tree', M, fix')
<1>1. CASE InsertRecolor
  BY <1>1, InsertRecolorEven
<1>2. CASE InsertStraighten
  BY <1>2, InsertStraightenEven
<1>3. CASE InsertRotate
  BY <1>3, InsertRotateEven
<1>4. CASE InsertDone
  BY <1>4, InsertDoneEven
<1>5. CASE RemoveLift
  BY <1>5, RemoveLiftEven
<1>6. CASE RemoveRecolor
  BY <1>6, RemoveRecolorEven
<1>7. CASE RemoveStraighten
  BY <1>7, RemoveStraightenEven
<1>8. CASE RemoveRotate
  BY <1>8, RemoveRotateEven
<1>9. CASE RemoveDone
  BY <1>9, RemoveDoneEven
<1>10. QED
  BY <1>1, <1>2, <1>3, <1>4, <1>5, <1>6, <1>7, <1>8, <1>9 DEF Fix

LEMMA RedBlackStays == RedBlack /\ [Next]_treeVars => RedBlack'
<1> SUFFICES ASSUME RedBlack, [Next]_treeVars PROVE RedBlack'
  OBVIOUS
<1>1. PICK M, S : Kept(tree, M, S, fix) /\ Colored(tree, M, fix) /\ Even(tree, M, fix)
  BY DEF RedBlack
<1>2. CASE \E e \in Nodes : InsertLink(e)
  <2>1. PICK e \in Nodes : InsertLink(e)
    BY <1>2
  <2>2. Colored(tree', M \cup {e}, fix') /\ Even(tree', M \cup {e}, fix')
    BY <1>1, <2>1, InsertLinkEven
  <2>3. \E Q : Kept(tree', M \cup {e}, Q, fix')
    BY <1>1, <2>1, InsertLinkKept
  <2>4. QED
    BY <2>2, <2>3 DEF RedBlack
<1>3. CASE \E e \in Nodes : RemoveUnlink(e)
  <2>1. PICK e \in Nodes : RemoveUnlink(e)
    BY <1>3
  <2>2. Colored(tree', M \ {e}, fix') /\ Even(tree', M \ {e}, fix')
    BY <1>1, <2>1, RemoveUnlinkEven
  <2>3. \E Q : Kept(tree', M \ {e}, Q, fix')
    BY <1>1, <2>1, RemoveUnlinkKept
  <2>4. QED
    BY <2>2, <2>3 DEF RedBlack
<1>4. CASE Fix
  <2>1. Colored(tree', M, fix') /\ Even(tree', M, fix')
    BY <1>1, <1>4, RoundEven
  <2>2. \E Q : Kept(tree', M, Q, fix')
    BY <1>1, <1>4, RoundKept
  <2>3. QED
    BY <2>1, <2>2 DEF RedBlack
<1>5. CASE UNCHANGED <<tree, fix>>
  BY <1>1, <1>5 DEF RedBlack
<1>6. CASE \E e \in Nodes : InsertTaken(e)
  BY <1>5, <1>6 DEF InsertTaken
<1>7. CASE UNCHANGED treeVars
  BY <1>5, <1>7 DEF treeVars
<1>8. QED
  BY <1>2, <1>3, <1>4, <1>6, <1>7 DEF Next

LEMMA AlwaysRedBlack == Spec => []RedBlack
BY RedBlackStarts, RedBlackStays, PTL DEF Spec

-----------------------------------------------------------------------------
(* The black elements above a free place                                   *)

LEMMA UpIs ==
    ASSUME NEW t, NEW M, NEW S, Shape(t, M, S), Outside(t, M)
    PROVE  /\ t.root \in M => Up(t, t.root) = {t.root}
           /\ \A n \in M, s \in Sides : t.child[s][n] \in M =>
                /\ Up(t, t.child[s][n]) = {t.child[s][n]} \cup Up(t, n)
                /\ t.child[s][n] \notin Up(t, n)
           /\ \A n \in M : Up(t, n) \subseteq M
<1>1. /\ t.parent \in [Nodes -> NodeOrNil] /\ M \subseteq Nodes /\ NIL \notin M
      /\ t.root \in M \cup {NIL} /\ S[t.root] = M /\ (t.root # NIL => t.parent[t.root] = NIL)
  BY ShapeIs, LinksAre
<1>2. Ends(t.parent)
  BY <1>1, WalksUp
<1>3. /\ Passed(NIL, t.parent) = {}
      /\ \A n \in Nodes : Passed(n, t.parent) = {n} \cup Passed(t.parent[n], t.parent)
  BY <1>2, PassedIs
<1>4. \A n \in M : Up(t, n) = {n} \cup Up(t, t.parent[n])
  BY <1>1, <1>3 DEF Up
<1>5. t.root \in M => Up(t, t.root) = {t.root}
  BY <1>1, <1>3, <1>4 DEF Up
<1>6. \A n \in M, s \in Sides : t.child[s][n] \in M =>
        Up(t, t.child[s][n]) = {t.child[s][n]} \cup Up(t, n)
  <2> SUFFICES ASSUME NEW n \in M, NEW s \in Sides, t.child[s][n] \in M
               PROVE  Up(t, t.child[s][n]) = {t.child[s][n]} \cup Up(t, n)
    OBVIOUS
  <2>1. t.parent[t.child[s][n]] = n
    BY <1>1, ForkIs
  <2>2. QED
    BY <1>4, <2>1
<1> DEFINE X == {n \in M : \A m \in Up(t, n) : m \in M /\ n \in S[m]}
<1>7. t.root \in M => t.root \in X
  BY <1>1, <1>5
<1>8. ASSUME NEW n \in M, n \in X, NEW s \in Sides
      PROVE  t.child[s][n] \in X \cup {NIL}
  <2>1. PICK c : c = t.child[s][n]
    OBVIOUS
  <2>2. c \in M \cup {NIL} /\ S[n] = {n} \cup S[c] \cup S[t.child[Other(s)][n]]
    BY <2>1, ForkIs
  <2>3. CASE c \in M
    <3>1. c \in S[c] /\ c \in S[n]
      BY <2>2, <2>3, ForkIs, SidesAre
    <3>2. Up(t, c) = {c} \cup Up(t, n)
      BY <1>6, <2>1, <2>3
    <3>3. ASSUME NEW m \in Up(t, n) PROVE m \in M /\ c \in S[m]
      <4>1. m \in M /\ n \in S[m]
        BY <1>8
      <4>2. S[n] \subseteq S[m]
        BY <4>1, Nested
      <4>3. QED
        BY <3>1, <4>1, <4>2
    <3>4. QED
      BY <2>1, <2>3, <3>1, <3>2, <3>3
  <2>4. QED
    BY <2>1, <2>2, <2>3
<1>9. M \subseteq X
  <2> HIDE DEF X
  <2>1. QED
    BY <1>7, <1>8, TopDown
<1>10. ASSUME NEW n \in M, NEW s \in Sides, t.child[s][n] \in M
       PROVE  t.child[s][n] \notin Up(t, n)
  <2>1. \A m \in S[t.child[s][n]] : m # n
    BY ForkIs
  <2>2. QED
    BY <1>9, <1>10, <2>1
<1>11. QED
  BY <1>5, <1>6, <1>9, <1>10

Blacks(t, n) == {m \in Up(t, n) : t.color[m] = "black"}
Due(t, d, n) == IF d \in Up(t, n) THEN 1 ELSE 0

LEMMA BlacksAre ==
    ASSUME NEW t, NEW M, NEW S, Shape(t, M, S), Outside(t, M)
    PROVE  /\ t.root \in M => Cardinality(Blacks(t, t.root)) = Blk(t, t.root)
           /\ \A n \in M : Cardinality(Blacks(t, n)) \in Nat
           /\ \A n \in M, s \in Sides : t.child[s][n] \in M =>
                Cardinality(Blacks(t, t.child[s][n])) =
                  Cardinality(Blacks(t, n)) + Blk(t, t.child[s][n])
<1>1. /\ t.root \in M => Up(t, t.root) = {t.root}
      /\ \A n \in M, s \in Sides : t.child[s][n] \in M =>
           /\ Up(t, t.child[s][n]) = {t.child[s][n]} \cup Up(t, n)
           /\ t.child[s][n] \notin Up(t, n)
      /\ \A n \in M : Up(t, n) \subseteq M
  BY UpIs
<1>2. IsFiniteSet(M)
  BY ShapeFinite
<1>3. \A n \in M : Blacks(t, n) \in SUBSET M
  BY <1>1 DEF Blacks
<1>4. ASSUME NEW n \in M
      PROVE  IsFiniteSet(Blacks(t, n)) /\ Cardinality(Blacks(t, n)) \in Nat
  <2>1. IsFiniteSet(Blacks(t, n))
    BY <1>2, <1>3, FS_Subset
  <2>2. QED
    BY <2>1, FS_CardinalityType
<1>5. ASSUME t.root \in M
      PROVE  Cardinality(Blacks(t, t.root)) = Blk(t, t.root)
  <2>1. CASE t.color[t.root] = "black"
    <3>1. Blacks(t, t.root) = {t.root} /\ Blk(t, t.root) = 1
      BY <1>1, <1>5, <2>1 DEF Blacks, Blk
    <3>2. QED
      BY <3>1, FS_Singleton
  <2>2. CASE t.color[t.root] # "black"
    <3>1. Blacks(t, t.root) = {} /\ Blk(t, t.root) = 0
      BY <1>1, <1>5, <2>2 DEF Blacks, Blk
    <3>2. QED
      BY <3>1, FS_EmptySet
  <2>3. QED
    BY <2>1, <2>2
<1>6. ASSUME NEW n \in M, NEW s \in Sides, t.child[s][n] \in M
      PROVE  Cardinality(Blacks(t, t.child[s][n])) =
               Cardinality(Blacks(t, n)) + Blk(t, t.child[s][n])
  <2>1. PICK c : c = t.child[s][n]
    OBVIOUS
  <2>2. Up(t, c) = {c} \cup Up(t, n) /\ c \notin Up(t, n)
    BY <1>1, <1>6, <2>1
  <2>3. CASE t.color[c] = "black"
    <3>1. Blacks(t, c) = Blacks(t, n) \cup {c} /\ c \notin Blacks(t, n) /\ Blk(t, c) = 1
      BY <2>2, <2>3 DEF Blacks, Blk
    <3>2. Cardinality(Blacks(t, n) \cup {c}) = Cardinality(Blacks(t, n)) + 1
      BY <1>4, <3>1, FS_AddElement
    <3>3. QED
      BY <2>1, <3>1, <3>2
  <2>4. CASE t.color[c] # "black"
    <3>1. Blacks(t, c) = Blacks(t, n) /\ Blk(t, c) = 0
      BY <2>2, <2>4 DEF Blacks, Blk
    <3>2. Cardinality(Blacks(t, n)) \in Nat
      BY <1>4
    <3>3. QED
      BY <2>1, <3>1, <3>2
  <2>5. QED
    BY <2>3, <2>4
<1>7. QED
  BY <1>4, <1>5, <1>6

(* On the way down b counts what is left, and d adds one from its place on.*)
LEMMA HeightsAre ==
    ASSUME NEW t, NEW M, NEW S, Shape(t, M, S), Outside(t, M),
           NEW b, NEW P, Balanced(t, M, b, P), NEW d, t.root \in M => d # t.root,
           \A n \in M, s \in Sides : t.child[s][n] \in M =>
             Owe(P, n, s) = IF t.child[s][n] = d THEN 1 ELSE 0,
           NEW m \in M, NEW z \in Sides, t.child[z][m] = NIL
    PROVE  b[t.root] = Owe(P, m, z) + Cardinality(Blacks(t, m)) + Due(t, d, m)
<1> DEFINE k(n) == Cardinality(Blacks(t, n))
           X == {n \in M : b[t.root] + Blk(t, n) = b[n] + k(n) + Due(t, d, n)}
<1>1. /\ b \in [NodeOrNil -> Nat] /\ b[NIL] = 0 /\ M \subseteq NodeOrNil /\ NIL \in NodeOrNil
      /\ NIL \notin M /\ t.root \in M \cup {NIL}
  BY ShapeIs DEF Balanced
<1>2. \A n \in M \cup {NIL} : b[n] \in Nat
  BY <1>1
<1>3. /\ \A n : Blk(t, n) \in Nat
      /\ \A n, s : Owe(P, n, s) \in Nat
      /\ \A n : Due(t, d, n) \in Nat
      /\ \A n \in M : k(n) \in Nat
  BY CountsAre, BlacksAre DEF Due
<1>4. ASSUME t.root \in M PROVE t.root \in X
  <2>1. k(t.root) = Blk(t, t.root)
    BY <1>4, BlacksAre
  <2>2. Due(t, d, t.root) = 0
    BY <1>4, UpIs DEF Due
  <2>3. b[t.root] \in Nat /\ Blk(t, t.root) \in Nat
    BY <1>2, <1>3, <1>4
  <2>4. QED
    BY <1>4, <2>1, <2>2, <2>3
<1>5. ASSUME NEW n \in M, n \in X, NEW s \in Sides
      PROVE  t.child[s][n] \in X \cup {NIL}
  <2>1. PICK c : c = t.child[s][n]
    OBVIOUS
  <2>2. c \in M \cup {NIL}
    BY <2>1, ForkIs
  <2>3. CASE c \in M
    <3>1. b[n] = b[c] + Owe(P, n, s) + Blk(t, n)
      BY <2>1, LevelIs
    <3>2. k(c) = k(n) + Blk(t, c)
      BY <2>1, <2>3, BlacksAre
    <3>3. Due(t, d, c) = Due(t, d, n) + Owe(P, n, s)
      <4>1. Owe(P, n, s) = IF c = d THEN 1 ELSE 0
        BY <2>1, <2>3
      <4>2. Up(t, c) = {c} \cup Up(t, n) /\ c \notin Up(t, n)
        BY <2>1, <2>3, UpIs
      <4>3. QED
        BY <4>1, <4>2 DEF Due
    <3>4. b[t.root] + Blk(t, n) = b[n] + k(n) + Due(t, d, n)
      BY <1>5
    <3>5. /\ b[t.root] \in Nat /\ b[n] \in Nat /\ b[c] \in Nat /\ k(n) \in Nat /\ k(c) \in Nat
          /\ Blk(t, n) \in Nat /\ Blk(t, c) \in Nat /\ Owe(P, n, s) \in Nat
          /\ Due(t, d, n) \in Nat /\ Due(t, d, c) \in Nat
      BY <1>1, <1>2, <1>3, <2>3
    <3> HIDE DEF k
    <3>6. b[t.root] + Blk(t, c) = b[c] + k(c) + Due(t, d, c)
      BY <3>1, <3>2, <3>3, <3>4, <3>5
    <3> USE DEF k
    <3>7. QED
      BY <2>1, <2>3, <3>6
  <2>4. QED
    BY <2>1, <2>2, <2>3
<1>6. M \subseteq X
  <2> HIDE DEF X
  <2>1. QED
    BY <1>4, <1>5, TopDown
<1>7. b[t.root] + Blk(t, m) = b[m] + k(m) + Due(t, d, m)
  BY <1>6
<1>8. b[m] = 0 + Owe(P, m, z) + Blk(t, m)
  <2>1. b[m] = b[t.child[z][m]] + Owe(P, m, z) + Blk(t, m)
    BY LevelIs
  <2>2. QED
    BY <1>1, <2>1
<1>9. /\ b[t.root] \in Nat /\ b[m] \in Nat /\ k(m) \in Nat
      /\ Blk(t, m) \in Nat /\ Owe(P, m, z) \in Nat /\ Due(t, d, m) \in Nat
  BY <1>1, <1>2, <1>3
<1> HIDE DEF k
<1>10. b[t.root] = Owe(P, m, z) + k(m) + Due(t, d, m)
  BY <1>7, <1>8, <1>9
<1>11. QED
  BY <1>10 DEF k

(* xi's place owes the one that its subtree is short of.                   *)
LEMMA DebtFalls ==
    ASSUME NEW M, NEW S, Kept(tree, M, S, fix), NEW b, NEW P,
           Balanced(tree, M, b, P), Debt(tree, fix, P),
           NEW short, short = (fix.call = "remove" /\ fix.above # NIL),
           NEW d, d = IF short THEN fix.at ELSE NIL
    PROVE  /\ tree.root \in M => d # tree.root
           /\ \A n \in M, s \in Sides : tree.child[s][n] \in M =>
                Owe(P, n, s) = IF tree.child[s][n] = d THEN 1 ELSE 0
           /\ \A n \in M, s \in Sides : tree.child[s][n] = NIL =>
                Owe(P, n, s) = IF short /\ fix.at = NIL /\ n = fix.above /\ s = ShortSide
                               THEN 1 ELSE 0
<1>1. Shape(tree, M, S) /\ NIL \notin M /\ tree.root \in M \cup {NIL}
  BY ShapeIs DEF Kept
<1>2. CASE ~short
  <2>1. P = {} /\ d = NIL
    BY <1>2 DEF Debt
  <2>2. \A n, s : Owe(P, n, s) = 0
    BY <2>1 DEF Owe
  <2>3. QED
    BY <1>1, <1>2, <2>1, <2>2
<1>3. CASE short
  <2>1. d = fix.at /\ fix.call = "remove" /\ fix.above # NIL
    BY <1>3
  <2>2. PICK a : a = fix.above
    OBVIOUS
  <2>3. fix.at \in M \cup {NIL} /\ a \in M
    BY <2>1, <2>2, WorkingIs DEF Kept
  <2>4. PICK q \in Sides : P = {<<a, q>>} /\ tree.child[q][a] = fix.at
    BY <2>1, <2>2 DEF Debt
  <2>5. \A n, s : Owe(P, n, s) = IF n = a /\ s = q THEN 1 ELSE 0
    BY <2>4 DEF Owe
  <2>6. CASE fix.at \in M
    <3>1. \A m \in M, s \in Sides :
            tree.child[s][m] = fix.at =>
              fix.at # tree.root /\ m = tree.parent[fix.at] /\ s = SideOf(tree, fix.at)
      BY <1>1, <2>6, PlaceIs
    <3>2. fix.at # NIL /\ fix.at # tree.root
      BY <1>1, <2>3, <2>4, <2>6, <3>1
    <3>3. \A n \in M, s \in Sides : tree.child[s][n] = fix.at <=> n = a /\ s = q
      BY <2>3, <2>4, <3>1
    <3>4. QED
      BY <1>1, <2>1, <2>5, <3>2, <3>3
  <2>7. CASE fix.at = NIL
    <3>1. tree.root # NIL
      BY <1>1, <2>3, ShapeIs
    <3>2. Short
      BY <2>7, <3>1 DEF Short, Color
    <3>3. P = {<<a, ShortSide>>}
      BY <2>1, <2>2, <3>2, DebtIs
    <3>4. q = ShortSide
      <4>1. <<a, q>> \in {<<a, ShortSide>>}
        BY <2>4, <3>3
      <4>2. <<a, q>> = <<a, ShortSide>>
        BY <4>1
      <4>3. QED
        BY <4>2
    <3>5. QED
      BY <1>1, <1>3, <2>1, <2>2, <2>4, <2>5, <2>7, <3>1, <3>4
  <2>8. QED
    BY <2>3, <2>6, <2>7
<1>4. QED
  BY <1>2, <1>3

(* The black elements above one free place, as BlackHeights counts them.   *)
DepthAt(n, s) ==
    Cardinality(Blacks(tree, n))
      + (IF /\ fix.call = "remove" /\ fix.above # NIL
            /\ \/ fix.at # NIL /\ fix.at \in Up(tree, n)
               \/ fix.at = NIL /\ n = fix.above /\ s = ShortSide
         THEN 1 ELSE 0)

LEMMA OneHeight ==
    ASSUME NEW M, NEW S, Kept(tree, M, S, fix), Even(tree, M, fix)
    PROVE  \E h : \A n \in M, s \in Sides : tree.child[s][n] = NIL => DepthAt(n, s) = h
<1>1. Shape(tree, M, S) /\ NIL \notin M /\ Outside(tree, M)
  BY InShapeMembers, ShapeIs
<1>2. PICK b, P : Balanced(tree, M, b, P) /\ Debt(tree, fix, P)
  BY DEF Even
<1>3. PICK short : short = (fix.call = "remove" /\ fix.above # NIL)
  OBVIOUS
<1>4. PICK d : d = IF short THEN fix.at ELSE NIL
  OBVIOUS
<1>5. /\ tree.root \in M => d # tree.root
      /\ \A n \in M, s \in Sides : tree.child[s][n] \in M =>
           Owe(P, n, s) = IF tree.child[s][n] = d THEN 1 ELSE 0
      /\ \A n \in M, s \in Sides : tree.child[s][n] = NIL =>
           Owe(P, n, s) = IF short /\ fix.at = NIL /\ n = fix.above /\ s = ShortSide
                          THEN 1 ELSE 0
  BY <1>2, <1>3, <1>4, DebtFalls
<1>6. ASSUME NEW n \in M, NEW s \in Sides, tree.child[s][n] = NIL
      PROVE  DepthAt(n, s) = b[tree.root]
  <2>1. b[tree.root] = Owe(P, n, s) + Cardinality(Blacks(tree, n)) + Due(tree, d, n)
    BY <1>1, <1>2, <1>5, <1>6, HeightsAre
  <2>2. Cardinality(Blacks(tree, n)) \in Nat
    BY <1>1, BlacksAre
  <2>3. Up(tree, n) \subseteq M
    BY <1>1, UpIs
  <2>4. Owe(P, n, s) = IF short /\ fix.at = NIL /\ n = fix.above /\ s = ShortSide
                       THEN 1 ELSE 0
    BY <1>5, <1>6
  <2>5. Due(tree, d, n) = IF short /\ fix.at # NIL /\ fix.at \in Up(tree, n) THEN 1 ELSE 0
    BY <1>1, <1>4, <2>3 DEF Due
  <2>6. PICK more : more = IF /\ fix.call = "remove" /\ fix.above # NIL
                              /\ \/ fix.at # NIL /\ fix.at \in Up(tree, n)
                                 \/ fix.at = NIL /\ n = fix.above /\ s = ShortSide
                           THEN 1 ELSE 0
    OBVIOUS
  <2>7. more = Owe(P, n, s) + Due(tree, d, n)
    <3>1. CASE fix.call = "remove" /\ fix.above # NIL
      <4>1. short
        BY <1>3, <3>1
      <4>2. CASE fix.at = NIL
        <5>1. Due(tree, d, n) = 0
          BY <2>5, <4>2
        <5>2. more = Owe(P, n, s) /\ Owe(P, n, s) \in {0, 1}
          BY <2>4, <2>6, <3>1, <4>1, <4>2
        <5>3. QED
          BY <5>1, <5>2
      <4>3. CASE fix.at # NIL
        <5>1. Owe(P, n, s) = 0
          BY <2>4, <4>3
        <5>2. more = Due(tree, d, n) /\ Due(tree, d, n) \in {0, 1}
          BY <2>5, <2>6, <3>1, <4>1, <4>3
        <5>3. QED
          BY <5>1, <5>2
      <4>4. QED
        BY <4>2, <4>3
    <3>2. CASE ~(fix.call = "remove" /\ fix.above # NIL)
      <4>1. ~short
        BY <1>3, <3>2
      <4>2. more = 0 /\ Owe(P, n, s) = 0 /\ Due(tree, d, n) = 0
        BY <2>4, <2>5, <2>6, <3>2, <4>1
      <4>3. QED
        BY <4>2
    <3>3. QED
      BY <3>1, <3>2
  <2>8. DepthAt(n, s) = Cardinality(Blacks(tree, n)) + more
    BY <2>6 DEF DepthAt
  <2>9. Owe(P, n, s) \in Nat /\ Due(tree, d, n) \in Nat
    BY CountsAre DEF Due
  <2>10. QED
    BY <2>1, <2>2, <2>7, <2>8, <2>9
<1>7. QED
  BY <1>6

LEMMA BlackHeightsAre ==
    ASSUME NEW M, NEW S, Kept(tree, M, S, fix)
    PROVE  BlackHeights = {DepthAt(place[1], place[2]) :
             place \in {p \in M \X Sides : tree.child[p[2]][p[1]] = NIL}}
<1>1. Members(tree) = M /\ NIL \notin M
  BY InShapeMembers, ShapeIs
<1>2. \A p \in M \X Sides : Child(tree, p[2], p[1]) = tree.child[p[2]][p[1]]
  BY <1>1 DEF Child
<1>3. {p \in M \X Sides : Child(tree, p[2], p[1]) = NIL}
        = {p \in M \X Sides : tree.child[p[2]][p[1]] = NIL}
  BY <1>2
<1>4. BlackHeights = {DepthAt(place[1], place[2]) :
        place \in {p \in Members(tree) \X Sides : Child(tree, p[2], p[1]) = NIL}}
  BY Zenon DEF BlackHeights, DepthAt, Blacks
<1>5. QED
  BY <1>1, <1>3, <1>4, Zenon

(* RedBlackButForFix: every path from the root to a free place of the tree *)
(* has as many black elements as any other, counting the one that REMOVE's *)
(* xi is short of where it is, and no red element hangs on a red one or is *)
(* the root, but for the one that the fix-up of INSERT or REMOVE works on  *)
(* and the children of xi; after each recolouring and rotation of it.      *)
THEOREM TreeRedBlack == Spec => []RedBlackButForFix
<1>1. RedBlack => RedBlackButForFix
  <2> SUFFICES ASSUME RedBlack
               PROVE  RedBlackButForFix
    OBVIOUS
  <2>1. PICK M, S : Kept(tree, M, S, fix) /\ Colored(tree, M, fix) /\ Even(tree, M, fix)
    BY DEF RedBlack
  <2>2. Members(tree) = M /\ Shape(tree, M, S) /\ NIL \notin M
    BY <2>1, InShapeMembers, ShapeIs
  <2>3. Cardinality(BlackHeights) <= 1
    <3>1. PICK h : \A n \in M, s \in Sides : tree.child[s][n] = NIL => DepthAt(n, s) = h
      BY <2>1, OneHeight
    <3>2. BlackHeights = {DepthAt(place[1], place[2]) :
            place \in {p \in M \X Sides : tree.child[p[2]][p[1]] = NIL}}
      BY <2>1, BlackHeightsAre
    <3>3. BlackHeights \in SUBSET {h}
      BY <3>1, <3>2
    <3>4. IsFiniteSet({h}) /\ Cardinality({h}) = 1
      BY FS_Singleton
    <3>5. QED
      BY <3>3, <3>4, FS_Subset
  <2>4. ASSUME NEW n \in M, n # fix.at, Color(tree, n) = "red"
        PROVE  /\ n # tree.root
               /\ \/ Color(tree, Parent(tree, n)) = "black"
                  \/ fix.call = "remove" /\ Parent(tree, n) = fix.at
    <3>1. tree.color[n] = "red" /\ Parent(tree, n) = tree.parent[n]
      BY <2>2, <2>4 DEF Color, Parent
    <3>2. /\ n # tree.root
          /\ \/ tree.color[tree.parent[n]] = "black"
             \/ fix.call = "remove" /\ tree.parent[n] = fix.at
      BY <2>1, <2>4, <3>1 DEF Colored
    <3>3. tree.parent[n] \in M
      BY <2>2, <3>2, HangsOn
    <3>4. Color(tree, tree.parent[n]) = tree.color[tree.parent[n]]
      BY <2>2, <3>3 DEF Color
    <3>5. QED
      BY <3>1, <3>2, <3>4
  <2>5. QED
    BY <2>2, <2>3, <2>4 DEF RedBlackButForFix
<1>2. QED
  BY <1>1, AlwaysRedBlack, PTL
=============================================================================
