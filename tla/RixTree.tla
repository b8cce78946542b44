------------------------------- MODULE RixTree -------------------------------
(***************************************************************************)
(* The red-black tree of src/include/rix/rix_tree.h, linked by indices     *)
(* with the parent in each element.  The code writes every branch of its   *)
(* fix-ups a second time with left and right exchanged; here they are one  *)
(* operator with the side as a parameter.  A call links or unlinks its     *)
(* element in one step and then takes one step per recolouring or rotation *)
(* of its fix-up loop, so that what holds between two of them can be said. *)
(***************************************************************************)
EXTENDS Integers, FiniteSets

CONSTANTS Nodes, KeyOf, NIL

ASSUME NodesFinite == IsFiniteSet(Nodes)
ASSUME KeysCompare == KeyOf \in [Nodes -> Int]
ASSUME NilNotNode == NIL \notin Nodes

VARIABLES
    tree,  (* The head's root and the links and colour of each element.     *)
    fix,   (* The fix-up in progress: its call, the element that REMOVE     *)
           (* resets at its end, and the locals z, or xi and xpi.           *)
    ret    (* What the last INSERT returned.                                *)

treeVars == <<tree, fix, ret>>

NodeOrNil == Nodes \cup {NIL}
Sides == {"left", "right"}
Other(s) == IF s = "left" THEN "right" ELSE "left"

NoFix == [call |-> "none", elm |-> NIL, at |-> NIL, above |-> NIL]

-----------------------------------------------------------------------------
(* The accessors: NIL has NIL around it and is black.                      *)

Child(t, s, n) == IF n = NIL THEN NIL ELSE t.child[s][n]
Parent(t, n)   == IF n = NIL THEN NIL ELSE t.parent[n]
Color(t, n)    == IF n = NIL THEN "black" ELSE t.color[n]

SideOf(t, n) == IF n = Child(t, "left", Parent(t, n)) THEN "left" ELSE "right"

Paint(t, n, c) == IF n = NIL THEN t ELSE [t EXCEPT !.color[n] = c]
Hang(t, n, p)  == IF n = NIL THEN t ELSE [t EXCEPT !.parent[n] = p]

(* For a mutant.                                                           *)
SetChildOneEnd(t, s, p, c) ==
    IF p = NIL THEN t ELSE [t EXCEPT !.child[s][p] = c]

(* set_left and set_right write both ends of a link.                       *)
SetChild(t, s, p, c) ==
    Hang(IF p = NIL THEN t ELSE [t EXCEPT !.child[s][p] = c], c, p)

SetRoot(t, n) == Hang([t EXCEPT !.root = n], n, NIL)

(* v takes the place of u under u's parent.                                *)
Transplant(t, u, v) ==
    IF Parent(t, u) = NIL THEN SetRoot(t, v)
    ELSE SetChild(t, SideOf(t, u), Parent(t, u), v)

(* rotate_left is Rotate(t, "left", x): x goes down on side s.             *)
Rotate(t, s, x) ==
    LET y == Child(t, Other(s), x)
        lent == SetChild(t, Other(s), x, Child(t, s, y))
    IN SetChild(Transplant(lent, x, y), s, y, x)

-----------------------------------------------------------------------------
(* The loops that walk, from start on, until turn gives NIL: the elements  *)
(* they pass, and the last one of S among these.                           *)
Passed(start, turn) ==
    LET from[n \in NodeOrNil] ==
          IF n = NIL THEN {} ELSE {n} \cup from[turn[n]]
    IN from[start]

OrElse(m, n) == IF m = NIL THEN n ELSE m

LastOf(S, start, turn) ==
    LET from[n \in NodeOrNil] ==
          IF n = NIL THEN NIL
          ELSE OrElse(from[turn[n]], IF n \in S THEN n ELSE NIL)
    IN from[start]

EndOf(start, turn) == LastOf(Nodes, start, turn)

(* The comparisons on the way down for INSERT and FIND; an equal key stops.*)
Descent(t, key) ==
    [n \in Nodes |-> IF key < KeyOf[n] THEN Child(t, "left", n)
                     ELSE IF key > KeyOf[n] THEN Child(t, "right", n)
                     ELSE NIL]

FIND(t, key) ==
    LET x == EndOf(t.root, Descent(t, key))
    IN IF x # NIL /\ KeyOf[x] = key THEN x ELSE NIL

(* For a mutant.                                                           *)
NFINDStrict(t, key) ==
    LastOf({n \in Nodes : key < KeyOf[n]}, t.root,
           [n \in Nodes |->
              Child(t, IF key < KeyOf[n] THEN "left" ELSE "right", n)])

(* The last element at which the search turned left.                       *)
NFIND(t, key) ==
    LastOf({n \in Nodes : key <= KeyOf[n]}, t.root,
           [n \in Nodes |->
              Child(t, IF key <= KeyOf[n] THEN "left" ELSE "right", n)])

Outermost(t, s, n) == EndOf(n, t.child[s])

MINMAX(t, s) == Outermost(t, s, t.root)

(* NEXT is Beside(t, "right", x) and PREV is Beside(t, "left", x): into    *)
(* the subtree on that side, or up as long as x hangs on that side.        *)
Beside(t, s, x) ==
    LET turn == [n \in Nodes |-> IF n = Child(t, s, Parent(t, n))
                                 THEN Parent(t, n) ELSE NIL]
    IN IF Child(t, s, x) # NIL THEN Outermost(t, Other(s), Child(t, s, x))
       ELSE Parent(t, EndOf(x, turn))

Up(t, n) == Passed(n, t.parent)

(* The elements that are in the tree: the head's root and what is below.   *)
Members(t) ==
    LET below[n \in NodeOrNil] ==
          IF n = NIL THEN {}
          ELSE {n} \cup below[t.child["left"][n]] \cup below[t.child["right"][n]]
    IN below[t.root]

-----------------------------------------------------------------------------
Init ==
    /\ tree = [root |-> NIL, child |-> [s \in Sides |-> [n \in Nodes |-> NIL]],
               parent |-> [n \in Nodes |-> NIL],
               color |-> [n \in Nodes |-> "red"]]
    /\ fix = NoFix
    /\ ret = NIL

(* INSERT of a key that is in the tree returns the element that has it.    *)
InsertTaken(e) ==
    /\ fix = NoFix
    /\ FIND(tree, KeyOf[e]) # NIL
    /\ ret' = FIND(tree, KeyOf[e])
    /\ UNCHANGED <<tree, fix>>

InsertLink(e) ==
    LET y == EndOf(tree.root, Descent(tree, KeyOf[e]))
        leaf == [tree EXCEPT !.parent[e] = y, !.color[e] = "red",
                             !.child["left"][e] = NIL,
                             !.child["right"][e] = NIL]
    IN /\ fix = NoFix
       /\ FIND(tree, KeyOf[e]) = NIL
       /\ tree' = IF y = NIL THEN [leaf EXCEPT !.root = e]
                  ELSE SetChild(leaf, IF KeyOf[e] < KeyOf[y] THEN "left"
                                      ELSE "right", y, e)
       /\ fix' = [NoFix EXCEPT !.call = "insert", !.at = e]
       /\ ret' = NIL

(* z is red under a red parent: the condition of INSERT's loop.            *)
Clash ==
    /\ fix.at # tree.root
    /\ Color(tree, Parent(tree, fix.at)) = "red"

Grandparent == Parent(tree, Parent(tree, fix.at))

Uncle == Child(tree, Other(SideOf(tree, Parent(tree, fix.at))), Grandparent)

(* A red uncle: the grandparent's blackness goes down, the clash goes up.  *)
InsertRecolor ==
    /\ fix.call = "insert" /\ Clash
    /\ Color(tree, Uncle) = "red"
    /\ tree' = Paint(Paint(Paint(tree, Parent(tree, fix.at), "black"),
                           Uncle, "black"), Grandparent, "red")
    /\ fix' = [fix EXCEPT !.at = Grandparent]
    /\ UNCHANGED ret

Inner == fix.at = Child(tree, Other(SideOf(tree, Parent(tree, fix.at))),
                        Parent(tree, fix.at))

(* A black uncle and z an inner child: z's parent goes down and is z.      *)
InsertStraighten ==
    LET p == Parent(tree, fix.at)
    IN /\ fix.call = "insert" /\ Clash
       /\ Color(tree, Uncle) = "black" /\ Inner
       /\ tree' = Rotate(tree, SideOf(tree, p), p)
       /\ fix' = [fix EXCEPT !.at = p]
       /\ UNCHANGED ret

(* A black uncle and z an outer child: the grandparent goes down.          *)
InsertRotate ==
    LET p == Parent(tree, fix.at)
    IN /\ fix.call = "insert" /\ Clash
       /\ Color(tree, Uncle) = "black" /\ ~Inner
       /\ tree' = Rotate(Paint(Paint(tree, p, "black"), Grandparent, "red"),
                         Other(SideOf(tree, p)), Grandparent)
       /\ UNCHANGED <<fix, ret>>

InsertDone ==
    /\ fix.call = "insert" /\ ~Clash
    /\ tree' = Hang(Paint(tree, tree.root, "black"), tree.root, NIL)
    /\ fix' = NoFix
    /\ UNCHANGED ret

-----------------------------------------------------------------------------
(* The end of REMOVE.                                                      *)
Reset(t, e) ==
    [Hang(t, t.root, NIL) EXCEPT !.parent[e] = NIL, !.color[e] = "red",
                                 !.child["left"][e] = NIL,
                                 !.child["right"][e] = NIL]

(* An element with a free side leaves its only child in its place.         *)
RemoveEdge(e) ==
    LET full == IF tree.child["left"][e] = NIL THEN "right" ELSE "left"
    IN [tree |-> Transplant(tree, e, tree.child[full][e]),
        lost |-> tree.color[e],
        at |-> tree.child[full][e],
        above |-> tree.parent[e]]

(* For a mutant: the successor keeps its own right child.                  *)
RemoveInnerKeepsRight(e) ==
    LET y == Outermost(tree, "left", tree.child["right"][e])
        x == tree.child["right"][y]
        near == tree.parent[y] = e
        moved == Transplant(IF near THEN Hang(tree, x, y)
                            ELSE Transplant(tree, y, x), e, y)
    IN [tree |-> Paint(SetChild(moved, "left", y, moved.child["left"][e]),
                       y, moved.color[e]),
        lost |-> tree.color[y],
        at |-> x,
        above |-> IF near THEN y ELSE tree.parent[y]]

(* An element with two children leaves its successor y in its place.       *)
RemoveInner(e) ==
    LET y == Outermost(tree, "left", tree.child["right"][e])
        x == tree.child["right"][y]
        near == tree.parent[y] = e
        apart == IF near THEN Hang(tree, x, y)
                 ELSE LET gone == Transplant(tree, y, x)
                      IN SetChild(gone, "right", y, gone.child["right"][e])
        moved == Transplant(apart, e, y)
    IN [tree |-> Paint(SetChild(moved, "left", y, moved.child["left"][e]),
                       y, moved.color[e]),
        lost |-> tree.color[y],
        at |-> x,
        above |-> IF near THEN y ELSE tree.parent[y]]

(* A caller removes an element that is in the tree.                        *)
RemoveUnlink(e) ==
    LET cut == IF NIL \in {tree.child[s][e] : s \in Sides} THEN RemoveEdge(e)
               ELSE RemoveInner(e)
    IN /\ fix = NoFix
       /\ e \in Members(tree)
       /\ IF cut.lost = "black"
          THEN /\ tree' = cut.tree
               /\ fix' = [call |-> "remove", elm |-> e,
                          at |-> cut.at, above |-> cut.above]
          ELSE tree' = Reset(cut.tree, e) /\ UNCHANGED fix
       /\ ret' = NIL

(* xi is short of a black element: the condition of REMOVE's loop.         *)
Short == fix.at # tree.root /\ Color(tree, fix.at) = "black"

ShortSide == IF fix.at = Child(tree, "left", fix.above) THEN "left" ELSE "right"

Sibling == Child(tree, Other(ShortSide), fix.above)

NearNephew == Child(tree, ShortSide, Sibling)
FarNephew  == Child(tree, Other(ShortSide), Sibling)

(* A red sibling goes up: its near child is the next sibling.              *)
RemoveLift ==
    /\ fix.call = "remove" /\ Short
    /\ Color(tree, Sibling) = "red"
    /\ tree' = Rotate(Paint(Paint(tree, Sibling, "black"), fix.above, "red"),
                      ShortSide, fix.above)
    /\ UNCHANGED <<fix, ret>>

BlackSibling == Color(tree, Sibling) = "black"

(* For a mutant: the loop goes on where it is.                             *)
RemoveRecolorStays ==
    /\ fix.call = "remove" /\ Short /\ BlackSibling
    /\ Color(tree, NearNephew) = "black" /\ Color(tree, FarNephew) = "black"
    /\ tree' = Paint(tree, Sibling, "red")
    /\ UNCHANGED <<fix, ret>>

(* Black nephews: the sibling turns red, and the shortage goes up.         *)
RemoveRecolor ==
    /\ fix.call = "remove" /\ Short /\ BlackSibling
    /\ Color(tree, NearNephew) = "black" /\ Color(tree, FarNephew) = "black"
    /\ tree' = Paint(tree, Sibling, "red")
    /\ fix' = [fix EXCEPT !.at = fix.above, !.above = Parent(tree, fix.above)]
    /\ UNCHANGED ret

(* Only the near nephew is red: it becomes the sibling.                    *)
RemoveStraighten ==
    /\ fix.call = "remove" /\ Short /\ BlackSibling
    /\ Color(tree, NearNephew) = "red" /\ Color(tree, FarNephew) = "black"
    /\ tree' = Rotate(Paint(Paint(tree, NearNephew, "black"), Sibling, "red"),
                      Other(ShortSide), Sibling)
    /\ UNCHANGED <<fix, ret>>

(* For a mutant: the sibling does not take the parent's colour.            *)
RemoveRotateKeepsColor ==
    /\ fix.call = "remove" /\ Short /\ BlackSibling
    /\ Color(tree, FarNephew) = "red"
    /\ tree' = Rotate(Paint(Paint(tree, fix.above, "black"),
                            FarNephew, "black"), ShortSide, fix.above)
    /\ fix' = [fix EXCEPT !.at = tree'.root, !.above = NIL]
    /\ UNCHANGED ret

(* The far nephew is red: it makes up for the shortage, and the loop ends. *)
RemoveRotate ==
    /\ fix.call = "remove" /\ Short /\ BlackSibling
    /\ Color(tree, FarNephew) = "red"
    /\ tree' = Rotate(Paint(Paint(Paint(tree,
                        Sibling, Color(tree, fix.above)), fix.above, "black"),
                        FarNephew, "black"), ShortSide, fix.above)
    /\ fix' = [fix EXCEPT !.at = tree'.root, !.above = NIL]
    /\ UNCHANGED ret

RemoveDone ==
    /\ fix.call = "remove" /\ ~Short
    /\ tree' = Reset(Paint(tree, fix.at, "black"), fix.elm)
    /\ fix' = NoFix
    /\ UNCHANGED ret

Fix ==
    \/ InsertRecolor \/ InsertStraighten \/ InsertRotate \/ InsertDone
    \/ RemoveLift \/ RemoveRecolor \/ RemoveStraighten \/ RemoveRotate
    \/ RemoveDone

Next ==
    \/ \E e \in Nodes : InsertTaken(e) \/ InsertLink(e) \/ RemoveUnlink(e)
    \/ Fix

Spec == Init /\ [][Next]_treeVars

(* A started call runs on: there is no blocking point in it.               *)
FairSpec == Spec /\ WF_treeVars(Fix)

-----------------------------------------------------------------------------
(* rix_tree.h promises its callers an ordered set: each INSERT and REMOVE  *)
(* changes the elements in the tree as it says, at once, and the rounds of *)
(* its fix-up neither lose an element nor bring one back.                  *)
Set == INSTANCE RixOrderedSet WITH members <- Members(tree)

RefinesSet == Set!Spec

(* Every step leaves each link written at both of its ends, which the     *)
(* walks up in NEXT and PREV and the next round depend on.                 *)
LinksMirror ==
    /\ Parent(tree, tree.root) = NIL
    /\ \A n \in Members(tree), s \in Sides :
         Child(tree, s, n) # NIL => Parent(tree, Child(tree, s, n)) = n

First(S) == IF S = {} THEN NIL
            ELSE CHOOSE n \in S : \A m \in S : KeyOf[n] <= KeyOf[m]
Final(S) == IF S = {} THEN NIL
            ELSE CHOOSE n \in S : \A m \in S : KeyOf[n] >= KeyOf[m]

(* FIND, NFIND, MIN, MAX, NEXT and PREV give what the ordered set of the   *)
(* elements in the tree has, for every key, also during a fix-up.          *)
LookupsAgree ==
    LET all == Members(tree)
        Above(k) == {n \in all : KeyOf[n] > k}
        Below(k) == {n \in all : KeyOf[n] < k}
        At(k) == {n \in all : KeyOf[n] = k}
    IN /\ MINMAX(tree, "left") = First(all)
       /\ MINMAX(tree, "right") = Final(all)
       /\ \A n \in Nodes :
            /\ FIND(tree, KeyOf[n]) = First(At(KeyOf[n]))
            /\ NFIND(tree, KeyOf[n]) = First(At(KeyOf[n]) \cup Above(KeyOf[n]))
       /\ \A n \in all :
            /\ Beside(tree, "right", n) = First(Above(KeyOf[n]))
            /\ Beside(tree, "left", n) = Final(Below(KeyOf[n]))

(* The black elements above each free place of the tree, counting the one  *)
(* that the subtree at xi is short of as there.                            *)
BlackHeights ==
    LET Blacks(n) == Cardinality({m \in Up(tree, n) : tree.color[m] = "black"})
        short == fix.call = "remove" /\ fix.above # NIL
        Owed(n, s) == \/ fix.at # NIL /\ fix.at \in Up(tree, n)
                      \/ fix.at = NIL /\ n = fix.above /\ s = ShortSide
        Depth(n, s) == Blacks(n) + (IF short /\ Owed(n, s) THEN 1 ELSE 0)
    IN {Depth(place[1], place[2]) :
          place \in {p \in Members(tree) \X Sides : Child(tree, p[2], p[1]) = NIL}}

(* Between calls the tree is red-black.  During a fix-up it is so but for  *)
(* z or xi, which alone may be red as the root or under a red parent, for  *)
(* xi's red children when xi is red, and for the black xi is short of.     *)
RedBlackButForFix ==
    /\ Cardinality(BlackHeights) <= 1
    /\ \A n \in Members(tree) \ {fix.at} :
         Color(tree, n) = "red" =>
           /\ n # tree.root
           /\ \/ Color(tree, Parent(tree, n)) = "black"
              \/ fix.call = "remove" /\ Parent(tree, n) = fix.at

(* Every fix-up ends.                                                      *)
FixEnds == fix # NoFix ~> fix = NoFix

=============================================================================
