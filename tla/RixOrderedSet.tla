---------------------------- MODULE RixOrderedSet ----------------------------
(***************************************************************************)
(* What the tree of rix_tree.h promises its callers: a set of elements     *)
(* with different keys.  An insert whose key is taken returns the element  *)
(* that has it and changes nothing.                                        *)
(***************************************************************************)
CONSTANTS Nodes, KeyOf, NIL

VARIABLES
    members,  (* The elements of the set.                                   *)
    ret       (* What the last insert returned, NIL when it inserted.       *)

setVars == <<members, ret>>

Holders(e) == {n \in members : KeyOf[n] = KeyOf[e]}

Init == members = {} /\ ret = NIL

Insert(e) ==
    /\ Holders(e) = {}
    /\ members' = members \cup {e}
    /\ ret' = NIL

InsertTaken(e) ==
    /\ ret' \in Holders(e)
    /\ UNCHANGED members

Remove(e) ==
    /\ e \in members
    /\ members' = members \ {e}
    /\ ret' = NIL

Next == \E e \in Nodes : Insert(e) \/ InsertTaken(e) \/ Remove(e)

Spec == Init /\ [][Next]_setVars
=============================================================================
