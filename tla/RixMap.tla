------------------------------- MODULE RixMap -------------------------------
(***************************************************************************)
(* What every librix hash table promises its caller: a finite map from     *)
(* keys to elements, with the return values of README.md's hash section    *)
(* (insert: NULL when inserted, the linked element when the key is a       *)
(* duplicate, elm itself when the table is full; remove: elm, or NULL when *)
(* elm is not in the table).  An insert may take several steps, of which   *)
(* all but the last leave the map alone.                                   *)
(***************************************************************************)
CONSTANTS Keys, Nodes, KeyOf, NIL

VARIABLES
    map,    (* The element linked under each key in the table.              *)
    ret     (* The last call and what it returned, or the one begun.        *)

vars == <<map, ret>>

Init == map = <<>> /\ ret = [op |-> "none", elm |-> NIL, out |-> NIL]

Answer(op, n, r) == ret' = [op |-> op, elm |-> n, out |-> r]

(* No other call is in progress. *)
MayRun(n) == ret.op = "begun" => ret.elm = n

Begun(n) ==
    /\ ret.op # "begun"
    /\ Answer("begun", n, NIL)
    /\ UNCHANGED map

Inserted(n) ==
    /\ Answer("insert", n, NIL)
    /\ MayRun(n)
    /\ KeyOf[n] \notin DOMAIN map
    /\ map' = [k \in DOMAIN map \cup {KeyOf[n]} |->
                 IF k = KeyOf[n] THEN n ELSE map[k]]

(* How full is full is the implementation's affair. *)
Full(n) ==
    /\ Answer("insert", n, n)
    /\ MayRun(n)
    /\ KeyOf[n] \notin DOMAIN map
    /\ UNCHANGED map

IsIn(n) == KeyOf[n] \in DOMAIN map /\ map[KeyOf[n]] = n

Duplicate(n) ==
    \E d \in Nodes :
       /\ Answer("insert", n, d)
       /\ MayRun(n)
       /\ KeyOf[d] = KeyOf[n] /\ IsIn(d)
       /\ UNCHANGED map

Remove(n) ==
    /\ ret.op # "begun"
    /\ \/ /\ Answer("remove", n, n)
          /\ IsIn(n)
          /\ map' = [k \in DOMAIN map \ {KeyOf[n]} |-> map[k]]
       \/ /\ Answer("remove", n, NIL)
          /\ ~IsIn(n)
          /\ UNCHANGED map

Next == \E n \in Nodes : \/ Begun(n) \/ Inserted(n) \/ Duplicate(n)
                         \/ Full(n) \/ Remove(n)

Spec == Init /\ [][Next]_vars
=============================================================================
