------------------------------ MODULE RixTable ------------------------------
(***************************************************************************)
(* The abstract cuckoo table: insert and remove of RixCuckoo as the steps  *)
(* of a specification.  An insert that has begun changes nothing until it  *)
(* answers, and then all at once.                                          *)
(***************************************************************************)
EXTENDS RixCuckoo

CONSTANT KeyOf

VARIABLES
    tbl,    (* The buckets.                                                 *)
    ret     (* The last call and what it returned, or the one begun.        *)

vars == <<tbl, ret>>

Init ==
    /\ tbl = EmptyTable
    /\ ret = [op |-> "none", elm |-> NIL, out |-> NIL]

Answer(op, n, r) == ret' = [op |-> op, elm |-> n, out |-> r]

MayRun(n) == ret.op = "begun" => ret.elm = n

SameKey(k) == {n \in LinkedIn(tbl) : KeyOf[n] = k}

Begun(n) ==
    /\ ret.op # "begun"
    /\ SameKey(KeyOf[n]) = {}
    /\ BothFull(tbl, KeyOf[n])
    /\ Answer("begun", n, NIL)
    /\ UNCHANGED tbl

Inserted(n) ==
    /\ MayRun(n)
    /\ SameKey(KeyOf[n]) = {}
    /\ tbl' \in InsertedIn(tbl, KeyOf, n)
    /\ Answer("insert", n, NIL)

Duplicate(n) ==
    /\ MayRun(n)
    /\ \E d \in SameKey(KeyOf[n]) : Answer("insert", n, d)
    /\ UNCHANGED tbl

Full(n) ==
    /\ MayRun(n)
    /\ SameKey(KeyOf[n]) = {}
    /\ BothFull(tbl, KeyOf[n])
    /\ Answer("insert", n, n)
    /\ UNCHANGED tbl

Remove(n) ==
    /\ ret.op # "begun"
    /\ tbl' = Without(tbl, n)
    /\ Answer("remove", n, IF n \in LinkedIn(tbl) THEN n ELSE NIL)

Next == \E n \in Nodes : \/ Begun(n) \/ Inserted(n) \/ Duplicate(n)
                         \/ Full(n) \/ Remove(n)

Spec == Init /\ [][Next]_vars
=============================================================================
