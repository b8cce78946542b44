------------------------------ MODULE RixList -------------------------------
(***************************************************************************)
(* RIX_LIST: a doubly linked list.                                         *)
(***************************************************************************)
EXTENDS RixLinks

VARIABLE prev       (* Index of the previous element, in each element.      *)

vars == <<first, next, prev, loop>>

S == INSTANCE RixSeqs WITH seqs <- [h \in Heads |-> Line(h)]

Init ==
    /\ first = [h \in Heads |-> NIL]
    /\ next = [n \in Nodes |-> NIL]
    /\ prev = [n \in Nodes |-> NIL]
    /\ loop = NoLoop

InsertHead(h, e) ==
    /\ MayInsert(e)
    /\ next' = [next EXCEPT ![e] = first[h]]
    /\ prev' = Write([prev EXCEPT ![e] = NIL], first[h], e)
    /\ first' = [first EXCEPT ![h] = e]

InsertAfter(h, l, e) ==
    /\ MayInsert(e) /\ In(h, l)
    /\ next' = [next EXCEPT ![e] = next[l], ![l] = e]
    /\ prev' = Write([prev EXCEPT ![e] = l], next[l], e)
    /\ UNCHANGED first

InsertBefore(h, l, e) ==
    /\ MayInsert(e) /\ In(h, l)
    /\ prev' = [prev EXCEPT ![e] = prev[l], ![l] = e]
    /\ next' = Write([next EXCEPT ![e] = l], prev[l], e)
    /\ first' = [first EXCEPT ![h] = IF prev[l] = NIL THEN e ELSE @]

(* The caller names the list that e is in.                                 *)
Remove(h, e) ==
    /\ In(h, e)
    /\ Unlinks(e)
    /\ prev' = [Write(prev, next[e], prev[e]) EXCEPT ![e] = NIL]
    /\ next' = [Write(next, prev[e], next[e]) EXCEPT ![e] = NIL]
    /\ first' = [first EXCEPT ![h] = IF prev[e] = NIL THEN next[e] ELSE @]

Swap(g, h) ==
    /\ Idle
    /\ first' = [first EXCEPT ![g] = first[h], ![h] = first[g]]
    /\ prev' = Write(Write(prev, first[g], NIL), first[h], NIL)
    /\ UNCHANGED next

Reset(h) ==
    /\ Idle
    /\ first' = [first EXCEPT ![h] = NIL]
    /\ UNCHANGED <<next, prev>>

Next ==
    \/ \E h \in Heads, e \in Nodes :
         \/ InsertHead(h, e) \/ Remove(h, e)
         \/ \E l \in Nodes : InsertAfter(h, l, e) \/ InsertBefore(h, l, e)
    \/ \E g, h \in Heads : Swap(g, h)
    \/ \E h \in Heads : Reset(h)
    \/ UNCHANGED prev /\ (LoopNext \/ \E h \in Heads : LoopBegin(h))

Spec == Init /\ [][Next]_vars

(* The list read backwards is the list: each element's prev names the one  *)
(* whose next names it, and the first has none.  INSERT_BEFORE and REMOVE  *)
(* write through prev, and take no prev for "this is the first".           *)
PrevMirrorsNext ==
    \A h \in Heads :
        LET q == Line(h)
        IN \A i \in DOMAIN q : prev[q[i]] = IF i = 1 THEN NIL ELSE q[i - 1]

(* Each call does to the lists what it does to the sequences they stand    *)
(* for.                                                                    *)
EachCall ==
    /\ \A e \in Nodes : MayInsert(e) =>
         \A h \in Heads :
           /\ InsertHead(h, e) => S!InsertHead(h, e)
           /\ \A l \in Nodes :
                /\ InsertAfter(h, l, e) => S!InsertAfter(h, l, e)
                /\ InsertBefore(h, l, e) => S!InsertBefore(h, l, e)
    /\ \A h \in Heads, e \in Nodes : Remove(h, e) => S!Remove(h, e)
    /\ \A h \in Heads : Reset(h) => S!Reset(h)
    /\ \A g, h \in Heads : Swap(g, h) => S!Swap(g, h)
=============================================================================
