------------------------------ MODULE RixSlist ------------------------------
(***************************************************************************)
(* RIX_SLIST: a singly linked list.  An element that is removed keeps its  *)
(* next index.                                                             *)
(***************************************************************************)
EXTENDS RixLinks

vars == <<first, next, loop>>

S == INSTANCE RixSeqs WITH seqs <- [h \in Heads |-> Line(h)]

Init ==
    /\ first = [h \in Heads |-> NIL]
    /\ next = [n \in Nodes |-> NIL]
    /\ loop = NoLoop

InsertHead(h, e) ==
    /\ MayInsert(e)
    /\ next' = [next EXCEPT ![e] = first[h]]
    /\ first' = [first EXCEPT ![h] = e]

InsertAfter(h, l, e) ==
    /\ MayInsert(e) /\ In(h, l)
    /\ next' = [next EXCEPT ![e] = next[l], ![l] = e]
    /\ UNCHANGED first

RemoveHead(h) ==
    /\ Unlinks(first[h])
    /\ first' = [first EXCEPT ![h] = IF @ = NIL THEN @ ELSE next[@]]
    /\ UNCHANGED next

RemoveAfter(h, l) ==
    /\ In(h, l)
    /\ Unlinks(next[l])
    /\ next' = [next EXCEPT ![l] = IF @ = NIL THEN @ ELSE next[@]]
    /\ UNCHANGED first

(* A search for the element before e, which finds none if e is not there.  *)
Remove(h, e) ==
    \/ first[h] = e /\ RemoveHead(h)
    \/ first[h] # e /\ \E l \in Nodes : next[l] = e /\ RemoveAfter(h, l)
    \/ ~In(h, e) /\ UNCHANGED vars

Reset(h) ==
    /\ Idle
    /\ first' = [first EXCEPT ![h] = NIL]
    /\ UNCHANGED next

Next ==
    \/ \E h \in Heads, e \in Nodes :
         \/ InsertHead(h, e) \/ Remove(h, e) \/ RemoveAfter(h, e)
         \/ \E l \in Nodes : InsertAfter(h, l, e)
    \/ \E h \in Heads : RemoveHead(h) \/ Reset(h) \/ LoopBegin(h)
    \/ LoopNext

Spec == Init /\ [][Next]_vars

(* Each call does to the lists what it does to the sequences they stand    *)
(* for.                                                                    *)
EachCall ==
    /\ \A e \in Nodes : MayInsert(e) =>
         \A h \in Heads :
           /\ InsertHead(h, e) => S!InsertHead(h, e)
           /\ \A l \in Nodes :
                InsertAfter(h, l, e) => S!InsertAfter(h, l, e)
    /\ \A h \in Heads, e \in Nodes :
         /\ Remove(h, e) => S!Remove(h, e)
         /\ RemoveAfter(h, e) => S!RemoveAfter(h, e)
    /\ \A h \in Heads : /\ RemoveHead(h) => S!RemoveHead(h)
                        /\ Reset(h) => S!Reset(h)
=============================================================================
