----------------------------- MODULE RixStailq ------------------------------
(***************************************************************************)
(* RIX_STAILQ: a singly linked tail queue.  What it shares with RIX_SLIST, *)
(* line for line, are the actions of RixSlist; each call also keeps the    *)
(* index of the last element.                                              *)
(***************************************************************************)
EXTENDS RixLinks

VARIABLE last       (* Index of the last element of each head.              *)

vars == <<first, last, next, loop>>

L == INSTANCE RixSlist

S == INSTANCE RixSeqs WITH seqs <- [h \in Heads |-> Line(h)]

Init == L!Init /\ last = [h \in Heads |-> NIL]

InsertHead(h, e) ==
    /\ L!InsertHead(h, e)
    /\ last' = [last EXCEPT ![h] = IF first[h] = NIL THEN e ELSE @]

(* For a mutant: the element still has the next index of its last queue.   *)
InsertTailUncut(h, e) ==
    /\ MayInsert(e)
    /\ next' = Write(next, last[h], e)
    /\ first' = [first EXCEPT ![h] = IF last[h] = NIL THEN e ELSE @]
    /\ last' = [last EXCEPT ![h] = e]

InsertTail(h, e) ==
    /\ MayInsert(e)
    /\ next' = Write([next EXCEPT ![e] = NIL], last[h], e)
    /\ first' = [first EXCEPT ![h] = IF last[h] = NIL THEN e ELSE @]
    /\ last' = [last EXCEPT ![h] = e]

InsertAfter(h, l, e) ==
    /\ L!InsertAfter(h, l, e)
    /\ last' = [last EXCEPT ![h] = IF next[l] = NIL THEN e ELSE @]

RemoveHead(h) ==
    /\ L!RemoveHead(h)
    /\ last' = [last EXCEPT ![h] = IF first'[h] = NIL THEN NIL ELSE @]

(* For a mutant: as in RIX_SLIST.                                          *)
RemoveAfterLast(h, l) == L!RemoveAfter(h, l) /\ UNCHANGED last

RemoveAfter(h, l) ==
    /\ L!RemoveAfter(h, l)
    /\ last' = [last EXCEPT ![h] =
                  IF next[l] # NIL /\ next[next[l]] = NIL THEN l ELSE @]

Remove(h, e) ==
    \/ first[h] = e /\ RemoveHead(h)
    \/ first[h] # e /\ \E l \in Nodes : next[l] = e /\ RemoveAfter(h, l)
    \/ ~In(h, e) /\ UNCHANGED vars

(* l is an element of the queue, or NULL for all of it.                    *)
RemoveHeadUntil(h, l) ==
    /\ Idle
    /\ l = NIL \/ In(h, l)
    /\ first' = [first EXCEPT ![h] = IF l = NIL THEN NIL ELSE next[l]]
    /\ last' = [last EXCEPT ![h] = IF first'[h] = NIL THEN NIL ELSE @]
    /\ UNCHANGED next

Concat(g, h) ==
    /\ Idle /\ g # h
    /\ IF first[h] = NIL THEN UNCHANGED <<first, last, next>>
       ELSE /\ next' = IF first[g] = NIL THEN next
                       ELSE [next EXCEPT ![last[g]] = first[h]]
            /\ first' = [first EXCEPT ![g] = IF @ = NIL THEN first[h] ELSE @,
                                      ![h] = NIL]
            /\ last' = [last EXCEPT ![g] = last[h], ![h] = NIL]

Swap(g, h) ==
    /\ Idle
    /\ first' = [first EXCEPT ![g] = first[h], ![h] = first[g]]
    /\ last' = [last EXCEPT ![g] = last[h], ![h] = last[g]]
    /\ UNCHANGED next

Reset(h) == L!Reset(h) /\ last' = [last EXCEPT ![h] = NIL]

Next ==
    \/ \E h \in Heads, e \in Nodes :
         \/ InsertHead(h, e) \/ InsertTail(h, e)
         \/ Remove(h, e) \/ RemoveAfter(h, e)
         \/ \E l \in Nodes : InsertAfter(h, l, e)
    \/ \E h \in Heads, l \in Nodes \cup {NIL} : RemoveHeadUntil(h, l)
    \/ \E g, h \in Heads : Concat(g, h) \/ Swap(g, h)
    \/ \E h \in Heads : RemoveHead(h) \/ Reset(h)
    \/ UNCHANGED last /\ (LoopNext \/ \E h \in Heads : LoopBegin(h))

Spec == Init /\ [][Next]_vars

(* The head's last index, which LAST returns and INSERT_TAIL and CONCAT    *)
(* write through, is that of the last element, and NIL when there is none. *)
LastIsLast ==
    \A h \in Heads :
        last[h] = LET q == Line(h) IN IF q = <<>> THEN NIL ELSE q[Len(q)]

(* Each call does to the queues what it does to the sequences they stand   *)
(* for.                                                                    *)
EachCall ==
    /\ \A e \in Nodes : MayInsert(e) =>
         \A h \in Heads :
           /\ InsertHead(h, e) => S!InsertHead(h, e)
           /\ InsertTail(h, e) => S!InsertTail(h, e)
           /\ \A l \in Nodes :
                InsertAfter(h, l, e) => S!InsertAfter(h, l, e)
    /\ \A h \in Heads, e \in Nodes :
         /\ Remove(h, e) => S!Remove(h, e)
         /\ RemoveAfter(h, e) => S!RemoveAfter(h, e)
         /\ RemoveHeadUntil(h, e) => S!RemoveHeadUntil(h, e)
    /\ \A h \in Heads : /\ RemoveHead(h) => S!RemoveHead(h)
                        /\ Reset(h) \/ RemoveHeadUntil(h, NIL) => S!Reset(h)
    /\ \A g, h \in Heads : /\ Concat(g, h) => S!Concat(g, h)
                           /\ Swap(g, h) => S!Swap(g, h)
=============================================================================
