------------------------------ MODULE RixTailq ------------------------------
(***************************************************************************)
(* RIX_TAILQ: a doubly linked tail queue.  What it shares with RIX_LIST,   *)
(* line for line, are the actions of RixList; each call also keeps the     *)
(* index of the last element.                                              *)
(***************************************************************************)
EXTENDS RixLinks

VARIABLES
    prev,   (* Index of the previous element, in each element.              *)
    last    (* Index of the last element of each head.                      *)

vars == <<first, last, next, prev, loop>>

L == INSTANCE RixList

S == INSTANCE RixSeqs WITH seqs <- [h \in Heads |-> Line(h)]

Init == L!Init /\ last = [h \in Heads |-> NIL]

InsertHead(h, e) ==
    /\ L!InsertHead(h, e)
    /\ last' = [last EXCEPT ![h] = IF first[h] = NIL THEN e ELSE @]

InsertTail(h, e) ==
    /\ MayInsert(e)
    /\ next' = Write([next EXCEPT ![e] = NIL], last[h], e)
    /\ prev' = [prev EXCEPT ![e] = last[h]]
    /\ first' = [first EXCEPT ![h] = IF last[h] = NIL THEN e ELSE @]
    /\ last' = [last EXCEPT ![h] = e]

InsertAfter(h, l, e) ==
    /\ L!InsertAfter(h, l, e)
    /\ last' = [last EXCEPT ![h] = IF next[l] = NIL THEN e ELSE @]

InsertBefore(h, l, e) == L!InsertBefore(h, l, e) /\ UNCHANGED last

Remove(h, e) ==
    /\ L!Remove(h, e)
    /\ last' = [last EXCEPT ![h] = IF next[e] = NIL THEN prev[e] ELSE @]

(* For a mutant: the macro of RIX_STAILQ.                                  *)
ConcatOneWay(g, h) ==
    /\ Idle /\ g # h
    /\ IF first[h] = NIL THEN UNCHANGED <<first, last, next, prev>>
       ELSE /\ next' = IF first[g] = NIL THEN next
                       ELSE [next EXCEPT ![last[g]] = first[h]]
            /\ first' = [first EXCEPT ![g] = IF @ = NIL THEN first[h] ELSE @,
                                      ![h] = NIL]
            /\ last' = [last EXCEPT ![g] = last[h], ![h] = NIL]
            /\ UNCHANGED prev

Concat(g, h) ==
    /\ Idle /\ g # h
    /\ IF first[h] = NIL THEN UNCHANGED <<first, last, next, prev>>
       ELSE /\ next' = IF first[g] = NIL THEN next
                       ELSE [next EXCEPT ![last[g]] = first[h]]
            /\ prev' = IF first[g] = NIL THEN prev
                       ELSE [prev EXCEPT ![first[h]] = last[g]]
            /\ first' = [first EXCEPT ![g] = IF @ = NIL THEN first[h] ELSE @,
                                      ![h] = NIL]
            /\ last' = [last EXCEPT ![g] = last[h], ![h] = NIL]

Swap(g, h) ==
    /\ Idle
    /\ first' = [first EXCEPT ![g] = first[h], ![h] = first[g]]
    /\ last' = [last EXCEPT ![g] = last[h], ![h] = last[g]]
    /\ UNCHANGED <<next, prev>>

Reset(h) == L!Reset(h) /\ last' = [last EXCEPT ![h] = NIL]

Next ==
    \/ \E h \in Heads, e \in Nodes :
         \/ InsertHead(h, e) \/ InsertTail(h, e) \/ Remove(h, e)
         \/ \E l \in Nodes : InsertAfter(h, l, e) \/ InsertBefore(h, l, e)
    \/ \E g, h \in Heads : Concat(g, h) \/ Swap(g, h)
    \/ \E h \in Heads : Reset(h)
    \/ UNCHANGED <<prev, last>> /\ (LoopNext \/ \E h \in Heads : LoopBegin(h))

Spec == Init /\ [][Next]_vars

(* The queue read from its last element along prev, as FOREACH_REVERSE     *)
(* does, is the queue reversed: last and prev agree with first and next    *)
(* after every call.                                                       *)
BackMirrors ==
    \A h \in Heads :
        LET q == Line(h)
            back == Chain(last[h], prev, NIL)
        IN back = [i \in DOMAIN q |-> q[Len(q) + 1 - i]]

(* Each call does to the queues what it does to the sequences they stand   *)
(* for.                                                                    *)
EachCall ==
    /\ \A e \in Nodes : MayInsert(e) =>
         \A h \in Heads :
           /\ InsertHead(h, e) => S!InsertHead(h, e)
           /\ InsertTail(h, e) => S!InsertTail(h, e)
           /\ \A l \in Nodes :
                /\ InsertAfter(h, l, e) => S!InsertAfter(h, l, e)
                /\ InsertBefore(h, l, e) => S!InsertBefore(h, l, e)
    /\ \A h \in Heads, e \in Nodes : Remove(h, e) => S!Remove(h, e)
    /\ \A h \in Heads : Reset(h) => S!Reset(h)
    /\ \A g, h \in Heads : /\ Concat(g, h) => S!Concat(g, h)
                           /\ Swap(g, h) => S!Swap(g, h)
=============================================================================
