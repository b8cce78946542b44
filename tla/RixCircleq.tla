----------------------------- MODULE RixCircleq -----------------------------
(***************************************************************************)
(* RIX_CIRCLEQ: a doubly linked circle.  The head has the index of the     *)
(* first element only; the last is the one before it.                      *)
(***************************************************************************)
EXTENDS RixLinks

VARIABLE prev       (* Index of the previous element, in each element.      *)

vars == <<first, next, prev, loop>>

(* RIX_CIRCLEQ_FOREACH: from first on, until next is first again.          *)
Circle(h) == Chain(first[h], next, first[h])

LastOf(h) == IF first[h] = NIL THEN NIL ELSE prev[first[h]]

S == INSTANCE RixSeqs WITH seqs <- [h \in Heads |-> Circle(h)]

On(h, e) == Among(Circle(h), e)

MayInsertAt(e) == UNCHANGED loop /\ \A h \in Heads : ~On(h, e)

Init ==
    /\ first = [h \in Heads |-> NIL]
    /\ next = [n \in Nodes |-> NIL]
    /\ prev = [n \in Nodes |-> NIL]
    /\ loop = NoLoop

(* Between the last element and the first.                                 *)
InsertEnd(h, e) ==
    /\ MayInsertAt(e)
    /\ LET f == first[h]
       IN IF f = NIL
          THEN /\ next' = [next EXCEPT ![e] = e]
               /\ prev' = [prev EXCEPT ![e] = e]
          ELSE /\ next' = [next EXCEPT ![e] = f, ![prev[f]] = e]
               /\ prev' = [prev EXCEPT ![e] = prev[f], ![f] = e]

InsertHead(h, e) == InsertEnd(h, e) /\ first' = [first EXCEPT ![h] = e]

InsertTail(h, e) ==
    /\ InsertEnd(h, e)
    /\ first' = [first EXCEPT ![h] = IF @ = NIL THEN e ELSE @]

InsertAfter(h, l, e) ==
    /\ MayInsertAt(e) /\ On(h, l)
    /\ prev' = [prev EXCEPT ![e] = l, ![next[l]] = e]
    /\ next' = [next EXCEPT ![e] = next[l], ![l] = e]
    /\ UNCHANGED first

(* For a mutant: as in INSERT_AFTER.                                       *)
InsertBeforeKeepsFirst(h, l, e) ==
    /\ MayInsertAt(e) /\ On(h, l)
    /\ next' = [next EXCEPT ![e] = l, ![prev[l]] = e]
    /\ prev' = [prev EXCEPT ![e] = prev[l], ![l] = e]
    /\ UNCHANGED first

InsertBefore(h, l, e) ==
    /\ MayInsertAt(e) /\ On(h, l)
    /\ next' = [next EXCEPT ![e] = l, ![prev[l]] = e]
    /\ prev' = [prev EXCEPT ![e] = prev[l], ![l] = e]
    /\ first' = [first EXCEPT ![h] = IF @ = l THEN e ELSE @]

(* The body of a safe iteration may remove any element but the next one,   *)
(* which is the current one when it is alone.                              *)
Leaves(e) ==
    /\ e = loop.tvar => e = loop.var
    /\ loop' = [loop EXCEPT !.due = @ \ {e}]

Remove(h, e) ==
    /\ On(h, e)
    /\ Leaves(e)
    /\ IF next[e] = e
       THEN /\ first' = [first EXCEPT ![h] = NIL]
            /\ next' = [next EXCEPT ![e] = NIL]
            /\ prev' = [prev EXCEPT ![e] = NIL]
       ELSE /\ next' = [next EXCEPT ![prev[e]] = next[e], ![e] = NIL]
            /\ prev' = [prev EXCEPT ![next[e]] = prev[e], ![e] = NIL]
            /\ first' = [first EXCEPT ![h] = IF @ = e THEN next[e] ELSE @]

Reset(h) ==
    /\ Idle
    /\ first' = [first EXCEPT ![h] = NIL]
    /\ UNCHANGED <<next, prev>>

(* RIX_CIRCLEQ_FOREACH_SAFE and FOREACH_REVERSE_SAFE.  loop.tvar is the    *)
(* macro's __rq_next or __rq_prev, loop.start its __rq_start.              *)
Link(dir) == IF dir = "forward" THEN next ELSE prev

LapBegin(h, dir) ==
    /\ loop = NoLoop
    /\ first[h] # NIL
    /\ LET start == IF dir = "forward" THEN first[h] ELSE LastOf(h)
       IN loop' = [head |-> h, dir |-> dir, start |-> start,
                   var |-> start, tvar |-> Link(dir)[start],
                   due |-> {n \in Nodes : On(h, n)}, seen |-> {start}]
    /\ UNCHANGED <<first, next, prev>>

LapIsOver == loop.tvar = loop.start \/ next[loop.start] = NIL

StepTo(n) ==
    [loop EXCEPT !.var = n, !.tvar = Link(loop.dir)[n], !.seen = @ \cup {n},
                 !.start = IF loop.var = @ THEN n ELSE @]

(* For a mutant: the body's removal is not noticed.                        *)
LapNextBlind ==
    /\ loop # NoLoop
    /\ LET n == Link(loop.dir)[loop.var]
       IN loop' = IF n \in {NIL, loop.start} THEN NoLoop ELSE StepTo(n)
    /\ UNCHANGED <<first, next, prev>>

LapNext ==
    /\ loop # NoLoop
    /\ loop' = IF LapIsOver THEN NoLoop ELSE StepTo(loop.tvar)
    /\ UNCHANGED <<first, next, prev>>

Next ==
    \/ \E h \in Heads, e \in Nodes :
         \/ InsertHead(h, e) \/ InsertTail(h, e) \/ Remove(h, e)
         \/ \E l \in Nodes : InsertAfter(h, l, e) \/ InsertBefore(h, l, e)
    \/ \E h \in Heads : Reset(h)
    \/ \E h \in Heads, dir \in {"forward", "reverse"} : LapBegin(h, dir)
    \/ LapNext

Spec == Init /\ [][Next]_vars

(* The lap of FOREACH_REVERSE is the lap of FOREACH reversed: prev, and    *)
(* the last element that is found through it, agree with first and next    *)
(* after every call.                                                       *)
BackMirrors ==
    \A h \in Heads :
        LET q == Circle(h)
            back == Chain(LastOf(h), prev, LastOf(h))
        IN back = [i \in DOMAIN q |-> q[Len(q) + 1 - i]]

(* Each call does to the circles what it does to the sequences they stand  *)
(* for.                                                                    *)
EachCall ==
    /\ \A e \in Nodes : MayInsertAt(e) =>
         \A h \in Heads :
           /\ InsertHead(h, e) => S!InsertHead(h, e)
           /\ InsertTail(h, e) => S!InsertTail(h, e)
           /\ \A l \in Nodes :
                /\ InsertAfter(h, l, e) => S!InsertAfter(h, l, e)
                /\ InsertBefore(h, l, e) => S!InsertBefore(h, l, e)
    /\ \A h \in Heads, e \in Nodes : Remove(h, e) => S!Remove(h, e)
    /\ \A h \in Heads : Reset(h) => S!Reset(h)

(* A safe iteration never leaves its circle, although its body may remove  *)
(* elements, the current one too, and insert them into the other circle.   *)
LapStaysOnCircle ==
    LapNext /\ loop' # NoLoop => On(loop.head, loop'.var)

(* A safe iteration is one full lap (README.md, "Iteration (one full       *)
(* lap)"): it comes to no element twice, and does not end before it has    *)
(* come to every element that stayed in the circle.                        *)
OneFullLap ==
    [][LapNext => IF loop' = NoLoop THEN loop.due \subseteq loop.seen
                  ELSE loop'.var \notin loop.due \cap loop.seen]_vars
=============================================================================
