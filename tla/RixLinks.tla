------------------------------ MODULE RixLinks ------------------------------
(***************************************************************************)
(* What the queues of rix_queue.h have in common: a head with the index of *)
(* its first element, a next index in each element, and a safe iteration   *)
(* that reads the next index before its body runs, because the body may    *)
(* remove the current element (and insert it elsewhere).  Calls of the     *)
(* body and of the rest of the program are the same actions.               *)
(***************************************************************************)
EXTENDS Naturals, Sequences, FiniteSets, Functions

CONSTANTS Heads, Nodes, NIL

ASSUME NilNotNode == NIL \notin Nodes

ASSUME NodesFinite == IsFiniteSet(Nodes)

VARIABLES
    first,  (* Index of the first element of each head.                     *)
    next,   (* Index of the next element, in each element.                  *)
    loop    (* The safe iteration in progress: its locals var and tvar, and *)
            (* for the properties the elements that have been in the queue  *)
            (* since it began (due) and those it has visited (seen).        *)

(* The elements from start on along link, before stop; one step more than  *)
(* a queue can have, so that a cycle shows.                                *)
Chain(start, link, stop) ==
    LET path[k \in 0 .. Cardinality(Nodes)] ==
          IF k = 0 THEN IF start = NIL THEN <<>> ELSE <<start>>
          ELSE LET p == path[k - 1]
               IN IF p = <<>> \/ link[p[Len(p)]] \in {NIL, stop} THEN p
                  ELSE Append(p, link[p[Len(p)]])
    IN path[Cardinality(Nodes)]

Line(h) == Chain(first[h], next, NIL)

Among(q, e) == e \in Range(q)

In(h, e) == Among(Line(h), e)

(* if (n != RIX_NIL) RIX_PTR_FROM_IDX(base, n)->field = v                  *)
Write(f, n, v) == [m \in DOMAIN f |-> IF m = n THEN v ELSE f[m]]

NoLoop == [head |-> NIL, var |-> NIL, tvar |-> NIL, due |-> {}, seen |-> {}]

Idle == loop = NoLoop /\ UNCHANGED loop

(* A caller inserts an element that is in no queue.                        *)
MayInsert(e) == UNCHANGED loop /\ \A h \in Heads : ~In(h, e)

(* The body of a safe iteration may remove any element but the next one.   *)
Unlinks(e) ==
    /\ e \in Nodes => e # loop.tvar
    /\ loop' = [loop EXCEPT !.due = @ \ {e}]

LoopBegin(h) ==
    /\ loop = NoLoop
    /\ first[h] # NIL
    /\ loop' = [head |-> h, var |-> first[h], tvar |-> next[first[h]],
                due |-> Range(Line(h)), seen |-> {first[h]}]
    /\ UNCHANGED <<first, next>>

(* For a mutant: RIX_*_FOREACH, which reads the next index afterwards.     *)
LoopNextUnsafe ==
    /\ loop # NoLoop
    /\ LET n == next[loop.var]
       IN loop' = IF n = NIL THEN NoLoop
                  ELSE [loop EXCEPT !.var = n, !.tvar = next[n],
                                    !.seen = @ \cup {n}]
    /\ UNCHANGED <<first, next>>

LoopNext ==
    /\ loop # NoLoop
    /\ loop' = IF loop.tvar = NIL THEN NoLoop
               ELSE [loop EXCEPT !.var = loop.tvar, !.tvar = next[loop.tvar],
                                 !.seen = @ \cup {loop.tvar}]
    /\ UNCHANGED <<first, next>>

(* A safe iteration visits every element that is in the queue from its     *)
(* beginning to its end exactly once, whatever else its body removes,      *)
(* moves and inserts: what it has not seen of them is still ahead of it,   *)
(* and what it has seen is not.                                            *)
LoopCovers ==
    LET ahead == Range(Chain(loop.tvar, next, NIL))
    IN /\ loop.due \ loop.seen \subseteq ahead
       /\ loop.due \cap loop.seen \cap ahead = {}
=============================================================================
