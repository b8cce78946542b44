------------------------------ MODULE MCQueues ------------------------------
(***************************************************************************)
(* One instance of each queue of rix_queue.h; kind says which one it is.   *)
(***************************************************************************)
EXTENDS RixLinks, TLC

VARIABLES prev, last, kind

Slist   == INSTANCE RixSlist
Stailq  == INSTANCE RixStailq
List    == INSTANCE RixList
Tailq   == INSTANCE RixTailq
Circleq == INSTANCE RixCircleq

(* No call tells one element or one head from another.                     *)
Symmetry == Permutations(Nodes) \cup Permutations(Heads)

queueVars == <<first, last, next, prev, loop, kind>>

Init ==
    /\ kind \in {"slist", "stailq", "list", "tailq", "circleq"}
    /\ Tailq!Init

Next ==
    /\ \/ kind = "slist" /\ Slist!Next /\ UNCHANGED <<prev, last>>
       \/ kind = "stailq" /\ Stailq!Next /\ UNCHANGED prev
       \/ kind = "list" /\ List!Next /\ UNCHANGED last
       \/ kind = "tailq" /\ Tailq!Next
       \/ kind = "circleq" /\ Circleq!Next /\ UNCHANGED last
    /\ UNCHANGED kind

Spec == Init /\ [][Next]_queueVars

(* Every call on every queue does to it what it does to the sequence of    *)
(* its elements (EachCall of the queue's module).                          *)
CallsAreSequenceCalls ==
    [][/\ kind = "slist" => Slist!EachCall
       /\ kind = "stailq" => Stailq!EachCall
       /\ kind = "list" => List!EachCall
       /\ kind = "tailq" => Tailq!EachCall
       /\ kind = "circleq" => Circleq!EachCall]_queueVars

(* What each queue keeps besides first and next agrees with them after     *)
(* every call: the last index, and the queue read backwards.               *)
EndsAndBackLinksAgree ==
    /\ kind = "stailq" => Stailq!LastIsLast
    /\ kind = "list" => List!PrevMirrorsNext
    /\ kind = "tailq" => Tailq!BackMirrors
    /\ kind = "circleq" => Circleq!BackMirrors

(* A safe iteration of a queue with ends visits what stays in it exactly   *)
(* once, whatever its body does.                                           *)
SafeLoopCovers == kind # "circleq" => LoopCovers

(* A safe iteration of a circle stays on it.                               *)
SafeLapStays == [][kind = "circleq" => Circleq!LapStaysOnCircle]_queueVars
=============================================================================
