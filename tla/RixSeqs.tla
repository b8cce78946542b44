------------------------------ MODULE RixSeqs -------------------------------
(***************************************************************************)
(* What every queue of rix_queue.h stands for: each head is a sequence of  *)
(* elements, no element is in two places, and each call does to the        *)
(* sequences what the macro of the same name says it does.                 *)
(***************************************************************************)
EXTENDS Naturals, Sequences

CONSTANTS Heads, Nodes

VARIABLE seqs       (* The elements of each queue, first to last.           *)

Init == seqs = [h \in Heads |-> <<>>]

At(h, l) == {i \in DOMAIN seqs[h] : seqs[h][i] = l}

Free(e) == \A h \in Heads : At(h, e) = {}

Place(h, i, e) ==
    /\ Free(e)
    /\ seqs' = [seqs EXCEPT ![h] =
                  SubSeq(@, 1, i - 1) \o <<e>> \o SubSeq(@, i, Len(@))]

InsertHead(h, e) == Place(h, 1, e)

InsertTail(h, e) == Place(h, Len(seqs[h]) + 1, e)

InsertAfter(h, l, e) == \E i \in At(h, l) : Place(h, i + 1, e)

InsertBefore(h, l, e) == \E i \in At(h, l) : Place(h, i, e)

(* An element that is not there is not removed.                            *)
RemoveIndex(h, i) ==
    seqs' = [seqs EXCEPT ![h] =
               IF i \in DOMAIN @ THEN SubSeq(@, 1, i - 1) \o SubSeq(@, i + 1, Len(@))
               ELSE @]

RemoveHead(h) == RemoveIndex(h, 1)

RemoveAfter(h, l) == \E i \in At(h, l) : RemoveIndex(h, i + 1)

Remove(h, e) ==
    \/ At(h, e) = {} /\ UNCHANGED seqs
    \/ \E i \in At(h, e) : RemoveIndex(h, i)

(* Everything up to and including l, or the whole queue.                   *)
RemoveHeadUntil(h, l) ==
    \E i \in At(h, l) : seqs' = [seqs EXCEPT ![h] = SubSeq(@, i + 1, Len(@))]

Reset(h) == seqs' = [seqs EXCEPT ![h] = <<>>]

Concat(g, h) == seqs' = [seqs EXCEPT ![g] = @ \o seqs[h], ![h] = <<>>]

Swap(g, h) == seqs' = [seqs EXCEPT ![g] = seqs[h], ![h] = seqs[g]]
=============================================================================
