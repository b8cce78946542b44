---------------------------- MODULE MCFlowCache ----------------------------
(***************************************************************************)
(* Small instances of FlowCache for TLC.                                   *)
(***************************************************************************)
EXTENDS FlowCache

MCBits == {1, 2, 3}
MCMask == {1, 2}

(* Four buckets of one slot, three entries, four keys: keys 1 and 2        *)
(* compete for {} and {1}, keys 3 and 4 lead on to {2} and {1,2}.          *)
MCKeys  == 1 .. 4
MCHash0 == << {},  {3},   {1}, {2}   >>
MCHash1 == << {1}, {1,3}, {2}, {1,2} >>
MCNodes == 1 .. 3
MCPool  == << 1, 2, 3 >>

(* Single keys, a key given twice, pairs of which the first may move or    *)
(* evict what the second's scan saw, and a batch whose last key is scanned *)
(* after the first has been looked up.                                     *)
Single == {<<k>> : k \in MCKeys}
MCKeyBatches ==
    [find    |-> {<<1>>, <<3, 2>>},
     findadd |-> Single \cup {<<1, 1>>, <<2, 1>>, <<3, 1>>, <<4, 3>>, <<3, 4, 2, 1>>},
     add     |-> {<<2>>, <<1, 1>>, <<4, 3>>},
     del     |-> {<<3>>, <<4>>, <<1, 1>>, <<2, 1>>}]
MCIdxBatches == {<<1, 1>>, <<NIL, 3>>}

(* A fourth entry, no clock: a key that a kickout moved between its scan   *)
(* and its turn is missed while the free list still has an entry for it.   *)
StaleNodes == 1 .. 4
StalePool  == << 1, 2, 3, 4 >>
StaleKeyBatches ==
    [find    |-> {},
     findadd |-> {<<1>>, <<4>>, <<2, 1>>, <<3, 1>>, <<4, 3>>, <<3, 4, 2, 1>>},
     add     |-> {},
     del     |-> {<<3>>, <<2, 1>>, <<4>>}]
StaleIdxBatches == {}
=============================================================================
