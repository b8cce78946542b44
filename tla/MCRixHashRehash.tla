-------------------------- MODULE MCRixHashRehash --------------------------
(***************************************************************************)
(* Two instances of the tables without fields in their elements, with two  *)
(* slots in each of the four buckets {}, {1}, {2} and {1,2}.               *)
(***************************************************************************)
EXTENDS RixHashRehash

MCBits == {1, 2, 3}
MCMask == {1, 2}

(* At the code's depth of 4: five keys compete for the four slots of {}    *)
(* and {1}, so that some inserts fail, and key 6 can leave {1} for {2}.    *)
(* Key 2 has the hashes of key 1, and key 3 their fingerprint.             *)
PairNodes == 1 .. 6

(* At depth 8: keys 7 to 10 fill {} and {1}, keys 12 and 13 fill {2}, and  *)
(* key 11 leads there, so that a recursive call comes back to the bucket   *)
(* that its caller is at and moves the caller's own element.               *)
DeepNodes == 7 .. 13

MCNodes == PairNodes \cup DeepNodes
MCKeyOf == [n \in MCNodes |-> n]
MCHash0 == << {},  {},  {3},   {1}, {1}, {1},
              {},  {},  {3},   {1}, {1}, {2},   {2} >>
MCHash1 == << {1}, {1}, {1,3}, {},  {3}, {2},
              {1}, {1}, {1,3}, {},  {2}, {1,2}, {} >>

(* Of the deep instance only element 11 is removed again.                  *)
MCNext ==
    \/ build.depth = 4 /\ \/ \E n \in PairNodes : Insert(n) \/ Remove(n)
                          \/ \E b \in Bucket, s \in Slot : RemoveAt(b, s)
    \/ build.depth = 8 /\ \/ \E n \in DeepNodes : Insert(n)
                          \/ Remove(11)

MCSpec == Init /\ [][MCNext]_vars
=============================================================================
