--------------------------- MODULE MCFlowDispatch ---------------------------
(***************************************************************************)
(* A small instance of FlowDispatch for TLC: two processes, four buckets.  *)
(***************************************************************************)
EXTENDS FlowDispatch, TLC

MCFlows == {1, 2, 3}
MCKeys == MCFlows \X {"fnv1a", "crc32c"}

(* The buckets of each key are those of its flow, shifted for one of the   *)
(* hashes; flow 3 has the same fingerprint under both.                     *)
MCHash0 == [k \in MCKeys |->
    CASE k[2] = "fnv1a"  -> <<{}, {1}, {}>>[k[1]]
      [] k[2] = "crc32c" -> <<{0}, {}, {1}>>[k[1]]]
MCHash1 == [k \in MCKeys |->
    CASE k[2] = "fnv1a"  -> <<{0}, {0, 2}, {0, 1}>>[k[1]]
      [] k[2] = "crc32c" -> <<{1, 2}, {0, 2}, {0}>>[k[1]]]

MCEnables == {{"sse"}, {"avx512"}, {"sse", "avx2"}}
MCCpus == {{}, {"sse"}, {"sse", "avx2"}, {"sse", "avx2", "avx512"}}
MCLanes == [o \in {"gen", "sse", "avx2", "avx512"} |-> 1]

Symmetry == Permutations(Nodes) \cup Permutations(Procs)
=============================================================================
