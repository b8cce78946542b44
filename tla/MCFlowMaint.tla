---------------------------- MODULE MCFlowMaint ----------------------------
(***************************************************************************)
(* Small instances of FlowMaint for TLC.                                   *)
(***************************************************************************)
EXTENDS FlowMaintLap

(* A range beyond the end of the table, and one that is wider than it.     *)
MCExCalls == {[start |-> 6, count |-> 3, skip |-> 0], [start |-> 1, count |-> 9, skip |-> 1]}
=============================================================================
