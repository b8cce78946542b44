------------------------------ MODULE MCRixTree ------------------------------
(***************************************************************************)
(* Eight keys, with which each step of both fix-ups is taken, on either    *)
(* side and several times in a call; a ninth element has the key of the    *)
(* fourth.                                                                 *)
(***************************************************************************)
EXTENDS RixTree

MCNodes == 1 .. 9
MCKeyOf == << 1, 2, 3, 4, 5, 6, 7, 8, 4 >>
=============================================================================
