------------------------------- MODULE MCMessages -------------------------------
(***************************************************************************)
(* A small instance of Messages: a message or two, and enough calls for a  *)
(* decrypt, a deletion and a second decrypt of it to overlap.              *)
(***************************************************************************)
EXTENDS Messages, TLC

CallSymmetry == Permutations(Calls)
===============================================================================
