----------------------------- MODULE MCOrganization -----------------------------
(***************************************************************************)
(* Small instances of Organization: two nodes, of ua and ub, or none.      *)
(***************************************************************************)
EXTENDS Organization, TLC

CONSTANTS na, nb, ua, ub, uc

CallSymmetry == Permutations(Calls)

NodeOf(id, user, s, level) ==
  [id |-> id, userId |-> user, supervisorId |-> s, level |-> level]

Empty == [n \in Ids |-> Undefined]

(***************************************************************************)
(* nb under na, or both at the top.                                        *)
(***************************************************************************)
Pair == (na :> NodeOf(na, ua, ROOT, 0) @@ nb :> NodeOf(nb, ub, na, 1)) @@ Empty
TwoRoots ==
  (na :> NodeOf(na, ua, ROOT, 0) @@ nb :> NodeOf(nb, ub, ROOT, 0)) @@ Empty

TwoNodeTrees == {Pair, TwoRoots}
===============================================================================
