-------------------------------- MODULE MCAccess --------------------------------
(***************************************************************************)
(* A small instance of Access: an administrator signed in with one         *)
(* browser, another user with the other.                                   *)
(***************************************************************************)
EXTENDS Access, TLC

CONSTANTS root, ana, b1, b2

CallSymmetry == Permutations(Calls)

Accounts == root :> {ADMINS} @@ ana :> {}

Sessions ==
  b1 :> [username |-> root, origin |-> "A"] @@ b2 :> [username |-> ana, origin |-> "A"]
===============================================================================
