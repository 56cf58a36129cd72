------------------------------- MODULE Hierarchy -------------------------------
(***************************************************************************)
(* What the organization module promises: one table of nodes, changed by   *)
(* three atomic operations that keep it a hierarchy.                       *)
(***************************************************************************)
EXTENDS OrgTree

CONSTANTS Ids, User

VARIABLE tree

Place == [userId : User, supervisorId : Ids \cup {ROOT}]

Init ==
  /\ tree \in [Ids -> Place \cup {Undefined}]
  /\ IsHierarchy(tree)

Supervisors == Present(tree) \cup {ROOT}

(***************************************************************************)
(* A user who has no node gets one, at the top or under a node.            *)
(***************************************************************************)
Add(n) ==
  /\ tree[n] = Undefined
  /\ \E user \in User, s \in Supervisors :
       /\ \A m \in Present(tree) : tree[m].userId # user
       /\ tree' = [tree EXCEPT ![n] = [userId |-> user, supervisorId |-> s]]

(***************************************************************************)
(* A node moves, with all that is under it, but not to under itself.       *)
(***************************************************************************)
Move(n) ==
  /\ n \in Present(tree)
  /\ \E s \in Supervisors :
       /\ s # n
       /\ s # ROOT => ~IsAncestor(tree, n, s)
       /\ tree' = [tree EXCEPT ![n].supervisorId = s]

(***************************************************************************)
(* A node without subordinates is removed.                                 *)
(***************************************************************************)
Remove(n) ==
  /\ n \in Present(tree)
  /\ \A m \in Present(tree) : tree[m].supervisorId # n
  /\ tree' = [tree EXCEPT ![n] = Undefined]

Next == \E n \in Ids : Add(n) \/ Move(n) \/ Remove(n)

Spec == Init /\ [][Next]_tree
===============================================================================
