------------------------------- MODULE MCOrgTree -------------------------------
(***************************************************************************)
(* Every tree over four ids, reached by relinking or removing one node at  *)
(* a time.                                                                 *)
(***************************************************************************)
EXTENDS OrgTreeLoops

CONSTANTS Id

VARIABLE tree

Link == [supervisorId : Id \cup {ROOT}]

ASSUME IdAssumption ==
  IsFiniteSet(Id) /\ ROOT \notin Id /\ Undefined \notin Link

Init == tree = [n \in Id |-> Undefined]

Relink(n) == \E link \in Link : tree' = [tree EXCEPT ![n] = link]

Remove(n) == tree[n] # Undefined /\ tree' = [tree EXCEPT ![n] = Undefined]

Next == \E n \in Id : Relink(n) \/ Remove(n)

Spec == Init /\ [][Next]_tree

(***************************************************************************)
(* The guarded loop of isAncestor terminates on every tree and tells       *)
(* whether its first node is above its second.                             *)
(***************************************************************************)
IsAncestorAgrees ==
  \A m, n \in Id : IsAncestorLoop(tree, m, n) <=> IsAncestor(tree, m, n)

(***************************************************************************)
(* The recursion of recomputeLevels terminates on every tree and counts    *)
(* the supervisors above a node.                                           *)
(***************************************************************************)
LevelOfAgrees ==
  \A n \in Present(tree) : LevelOfLoop(tree, n) = LevelOf(tree, n)

(***************************************************************************)
(* buildTree loses a node exactly when the node is under a cycle: in a     *)
(* tree without cycles getTree shows every node, orphans included.         *)
(***************************************************************************)
TreeShowsAll ==
  /\ ShownByBuildTree(tree) = Shown(tree)
  /\ Acyclic(tree) <=> ShownByBuildTree(tree) = Present(tree)

(***************************************************************************)
(* The guards of applyReparent against the node itself and its descendants *)
(* are exact: the moves they refuse are those that would close a cycle.    *)
(***************************************************************************)
ReparentGuardsExact ==
  Acyclic(tree) =>
    \A n \in Present(tree), s \in Id :
      LET moved == [tree EXCEPT ![n].supervisorId = s] IN
      (s = n \/ IsAncestorLoop(tree, n, s)) <=> ~Acyclic(moved)
===============================================================================
