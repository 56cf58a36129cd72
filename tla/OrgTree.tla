-------------------------------- MODULE OrgTree --------------------------------
(***************************************************************************)
(* The organization tree as a value, and what the pure functions at the    *)
(* foot of organization.service.ts compute from it: isAncestor,            *)
(* applyReparent's test, recomputeLevels and buildTree.                    *)
(*                                                                         *)
(* A tree gives for every id a node record, or Undefined; the supervisorId *)
(* of a node is an id, which may be missing from the tree, or ROOT.  Here  *)
(* the functions are defined by what they return, which can be reasoned    *)
(* about; OrgTreeLoops has the loops and recursions of the source, and its *)
(* run finds the two to agree.                                             *)
(***************************************************************************)
EXTENDS Integers, FiniteSets

CONSTANTS ROOT, Undefined

Present(t) == {n \in DOMAIN t : t[n] # Undefined}

(***************************************************************************)
(* A set of ids that supervision does not leave, but at the top.           *)
(***************************************************************************)
ClosedUpwards(t, S) ==
  \A n \in S \cap Present(t) : t[n].supervisorId \in S \cup {ROOT}

\* Mutant: only the direct supervisor is looked at.
IsDirectSupervisor(t, above, n) ==
  n \in Present(t) /\ t[n].supervisorId = above

(***************************************************************************)
(* isAncestor: following supervisors from n one comes to above.            *)
(***************************************************************************)
IsAncestor(t, above, n) ==
  /\ n \in Present(t)
  /\ t[n].supervisorId # ROOT
  /\ \A S \in SUBSET DOMAIN t :
       ClosedUpwards(t, S) /\ t[n].supervisorId \in S => above \in S

Ancestors(t, n) == {above \in DOMAIN t : IsAncestor(t, above, n)}

\* Mutant: the supervisor need not exist.
MayMoveAnywhere(t, id, s) == s # ROOT => s # id /\ ~IsAncestor(t, id, s)

(***************************************************************************)
(* applyReparent: a supervisor other than the node, that exists, and that  *)
(* is not under the node.                                                  *)
(***************************************************************************)
MayMove(t, id, s) ==
  s # ROOT => s # id /\ s \in Present(t) /\ ~IsAncestor(t, id, s)

(***************************************************************************)
(* levelOf: the supervisors climbed before the walk stops, at the top, at  *)
(* a node whose supervisor is missing, or back at a node it has seen.      *)
(***************************************************************************)
LevelOf(t, n) ==
  Cardinality({m \in Present(t) \cap ({n} \cup Ancestors(t, n)) :
                 t[m].supervisorId \in Present(t)})

(***************************************************************************)
(* recomputeLevels: the nodes whose level was wrong, with the right one.   *)
(***************************************************************************)
Relevelled(t) ==
  {[t[n] EXCEPT !.level = LevelOf(t, n)] :
     n \in {m \in Present(t) : t[m].level # LevelOf(t, m)}}

(***************************************************************************)
(* buildTree hangs each node from its supervisor, or makes it a root: what *)
(* getTree shows are the nodes under a root.                               *)
(***************************************************************************)
\* Mutant: a node whose supervisor is missing is no root.
RootsAtTop(t) == {n \in Present(t) : t[n].supervisorId = ROOT}

Roots(t) == {n \in Present(t) : t[n].supervisorId \notin Present(t)}

Shown(t) == {n \in Present(t) : ({n} \cup Ancestors(t, n)) \cap Roots(t) # {}}

-------------------------------------------------------------------------------
(* A hierarchy is what the checks of the service are there to keep.        *)

(***************************************************************************)
(* No set of nodes all of whose supervisors are in the set.                *)
(***************************************************************************)
Acyclic(t) ==
  \A S \in SUBSET Present(t) :
    S # {} => \E n \in S : t[n].supervisorId \notin S

NoOrphans(t) ==
  \A n \in Present(t) : t[n].supervisorId \in Present(t) \cup {ROOT}

OneNodePerUser(t) ==
  \A m, n \in Present(t) : t[m].userId = t[n].userId => m = n

IsHierarchy(t) == Acyclic(t) /\ NoOrphans(t) /\ OneNodePerUser(t)

LevelsRight(t) == \A n \in Present(t) : t[n].level = LevelOf(t, n)

(***************************************************************************)
(* The same node by node: every level is one more than the supervisor's.   *)
(***************************************************************************)
LevelsFit(t) ==
  \A n \in Present(t) :
    t[n].level = IF t[n].supervisorId \in Present(t)
                 THEN t[t[n].supervisorId].level + 1 ELSE 0
===============================================================================
