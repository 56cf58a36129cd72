------------------------------ MODULE OrgTreeProofs ------------------------------
(***************************************************************************)
(* Theorems about the organization tree as a value, for trees of any size: *)
(* what the guards of the service keep of it, and that the recursions of   *)
(* the source have one solution on a tree without cycles.                  *)
(***************************************************************************)
EXTENDS OrgTree, FiniteSetTheorems, TLAPS

-------------------------------------------------------------------------------
(* Lemmas about trees.                                                     *)

(***************************************************************************)
(* Cycles are a matter of supervisors; removing a node closes none.        *)
(***************************************************************************)
LEMMA FewerAcyclic ==
  ASSUME NEW t, NEW u, Acyclic(t), Present(u) \subseteq Present(t),
         \A n \in Present(u) : u[n].supervisorId = t[n].supervisorId
  PROVE  Acyclic(u)
<1> SUFFICES ASSUME NEW S \in SUBSET Present(u), S # {}
             PROVE  \E n \in S : u[n].supervisorId \notin S
  BY DEF Acyclic
<1>1. PICK n \in S : t[n].supervisorId \notin S
  BY DEF Acyclic
<1>2. QED
  BY <1>1

(***************************************************************************)
(* Nor does adding a node under another when nothing is under it.          *)
(***************************************************************************)
LEMMA AddAcyclic ==
  ASSUME NEW t, NEW u, NEW id, Acyclic(t), Present(u) = Present(t) \cup {id},
         id \notin Present(t), u[id].supervisorId # id,
         \A n \in Present(t) : /\ u[n].supervisorId = t[n].supervisorId
                               /\ t[n].supervisorId # id
  PROVE  Acyclic(u)
<1> SUFFICES ASSUME NEW S \in SUBSET Present(u), S # {}
             PROVE  \E n \in S : u[n].supervisorId \notin S
  BY DEF Acyclic
<1>1. CASE S = {id}
  BY <1>1
<1>2. CASE S # {id}
  <2>1. S \ {id} \in SUBSET Present(t) /\ S \ {id} # {}
    BY <1>2
  <2>2. PICK n \in S \ {id} : t[n].supervisorId \notin S \ {id}
    BY <2>1 DEF Acyclic
  <2>3. QED
    BY <2>1, <2>2
<1>3. QED
  BY <1>1, <1>2

(***************************************************************************)
(* The guard of applyReparent: a move it lets pass closes no cycle.  In a  *)
(* set S that the new supervisors do not leave, the ancestors of the new   *)
(* supervisor would be a set that the old ones do not leave.               *)
(***************************************************************************)
LEMMA MoveAcyclic ==
  ASSUME NEW t, NEW u, NEW id \in Present(t), NEW s, ROOT \notin DOMAIN t,
         Acyclic(t), MayMove(t, id, s), Present(u) = Present(t),
         u[id].supervisorId = s,
         \A n \in Present(t) \ {id} : u[n].supervisorId = t[n].supervisorId
  PROVE  Acyclic(u)
<1> SUFFICES ASSUME NEW S \in SUBSET Present(t), S # {},
                    \A n \in S : u[n].supervisorId \in S
             PROVE  FALSE
  BY DEF Acyclic
<1>1. id \in S
  <2> SUFFICES ASSUME id \notin S PROVE FALSE
    OBVIOUS
  <2>1. \A n \in S : t[n].supervisorId \in S
    OBVIOUS
  <2>2. QED
    BY <2>1 DEF Acyclic
<1>2. s \in S /\ s # ROOT /\ s # id /\ s \in Present(t) /\ ~IsAncestor(t, id, s)
  BY <1>1 DEF MayMove, Present
<1>3. t[s].supervisorId \in S /\ t[s].supervisorId # ROOT
  BY <1>2 DEF Present
<1>4. PICK C \in SUBSET DOMAIN t :
        ClosedUpwards(t, C) /\ t[s].supervisorId \in C /\ id \notin C
  BY <1>2, <1>3 DEF IsAncestor
<1> DEFINE D == (C \cup {s}) \cap S
<1>5. \A n \in D : t[n].supervisorId \in D
  <2> SUFFICES ASSUME NEW n \in D PROVE t[n].supervisorId \in D
    OBVIOUS
  <2>1. n # id /\ t[n].supervisorId \in S /\ t[n].supervisorId # ROOT
    BY <1>2, <1>4 DEF Present
  <2>2. CASE n = s
    BY <1>3, <1>4, <2>2
  <2>3. CASE n \in C
    BY <1>4, <2>1, <2>3 DEF ClosedUpwards
  <2>4. QED
    BY <2>2, <2>3
<1>6. D \in SUBSET Present(t) /\ D # {}
  BY <1>2
<1>7. QED
  BY <1>5, <1>6 DEF Acyclic

LEMMA SameAncestors ==
  ASSUME NEW t, NEW u, DOMAIN u = DOMAIN t, Present(u) = Present(t),
         \A n \in Present(t) : u[n].supervisorId = t[n].supervisorId,
         NEW above, NEW n
  PROVE  IsAncestor(u, above, n) <=> IsAncestor(t, above, n)
<1>1. \A S \in SUBSET DOMAIN t : ClosedUpwards(u, S) <=> ClosedUpwards(t, S)
  BY DEF ClosedUpwards
<1>2. QED
  BY <1>1 DEF IsAncestor

(***************************************************************************)
(* Climbing one step at a time.                                            *)
(***************************************************************************)
IsTree(t) ==
  /\ IsFiniteSet(DOMAIN t) /\ ROOT \notin DOMAIN t
  /\ \A n \in Present(t) : t[n].supervisorId \in DOMAIN t \cup {ROOT}

LEMMA AncestorUp ==
  ASSUME NEW t, NEW n \in Present(t), NEW m \in Present(t),
         m = n \/ IsAncestor(t, m, n), t[m].supervisorId # ROOT
  PROVE  IsAncestor(t, t[m].supervisorId, n)
<1>1. t[n].supervisorId # ROOT
  BY DEF IsAncestor
<1>2. ASSUME NEW S \in SUBSET DOMAIN t, ClosedUpwards(t, S), t[n].supervisorId \in S
      PROVE  t[m].supervisorId \in S
  <2>1. CASE m = n
    BY <1>2, <2>1
  <2>2. CASE IsAncestor(t, m, n)
    BY <1>2, <2>2 DEF IsAncestor, ClosedUpwards
  <2>3. QED
    BY <2>1, <2>2
<1>3. QED
  BY <1>1, <1>2 DEF IsAncestor

LEMMA AncestorStep ==
  ASSUME NEW t, IsTree(t), NEW n \in Present(t), NEW above
  PROVE  LET s == t[n].supervisorId IN
         IsAncestor(t, above, n) <=> s # ROOT /\ (above = s \/ IsAncestor(t, above, s))
<1> DEFINE s == t[n].supervisorId
<1>1. ASSUME s # ROOT, above = s PROVE IsAncestor(t, above, n)
  BY <1>1, AncestorUp
<1>2. ASSUME s # ROOT, IsAncestor(t, above, s) PROVE IsAncestor(t, above, n)
  <2> SUFFICES ASSUME NEW S \in SUBSET DOMAIN t, ClosedUpwards(t, S), s \in S
               PROVE  above \in S
    BY <1>2 DEF IsAncestor
  <2>1. t[s].supervisorId \in S
    BY <1>2 DEF IsAncestor, ClosedUpwards
  <2>2. QED
    BY <1>2, <2>1 DEF IsAncestor
<1>3. ASSUME IsAncestor(t, above, n), above # s PROVE IsAncestor(t, above, s)
  <2>1. s \in DOMAIN t /\ s # ROOT
    BY <1>3 DEF IsTree, IsAncestor
  <2>2. \A S \in SUBSET DOMAIN t : ClosedUpwards(t, S) /\ s \in S => above \in S
    BY <1>3 DEF IsAncestor
  <2>3. s \in Present(t) /\ t[s].supervisorId # ROOT
    <3> SUFFICES ASSUME s \notin Present(t) \/ t[s].supervisorId = ROOT PROVE FALSE
      OBVIOUS
    <3>1. ClosedUpwards(t, {s})
      BY DEF ClosedUpwards
    <3>2. QED
      BY <1>3, <2>1, <2>2, <3>1
  <2>4. ASSUME NEW S \in SUBSET DOMAIN t, ClosedUpwards(t, S), t[s].supervisorId \in S
        PROVE  above \in S
    <3>1. ClosedUpwards(t, S \cup {s})
      BY <2>4 DEF ClosedUpwards
    <3>2. above \in S \cup {s}
      BY <2>1, <2>2, <3>1
    <3>3. QED
      BY <1>3, <3>2
  <2>5. QED
    BY <2>3, <2>4 DEF IsAncestor
<1>4. IsAncestor(t, above, n) => s # ROOT
  BY DEF IsAncestor
<1>5. QED
  BY <1>1, <1>2, <1>3, <1>4

LEMMA AncestorPresent ==
  ASSUME NEW t, NEW above, NEW n, IsAncestor(t, above, n)
  PROVE  n \in Present(t) /\ t[n].supervisorId # ROOT
  BY DEF IsAncestor

LEMMA NotOwnAncestor ==
  ASSUME NEW t, IsTree(t), Acyclic(t), NEW n
  PROVE  ~IsAncestor(t, n, n)
<1> SUFFICES ASSUME IsAncestor(t, n, n) PROVE FALSE
  OBVIOUS
<1> DEFINE S == {m \in Present(t) : IsAncestor(t, n, m)}
<1>1. S \in SUBSET Present(t) /\ n \in S
  BY DEF IsAncestor
<1>2. \A m \in S : t[m].supervisorId \in S
  BY <1>1, AncestorStep, AncestorPresent
<1>3. QED
  BY <1>1, <1>2 DEF Acyclic

(***************************************************************************)
(* What a set of nodes that supervision does not leave holds.              *)
(***************************************************************************)
LEMMA AncestorsStay ==
  ASSUME NEW t, NEW S \in SUBSET DOMAIN t, ClosedUpwards(t, S),
         NEW n \in S, NEW above, IsAncestor(t, above, n)
  PROVE  above \in S
<1>1. t[n].supervisorId \in S
  BY DEF IsAncestor, ClosedUpwards
<1>2. QED
  BY <1>1 DEF IsAncestor

-------------------------------------------------------------------------------
(* What the functions of the service say about a tree.                     *)

(***************************************************************************)
(* The tests of applyReparent refuse exactly the moves that would close a  *)
(* cycle, for any tree without one and any new supervisor, also one that   *)
(* is missing: what the run of MCOrgTree finds of the loop.                *)
(***************************************************************************)
THEOREM ReparentTestExact ==
  ASSUME NEW t, IsTree(t), Acyclic(t), NEW id \in Present(t),
         NEW s \in DOMAIN t \cup {ROOT},
         NEW u, Present(u) = Present(t), u[id].supervisorId = s,
         \A n \in Present(t) \ {id} : u[n].supervisorId = t[n].supervisorId
  PROVE  Acyclic(u) <=> s # id /\ ~IsAncestor(t, id, s)
<1>1. ASSUME s # id, ~IsAncestor(t, id, s) PROVE Acyclic(u)
  <2>1. CASE s \in Present(t) \cup {ROOT}
    BY <1>1, <2>1, MoveAcyclic DEF MayMove, IsTree
  <2>2. CASE s \notin Present(t)
    <3> SUFFICES ASSUME NEW S \in SUBSET Present(u), S # {},
                        \A n \in S : u[n].supervisorId \in S
                 PROVE  FALSE
      BY DEF Acyclic
    <3>1. id \notin S
      BY <2>2
    <3>2. S \in SUBSET Present(t) /\ \A n \in S : t[n].supervisorId \in S
      BY <3>1
    <3>3. QED
      BY <3>2 DEF Acyclic
  <2>3. QED
    BY <2>1, <2>2
<1>2. ASSUME Acyclic(u), s = id \/ IsAncestor(t, id, s) PROVE FALSE
  <2> DEFINE S == {m \in Present(t) : m = id \/ IsAncestor(t, id, m)}
  <2>1. S \in SUBSET Present(u) /\ id \in S
    OBVIOUS
  <2>2. s \in S
    BY <1>2, AncestorPresent
  <2>3. \A m \in S \ {id} : t[m].supervisorId \in S
    BY AncestorStep, AncestorPresent
  <2>4. \A m \in S : u[m].supervisorId \in S
    BY <2>2, <2>3
  <2>5. QED
    BY <1>2, <2>1, <2>4 DEF Acyclic
<1>3. QED
  BY <1>1, <1>2

(***************************************************************************)
(* getTree shows every node, orphans included, exactly when there is no    *)
(* cycle: a node is lost only under one.                                   *)
(***************************************************************************)
THEOREM ShownUnlessCycle ==
  ASSUME NEW t, IsTree(t)
  PROVE  Acyclic(t) <=> Shown(t) = Present(t)
<1>1. ASSUME Acyclic(t), NEW n \in Present(t) PROVE n \in Shown(t)
  <2> SUFFICES ASSUME n \notin Shown(t) PROVE FALSE
    OBVIOUS
  <2> DEFINE S == {m \in Present(t) : m = n \/ IsAncestor(t, m, n)}
  <2>1. \A m \in S : m \notin Roots(t)
    BY DEF Shown, Ancestors, Present
  <2>2. \A m \in S : t[m].supervisorId \in Present(t) /\ t[m].supervisorId # ROOT
    BY <2>1 DEF Roots, IsTree, Present
  <2>3. \A m \in S : t[m].supervisorId \in S
    BY <2>2, AncestorUp
  <2>4. QED
    BY <1>1, <2>3 DEF Acyclic
<1>2. ASSUME Shown(t) = Present(t), NEW S \in SUBSET Present(t), S # {},
             \A n \in S : t[n].supervisorId \in S
      PROVE  FALSE
  <2>1. PICK n \in S : n \in Shown(t)
    BY <1>2
  <2>2. PICK r \in Roots(t) : r = n \/ IsAncestor(t, r, n)
    BY <2>1 DEF Shown, Ancestors
  <2>3. S \in SUBSET DOMAIN t /\ ClosedUpwards(t, S)
    BY <1>2 DEF ClosedUpwards, Present
  <2>4. r \in S
    BY <2>2, <2>3, AncestorsStay
  <2>5. QED
    BY <1>2, <2>2, <2>4 DEF Roots
<1>3. QED
  BY <1>1, <1>2 DEF Acyclic, Shown

(***************************************************************************)
(* The supervisors climbed from a node are one more than from its          *)
(* supervisor.                                                             *)
(***************************************************************************)
Climbed(t, n) == {m \in Present(t) \cap ({n} \cup Ancestors(t, n)) :
                    t[m].supervisorId \in Present(t)}

LEMMA LevelStep ==
  ASSUME NEW t, IsTree(t), Acyclic(t), NEW n \in Present(t)
  PROVE  LevelOf(t, n) = IF t[n].supervisorId \in Present(t)
                         THEN LevelOf(t, t[n].supervisorId) + 1 ELSE 0
<1> DEFINE s == t[n].supervisorId
<1>1. \A m : LevelOf(t, m) = Cardinality(Climbed(t, m)) /\ IsFiniteSet(Climbed(t, m))
  BY FS_Subset DEF LevelOf, Climbed, IsTree, Present
<1>2. ASSUME s \notin Present(t) PROVE Climbed(t, n) = {}
  <2>1. \A m \in Ancestors(t, n) : m = s
    BY <1>2, AncestorStep, AncestorPresent DEF Ancestors
  <2>2. QED
    BY <1>2, <2>1 DEF Climbed
<1>3. ASSUME s \in Present(t)
      PROVE  Climbed(t, n) = Climbed(t, s) \cup {n} /\ n \notin Climbed(t, s)
  <2>1. s # ROOT
    BY <1>3 DEF IsTree, Present
  <2>2. \A m \in DOMAIN t : m \in Ancestors(t, n) <=> m = s \/ m \in Ancestors(t, s)
    BY <2>1, AncestorStep DEF Ancestors
  <2>3. n # s /\ n \notin Ancestors(t, s)
    BY <2>1, AncestorStep, NotOwnAncestor DEF Ancestors
  <2>4. QED
    BY <1>3, <2>2, <2>3 DEF Climbed, Present
<1>4. CASE s \in Present(t)
  BY <1>1, <1>3, <1>4, FS_AddElement
<1>5. CASE s \notin Present(t)
  BY <1>1, <1>2, <1>5, FS_EmptySet
<1>6. QED
  BY <1>4, <1>5

(***************************************************************************)
(* The recursion of recomputeLevels on a tree without cycles has one       *)
(* solution, LevelOf.                                                      *)
(***************************************************************************)
LEMMA LevelOfIsTheRecursion ==
  ASSUME NEW t, IsTree(t), Acyclic(t), NEW depth,
         \A n \in Present(t) :
           depth[n] = LET s == t[n].supervisorId IN
                      IF s \in Present(t) THEN depth[s] + 1 ELSE 0
  PROVE  \A n \in Present(t) : depth[n] = LevelOf(t, n)
<1> DEFINE S == {n \in Present(t) : depth[n] # LevelOf(t, n)}
<1> SUFFICES ASSUME S # {} PROVE FALSE
  OBVIOUS
<1>1. PICK n \in S : t[n].supervisorId \notin S
  BY DEF Acyclic
<1>2. depth[n] = LevelOf(t, n)
  BY <1>1, LevelStep
<1>3. QED
  BY <1>2

(***************************************************************************)
(* So levels can be compared node by node.                                 *)
(***************************************************************************)
LEMMA LevelsFitExact ==
  ASSUME NEW t, IsTree(t), Acyclic(t)
  PROVE  LevelsRight(t) <=> LevelsFit(t)
<1>1. ASSUME LevelsRight(t) PROVE LevelsFit(t)
  BY <1>1, LevelStep DEF LevelsRight, LevelsFit
<1>2. ASSUME LevelsFit(t) PROVE LevelsRight(t)
  <2> DEFINE depth == [n \in Present(t) |-> t[n].level]
  <2>1. \A n \in Present(t) :
          depth[n] = IF t[n].supervisorId \in Present(t)
                     THEN depth[t[n].supervisorId] + 1 ELSE 0
    BY <1>2 DEF LevelsFit
  <2> HIDE DEF depth
  <2>2. \A n \in Present(t) : depth[n] = LevelOf(t, n)
    BY <2>1, LevelOfIsTheRecursion
  <2>3. QED
    BY <2>2 DEF LevelsRight, depth
<1>3. QED
  BY <1>1, <1>2
===============================================================================
