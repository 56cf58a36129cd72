--------------------------- MODULE OrgTreeLoopsProofs ---------------------------
(***************************************************************************)
(* The loops of organization.service.ts return what OrgTree says, on every *)
(* tree over any finite set of ids: the properties of MCOrgTree.           *)
(*                                                                         *)
(* That a recursive function has a value at all is shown by giving one,    *)
(* and that it has only one by the walk that has seen most, among those on *)
(* which two solutions would differ.                                       *)
(***************************************************************************)
EXTENDS MCOrgTree, OrgTreeProofs

-------------------------------------------------------------------------------
(* Walks end.                                                              *)

LEMMA MinimalSubset ==
  ASSUME NEW D, IsFiniteSet(D), NEW U \in SUBSET SUBSET D, U # {}
  PROVE  \E x \in U : \A y \in U : y \subseteq x => y = x
<1>1. IsWellFoundedOn(StrictSubsetOrdering(D), SUBSET D)
  BY FS_StrictSubsetOrderingWellFounded, FS_FiniteSubsetsOfFinite
<1>2. PICK x \in U : \A y \in U : ~(<<y, x>> \in StrictSubsetOrdering(D))
  BY <1>1, WFMin
<1>3. \A y \in U : y \subseteq x => y = x
  BY <1>2 DEF StrictSubsetOrdering
<1>4. QED
  BY <1>3

(***************************************************************************)
(* Among some walks there is one such that none goes on from it.           *)
(***************************************************************************)
LEMMA LastWalk ==
  ASSUME NEW D, IsFiniteSet(D), NEW T, T # {}, \A w \in T : w[2] \in SUBSET D
  PROVE  \E w \in T : \A v \in T : w[2] \subseteq v[2] => v[2] = w[2]
<1> DEFINE U == {D \ w[2] : w \in T}
<1>1. U \in SUBSET SUBSET D /\ U # {} /\ \A w \in T : D \ w[2] \in U
  OBVIOUS
<1>2. \A x \in U : \E w \in T : x = D \ w[2]
  OBVIOUS
<1> HIDE DEF U
<1>3. PICK w \in T : \A y \in U : y \subseteq D \ w[2] => y = D \ w[2]
  BY <1>1, <1>2, MinimalSubset
<1>4. ASSUME NEW v \in T, w[2] \subseteq v[2] PROVE v[2] = w[2]
  <2>1. D \ v[2] \in U /\ D \ v[2] \subseteq D \ w[2]
    BY <1>1, <1>4
  <2>2. D \ v[2] = D \ w[2]
    BY <1>3, <2>1
  <2>3. v[2] \in SUBSET D /\ w[2] \in SUBSET D
    OBVIOUS
  <2>4. QED
    BY <2>2, <2>3
<1>5. QED
  BY <1>4

-------------------------------------------------------------------------------
(* The tree without the nodes a walk has seen.                             *)

Without(t, seen) == [n \in DOMAIN t |-> IF n \in seen THEN Undefined ELSE t[n]]

LEMMA WithoutPresent ==
  ASSUME NEW t, IsTree(t), NEW seen
  PROVE  LET u == Without(t, seen) IN
         /\ DOMAIN u = DOMAIN t
         /\ Present(u) = Present(t) \ seen
         /\ \A n \in Present(u) : u[n] = t[n]
         /\ IsTree(u)
<1> DEFINE u == Without(t, seen)
<1>1. DOMAIN u = DOMAIN t /\ Present(u) = Present(t) \ seen
  BY DEF Without, Present
<1>2. \A n \in Present(u) : u[n] = t[n]
  BY <1>1 DEF Without, Present
<1>3. IsTree(u)
  BY <1>1, <1>2 DEF IsTree
<1>4. QED
  BY <1>1, <1>2, <1>3

LEMMA WithoutNone ==
  ASSUME NEW t, IsTree(t), NEW above, NEW n
  PROVE  IsAncestor(Without(t, {}), above, n) <=> IsAncestor(t, above, n)
<1> DEFINE u == Without(t, {})
<1>1. /\ DOMAIN u = DOMAIN t
      /\ Present(u) = Present(t) \ {}
      /\ \A m \in Present(u) : u[m] = t[m]
  BY WithoutPresent
<1> HIDE DEF u
<1>2. IsAncestor(u, above, n) <=> IsAncestor(t, above, n)
  BY <1>1, SameAncestors
<1>3. QED
  BY <1>2 DEF u

(***************************************************************************)
(* A walk that has come somewhere need not come back through its start.    *)
(***************************************************************************)
LEMMA AncestorAvoiding ==
  ASSUME NEW t, IsTree(t), NEW n \in Present(t), NEW v, DOMAIN v = DOMAIN t,
         Present(v) = Present(t) \ {n}, \A m \in Present(v) : v[m] = t[m],
         NEW above
  PROVE  LET s == t[n].supervisorId IN
         IsAncestor(t, above, n) <=> s # ROOT /\ (s = above \/ IsAncestor(v, above, s))
<1> DEFINE s == t[n].supervisorId
<1>1. \A S \in SUBSET DOMAIN t : ClosedUpwards(t, S) => ClosedUpwards(v, S)
  BY DEF ClosedUpwards
<1>2. ASSUME s # ROOT, IsAncestor(v, above, s) PROVE IsAncestor(t, above, n)
  <2> SUFFICES ASSUME NEW S \in SUBSET DOMAIN t, ClosedUpwards(t, S), s \in S
               PROVE  above \in S
    BY <1>2 DEF IsAncestor
  <2>1. s \in Present(t) /\ v[s] = t[s] /\ v[s].supervisorId # ROOT
    BY <1>2 DEF IsAncestor
  <2>2. v[s].supervisorId \in S
    BY <2>1 DEF ClosedUpwards
  <2>3. QED
    BY <1>1, <1>2, <2>2 DEF IsAncestor
<1>3. ASSUME s # ROOT, s = above PROVE IsAncestor(t, above, n)
  BY <1>3, AncestorUp
<1>4. ASSUME IsAncestor(t, above, n), s # above PROVE IsAncestor(v, above, s)
  <2> SUFFICES ASSUME ~IsAncestor(v, above, s) PROVE FALSE
    OBVIOUS
  <2>1. s \in DOMAIN t /\ s # ROOT
    BY <1>4 DEF IsTree, IsAncestor
  <2>2. \A S \in SUBSET DOMAIN t : ClosedUpwards(t, S) /\ s \in S => above \in S
    BY <1>4 DEF IsAncestor
  <2>3. ~ClosedUpwards(t, {s})
    BY <1>4, <2>1, <2>2
  <2>4. s \in Present(v) /\ t[s].supervisorId # ROOT
    BY <2>3 DEF ClosedUpwards
  <2>5. PICK S \in SUBSET DOMAIN t :
          ClosedUpwards(v, S) /\ t[s].supervisorId \in S /\ above \notin S
    BY <2>4 DEF IsAncestor
  <2>6. ClosedUpwards(t, S \cup {s})
    BY <2>5 DEF ClosedUpwards
  <2>7. QED
    BY <1>4, <2>1, <2>2, <2>5, <2>6
<1>5. IsAncestor(t, above, n) => s # ROOT
  BY DEF IsAncestor
<1>6. QED
  BY <1>2, <1>3, <1>4, <1>5

-------------------------------------------------------------------------------
(* isAncestor.                                                             *)

ClimbStep(t, above, climb, w) ==
  /\ w[1] \in Present(t) /\ t[w[1]].supervisorId # ROOT
  /\ w[1] \notin w[2]
  /\ t[w[1]].supervisorId = above \/ climb[Onwards(t, w)]

LEMMA OnwardsWalk ==
  ASSUME NEW t, IsTree(t), NEW w \in Walks(t), w[1] \in Present(t),
         t[w[1]].supervisorId # ROOT
  PROVE  /\ Onwards(t, w) \in Walks(t)
         /\ Onwards(t, w)[1] = t[w[1]].supervisorId
         /\ Onwards(t, w)[2] = w[2] \cup {w[1]}
  BY DEF Walks, Onwards, IsTree

(***************************************************************************)
(* One solution of the loop: who is above a node without those seen.       *)
(***************************************************************************)
LEMMA ClimbSolution ==
  ASSUME NEW t, IsTree(t), NEW above
  PROVE  LET W == [w \in Walks(t) |-> IsAncestor(Without(t, w[2]), above, w[1])]
         IN  W = [w \in Walks(t) |-> ClimbStep(t, above, W, w)]
<1> DEFINE W == [w \in Walks(t) |-> IsAncestor(Without(t, w[2]), above, w[1])]
<1> SUFFICES ASSUME NEW w \in Walks(t)
             PROVE  IsAncestor(Without(t, w[2]), above, w[1])
                      = ClimbStep(t, above, W, w)
  OBVIOUS
<1> DEFINE n == w[1]
           u == Without(t, w[2])
           v == Without(t, w[2] \cup {n})
<1>1. /\ DOMAIN u = DOMAIN t /\ Present(u) = Present(t) \ w[2]
      /\ \A m \in Present(u) : u[m] = t[m]
      /\ IsTree(u)
  BY WithoutPresent
<1>2. ASSUME n \notin Present(u)
      PROVE  IsAncestor(u, above, n) <=> ClimbStep(t, above, W, w)
  BY <1>1, <1>2 DEF IsAncestor, ClimbStep
<1>3. ASSUME n \in Present(u), t[n].supervisorId = ROOT
      PROVE  IsAncestor(u, above, n) <=> ClimbStep(t, above, W, w)
  BY <1>1, <1>3 DEF IsAncestor, ClimbStep
<1>4. ASSUME n \in Present(u), t[n].supervisorId # ROOT
      PROVE  IsAncestor(u, above, n) <=> ClimbStep(t, above, W, w)
  <2>1. /\ DOMAIN v = DOMAIN t /\ Present(v) = Present(t) \ (w[2] \cup {n})
        /\ \A m \in Present(v) : v[m] = t[m]
    BY WithoutPresent
  <2>2. W[Onwards(t, w)] = IsAncestor(v, above, t[n].supervisorId)
    BY <1>1, <1>4, OnwardsWalk
  <2>3. IsAncestor(u, above, n)
          <=> t[n].supervisorId = above \/ IsAncestor(v, above, t[n].supervisorId)
    <3> HIDE DEF u, v
    <3>1. /\ DOMAIN v = DOMAIN u /\ Present(v) = Present(u) \ {n}
          /\ \A m \in Present(v) : v[m] = u[m]
          /\ u[n].supervisorId = t[n].supervisorId
      BY <1>1, <1>4, <2>1
    <3>2. QED
      BY <1>1, <1>4, <3>1, AncestorAvoiding
  <2>4. QED
    BY <1>1, <1>4, <2>2, <2>3 DEF ClimbStep
<1>5. IsAncestor(u, above, n) <=> ClimbStep(t, above, W, w)
  BY <1>2, <1>3, <1>4
<1>6. QED
  <2> HIDE DEF u, W
  <2>1. IsAncestor(u, above, n) \in BOOLEAN
    BY DEF IsAncestor
  <2>2. ClimbStep(t, above, W, w) \in BOOLEAN
    BY DEF ClimbStep
  <2>3. IsAncestor(u, above, n) = ClimbStep(t, above, W, w)
    BY <1>5, <2>1, <2>2
  <2>4. QED
    BY <2>3 DEF u

LEMMA ClimbUnique ==
  ASSUME NEW t, IsTree(t), NEW above, NEW f, NEW g,
         f = [w \in Walks(t) |-> ClimbStep(t, above, f, w)],
         g = [w \in Walks(t) |-> ClimbStep(t, above, g, w)],
         NEW x \in Walks(t)
  PROVE  f[x] = g[x]
<1> DEFINE T == {w \in Walks(t) : f[w] # g[w]}
<1> SUFFICES ASSUME T # {} PROVE FALSE
  OBVIOUS
<1>1. (\A w \in T : w[2] \in SUBSET DOMAIN t) /\ IsFiniteSet(DOMAIN t)
  BY DEF Walks, IsTree
<1>2. PICK w \in T : \A v \in T : w[2] \subseteq v[2] => v[2] = w[2]
  <2> HIDE DEF T
  <2>1. QED
    BY <1>1, LastWalk
<1>3. /\ f[w] = ClimbStep(t, above, f, w)
      /\ g[w] = ClimbStep(t, above, g, w)
  OBVIOUS
<1>4. w[1] \in Present(t) /\ t[w[1]].supervisorId # ROOT /\ w[1] \notin w[2]
      /\ f[Onwards(t, w)] # g[Onwards(t, w)]
  BY <1>3 DEF ClimbStep
<1>5. Onwards(t, w) \in T /\ Onwards(t, w)[2] = w[2] \cup {w[1]}
  BY <1>4, OnwardsWalk
<1>6. QED
  BY <1>2, <1>4, <1>5

(***************************************************************************)
(* The loop of isAncestor, whatever it has seen.                           *)
(***************************************************************************)
LEMMA ClimbIs ==
  ASSUME NEW t, IsTree(t), NEW above, NEW w \in Walks(t)
  PROVE  Climb(t, above)[w] = IsAncestor(Without(t, w[2]), above, w[1])
<1> DEFINE W == [v \in Walks(t) |-> IsAncestor(Without(t, v[2]), above, v[1])]
<1>1. W = [v \in Walks(t) |-> ClimbStep(t, above, W, v)]
  BY ClimbSolution
<1>2. Climb(t, above) = [v \in Walks(t) |-> ClimbStep(t, above, Climb(t, above), v)]
  <2> HIDE DEF W
  <2>1. QED
    BY <1>1 DEF Climb, ClimbStep
<1>3. Climb(t, above)[w] = W[w]
  <2> HIDE DEF W
  <2>1. QED
    BY <1>1, <1>2, ClimbUnique
<1>4. QED
  BY <1>3

(***************************************************************************)
(* isAncestor: its loop ends on every tree, one with cycles included, and  *)
(* tells whether its first node is above its second.                       *)
(***************************************************************************)
THEOREM IsAncestorLoopCorrect ==
  ASSUME NEW t, IsTree(t), NEW above, NEW n \in DOMAIN t
  PROVE  IsAncestorLoop(t, above, n) <=> IsAncestor(t, above, n)
<1>1. <<n, {}>> \in Walks(t)
  BY DEF Walks
<1>2. Climb(t, above)[<<n, {}>>] = IsAncestor(Without(t, {}), above, n)
  BY <1>1, ClimbIs
<1>3. QED
  BY <1>2, WithoutNone DEF IsAncestorLoop

-------------------------------------------------------------------------------
(* levelOf.                                                                *)

LevelWalks(t) == Present(t) \X SUBSET Present(t)

DepthStep(t, depth, w) ==
  IF t[w[1]].supervisorId \notin Present(t) \/ w[1] \in w[2]
  THEN 0 ELSE depth[Onwards(t, w)] + 1

ClimbedFrom(t, n, seen) ==
  LET u == Without(t, seen) IN
  {m \in Present(u) \cap ({n} \cup Ancestors(u, n)) : t[m].supervisorId \in Present(t)}

LEMMA OnwardsLevelWalk ==
  ASSUME NEW t, NEW w \in LevelWalks(t), t[w[1]].supervisorId \in Present(t)
  PROVE  /\ Onwards(t, w) \in LevelWalks(t)
         /\ Onwards(t, w)[1] = t[w[1]].supervisorId
         /\ Onwards(t, w)[2] = w[2] \cup {w[1]}
  BY DEF LevelWalks, Onwards

LEMMA ClimbedFromFinite ==
  ASSUME NEW t, IsTree(t), NEW n, NEW seen
  PROVE  IsFiniteSet(ClimbedFrom(t, n, seen))
<1>1. ClimbedFrom(t, n, seen) \in SUBSET DOMAIN t /\ IsFiniteSet(DOMAIN t)
  BY WithoutPresent DEF ClimbedFrom, IsTree, Present
<1>2. QED
  BY <1>1, FS_Subset

(***************************************************************************)
(* One step of the recursion: nothing is climbed, or one node more.        *)
(***************************************************************************)
LEMMA ClimbedFromStep ==
  ASSUME NEW t, IsTree(t), NEW n \in Present(t), NEW seen \in SUBSET Present(t)
  PROVE  LET s == t[n].supervisorId
             rest == ClimbedFrom(t, s, seen \cup {n})
         IN IF s \notin Present(t) \/ n \in seen
            THEN ClimbedFrom(t, n, seen) = {}
            ELSE ClimbedFrom(t, n, seen) = rest \cup {n} /\ n \notin rest
<1> DEFINE s == t[n].supervisorId
           u == Without(t, seen)
           v == Without(t, seen \cup {n})
           rest == ClimbedFrom(t, s, seen \cup {n})
<1>1. /\ DOMAIN u = DOMAIN t /\ Present(u) = Present(t) \ seen
      /\ \A m \in Present(u) : u[m] = t[m]
      /\ IsTree(u)
  BY WithoutPresent
<1>2. /\ DOMAIN v = DOMAIN t /\ Present(v) = Present(t) \ (seen \cup {n})
      /\ \A m \in Present(v) : v[m] = t[m]
  BY WithoutPresent
<1>3. /\ ClimbedFrom(t, n, seen) =
           {m \in Present(u) \cap ({n} \cup Ancestors(u, n)) :
              t[m].supervisorId \in Present(t)}
      /\ rest = {m \in Present(v) \cap ({s} \cup Ancestors(v, s)) :
                   t[m].supervisorId \in Present(t)}
  BY DEF ClimbedFrom
<1> HIDE DEF u, v, rest
<1>4. ASSUME n \in seen PROVE ClimbedFrom(t, n, seen) = {}
  <2>1. n \notin Present(u)
    BY <1>1, <1>4
  <2>2. Ancestors(u, n) = {}
    BY <2>1, AncestorPresent DEF Ancestors
  <2>3. QED
    BY <1>3, <2>1, <2>2
<1>5. ASSUME n \notin seen
      PROVE  \A above : IsAncestor(u, above, n)
                          <=> s # ROOT /\ (s = above \/ IsAncestor(v, above, s))
  <2>1. /\ n \in Present(u) /\ u[n].supervisorId = s
        /\ DOMAIN v = DOMAIN u /\ Present(v) = Present(u) \ {n}
        /\ \A m \in Present(v) : v[m] = u[m]
    BY <1>1, <1>2, <1>5
  <2>2. QED
    BY <1>1, <2>1, AncestorAvoiding
<1>6. ASSUME n \notin seen, s \notin Present(t) PROVE ClimbedFrom(t, n, seen) = {}
  <2>1. s \notin Present(v)
    BY <1>2, <1>6
  <2>2. \A above : ~IsAncestor(v, above, s)
    BY <2>1, AncestorPresent
  <2>3. Ancestors(u, n) \subseteq {s}
    BY <1>5, <1>6, <2>2 DEF Ancestors
  <2>4. QED
    BY <1>1, <1>3, <1>6, <2>3
<1>7. ASSUME n \notin seen, s \in Present(t)
      PROVE  ClimbedFrom(t, n, seen) = rest \cup {n} /\ n \notin rest
  <2>1. s # ROOT /\ s \in DOMAIN t
    BY <1>7 DEF IsTree, Present
  <2>2. Ancestors(u, n) = {s} \cup Ancestors(v, s)
    BY <1>1, <1>2, <1>5, <1>7, <2>1 DEF Ancestors
  <2>3. n \notin rest
    BY <1>2, <1>3
  <2>4. Present(u) = Present(v) \cup {n}
    BY <1>1, <1>2, <1>7
  <2>5. ClimbedFrom(t, n, seen) = rest \cup {n}
    BY <1>3, <1>7, <2>2, <2>4
  <2>6. QED
    BY <2>3, <2>5
<1>8. QED
  BY <1>4, <1>6, <1>7 DEF rest

LEMMA DepthSolution ==
  ASSUME NEW t, IsTree(t)
  PROVE  LET W == [w \in LevelWalks(t) |-> Cardinality(ClimbedFrom(t, w[1], w[2]))]
         IN  W = [w \in LevelWalks(t) |-> DepthStep(t, W, w)]
<1> DEFINE W == [w \in LevelWalks(t) |-> Cardinality(ClimbedFrom(t, w[1], w[2]))]
<1> SUFFICES ASSUME NEW w \in LevelWalks(t)
             PROVE  Cardinality(ClimbedFrom(t, w[1], w[2])) = DepthStep(t, W, w)
  OBVIOUS
<1> DEFINE n == w[1]
           seen == w[2]
           s == t[n].supervisorId
           rest == ClimbedFrom(t, s, seen \cup {n})
<1>1. n \in Present(t) /\ seen \in SUBSET Present(t)
  BY DEF LevelWalks
<1>2. IF s \notin Present(t) \/ n \in seen
      THEN ClimbedFrom(t, n, seen) = {}
      ELSE ClimbedFrom(t, n, seen) = rest \cup {n} /\ n \notin rest
  BY <1>1, ClimbedFromStep
<1>3. CASE s \notin Present(t) \/ n \in seen
  BY <1>2, <1>3, FS_EmptySet DEF DepthStep
<1>4. CASE s \in Present(t) /\ n \notin seen
  <2>1. W[Onwards(t, w)] = Cardinality(rest)
    BY <1>4, OnwardsLevelWalk
  <2>2. IsFiniteSet(rest)
    BY ClimbedFromFinite
  <2>3. Cardinality(ClimbedFrom(t, n, seen)) = Cardinality(rest) + 1
    <3> HIDE DEF rest
    <3>1. QED
      BY <1>2, <1>4, <2>2, FS_AddElement
  <2>4. DepthStep(t, W, w) = W[Onwards(t, w)] + 1
    BY <1>4 DEF DepthStep
  <2>5. QED
    BY <2>1, <2>3, <2>4
<1>5. QED
  BY <1>3, <1>4

LEMMA DepthUnique ==
  ASSUME NEW t, IsTree(t), NEW f, NEW g,
         f = [w \in LevelWalks(t) |-> DepthStep(t, f, w)],
         g = [w \in LevelWalks(t) |-> DepthStep(t, g, w)],
         NEW x \in LevelWalks(t)
  PROVE  f[x] = g[x]
<1> DEFINE T == {w \in LevelWalks(t) : f[w] # g[w]}
<1> SUFFICES ASSUME T # {} PROVE FALSE
  OBVIOUS
<1>1. (\A w \in T : w[2] \in SUBSET DOMAIN t) /\ IsFiniteSet(DOMAIN t)
  BY DEF LevelWalks, IsTree, Present
<1>2. PICK w \in T : \A v \in T : w[2] \subseteq v[2] => v[2] = w[2]
  <2> HIDE DEF T
  <2>1. QED
    BY <1>1, LastWalk
<1>3. /\ f[w] = DepthStep(t, f, w)
      /\ g[w] = DepthStep(t, g, w)
  OBVIOUS
<1>4. t[w[1]].supervisorId \in Present(t) /\ w[1] \notin w[2]
      /\ f[Onwards(t, w)] # g[Onwards(t, w)]
  BY <1>3 DEF DepthStep
<1>5. Onwards(t, w) \in T /\ Onwards(t, w)[2] = w[2] \cup {w[1]}
  BY <1>4, OnwardsLevelWalk
<1>6. QED
  BY <1>2, <1>4, <1>5

LEMMA DepthIs ==
  ASSUME NEW t, IsTree(t), NEW w \in LevelWalks(t)
  PROVE  Depth(t)[w] = Cardinality(ClimbedFrom(t, w[1], w[2]))
<1> DEFINE W == [v \in LevelWalks(t) |-> Cardinality(ClimbedFrom(t, v[1], v[2]))]
<1>1. W = [v \in LevelWalks(t) |-> DepthStep(t, W, v)]
  BY DepthSolution
<1>2. Depth(t) = [v \in LevelWalks(t) |-> DepthStep(t, Depth(t), v)]
  <2> HIDE DEF W
  <2>1. QED
    BY <1>1 DEF Depth, DepthStep, LevelWalks
<1>3. Depth(t)[w] = W[w]
  <2> HIDE DEF W
  <2>1. QED
    BY <1>1, <1>2, DepthUnique
<1>4. QED
  BY <1>3

(***************************************************************************)
(* levelOf: its recursion ends on every tree and counts the supervisors    *)
(* climbed, also into a cycle or to a missing node.                        *)
(***************************************************************************)
THEOREM LevelOfLoopCorrect ==
  ASSUME NEW t, IsTree(t), NEW n \in Present(t)
  PROVE  LevelOfLoop(t, n) = LevelOf(t, n)
<1>1. <<n, {}>> \in LevelWalks(t)
  BY DEF LevelWalks
<1>2. Depth(t)[<<n, {}>>] = Cardinality(ClimbedFrom(t, n, {}))
  BY <1>1, DepthIs
<1>3. Ancestors(Without(t, {}), n) = Ancestors(t, n)
  BY WithoutNone, WithoutPresent DEF Ancestors
<1>4. Present(Without(t, {})) = Present(t)
  BY WithoutPresent
<1>5. ClimbedFrom(t, n, {}) = {m \in Present(t) \cap ({n} \cup Ancestors(t, n)) :
                                 t[m].supervisorId \in Present(t)}
  BY <1>3, <1>4 DEF ClimbedFrom
<1>6. QED
  BY <1>2, <1>5 DEF LevelOfLoop, LevelOf

-------------------------------------------------------------------------------
(* buildTree.                                                              *)

UnderStep(t, under, n) == {n} \cup UNION {under[m] : m \in Children(t, n)}

Below(t, n) == {m \in Present(t) : m = n \/ IsAncestor(t, n, m)}

LEMMA BelowStep ==
  ASSUME NEW t, IsTree(t), NEW n \in Present(t)
  PROVE  Below(t, n) = {n} \cup UNION {Below(t, k) : k \in Children(t, n)}
<1>0. n # ROOT
  BY DEF IsTree, Present
<1>1. ASSUME NEW k \in Children(t, n), NEW m \in Below(t, k)
      PROVE  m \in Below(t, n)
  <2>1. k \in Present(t) /\ t[k].supervisorId = n
    BY DEF Children
  <2>2. IsAncestor(t, t[k].supervisorId, m)
    BY <1>0, <2>1, AncestorUp DEF Below
  <2>3. QED
    BY <2>1, <2>2 DEF Below
<1>2. ASSUME NEW m \in Below(t, n), m # n
      PROVE  \E k \in Children(t, n) : m \in Below(t, k)
  <2> SUFFICES ASSUME \A k \in Children(t, n) : ~(k = m \/ IsAncestor(t, k, m))
               PROVE  FALSE
    BY <1>2 DEF Below
  <2> DEFINE S == {x \in DOMAIN t : x # n /\ IsAncestor(t, x, m)}
  <2>1. m \in Present(t) /\ IsAncestor(t, n, m) /\ t[m].supervisorId # ROOT
    BY <1>2, AncestorPresent DEF Below
  <2>2. t[m].supervisorId \in S
    <3>1. t[m].supervisorId # n
      BY <2>1 DEF Children
    <3>2. IsAncestor(t, t[m].supervisorId, m)
      BY <2>1, AncestorUp
    <3>3. QED
      BY <2>1, <3>1, <3>2 DEF IsTree
  <2>3. ASSUME NEW x \in S, x \in Present(t), t[x].supervisorId # ROOT
        PROVE  t[x].supervisorId \in S
    <3>1. t[x].supervisorId # n
      BY <2>3 DEF Children
    <3>2. IsAncestor(t, t[x].supervisorId, m)
      BY <2>1, <2>3, AncestorUp
    <3>3. QED
      BY <2>3, <3>1, <3>2 DEF IsTree
  <2>4. ClosedUpwards(t, S)
    BY <2>3 DEF ClosedUpwards
  <2>5. n \in S
    BY <2>1, <2>2, <2>4 DEF IsAncestor
  <2>6. QED
    BY <2>5
<1>3. n \in Below(t, n)
  BY DEF Below
<1>4. QED
  BY <1>1, <1>2, <1>3

(***************************************************************************)
(* Whatever is below a node hangs from it.                                 *)
(***************************************************************************)
LEMMA UnderHasAll ==
  ASSUME NEW t, IsTree(t), NEW f,
         \A n \in Present(t) : f[n] = UnderStep(t, f, n),
         NEW n \in Present(t)
  PROVE  Below(t, n) \subseteq f[n]
<1> SUFFICES ASSUME NEW m \in Below(t, n) PROVE m \in f[n]
  OBVIOUS
<1> DEFINE S == {x \in DOMAIN t : x \in Present(t) => m \in f[x]}
<1>1. m \in Present(t) /\ m \in f[m]
  BY DEF Below, UnderStep
<1>2. ASSUME NEW x \in Present(t), m \in f[x], t[x].supervisorId \in Present(t)
      PROVE  m \in f[t[x].supervisorId]
  BY <1>2 DEF UnderStep, Children
<1>3. ClosedUpwards(t, S)
  BY <1>2 DEF ClosedUpwards, IsTree
<1>4. m \in S /\ S \in SUBSET DOMAIN t
  BY <1>1 DEF Present
<1>5. n \in S
  BY <1>3, <1>4, AncestorsStay DEF Below
<1>6. QED
  BY <1>5

LEMMA ShownNotOwnAncestor ==
  ASSUME NEW t, IsTree(t), NEW n \in Shown(t)
  PROVE  ~IsAncestor(t, n, n)
<1> SUFFICES ASSUME IsAncestor(t, n, n) PROVE FALSE
  OBVIOUS
<1> DEFINE C == {x \in Present(t) : IsAncestor(t, n, x)}
<1>1. n \in C /\ C \in SUBSET DOMAIN t
  BY DEF Shown, Present
<1>2. \A x \in C : t[x].supervisorId \in C
  BY <1>1, AncestorStep, AncestorPresent
<1>3. PICK r \in Roots(t) : r = n \/ IsAncestor(t, r, n)
  BY DEF Shown, Ancestors
<1>4. ClosedUpwards(t, C)
  BY <1>2 DEF ClosedUpwards
<1>5. r \in C
  BY <1>1, <1>3, <1>4, AncestorsStay
<1>6. QED
  BY <1>2, <1>5 DEF Roots

(***************************************************************************)
(* And nothing else does, from a node that is shown: among nodes that had  *)
(* something more, the one with most nodes above it would have a child     *)
(* that has it too.                                                        *)
(***************************************************************************)
LEMMA UnderHasOnly ==
  ASSUME NEW t, IsTree(t), NEW f,
         \A n \in Present(t) : f[n] = UnderStep(t, f, n),
         NEW n \in Shown(t)
  PROVE  f[n] \subseteq Below(t, n)
<1> SUFFICES ASSUME NEW m \in f[n], m \notin Below(t, n) PROVE FALSE
  OBVIOUS
<1> DEFINE B == {x \in Shown(t) : m \in f[x] /\ m \notin Below(t, x)}
           U == {(DOMAIN t) \ Ancestors(t, x) : x \in B}
<1>1. U \in SUBSET SUBSET DOMAIN t /\ U # {} /\ IsFiniteSet(DOMAIN t)
  BY DEF IsTree
<1>2. (\A y \in U : \E x \in B : y = (DOMAIN t) \ Ancestors(t, x))
      /\ \A x \in B : (DOMAIN t) \ Ancestors(t, x) \in U
  OBVIOUS
<1>3. PICK x \in B : \A y \in U : y \subseteq (DOMAIN t) \ Ancestors(t, x)
                                    => y = (DOMAIN t) \ Ancestors(t, x)
  <2> HIDE DEF U
  <2>1. PICK y \in U : \A z \in U : z \subseteq y => z = y
    BY <1>1, MinimalSubset
  <2>2. QED
    BY <1>2, <2>1
<1>4. x \in Present(t) /\ x \in DOMAIN t /\ x # ROOT
  BY DEF Shown, IsTree, Present
<1>5. PICK k \in Children(t, x) : m \in f[k]
  <2>1. m # x
    BY <1>4 DEF Below
  <2>2. QED
    BY <1>4, <2>1 DEF UnderStep
<1>6. k \in Present(t) /\ t[k].supervisorId = x
  BY DEF Children
<1>7. m \notin Below(t, k)
  BY <1>4, BelowStep
<1>8. k \in Shown(t)
  <2>1. PICK r \in Roots(t) : r = x \/ IsAncestor(t, r, x)
    BY DEF Shown, Ancestors
  <2>2. IsAncestor(t, r, k)
    BY <1>4, <1>6, <2>1, AncestorStep
  <2>3. QED
    BY <1>6, <2>2 DEF Shown, Ancestors, Roots, Present
<1>9. Ancestors(t, k) = {x} \cup Ancestors(t, x)
  BY <1>4, <1>6, AncestorStep DEF Ancestors
<1>10. (DOMAIN t) \ Ancestors(t, k) = (DOMAIN t) \ Ancestors(t, x)
  <2>1. (DOMAIN t) \ Ancestors(t, k) \in U
    BY <1>2, <1>5, <1>7, <1>8
  <2>2. QED
    BY <1>3, <1>9, <2>1
<1>11. x \in Ancestors(t, x)
  BY <1>4, <1>9, <1>10
<1>12. QED
  BY <1>11, ShownNotOwnAncestor DEF Ancestors

LEMMA UnderIs ==
  ASSUME NEW t, IsTree(t), NEW n \in Shown(t)
  PROVE  Under(t)[n] = Below(t, n)
<1> DEFINE W == [m \in Present(t) |-> Below(t, m)]
<1>1. W = [m \in Present(t) |-> UnderStep(t, W, m)]
  <2> SUFFICES ASSUME NEW m \in Present(t) PROVE Below(t, m) = UnderStep(t, W, m)
    OBVIOUS
  <2>1. {W[k] : k \in Children(t, m)} = {Below(t, k) : k \in Children(t, m)}
    BY DEF Children
  <2>2. QED
    BY <2>1, BelowStep DEF UnderStep
<1>2. Under(t) = [m \in Present(t) |-> UnderStep(t, Under(t), m)]
  <2> HIDE DEF W
  <2>1. QED
    BY <1>1 DEF Under, UnderStep
<1>3. \A m \in Present(t) : Under(t)[m] = UnderStep(t, Under(t), m)
  BY <1>2
<1> HIDE DEF W
<1>4. Below(t, n) \subseteq Under(t)[n]
  BY <1>3, UnderHasAll DEF Shown
<1>5. Under(t)[n] \subseteq Below(t, n)
  BY <1>3, UnderHasOnly
<1>6. QED
  BY <1>4, <1>5

(***************************************************************************)
(* buildTree shows the nodes that are under a root, on every tree.         *)
(***************************************************************************)
THEOREM BuildTreeCorrect ==
  ASSUME NEW t, IsTree(t)
  PROVE  ShownByBuildTree(t) = Shown(t)
<1>1. Roots(t) \subseteq Shown(t)
  BY DEF Roots, Shown
<1>2. \A r \in Roots(t) : Under(t)[r] = Below(t, r)
  BY <1>1, UnderIs
<1>3. \A m : m \in ShownByBuildTree(t) <=> \E r \in Roots(t) : m \in Below(t, r)
  BY <1>2 DEF ShownByBuildTree
<1>4. \A m : m \in Shown(t) <=> \E r \in Roots(t) : m \in Below(t, r)
  BY DEF Shown, Below, Ancestors, Roots, Present
<1>5. QED
  BY <1>3, <1>4

-------------------------------------------------------------------------------
(* The properties of MCOrgTree.                                            *)

TypeOK == tree \in [Id -> Link \cup {Undefined}]

LEMMA TypeCorrect == Spec => []TypeOK
<1>1. Init => TypeOK
  BY DEF Init, TypeOK
<1>2. TypeOK /\ [Next]_tree => TypeOK'
  BY DEF TypeOK, Next, Relink, Remove
<1>3. QED
  BY <1>1, <1>2, PTL DEF Spec

LEMMA StateIsTree ==
  ASSUME TypeOK
  PROVE  IsTree(tree) /\ DOMAIN tree = Id
  BY IdAssumption DEF TypeOK, IsTree, Present, Link

(***************************************************************************)
(* On every tree the loop of isAncestor and IsAncestor agree.              *)
(***************************************************************************)
THEOREM IsAncestorAgreesHolds == Spec => []IsAncestorAgrees
<1>1. TypeOK => IsAncestorAgrees
  BY StateIsTree, IsAncestorLoopCorrect DEF IsAncestorAgrees
<1>2. QED
  BY <1>1, TypeCorrect, PTL

(***************************************************************************)
(* On every tree the recursion of recomputeLevels and LevelOf agree.       *)
(***************************************************************************)
THEOREM LevelOfAgreesHolds == Spec => []LevelOfAgrees
<1>1. TypeOK => LevelOfAgrees
  BY StateIsTree, LevelOfLoopCorrect DEF LevelOfAgrees
<1>2. QED
  BY <1>1, TypeCorrect, PTL

(***************************************************************************)
(* buildTree loses nodes of trees with cycles, and of no others.           *)
(***************************************************************************)
THEOREM TreeShowsAllHolds == Spec => []TreeShowsAll
<1>1. TypeOK => TreeShowsAll
  BY StateIsTree, BuildTreeCorrect, ShownUnlessCycle DEF TreeShowsAll
<1>2. QED
  BY <1>1, TypeCorrect, PTL

(***************************************************************************)
(* applyReparent refuses the moves that would close a cycle, and no more.  *)
(***************************************************************************)
THEOREM ReparentGuardsExactHolds == Spec => []ReparentGuardsExact
<1>1. TypeOK => ReparentGuardsExact
  <2> SUFFICES ASSUME TypeOK, Acyclic(tree), NEW n \in Present(tree), NEW s \in Id
               PROVE  (s = n \/ IsAncestorLoop(tree, n, s))
                        <=> ~Acyclic([tree EXCEPT ![n].supervisorId = s])
    BY DEF ReparentGuardsExact
  <2> DEFINE moved == [tree EXCEPT ![n].supervisorId = s]
  <2>1. IsTree(tree) /\ DOMAIN tree = Id /\ n \in Id /\ tree[n] \in Link
    BY StateIsTree DEF Present, TypeOK
  <2>2. /\ moved[n] \in Link /\ moved[n].supervisorId = s
        /\ \A m \in Id \ {n} : moved[m] = tree[m]
        /\ DOMAIN moved = Id
    BY <2>1 DEF Link
  <2>3. Present(moved) = Present(tree)
    BY <2>1, <2>2, IdAssumption DEF Present
  <2> HIDE DEF moved
  <2>4. Acyclic(moved) <=> s # n /\ ~IsAncestor(tree, n, s)
    BY <2>1, <2>2, <2>3, ReparentTestExact DEF Present
  <2>5. IsAncestorLoop(tree, n, s) <=> IsAncestor(tree, n, s)
    BY <2>1, IsAncestorLoopCorrect
  <2>6. QED
    BY <2>4, <2>5 DEF moved
<1>2. QED
  BY <1>1, TypeCorrect, PTL
===============================================================================
