----------------------------- MODULE OrgTreeLoops -----------------------------
(***************************************************************************)
(* isAncestor, recomputeLevels and buildTree as organization.service.ts    *)
(* writes them, with their loops, their recursion and their seen sets, to  *)
(* be compared with the definitions of OrgTree on every tree, those with   *)
(* cycles and missing supervisors included.                                *)
(*                                                                         *)
(* A loop is a recursive function of a walk: the id it has come to and the *)
(* ids it has seen.                                                        *)
(***************************************************************************)
EXTENDS OrgTree

Walks(t) == (DOMAIN t) \X (SUBSET DOMAIN t)

Onwards(t, w) == <<t[w[1]].supervisorId, w[2] \cup {w[1]}>>

(***************************************************************************)
(* while (current && current.supervisorId !== ROOT && !seen.has(...)).     *)
(***************************************************************************)
Climb(t, above) ==
  LET climb[w \in Walks(t)] ==
        /\ w[1] \in Present(t) /\ t[w[1]].supervisorId # ROOT
        /\ w[1] \notin w[2]
        /\ t[w[1]].supervisorId = above \/ climb[Onwards(t, w)]
  IN climb

\* Mutant: the loop's body runs once.
IsAncestorOnce(t, above, n) == n \in Present(t) /\ t[n].supervisorId = above

IsAncestorLoop(t, above, n) == Climb(t, above)[<<n, {}>>]

(***************************************************************************)
(* levelOf: 0 at ROOT, under a missing supervisor and at a node seen.      *)
(***************************************************************************)
\* Mutant: a missing supervisor counts as a level.
DepthWithMissing(t) ==
  LET depth[w \in Walks(t)] ==
        IF w[1] \notin Present(t) \/ t[w[1]].supervisorId = ROOT \/ w[1] \in w[2]
        THEN 0 ELSE depth[Onwards(t, w)] + 1
  IN depth

LevelOfWithMissing(t, n) == DepthWithMissing(t)[<<n, {}>>]

Depth(t) ==
  LET depth[w \in Present(t) \X SUBSET Present(t)] ==
        IF t[w[1]].supervisorId \notin Present(t) \/ w[1] \in w[2]
        THEN 0 ELSE depth[Onwards(t, w)] + 1
  IN depth

LevelOfLoop(t, n) == Depth(t)[<<n, {}>>]

(***************************************************************************)
(* The nodes that hang, at any depth, from a node and from the roots that  *)
(* buildTree returns.                                                      *)
(***************************************************************************)
Children(t, n) == {m \in Present(t) : t[m].supervisorId = n}

Under(t) ==
  LET under[n \in Present(t)] ==
        {n} \cup UNION {under[m] : m \in Children(t, n)}
  IN under

ShownByBuildTree(t) == UNION {Under(t)[n] : n \in Roots(t)}
===============================================================================
