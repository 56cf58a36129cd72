------------------------- MODULE OrganizationTreeProofs -------------------------
(***************************************************************************)
(* Theorems about the tree that Organization keeps, for any number of      *)
(* calls, users and nodes, however calls overlap and fail, however stale   *)
(* their reads and however late a write is repeated: what can close a      *)
(* cycle, what can break the hierarchy, and when the levels are right.     *)
(***************************************************************************)
EXTENDS OrganizationProofs, OrgTreeProofs

-------------------------------------------------------------------------------
(* What can close a cycle.                                                 *)

LEMMA NodeFacts ==
  ASSUME TypeOK, HistoryInv, NEW n \in Present(nodes)
  PROVE  /\ n \in Ids /\ nodes[n] \in Node /\ nodes[n] \in written
         /\ nodes[n].id = n /\ Known(n)
         /\ nodes[n].supervisorId # ROOT => Known(nodes[n].supervisorId)
  BY DEF TypeOK, HistoryInv, Present, Tree, Known, SupervisorsKnown

LEMMA UnknownAbsent ==
  ASSUME TypeOK, HistoryInv, NEW c \in Calls, ~Known(c)
  PROVE  nodes[c] = Undefined
  BY NodeFacts DEF Present, TypeOK, Tree, Ids

LEMMA OtherMovers ==
  ASSUME TypeOK, NEW c \in Calls, OnlyOf(c)
  PROVE  \A d \in Calls \ {c} : d \in Movers' <=> d \in Movers
  BY OthersSame DEF Movers

(***************************************************************************)
(* What is noted of the updates when call c takes a step.                  *)
(***************************************************************************)
LEMMA NoteEdit ==
  ASSUME TypeOK, NEW c \in Calls, OnlyOf(c), Note(c)
  PROVE  /\ disorder \/ (c \in crossed /\ nodes' # nodes) => disorder'
         /\ \A d \in Movers' \ crossed' :
              d # c => /\ d \in Movers \ crossed
                       /\ c \notin Movers \/ nodes' = nodes
         /\ c \in Movers' \ crossed' => c \notin crossed /\ ~Misled(c)
  BY OtherMovers DEF Note, TableChanges, Movers

(***************************************************************************)
(* A step that changes no node but to remove it, and whose call, if it is  *)
(* an update that was not crossed, has no puts but those it had, or new    *)
(* ones that close no cycle.                                               *)
(***************************************************************************)
LEMMA EditKept ==
  ASSUME TypeOK, EditInv, NEW c \in Calls, OnlyOf(c), Note(c),
         nodes' \in Tree,
         \A n \in Ids : nodes'[n] \in {nodes[n], Undefined},
         c \in Movers' \ crossed' =>
           \/ c \in Movers /\ outstanding'[c] \subseteq outstanding[c]
           \/ disorder \/ \A u \in Mixtures(c)' : Acyclic(u),
         pc'[c] = "putNodes" /\ call'[c].op = "createNode" => PutsItsOwn(c)'
  PROVE  EditInv'
<1>1. \A d \in Calls :
        pc'[d] = "putNodes" /\ call'[d].op = "createNode" => PutsItsOwn(d)'
  BY OthersSame DEF EditInv, PutsItsOwn
<1> SUFFICES ASSUME ~disorder'
             PROVE  /\ Acyclic(nodes')
                    /\ \A r \in Movers' \ crossed' :
                         \A u \in Mixtures(r)' : Acyclic(u)
  BY <1>1 DEF EditInv
<1>2. ~disorder
  BY NoteEdit
<1>3. Acyclic(nodes')
  BY <1>2, FewerAcyclic DEF EditInv, Present, TypeOK, Tree
<1>4. ASSUME NEW r \in Movers' \ crossed', NEW u \in Mixtures(r)',
             r \in Movers, outstanding'[r] \subseteq outstanding[r]
      PROVE  Acyclic(u)
  <2> DEFINE t == [n \in Ids |-> IF u[n] = Undefined THEN nodes[n] ELSE u[n]]
  <2>1. r \in Calls /\ r \in Movers \ crossed
    BY <1>4, NoteEdit DEF Movers
  <2>2. \A n \in Ids :
          u[n] = nodes'[n] \/ (u[n] \in outstanding'[r] /\ u[n].id = n)
    BY <1>4 DEF Mixtures
  <2>3. \A n \in Ids :
          \/ t[n] = nodes[n]
          \/ t[n] = u[n] /\ u[n] \in outstanding[r] /\ u[n].id = n
    BY <1>4, <2>2
  <2>4. t \in Mixtures(r)
    BY <2>3 DEF Mixtures
  <2>5. DOMAIN u = Ids
    BY <1>4 DEF Mixtures
  <2>6. Present(u) \subseteq Present(t)
        /\ \A n \in Present(u) : u[n].supervisorId = t[n].supervisorId
    BY <2>5 DEF Present
  <2>7. Acyclic(t)
    BY <1>2, <2>1, <2>4 DEF EditInv
  <2> HIDE DEF t
  <2>8. QED
    BY <2>6, <2>7, FewerAcyclic
<1>5. ASSUME NEW r \in Movers' \ crossed', NEW u \in Mixtures(r)'
      PROVE  Acyclic(u)
  <2>1. CASE r # c
    <3>1. r \in Movers /\ outstanding'[r] \subseteq outstanding[r]
      BY <1>5, <2>1, NoteEdit, OthersSame DEF Movers
    <3>2. QED
      BY <1>4, <1>5, <3>1
  <2>2. CASE r = c
    BY <1>2, <1>4, <1>5, <2>2
  <2>3. QED
    BY <2>1, <2>2
<1>6. QED
  BY <1>3, <1>5

LEMMA SameTree ==
  ASSUME TypeOK, UNCHANGED nodes
  PROVE  nodes' \in Tree /\ \A n \in Ids : nodes'[n] \in {nodes[n], Undefined}
  BY DEF TypeOK

(***************************************************************************)
(* Calls that arrive.                                                      *)
(***************************************************************************)
LEMMA ArriveEdit ==
  ASSUME TypeOK, EditInv, NEW c \in Calls, Note(c), Arrive(c)
  PROVE  EditInv'
<1>1. PICK await \in {"getByUserId", "getAll", "getNode"} :
        \E args : Begin(c, args, await)
  BY DEF Arrive, CreateNode, UpdateNode, AssignSupervisor, DeleteNode
<1>2. PICK args : Begin(c, args, await)
  BY <1>1
<1>3. /\ OnlyOf(c) /\ pc'[c] = await /\ pc[c] = "unsent"
      /\ outstanding'[c] = outstanding[c]
  BY <1>2, BeginOnly
<1>4. UNCHANGED nodes
  BY <1>2 DEF Begin, tables
<1>5. c \notin Movers'
  BY <1>3 DEF Movers, TypeOK, FrameOK
<1>6. QED
  BY <1>3, <1>4, <1>5, SameTree, EditKept

(***************************************************************************)
(* Calls that are answered or go on, and puts that fail.                   *)
(***************************************************************************)
LEMMA AnswerEdit ==
  ASSUME TypeOK, EditInv, NEW c \in Calls, Note(c), NEW status, Answer(c, status),
         UNCHANGED <<outstanding, nodes>>, pc[c] \notin {"putNodes", "abandoned"}
  PROVE  EditInv'
<1>1. OnlyOf(c) /\ pc'[c] = "answered"
  BY DEF TypeOK, OnlyOf, Answer, Leave
<1>2. c \notin Movers'
  BY DEF Movers, TypeOK, FrameOK
<1>3. QED
  BY <1>1, <1>2, SameTree, EditKept

LEMMA ContinueEdit ==
  ASSUME TypeOK, EditInv, NEW c \in Calls, NEW await, NEW entry, Note(c),
         Continue(c, await, entry), UNCHANGED outstanding, await # "putNodes",
         pc[c] \in {"getByUserId", "getSupervisor", "getNode", "getSubordinates",
                    "delete"},
         nodes' \in Tree, \A n \in Ids : nodes'[n] \in {nodes[n], Undefined}
  PROVE  EditInv'
<1>1. OnlyOf(c) /\ pc'[c] = await
  BY ContinueOnly
<1>2. c \notin Movers'
  BY DEF Movers, TypeOK, FrameOK
<1>3. QED
  BY <1>1, <1>2, EditKept

LEMMA PutNewNodeEdit ==
  ASSUME TypeOK, EditInv, NEW c \in Calls, Note(c), NEW level, PutNewNode(c, level),
         pc[c] \in {"getByUserId", "getSupervisor"}
  PROVE  EditInv'
<1>1. /\ OnlyOf(c) /\ pc'[c] = "putNodes" /\ call'[c] = call[c]
      /\ outstanding'[c] = {NewNode(c, level)}
  BY SendPutsOnly DEF PutNewNode
<1>2. UNCHANGED nodes
  BY DEF PutNewNode, SendPuts, tables
<1>3. call[c].op = "createNode"
  BY DEF TypeOK, FrameOK, CreateArgs
<1>4. c \notin Movers' /\ PutsItsOwn(c)'
  BY <1>1, <1>3 DEF Movers, PutsItsOwn, NewNode
<1>5. QED
  BY <1>1, <1>2, <1>4, SameTree, EditKept

LEMMA PutFailsEdit ==
  ASSUME TypeOK, EditInv, NEW c \in Calls, Note(c), PutFails(c)
  PROVE  EditInv'
<1>1. PICK n \in outstanding[c] :
        /\ outstanding' = [outstanding EXCEPT ![c] = @ \ {n}]
        /\ Leave(c, IF outstanding[c] = {n} THEN "answered" ELSE "abandoned", 500)
        /\ UNCHANGED tables
  BY DEF PutFails
<1>2. /\ OnlyOf(c) /\ outstanding'[c] = outstanding[c] \ {n}
      /\ pc'[c] = IF outstanding[c] = {n} THEN "answered" ELSE "abandoned"
  BY <1>1 DEF TypeOK, OnlyOf, Leave
<1>3. UNCHANGED nodes
  BY <1>1 DEF tables
<1>4. c \in Movers' => c \in Movers
  <2> SUFFICES ASSUME pc'[c] = "abandoned" PROVE c \in Movers
    BY <1>2 DEF Movers, TypeOK
  <2>1. ~PutsItsOwn(c)
    BY <1>1, <1>2 DEF PutsItsOwn
  <2>2. pc[c] \in {"putNodes", "abandoned"}
    BY <1>1 DEF TypeOK, FrameOK
  <2>3. pc[c] = "putNodes" => call[c] \in UpdateArgs
    BY <2>1 DEF EditInv, TypeOK, FrameOK, CreateArgs
  <2>4. pc[c] = "putNodes" => call[c].op = "updateNode"
    BY <2>3 DEF UpdateArgs
  <2>5. QED
    BY <2>2, <2>4 DEF Movers
<1>5. QED
  BY <1>2, <1>3, <1>4, SameTree, EditKept

(***************************************************************************)
(* A put of the reparenting lands: the table was one of the mixtures.      *)
(***************************************************************************)
LEMMA MoveLands ==
  ASSUME TypeOK, EditInv, NEW c \in Movers, Note(c), PutLands(c)
  PROVE  EditInv'
<1>1. PICK n \in outstanding[c] :
        /\ nodes' = [nodes EXCEPT ![n.id] = n]
        /\ outstanding' = [outstanding EXCEPT ![c] = @ \ {n}]
        /\ \/ UNCHANGED handlers
           \/ Continue(c, "writeAudit", held[c])
           \/ Leave(c, "answered", 500)
  BY DEF PutLands
<1>2. c \in Calls
  BY DEF Movers
<1>3. OnlyOf(c) /\ outstanding'[c] = outstanding[c] \ {n}
  BY <1>1, <1>2 DEF TypeOK, OnlyOf, handlers, Continue, Leave
<1>4. n \in Node /\ n.id \in Ids
  BY <1>2 DEF TypeOK, Node
<1>5. pc'[c] = "putNodes" => call'[c].op # "createNode"
  BY <1>1, <1>2 DEF handlers, Continue, Leave, Movers, TypeOK
<1>6. \A m \in Ids :
        nodes'[m] = nodes[m] \/ (nodes'[m] \in outstanding[c] /\ nodes'[m].id = m)
  BY <1>1, <1>4 DEF TypeOK, Tree
<1>7. \A u \in Mixtures(c)' : u \in Mixtures(c)
  <2> SUFFICES ASSUME NEW u \in Mixtures(c)' PROVE u \in Mixtures(c)
    OBVIOUS
  <2>1. \A m \in Ids :
          u[m] = nodes'[m] \/ (u[m] \in outstanding'[c] /\ u[m].id = m)
    BY DEF Mixtures
  <2>2. \A m \in Ids :
          u[m] = nodes[m] \/ (u[m] \in outstanding[c] /\ u[m].id = m)
    BY <1>3, <1>6, <2>1
  <2>3. u = [m \in Ids |-> u[m]]
    BY DEF Mixtures
  <2>4. QED
    BY <2>2, <2>3 DEF Mixtures
<1>8. nodes' \in Mixtures(c)
  <2>1. nodes' = [m \in Ids |-> nodes'[m]]
    BY <1>1, <1>4 DEF TypeOK, Tree
  <2>2. QED
    BY <1>6, <2>1 DEF Mixtures
<1>9. \A d \in Calls :
        pc'[d] = "putNodes" /\ call'[d].op = "createNode" => PutsItsOwn(d)'
  BY <1>2, <1>3, <1>5, OthersSame DEF EditInv, PutsItsOwn
<1>10. CASE nodes' = nodes
  BY <1>2, <1>3, <1>5, <1>10, SameTree, EditKept
<1>11. CASE nodes' # nodes
  <2> SUFFICES ASSUME ~disorder'
               PROVE  /\ Acyclic(nodes')
                      /\ \A r \in Movers' \ crossed' :
                           \A u \in Mixtures(r)' : Acyclic(u)
    BY <1>9 DEF EditInv
  <2>1. ~disorder /\ c \notin crossed
    BY <1>2, <1>3, <1>11, NoteEdit
  <2>2. \A u \in Mixtures(c) : Acyclic(u)
    BY <2>1 DEF EditInv
  <2>3. Movers' \ crossed' \subseteq {c}
    BY <1>2, <1>3, <1>11, NoteEdit
  <2>4. QED
    BY <1>7, <1>8, <2>2, <2>3
<1>12. QED
  BY <1>10, <1>11

(***************************************************************************)
(* The put of a creation lands: nothing is under a node not yet put.       *)
(***************************************************************************)
LEMMA CreationLands ==
  ASSUME TypeOK, HistoryInv, EditInv, NEW c \in Calls, c \notin Movers,
         Note(c), PutLands(c)
  PROVE  EditInv'
<1>1. PICK n \in outstanding[c] :
        /\ nodes' = [nodes EXCEPT ![n.id] = n]
        /\ outstanding' = [outstanding EXCEPT ![c] = @ \ {n}]
        /\ \/ outstanding[c] # {n} /\ UNCHANGED handlers
           \/ Continue(c, "writeAudit", held[c])
           \/ Leave(c, "answered", 500)
  BY DEF PutLands
<1>2. pc[c] = "putNodes" /\ call[c] \in CreateArgs
  BY DEF TypeOK, FrameOK, Movers, UpdateArgs
<1>3. n.id = c /\ outstanding[c] = {n} /\ n \in Node
  BY <1>2 DEF EditInv, PutsItsOwn, CreateArgs, TypeOK
<1>4. OnlyOf(c)
  BY <1>1 DEF TypeOK, OnlyOf, handlers, Continue, Leave
<1>5. pc'[c] \in {"writeAudit", "answered"} /\ c \notin Movers'
  <2>1. \/ pc'[c] = "writeAudit" /\ call'[c] = call[c]
        \/ pc'[c] = "answered"
    BY <1>1, <1>3 DEF Continue, Leave, TypeOK
  <2>2. outstanding'[c] = {}
    BY <1>1, <1>3 DEF TypeOK
  <2>3. QED
    BY <2>1, <2>2 DEF Movers
<1>6. Movers' \ crossed' \subseteq Movers \ crossed
  BY <1>4, <1>5, NoteEdit
<1>7. ~Known(c) /\ PutOK(c, n) /\ nodes[c] = Undefined
  BY <1>2, UnknownAbsent DEF HistoryInv, CallOK
<1>8. n.supervisorId # c
  BY <1>3, <1>7, OrgSentinelAssumption DEF PutOK, Ids
<1>9. \A m \in Ids : nodes'[m] = IF m = c THEN n ELSE nodes[m]
  BY <1>1, <1>3 DEF TypeOK, Tree
<1>10. ASSUME NEW t, NEW u, DOMAIN t = Ids, DOMAIN u = Ids, Acyclic(t),
              \A m \in Ids : u[m] = IF m = c THEN n ELSE t[m],
              t[c] = Undefined, \A m \in Present(t) : t[m].supervisorId # c
       PROVE  Acyclic(u)
  <2>1. Present(u) = Present(t) \cup {c} /\ c \notin Present(t)
    BY <1>3, <1>10, OrgSentinelAssumption DEF Present, Ids
  <2>2. \A m \in Present(t) : u[m] = t[m]
    BY <1>10, <2>1 DEF Present
  <2>3. u[c] = n
    BY <1>10 DEF Ids
  <2>4. QED
    BY <1>8, <1>10, <2>1, <2>2, <2>3, AddAcyclic
<1>11. \A m \in Present(nodes) : nodes[m].supervisorId # c
  BY <1>7, NodeFacts, OrgSentinelAssumption DEF Ids
<1> SUFFICES ASSUME ~disorder'
             PROVE  /\ Acyclic(nodes')
                    /\ \A r \in Movers' \ crossed' :
                         \A u \in Mixtures(r)' : Acyclic(u)
  <2>1. \A d \in Calls :
          pc'[d] = "putNodes" /\ call'[d].op = "createNode" => PutsItsOwn(d)'
    BY <1>4, <1>5, OthersSame DEF EditInv, PutsItsOwn
  <2>2. QED
    BY <2>1 DEF EditInv
<1>12. ~disorder
  BY <1>4, NoteEdit
<1>13. Acyclic(nodes')
  <2>1. DOMAIN nodes = Ids /\ DOMAIN nodes' = Ids
    BY <1>1 DEF TypeOK, Tree
  <2>2. Acyclic(nodes)
    BY <1>12 DEF EditInv
  <2>3. QED
    BY <1>7, <1>9, <1>10, <1>11, <2>1, <2>2
<1>14. ASSUME NEW r \in Movers' \ crossed', NEW u \in Mixtures(r)'
       PROVE  Acyclic(u)
  <2> DEFINE t == [m \in Ids |-> IF m = c THEN Undefined ELSE u[m]]
  <2>1. r \in Movers \ crossed /\ r \in Calls /\ r # c
        /\ outstanding'[r] = outstanding[r]
    BY <1>4, <1>5, <1>6, OthersSame DEF Movers
  <2>2. \A v \in outstanding[r] :
          v.id # c /\ (v.supervisorId # ROOT => Known(v.supervisorId))
    <3>1. \A v \in outstanding[r] : PutOK(r, v)
      BY <2>1 DEF HistoryInv, CallOK
    <3>2. \A v \in outstanding[r] : v.id = r \/ Known(v.id)
      BY <3>1 DEF PutOK, Known
    <3>3. \A v \in outstanding[r] :
            v.supervisorId # ROOT => Known(v.supervisorId)
      BY <3>1 DEF PutOK
    <3>4. QED
      BY <1>7, <2>1, <3>2, <3>3
  <2>3. \A m \in Ids :
          u[m] = nodes'[m] \/ (u[m] \in outstanding'[r] /\ u[m].id = m)
    BY DEF Mixtures
  <2>4. u[c] = n
    BY <1>9, <2>1, <2>2, <2>3 DEF Ids
  <2>5. \A m \in Ids :
          t[m] = nodes[m] \/ (t[m] \in outstanding[r] /\ t[m].id = m)
    BY <1>7, <1>9, <2>1, <2>3 DEF Ids
  <2>6. t \in Mixtures(r)
    BY <2>5 DEF Mixtures
  <2>7. Acyclic(t)
    BY <1>12, <2>1, <2>6 DEF EditInv
  <2>8. \A m \in Present(t) : t[m].supervisorId # c
    <3> SUFFICES ASSUME NEW m \in Present(t) PROVE t[m].supervisorId # c
      OBVIOUS
    <3>1. m \in Ids /\ t[m] # Undefined
      BY DEF Present
    <3>2. CASE t[m] = nodes[m]
      <4>1. m \in Present(nodes)
        BY <3>1, <3>2 DEF Present, TypeOK, Tree
      <4>2. QED
        BY <1>11, <3>2, <4>1
    <3>3. CASE t[m] \in outstanding[r]
      BY <1>7, <2>2, <3>3, OrgSentinelAssumption DEF Ids
    <3>4. QED
      BY <2>5, <3>1, <3>2, <3>3
  <2>9. DOMAIN t = Ids /\ DOMAIN u = Ids /\ t[c] = Undefined
        /\ \A m \in Ids : u[m] = IF m = c THEN n ELSE t[m]
    BY <2>4 DEF Ids, Mixtures
  <2> HIDE DEF t
  <2>10. QED
    BY <1>10, <2>7, <2>8, <2>9
<1>15. QED
  BY <1>13, <1>14

LEMMA MovedType ==
  ASSUME NEW t \in Tree, NEW id \in Present(t), NEW s \in Ids \cup {ROOT}
  PROVE  /\ [t EXCEPT ![id].supervisorId = s] \in Tree
         /\ Present([t EXCEPT ![id].supervisorId = s]) = Present(t)
<1>1. id \in Ids /\ [t[id] EXCEPT !.supervisorId = s] \in Node
  BY DEF Tree, Present, Node
<1>2. QED
  BY <1>1, OrgSentinelAssumption DEF Tree, Present

(***************************************************************************)
(* A reparenting computes its puts: each keeps its node's supervisor, but  *)
(* for the move, so a mixture is the old tree or the tree after the move.  *)
(***************************************************************************)
LEMMA ComputeUpdateEdit ==
  ASSUME TypeOK, HistoryInv, EditInv, NEW c \in Calls, Note(c),
         ComputeUpdate(c, nodes)
  PROVE  EditInv'
<1> DEFINE id == call[c].id
           s == call[c].supervisorId
           moved == [nodes EXCEPT ![id].supervisorId = s]
<1>1. pc[c] = "getAll" /\ call[c] \in UpdateArgs
  BY DEF ComputeUpdate, At, TypeOK, FrameOK
<1>2. call[c].op = "updateNode" /\ s \in Ids \cup {ROOT, Undefined}
  BY <1>1 DEF UpdateArgs
<1>3. PICK puts, entry :
        \/ \E status \in {400, 404} : Answer(c, status) /\ Reads
        \/ /\ id \in Present(nodes) /\ puts = {nodes[id]}
           /\ SendPuts(c, puts, entry)
        \/ /\ id \in Present(nodes) /\ s # Undefined /\ MayMove(nodes, id, s)
           /\ puts = Changed(moved, id) /\ SendPuts(c, puts, entry)
  BY DEF ComputeUpdate
<1>4. CASE \E status \in {400, 404} : Answer(c, status) /\ Reads
  BY <1>1, <1>4, AnswerEdit DEF Reads, tables
<1>5. ASSUME SendPuts(c, puts, entry), id \in Present(nodes),
             NEW sup, sup # nodes[id].supervisorId => MayMove(nodes, id, sup),
             \A v \in puts :
               /\ v.id \in Present(nodes)
               /\ v.supervisorId =
                    IF v.id = id THEN sup ELSE nodes[v.id].supervisorId,
             puts \in SUBSET Node
      PROVE  EditInv'
  <2>1. /\ OnlyOf(c) /\ pc'[c] = "putNodes" /\ call'[c] = call[c]
        /\ outstanding'[c] = puts
    BY <1>5, SendPutsOnly
  <2>2. UNCHANGED nodes
    BY <1>5 DEF SendPuts, tables
  <2>3. call'[c].op # "createNode"
    BY <1>2, <2>1
  <2>4. CASE disorder
    BY <2>1, <2>2, <2>3, <2>4, SameTree, EditKept
  <2>5. ~disorder => Acyclic(nodes)
    BY DEF EditInv
  <2>6. ASSUME ~disorder, NEW u \in Mixtures(c)' PROVE Acyclic(u)
    <3>1. DOMAIN u = Ids /\ DOMAIN nodes = Ids /\ ROOT \notin DOMAIN nodes
      BY OrgSentinelAssumption DEF Mixtures, TypeOK, Tree
    <3>2. \A n \in Ids : u[n] = nodes[n] \/ (u[n] \in puts /\ u[n].id = n)
      BY <2>1, <2>2 DEF Mixtures
    <3>3. Present(u) = Present(nodes)
      BY <1>5, <3>1, <3>2, OrgSentinelAssumption DEF Present
    <3>4. \A n \in Present(nodes) \ {id} :
            u[n].supervisorId = nodes[n].supervisorId
      BY <1>5, <3>1, <3>2 DEF Present
    <3>5. u[id].supervisorId \in {nodes[id].supervisorId, sup}
      BY <1>5, <3>1, <3>2 DEF Present
    <3>6. CASE u[id].supervisorId = nodes[id].supervisorId
      BY <2>5, <2>6, <3>3, <3>4, <3>6, FewerAcyclic
    <3>7. CASE u[id].supervisorId = sup /\ sup # nodes[id].supervisorId
      BY <1>5, <2>5, <2>6, <3>1, <3>3, <3>4, <3>7, MoveAcyclic
    <3>8. QED
      BY <3>5, <3>6, <3>7
  <2>7. QED
    BY <2>1, <2>2, <2>3, <2>4, <2>6, SameTree, EditKept
<1>6. CASE /\ id \in Present(nodes) /\ puts = {nodes[id]}
           /\ SendPuts(c, puts, entry)
  BY <1>5, <1>6, NodeFacts
<1>7. CASE /\ id \in Present(nodes) /\ s # Undefined /\ MayMove(nodes, id, s)
           /\ puts = Changed(moved, id) /\ SendPuts(c, puts, entry)
  <2>1. nodes \in Tree /\ s \in Ids \cup {ROOT}
    BY <1>2, <1>7 DEF TypeOK
  <2>2. \A v \in puts : \E n \in Present(nodes) :
          /\ v.id = nodes[n].id
          /\ v.supervisorId = IF n = id THEN s ELSE nodes[n].supervisorId
    BY <1>7, <2>1, ChangedNodes
  <2>3. \A v \in puts :
          /\ v.id \in Present(nodes)
          /\ v.supervisorId = IF v.id = id THEN s ELSE nodes[v.id].supervisorId
    BY <2>2, NodeFacts
  <2>4. puts \in SUBSET Node
    BY <1>7, <2>1, MovedType, ChangedType
  <2>5. QED
    BY <1>5, <1>7, <2>3, <2>4
<1>8. QED
  BY <1>3, <1>4, <1>6, <1>7

-------------------------------------------------------------------------------
(* The theorems on cycles.                                                 *)

LEMMA InitEdit == Init => EditInv
<1> SUFFICES ASSUME Init PROVE EditInv
  OBVIOUS
<1>1. Acyclic(nodes)
  BY TreesAssumption DEF Init, IsHierarchy
<1>2. Movers = {}
  BY DEF Init, Movers
<1>3. QED
  BY <1>1, <1>2 DEF Init, EditInv

LEMMA DeleteEdit ==
  ASSUME TypeOK, EditInv, NEW c \in Calls, Note(c), Delete(c)
  PROVE  EditInv'
<1>1. /\ pc[c] = "delete" /\ Continue(c, "writeAudit", held[c])
      /\ nodes' = [nodes EXCEPT ![call[c].id] = Undefined]
      /\ UNCHANGED outstanding
  BY DEF Delete, At
<1>2. nodes' \in Tree /\ \A n \in Ids : nodes'[n] \in {nodes[n], Undefined}
  BY <1>1 DEF TypeOK, Tree
<1>3. QED
  BY <1>1, <1>2, ContinueEdit

(***************************************************************************)
(* An update that was misled by its scan counts as crossed from the start. *)
(***************************************************************************)
LEMMA MisledEdit ==
  ASSUME TypeOK, EditInv, NEW c \in Calls, Note(c), NEW t,
         ComputeUpdate(c, t), Misled(c)
  PROVE  EditInv'
<1>1. pc[c] = "getAll" /\ call[c].op = "updateNode"
  BY DEF ComputeUpdate, At
<1>2. CASE \E status \in {400, 404} : Answer(c, status) /\ Reads
  BY <1>1, <1>2, AnswerEdit DEF Reads, tables
<1>3. CASE \E puts, entry : SendPuts(c, puts, entry)
  <2>1. PICK puts, entry : SendPuts(c, puts, entry)
    BY <1>3
  <2>2. OnlyOf(c) /\ call'[c] = call[c] /\ UNCHANGED nodes
    BY <2>1, SendPutsOnly DEF SendPuts, tables
  <2>3. c \notin Movers' \ crossed'
    BY <2>2, NoteEdit
  <2>4. QED
    BY <1>1, <2>2, <2>3, SameTree, EditKept
<1>4. QED
  BY <1>2, <1>3 DEF ComputeUpdate

LEMMA EditStep ==
  ASSUME TypeOK, HistoryInv, EditInv, NEW c \in Calls,
         Arrive(c) \/ Step(c) \/ Fail(c), Note(c)
  PROVE  EditInv'
<1>1. ASSUME NEW t, CheckUser(c, t) \/ CheckSupervisor(c, t) PROVE EditInv'
  <2>1. pc[c] \in {"getByUserId", "getSupervisor"}
    BY <1>1 DEF CheckUser, CheckSupervisor, At
  <2>2. \/ Answer(c, 400) /\ Reads
        \/ Continue(c, "getSupervisor", Undefined) /\ Reads
        \/ \E level : PutNewNode(c, level)
    BY <1>1 DEF CheckUser, CheckSupervisor
  <2>3. Reads => UNCHANGED <<outstanding, nodes>>
    BY DEF Reads, tables
  <2>4. QED
    BY <2>1, <2>2, <2>3, SameTree, AnswerEdit, ContinueEdit, PutNewNodeEdit
<1>2. ASSUME NEW t, CheckNode(c, t) \/ CheckSubordinates(c, t) PROVE EditInv'
  <2>1. pc[c] \in {"getNode", "getSubordinates"}
        /\ UNCHANGED <<outstanding, nodes>>
    BY <1>2 DEF CheckNode, CheckSubordinates, At, Reads, tables
  <2>2. \/ \E status : Answer(c, status)
        \/ \E entry : \/ Continue(c, "getSubordinates", entry)
                      \/ Continue(c, "delete", entry)
    BY <1>2 DEF CheckNode, CheckSubordinates
  <2>3. QED
    BY <2>1, <2>2, SameTree, AnswerEdit, ContinueEdit
<1>3. CASE WriteAudit(c) \/ Fail(c)
  <2>1. UNCHANGED <<outstanding, nodes>> /\ \E status : Answer(c, status)
    BY <1>3 DEF WriteAudit, Fail, Reads, tables
  <2>2. pc[c] \notin {"putNodes", "abandoned"}
    BY <1>3 DEF WriteAudit, Fail
  <2>3. QED
    BY <2>1, <2>2, AnswerEdit
<1>4. ASSUME NEW t, ComputeUpdate(c, t) PROVE EditInv'
  <2>1. CASE Misled(c)
    BY <1>4, <2>1, MisledEdit
  <2>2. CASE ~Misled(c)
    <3>1. pc[c] = "getAll"
      BY <1>4 DEF ComputeUpdate, At
    <3>2. ComputeUpdate(c, nodes)
      BY <2>2, <3>1 DEF Misled, Decide, CheckUser, CheckSupervisor, CheckNode,
         CheckSubordinates, At
    <3>3. QED
      BY <3>2, ComputeUpdateEdit
  <2>3. QED
    BY <2>1, <2>2
<1>5. QED
  BY <1>1, <1>2, <1>3, <1>4, ArriveEdit, MoveLands, CreationLands,
     PutFailsEdit, DeleteEdit DEF Step, Decide

LEMMA EditNext ==
  ASSUME TypeOK, HistoryInv, EditInv, [Next]_vars
  PROVE  EditInv'
<1>1. CASE LandAgain
  <2>1. \A c \in Calls : PutsItsOwn(c)' <=> PutsItsOwn(c)
    BY <1>1 DEF LandAgain, PutsItsOwn
  <2>2. QED
    BY <1>1, <2>1 DEF LandAgain, EditInv, handlers
<1>2. CASE UNCHANGED vars
  BY <1>2 DEF vars, handlers, tables, EditInv, Movers, Mixtures, PutsItsOwn
<1>3. QED
  BY <1>1, <1>2, EditStep DEF Next, Terminating

(***************************************************************************)
(* As long as no crossed update and no repeat has changed the table,       *)
(* whichever puts of the other updates have landed and whatever is         *)
(* created, deleted and read meanwhile: the inductive invariant.           *)
(***************************************************************************)
THEOREM EditHolds == Spec => []EditInv
<1>1. TypeOK /\ HistoryInv /\ EditInv /\ [Next]_vars => EditInv'
  BY EditNext
<1>2. QED
  BY InitEdit, <1>1, OrgTypeCorrect, OrgHistoryHolds, PTL DEF Spec

(***************************************************************************)
(* A cycle is closed by an update that was misled or that another update   *)
(* came between, or by a repeat; creations and deletions close none.       *)
(***************************************************************************)
THEOREM CyclesHold == Spec => []CyclesOnlyFromCrossing
<1>1. EditInv => CyclesOnlyFromCrossing
  BY DEF EditInv, CyclesOnlyFromCrossing
<1>2. QED
  BY <1>1, EditHolds, PTL

-------------------------------------------------------------------------------
(* What was read and checked is still so when a handler writes.            *)

LEMMA StepOnly ==
  ASSUME TypeOK, NEW c \in Calls, Arrive(c) \/ Step(c) \/ Fail(c)
  PROVE  OnlyOf(c)
<1>1. ASSUME NEW args, NEW await, Begin(c, args, await) PROVE OnlyOf(c)
  BY <1>1, BeginOnly
<1>2. ASSUME NEW status, Answer(c, status), UNCHANGED outstanding PROVE OnlyOf(c)
  BY <1>2 DEF TypeOK, OnlyOf, Answer, Leave
<1>3. ASSUME NEW await, NEW entry, Continue(c, await, entry), UNCHANGED outstanding
      PROVE  OnlyOf(c)
  BY <1>3, ContinueOnly
<1>4. ASSUME NEW puts, NEW entry, SendPuts(c, puts, entry) PROVE OnlyOf(c)
  BY <1>4, SendPutsOnly
<1>5. CASE Arrive(c)
  BY <1>1, <1>5 DEF Arrive, CreateNode, UpdateNode, AssignSupervisor, DeleteNode
<1>6. ASSUME NEW t, CheckUser(c, t) \/ CheckSupervisor(c, t) \/ ComputeUpdate(c, t)
      PROVE  OnlyOf(c)
  <2>1. Reads => UNCHANGED outstanding
    BY DEF Reads
  <2>2. \A level : PutNewNode(c, level) => OnlyOf(c)
    BY <1>4 DEF PutNewNode
  <2>3. QED
    BY <1>2, <1>3, <1>4, <1>6, <2>1, <2>2
       DEF CheckUser, CheckSupervisor, ComputeUpdate
<1>7. ASSUME NEW t, CheckNode(c, t) \/ CheckSubordinates(c, t) PROVE OnlyOf(c)
  <2>1. UNCHANGED outstanding
    BY <1>7 DEF CheckNode, CheckSubordinates, Reads
  <2>2. QED
    BY <1>2, <1>3, <1>7, <2>1 DEF CheckNode, CheckSubordinates
<1>8. CASE Delete(c) \/ WriteAudit(c) \/ Fail(c)
  BY <1>2, <1>3, <1>8 DEF Delete, WriteAudit, Fail, Reads
<1>9. CASE PutLands(c) \/ PutFails(c)
  BY <1>9 DEF PutLands, PutFails, TypeOK, OnlyOf, handlers, Continue, Leave
<1>10. QED
  BY <1>5, <1>6, <1>7, <1>8, <1>9 DEF Step, Decide

LEMMA OtherWriters ==
  ASSUME TypeOK, NEW c \in Calls, OnlyOf(c)
  PROVE  \A d \in Calls \ {c} : d \in TreeWriters' <=> d \in TreeWriters
  BY OthersSame DEF TreeWriters

(***************************************************************************)
(* What is noted of the handlers when call c takes a step.                 *)
(***************************************************************************)
LEMMA NoteOutdated ==
  ASSUME TypeOK, NEW c \in Calls, OnlyOf(c), Note(c)
  PROVE  /\ c \in TreeWriters' \ outdated' => c \notin outdated /\ ~Misled(c)
         /\ \A d \in TreeWriters' \ outdated' :
              d # c => d \in TreeWriters \ outdated /\ nodes' = nodes
  BY OtherWriters DEF Note, TableChanges, TreeWriters

LEMMA NotMisled ==
  ASSUME NEW c \in Calls, ~Misled(c), NEW t, Decide(c, t)
  PROVE  Decide(c, nodes)
<1>1. pc[c] \in {"getByUserId", "getSupervisor", "getAll", "getNode",
                 "getSubordinates"}
  BY DEF Decide, CheckUser, CheckSupervisor, ComputeUpdate, CheckNode,
     CheckSubordinates, At
<1>2. QED
  BY <1>1 DEF Misled

(***************************************************************************)
(* A call that has nothing to write has nothing to keep true.              *)
(***************************************************************************)
LEMMA IdleStillTrue ==
  ASSUME TypeOK', HistoryInv', NEW d \in Calls, d \notin TreeWriters'
  PROVE  StillTrue(d)'
<1>1. /\ outstanding'[d] = {}
      /\ pc'[d] \notin {"getSupervisor", "getSubordinates", "delete"}
  BY DEF TreeWriters
<1>2. pc'[d] \notin {"writeAudit", "answered"} => ~Known(d)'
  BY DEF HistoryInv, CallOK
<1>3. ~Known(d)' => nodes'[d] = Undefined
  BY DEF HistoryInv, Known, Present, TypeOK, Tree, Ids
<1>4. QED
  BY <1>1, <1>2, <1>3 DEF StillTrue

LEMMA UnputAbsent ==
  ASSUME TypeOK', HistoryInv', NEW c \in Calls,
         pc'[c] \notin {"writeAudit", "answered"}
  PROVE  nodes'[c] = Undefined
<1>1. ~Known(c)'
  BY DEF HistoryInv, CallOK
<1>2. QED
  BY <1>1 DEF HistoryInv, Known, Present, TypeOK, Tree, Ids

(***************************************************************************)
(* It is enough that the call that takes the step knows what is so; every  *)
(* other call that is not outdated saw no change.                          *)
(***************************************************************************)
LEMMA ChecksStep ==
  ASSUME TypeOK, TypeOK', HistoryInv', ChecksStillHold, NEW c \in Calls,
         OnlyOf(c), Note(c), c \in TreeWriters' \ outdated' => StillTrue(c)'
  PROVE  ChecksStillHold'
<1>1. ASSUME NEW d \in Calls \ outdated', d \notin TreeWriters' PROVE StillTrue(d)'
  BY <1>1, IdleStillTrue
<1>2. ASSUME NEW d \in Calls \ outdated', d \in TreeWriters', d # c
      PROVE  StillTrue(d)'
  <2>1. d \notin outdated /\ UNCHANGED nodes
    BY <1>2, NoteOutdated
  <2>2. StillTrue(d) /\ pc'[d] = pc[d] /\ call'[d] = call[d]
        /\ outstanding'[d] = outstanding[d]
    BY <1>2, <2>1, OthersSame DEF ChecksStillHold
  <2>3. QED
    BY <2>1, <2>2 DEF StillTrue, Free, MayStillMove
<1>3. QED
  BY <1>1, <1>2 DEF ChecksStillHold

LEMMA ArriveIdle ==
  ASSUME TypeOK, NEW c \in Calls, Arrive(c)
  PROVE  c \notin TreeWriters'
<1>1. PICK await \in {"getByUserId", "getAll", "getNode"} :
        \E args : Begin(c, args, await)
  BY DEF Arrive, CreateNode, UpdateNode, AssignSupervisor, DeleteNode
<1>2. PICK args : Begin(c, args, await)
  BY <1>1
<1>3. pc[c] = "unsent" /\ pc'[c] = await /\ outstanding'[c] = outstanding[c]
  BY <1>2, BeginOnly
<1>4. outstanding[c] = {}
  BY <1>3 DEF TypeOK, FrameOK
<1>5. QED
  BY <1>3, <1>4 DEF TreeWriters

LEMMA AnswerIdle ==
  ASSUME TypeOK, NEW c \in Calls, pc[c] \notin {"putNodes", "abandoned"},
         NEW status, Answer(c, status), UNCHANGED outstanding
  PROVE  c \notin TreeWriters'
<1>1. pc'[c] = "answered" /\ outstanding'[c] = {}
  BY DEF TypeOK, FrameOK, Answer, Leave
<1>2. QED
  BY <1>1 DEF TreeWriters

(***************************************************************************)
(* createNode: the user has no node and the supervisor has.                *)
(***************************************************************************)
LEMMA PutNewNodeStill ==
  ASSUME TypeOK, TypeOK', HistoryInv', NEW c \in Calls,
         NEW level, PutNewNode(c, level),
         Free(call[c].userId), call[c].supervisorId \in Present(nodes) \cup {ROOT}
  PROVE  StillTrue(c)'
<1>1. pc'[c] = "putNodes" /\ outstanding'[c] = {NewNode(c, level)}
  BY SendPutsOnly DEF PutNewNode
<1>2. UNCHANGED nodes
  BY DEF PutNewNode, SendPuts, tables
<1>3. /\ NewNode(c, level).id = c
      /\ NewNode(c, level).userId = call[c].userId
      /\ NewNode(c, level).supervisorId = call[c].supervisorId
  BY DEF NewNode
<1>4. nodes'[c] = Undefined
  BY <1>1, UnputAbsent
<1>5. QED
  BY <1>1, <1>2, <1>3, <1>4 DEF StillTrue, Free, Present

LEMMA CreateStill ==
  ASSUME TypeOK, TypeOK', HistoryInv', NEW c \in Calls, StillTrue(c),
         CheckUser(c, nodes) \/ CheckSupervisor(c, nodes), c \in TreeWriters'
  PROVE  StillTrue(c)'
<1>1. pc[c] \in {"getByUserId", "getSupervisor"}
  BY DEF CheckUser, CheckSupervisor, At
<1>2. Reads => UNCHANGED <<outstanding, nodes>>
  BY DEF Reads, tables
<1>3. CASE Answer(c, 400) /\ Reads
  BY <1>1, <1>2, <1>3, AnswerIdle
<1>4. CASE Free(call[c].userId) /\ Continue(c, "getSupervisor", Undefined) /\ Reads
  <2>1. /\ pc'[c] = "getSupervisor" /\ call'[c] = call[c]
        /\ outstanding'[c] = outstanding[c]
    BY <1>2, <1>4, ContinueOnly
  <2>2. outstanding'[c] = {}
    BY <1>1, <2>1 DEF TypeOK, FrameOK
  <2>3. nodes'[c] = Undefined
    BY <2>1, UnputAbsent
  <2>4. QED
    BY <1>2, <1>4, <2>1, <2>2, <2>3 DEF StillTrue, Free, Present
<1>5. CASE \E level : /\ Free(call[c].userId) /\ PutNewNode(c, level)
                      /\ call[c].supervisorId \in Present(nodes) \cup {ROOT}
  BY <1>5, PutNewNodeStill
<1>6. CASE CheckUser(c, nodes)
  BY <1>3, <1>4, <1>5, <1>6 DEF CheckUser, Free
<1>7. CASE CheckSupervisor(c, nodes)
  <2>1. Free(call[c].userId)
    BY <1>1, <1>7 DEF CheckSupervisor, At, StillTrue
  <2>2. QED
    BY <1>3, <1>5, <1>7, <2>1 DEF CheckSupervisor
<1>8. QED
  BY <1>6, <1>7

(***************************************************************************)
(* deleteNode: the node is there and nothing is under it.                  *)
(***************************************************************************)
LEMMA ReadDeleteStill ==
  ASSUME TypeOK, TypeOK', HistoryInv', NEW c \in Calls, StillTrue(c),
         CheckNode(c, nodes) \/ CheckSubordinates(c, nodes), c \in TreeWriters'
  PROVE  StillTrue(c)'
<1>1. /\ pc[c] \in {"getNode", "getSubordinates"}
      /\ UNCHANGED <<outstanding, nodes>>
  BY DEF CheckNode, CheckSubordinates, At, Reads, tables
<1>2. ~\E status : Answer(c, status)
  BY <1>1, AnswerIdle
<1>3. ASSUME NEW await \in {"getSubordinates", "delete"}, NEW entry,
             Continue(c, await, entry), call[c].id \in Present(nodes),
             await = "delete" =>
               \A n \in Present(nodes) : nodes[n].supervisorId # call[c].id
      PROVE  StillTrue(c)'
  <2>1. /\ pc'[c] = await /\ call'[c] = call[c]
        /\ outstanding'[c] = outstanding[c]
    BY <1>1, <1>3, ContinueOnly
  <2>2. outstanding'[c] = {}
    BY <1>1, <2>1 DEF TypeOK, FrameOK
  <2>3. nodes'[c] = Undefined
    BY <2>1, UnputAbsent
  <2>4. QED
    BY <1>1, <1>3, <2>1, <2>2, <2>3 DEF StillTrue, Present
<1>4. CASE CheckNode(c, nodes)
  BY <1>2, <1>3, <1>4 DEF CheckNode
<1>5. CASE CheckSubordinates(c, nodes)
  <2>1. call[c].id \in Present(nodes)
    BY <1>5 DEF CheckSubordinates, At, StillTrue
  <2>2. QED
    BY <1>2, <1>3, <1>5, <2>1 DEF CheckSubordinates
<1>6. QED
  BY <1>4, <1>5

LEMMA DeletesLeaf ==
  ASSUME TypeOK, NEW c \in Calls, StillTrue(c), Delete(c)
  PROVE  LET id == call[c].id IN
         /\ id \in Present(nodes)
         /\ \A n \in Present(nodes) : nodes[n].supervisorId # id
         /\ Present(nodes') = Present(nodes) \ {id}
         /\ \A n \in Present(nodes') : nodes'[n] = nodes[n]
<1> DEFINE id == call[c].id
<1>1. /\ id \in Present(nodes)
      /\ \A n \in Present(nodes) : nodes[n].supervisorId # id
  BY DEF Delete, At, StillTrue
<1>2. nodes' = [nodes EXCEPT ![id] = Undefined]
  BY DEF Delete
<1>3. QED
  BY <1>1, <1>2 DEF TypeOK, Tree, Present

LEMMA DeleteIdle ==
  ASSUME TypeOK, NEW c \in Calls, Delete(c)
  PROVE  c \notin TreeWriters'
<1>1. pc'[c] = "writeAudit" /\ outstanding'[c] = {}
  BY ContinueOnly DEF Delete, At, TypeOK, FrameOK
<1>2. QED
  BY <1>1 DEF TreeWriters

(***************************************************************************)
(* updateNode and assignSupervisor: one put moves the node, if any does.   *)
(***************************************************************************)
LEMMA ChangedOnce ==
  ASSUME NEW t \in Tree, NEW id \in Present(t), NEW s \in Ids \cup {ROOT},
         \A n \in Present(t) : t[n].id = n,
         NEW v \in Changed([t EXCEPT ![id].supervisorId = s], id),
         NEW w \in Changed([t EXCEPT ![id].supervisorId = s], id), v.id = w.id
  PROVE  v = w
<1> DEFINE moved == [t EXCEPT ![id].supervisorId = s]
<1>1. moved \in Tree /\ Present(moved) = Present(t)
  BY MovedType
<1>2. \A n \in Present(t) : moved[n] \in Node /\ moved[n].id = n
  <2>1. \A n \in Present(t) : moved[n].id = t[n].id
    BY DEF Tree, Present, Node
  <2>2. QED
    BY <1>1, <2>1 DEF Tree, Present
<1> HIDE DEF moved
<1>3. \A x \in Changed(moved, id) : \E n \in Present(t) :
        x.id = n /\ x = [moved[n] EXCEPT !.level = LevelOf(moved, n)]
  <2> SUFFICES ASSUME NEW x \in Changed(moved, id)
               PROVE  \E n \in Present(t) :
                 x.id = n /\ x = [moved[n] EXCEPT !.level = LevelOf(moved, n)]
    OBVIOUS
  <2>1. PICK n \in Present(t) : x = [moved[n] EXCEPT !.level = LevelOf(moved, n)]
    BY <1>1 DEF Changed, Relevelled
  <2>2. x.id = n
    BY <1>2, <2>1 DEF Node
  <2>3. QED
    BY <2>1, <2>2
<1>4. v \in Changed(moved, id) /\ w \in Changed(moved, id)
  BY DEF moved
<1>5. QED
  BY <1>3, <1>4

LEMMA ComputeUpdateStill ==
  ASSUME TypeOK, TypeOK', HistoryInv, HistoryInv', NEW c \in Calls, StillTrue(c),
         ComputeUpdate(c, nodes), c \in TreeWriters'
  PROVE  StillTrue(c)'
<1> DEFINE id == call[c].id
           s == call[c].supervisorId
           moved == [nodes EXCEPT ![id].supervisorId = s]
<1>1. pc[c] = "getAll" /\ call[c] \in UpdateArgs
  BY DEF ComputeUpdate, At, TypeOK, FrameOK
<1>2. s \in Ids \cup {ROOT, Undefined}
  BY <1>1 DEF UpdateArgs
<1>4. PICK puts, entry :
        \/ \E status \in {400, 404} : Answer(c, status) /\ Reads
        \/ /\ id \in Present(nodes) /\ puts = {nodes[id]}
           /\ SendPuts(c, puts, entry)
        \/ /\ id \in Present(nodes) /\ s # Undefined /\ MayMove(nodes, id, s)
           /\ puts = Changed(moved, id) /\ SendPuts(c, puts, entry)
  BY DEF ComputeUpdate
<1>5. CASE \E status \in {400, 404} : Answer(c, status) /\ Reads
  BY <1>1, <1>5, AnswerIdle DEF Reads, tables
<1>6. ASSUME SendPuts(c, puts, entry),
             NEW sup, sup # nodes[id].supervisorId =>
               sup \in Present(nodes) \cup {ROOT} /\ MayMove(nodes, id, sup),
             \A v \in puts :
               /\ v.id \in Present(nodes) /\ v.userId = nodes[v.id].userId
               /\ v.supervisorId =
                    IF v.id = id THEN sup ELSE nodes[v.id].supervisorId,
             \A v, w \in puts : v.id = w.id => v = w
      PROVE  StillTrue(c)'
  <2>1. /\ pc'[c] = "putNodes" /\ outstanding'[c] = puts
    BY <1>6, SendPutsOnly
  <2>2. UNCHANGED nodes
    BY <1>6 DEF SendPuts, tables
  <2>3. nodes[c] = Undefined
    BY <1>1 DEF StillTrue
  <2>4. \A v \in puts : v.id # c
    BY <1>6, <2>3 DEF Present
  <2>5. ASSUME NEW v \in puts, v.supervisorId # nodes[v.id].supervisorId
        PROVE  /\ MayStillMove(v)
               /\ \A w \in puts :
                    w # v => /\ w.id # v.id
                             /\ w.supervisorId = nodes[w.id].supervisorId
    BY <1>6, <2>5 DEF MayStillMove
  <2>6. QED
    BY <1>6, <2>1, <2>2, <2>3, <2>4, <2>5 DEF StillTrue, MayStillMove
<1>7. CASE /\ id \in Present(nodes) /\ puts = {nodes[id]}
           /\ SendPuts(c, puts, entry)
  BY <1>6, <1>7, NodeFacts
<1>8. CASE /\ id \in Present(nodes) /\ s # Undefined /\ MayMove(nodes, id, s)
           /\ puts = Changed(moved, id) /\ SendPuts(c, puts, entry)
  <2>1. nodes \in Tree /\ s \in Ids \cup {ROOT}
    BY <1>2, <1>8 DEF TypeOK
  <2>2. \A v \in puts : \E n \in Present(nodes) :
          /\ v.id = nodes[n].id /\ v.userId = nodes[n].userId
          /\ v.supervisorId = IF n = id THEN s ELSE nodes[n].supervisorId
    BY <1>8, <2>1, ChangedNodes
  <2>3. \A v \in puts :
          /\ v.id \in Present(nodes) /\ v.userId = nodes[v.id].userId
          /\ v.supervisorId = IF v.id = id THEN s ELSE nodes[v.id].supervisorId
    BY <2>2, NodeFacts
  <2>4. \A v, w \in puts : v.id = w.id => v = w
    BY <1>8, <2>1, ChangedOnce, NodeFacts
  <2>5. s \in Present(nodes) \cup {ROOT} /\ MayMove(nodes, id, s)
    BY <1>8 DEF MayMove
  <2>6. QED
    BY <1>6, <1>8, <2>3, <2>4, <2>5
<1>9. QED
  BY <1>4, <1>5, <1>7, <1>8

(***************************************************************************)
(* What the put that lands does to the tree: it adds the call's own node,  *)
(* moves a node or leaves every node where it is.                          *)
(***************************************************************************)
Lands(n) == nodes' = [nodes EXCEPT ![n.id] = n]

Adding(c, n) ==
  /\ n.id = c /\ outstanding[c] = {n} /\ nodes[c] = Undefined /\ Free(n.userId)
  /\ n.supervisorId \in Present(nodes) \cup {ROOT}

Moving(n) ==
  /\ n.id \in Present(nodes) /\ n.userId = nodes[n.id].userId
  /\ MayStillMove(n)

Staying(n) ==
  /\ n.id \in Present(nodes) /\ n.userId = nodes[n.id].userId
  /\ n.supervisorId = nodes[n.id].supervisorId

LEMMA PutKinds ==
  ASSUME TypeOK, NEW c \in Calls, StillTrue(c), NEW n \in outstanding[c]
  PROVE  /\ Adding(c, n) \/ Moving(n) \/ Staying(n)
         /\ n.id = c => Adding(c, n)
         /\ n.id # c => Moving(n) \/ Staying(n)
<1>1. pc[c] \in {"putNodes", "abandoned"}
  BY DEF TypeOK, FrameOK
<1>2. QED
  BY <1>1 DEF StillTrue, Adding, Moving, Staying

LEMMA LandsWhere ==
  ASSUME TypeOK, NEW n \in Node, Lands(n)
  PROVE  /\ nodes'[n.id] = n /\ Present(nodes') = Present(nodes) \cup {n.id}
         /\ \A m \in Present(nodes') : m # n.id => nodes'[m] = nodes[m]
         /\ DOMAIN nodes = Ids /\ DOMAIN nodes' = Ids
  BY OrgSentinelAssumption DEF Lands, TypeOK, Tree, Present, Node

LEMMA LandsHierarchy ==
  ASSUME TypeOK, HistoryInv, IsHierarchy(nodes), NEW c \in Calls,
         NEW n \in Node, Lands(n), Adding(c, n) \/ Moving(n) \/ Staying(n)
  PROVE  IsHierarchy(nodes')
<1>1. CASE Adding(c, n)
  <2>1. c \notin Present(nodes) /\ c # ROOT
    BY <1>1, OrgSentinelAssumption DEF Adding, Present, Ids
  <2>2. n.supervisorId # c /\ \A m \in Present(nodes) : nodes[m].supervisorId # c
    BY <1>1, <2>1 DEF Adding, IsHierarchy, NoOrphans
  <2>3. Acyclic(nodes')
    BY <1>1, <2>1, <2>2, LandsWhere, AddAcyclic DEF Adding, IsHierarchy
  <2>4. NoOrphans(nodes')
    BY <1>1, LandsWhere DEF Adding, IsHierarchy, NoOrphans
  <2>5. OneNodePerUser(nodes')
    BY <1>1, LandsWhere DEF Adding, Free, IsHierarchy, OneNodePerUser
  <2>6. QED
    BY <2>3, <2>4, <2>5 DEF IsHierarchy
<1>2. CASE Moving(n) \/ Staying(n)
  <2>1. n.id \in Present(nodes) /\ Present(nodes') = Present(nodes)
    BY <1>2, LandsWhere DEF Moving, Staying
  <2>2. n.supervisorId \in Present(nodes) \cup {ROOT}
    BY <1>2 DEF Moving, Staying, MayStillMove, IsHierarchy, NoOrphans
  <2>3. NoOrphans(nodes')
    BY <2>1, <2>2, LandsWhere DEF IsHierarchy, NoOrphans
  <2>4. OneNodePerUser(nodes')
    BY <1>2, <2>1, LandsWhere DEF Moving, Staying, IsHierarchy, OneNodePerUser
  <2>5. ASSUME Moving(n) PROVE Acyclic(nodes')
    BY <2>1, <2>5, LandsWhere, MoveAcyclic, OrgSentinelAssumption
       DEF Moving, MayStillMove, IsHierarchy
  <2>6. ASSUME Staying(n) PROVE Acyclic(nodes')
    BY <2>1, <2>6, LandsWhere, FewerAcyclic DEF Staying, IsHierarchy
  <2>7. QED
    BY <1>2, <2>3, <2>4, <2>5, <2>6 DEF IsHierarchy
<1>3. QED
  BY <1>1, <1>2

LEMMA PutLandsStill ==
  ASSUME TypeOK, TypeOK', NEW c \in Calls, StillTrue(c), PutLands(c)
  PROVE  StillTrue(c)'
<1>1. PICK n \in outstanding[c] :
        /\ Lands(n)
        /\ outstanding' = [outstanding EXCEPT ![c] = @ \ {n}]
        /\ \/ outstanding[c] # {n} /\ UNCHANGED handlers
           \/ Continue(c, "writeAudit", held[c])
           \/ Leave(c, "answered", 500)
  BY DEF PutLands, Lands
<1>2. n \in Node /\ pc[c] \in {"putNodes", "abandoned"}
  BY DEF TypeOK, FrameOK
<1>4. outstanding'[c] = outstanding[c] \ {n}
  BY <1>1 DEF TypeOK
<1>7. CASE outstanding[c] = {n}
  <2>1. pc'[c] \in {"writeAudit", "answered"} /\ outstanding'[c] = {}
    BY <1>1, <1>4, <1>7 DEF Continue, Leave, TypeOK
  <2>2. QED
    BY <2>1 DEF StillTrue
<1>8. CASE outstanding[c] # {n}
  <2>1. pc'[c] = pc[c] \/ pc'[c] \in {"writeAudit", "answered"}
    BY <1>1 DEF handlers, Continue, Leave, TypeOK
  <2>2. \A w \in outstanding[c] : w.id # c
    BY <1>2, <1>8, PutKinds DEF Adding
  <2>3. n.id \in Present(nodes) /\ n.userId = nodes[n.id].userId
    BY <1>2, <2>2, PutKinds DEF Moving, Staying
  <2>4. /\ Present(nodes') = Present(nodes)
        /\ nodes'[n.id] = n
        /\ \A m \in Present(nodes) : m # n.id => nodes'[m] = nodes[m]
        /\ DOMAIN nodes' = DOMAIN nodes
    BY <1>1, <1>2, <2>3, LandsWhere
  <2>5. \A w \in outstanding[c] :
          w.id \in Present(nodes) /\ w.userId = nodes[w.id].userId
    BY <2>2 DEF StillTrue
  <2>6. \A m \in Present(nodes) : nodes'[m].userId = nodes[m].userId
    BY <2>3, <2>4
  <2>7. ASSUME NEW v \in outstanding'[c],
               v.supervisorId # nodes'[v.id].supervisorId
        PROVE  /\ MayStillMove(v)'
               /\ \A w \in outstanding'[c] :
                    w # v => /\ w.id # v.id
                             /\ w.supervisorId = nodes'[w.id].supervisorId
    <3>1. v \in outstanding[c] /\ v # n
      BY <1>4, <2>7
    <3>2. n.supervisorId = nodes[n.id].supervisorId
      BY <2>2, <2>4, <2>7, <3>1, <1>4, <2>5 DEF StillTrue
    <3>3. \A m \in Present(nodes) : nodes'[m].supervisorId = nodes[m].supervisorId
      BY <2>4, <3>2
    <3>4. v.supervisorId # nodes[v.id].supervisorId
      BY <2>5, <2>7, <3>1, <3>3
    <3>5. /\ MayStillMove(v)
          /\ \A w \in outstanding[c] :
               w # v => /\ w.id # v.id
                        /\ w.supervisorId = nodes[w.id].supervisorId
      BY <2>2, <3>1, <3>4 DEF StillTrue
    <3>6. \A above, m : IsAncestor(nodes', above, m) <=> IsAncestor(nodes, above, m)
      BY <2>4, <3>3, SameAncestors
    <3>7. MayStillMove(v)'
      BY <2>4, <3>5, <3>6 DEF MayStillMove, MayMove, Present
    <3>8. QED
      BY <1>4, <2>5, <3>3, <3>5, <3>7
  <2>8. nodes'[c] = Undefined
    <3>1. nodes[c] = Undefined
      BY <1>2 DEF StillTrue
    <3>2. c # n.id
      BY <2>2
    <3>3. QED
      BY <1>1, <3>1, <3>2 DEF Lands, TypeOK, Tree, Ids
  <2>9. QED
    BY <1>2, <1>4, <2>1, <2>2, <2>4, <2>5, <2>6, <2>7, <2>8
       DEF StillTrue, Present
<1>9. QED
  BY <1>7, <1>8

LEMMA PutFailsStill ==
  ASSUME TypeOK, TypeOK', NEW c \in Calls, StillTrue(c), PutFails(c)
  PROVE  StillTrue(c)'
<1>1. PICK n \in outstanding[c] :
        /\ outstanding' = [outstanding EXCEPT ![c] = @ \ {n}]
        /\ Leave(c, IF outstanding[c] = {n} THEN "answered" ELSE "abandoned", 500)
        /\ UNCHANGED tables
  BY DEF PutFails
<1>2. pc[c] \in {"putNodes", "abandoned"}
  BY DEF TypeOK, FrameOK
<1>4. /\ outstanding'[c] = outstanding[c] \ {n}
      /\ pc'[c] \in {"answered", "abandoned"}
  BY <1>1 DEF TypeOK, Leave
<1>5. UNCHANGED nodes
  BY <1>1 DEF tables
<1>6. nodes[c] = Undefined
  BY <1>2 DEF StillTrue
<1>7. outstanding[c] # {n} => \A v \in outstanding[c] : v.id # c
  BY DEF StillTrue
<1>8. CASE outstanding[c] = {n}
  BY <1>4, <1>5, <1>6, <1>8 DEF StillTrue
<1>9. CASE outstanding[c] # {n}
  BY <1>4, <1>5, <1>6, <1>7, <1>9 DEF StillTrue, MayStillMove, Present
<1>10. QED
  BY <1>8, <1>9

LEMMA InitChecks == Init => ChecksStillHold
<1> SUFFICES ASSUME Init PROVE ChecksStillHold
  OBVIOUS
<1>1. nodes \in Tree /\ \A n \in Present(nodes) : n \in Existing
  BY TreesAssumption DEF Init
<1>2. \A c \in Calls : nodes[c] = Undefined
  BY <1>1, OrgConfigAssumption DEF Present, Tree, Ids
<1>3. QED
  BY <1>2 DEF Init, StillTrue, ChecksStillHold

LEMMA ChecksNext ==
  ASSUME TypeOK, TypeOK', HistoryInv, HistoryInv', ChecksStillHold, [Next]_vars
  PROVE  ChecksStillHold'
<1>1. ASSUME NEW c \in Calls, Arrive(c) \/ Step(c) \/ Fail(c), Note(c)
      PROVE  ChecksStillHold'
  <2>1. OnlyOf(c)
    BY <1>1, StepOnly
  <2>2. ASSUME c \in TreeWriters', c \notin outdated' PROVE StillTrue(c)'
    <3>1. StillTrue(c) /\ ~Misled(c)
      BY <1>1, <2>1, <2>2, NoteOutdated DEF ChecksStillHold
    <3>2. ~(Arrive(c) \/ Delete(c))
      BY <2>2, ArriveIdle, DeleteIdle
    <3>3. ~(WriteAudit(c) \/ Fail(c))
      <4>1. ASSUME WriteAudit(c) \/ Fail(c) PROVE FALSE
        <5>1. UNCHANGED outstanding /\ \E status : Answer(c, status)
          BY <4>1 DEF WriteAudit, Fail, Reads
        <5>2. pc[c] \notin {"putNodes", "abandoned"}
          BY <4>1 DEF WriteAudit, Fail
        <5>3. QED
          BY <2>2, <5>1, <5>2, AnswerIdle
      <4>2. QED
        BY <4>1
    <3>4. CASE \E t \in Views : Decide(c, t)
      <4>1. Decide(c, nodes)
        BY <3>1, <3>4, NotMisled
      <4>2. QED
        BY <2>2, <3>1, <4>1, CreateStill, ReadDeleteStill, ComputeUpdateStill
           DEF Decide
    <3>5. CASE PutLands(c) \/ PutFails(c)
      BY <3>1, <3>5, PutLandsStill, PutFailsStill
    <3>6. QED
      BY <1>1, <3>2, <3>3, <3>4, <3>5 DEF Step
  <2>3. QED
    BY <1>1, <2>1, <2>2, ChecksStep
<1>2. CASE LandAgain
  <2>1. outdated' = TreeWriters'
    BY <1>2 DEF LandAgain, TreeWriters, handlers
  <2>2. QED
    BY <2>1, IdleStillTrue DEF ChecksStillHold
<1>3. CASE UNCHANGED vars
  BY <1>3 DEF vars, handlers, tables, ChecksStillHold, StillTrue, Free,
     MayStillMove
<1>4. QED
  BY <1>1, <1>2, <1>3 DEF Next, Terminating

(***************************************************************************)
(* What a handler that no stale read misled read and checked is still so   *)
(* when it writes, unless another handler, or a repeat, changed the table  *)
(* in between.                                                             *)
(***************************************************************************)
THEOREM ChecksHold == Spec => []ChecksStillHold
<1>1. /\ TypeOK /\ TypeOK' /\ HistoryInv /\ HistoryInv' /\ ChecksStillHold
      /\ [Next]_vars
      => ChecksStillHold'
  BY ChecksNext
<1>2. QED
  BY InitChecks, <1>1, OrgTypeCorrect, OrgHistoryHolds, PTL DEF Spec

-------------------------------------------------------------------------------
(* A hierarchy stays one.                                                  *)

LEMMA TableStays ==
  ASSUME [Next]_vars, ~LandAgain, \A c \in Calls : ~PutLands(c) /\ ~Delete(c)
  PROVE  UNCHANGED nodes
<1>1. ASSUME NEW c \in Calls, Arrive(c) PROVE UNCHANGED nodes
  BY <1>1 DEF Arrive, CreateNode, UpdateNode, AssignSupervisor, DeleteNode,
     Begin, tables
<1>2. ASSUME NEW c \in Calls, Fail(c) PROVE UNCHANGED nodes
  BY <1>2 DEF Fail, Reads, tables
<1>3. ASSUME NEW c \in Calls, Step(c) PROVE UNCHANGED nodes
  <2>1. ASSUME NEW t, Decide(c, t) PROVE UNCHANGED nodes
    BY <2>1 DEF Decide, CheckUser, CheckSupervisor, PutNewNode, ComputeUpdate,
       SendPuts, CheckNode, CheckSubordinates, Reads, tables
  <2>2. QED
    BY <1>3, <2>1 DEF Step, PutFails, WriteAudit, tables
<1>4. UNCHANGED vars => UNCHANGED nodes
  BY DEF vars, tables
<1>5. QED
  BY <1>1, <1>2, <1>3, <1>4 DEF Next, Terminating

LEMMA HierarchyStep ==
  ASSUME TypeOK, HistoryInv, ChecksStillHold, [Next]_vars, ~Disorderly,
         IsHierarchy(nodes)
  PROVE  IsHierarchy(nodes')
<1>1. ASSUME NEW c \in Calls, PutLands(c) PROVE IsHierarchy(nodes')
  <2>1. StillTrue(c)
    BY <1>1 DEF Disorderly, ChecksStillHold
  <2>2. PICK n \in outstanding[c] : Lands(n)
    BY <1>1 DEF PutLands, Lands
  <2>3. n \in Node
    BY DEF TypeOK
  <2>4. QED
    BY <2>1, <2>2, <2>3, PutKinds, LandsHierarchy
<1>2. ASSUME NEW c \in Calls, Delete(c) PROVE IsHierarchy(nodes')
  <2>1. StillTrue(c)
    BY <1>2 DEF Disorderly, ChecksStillHold
  <2>2. Acyclic(nodes')
    BY <1>2, <2>1, DeletesLeaf, FewerAcyclic DEF IsHierarchy
  <2>3. NoOrphans(nodes') /\ OneNodePerUser(nodes')
    BY <1>2, <2>1, DeletesLeaf DEF IsHierarchy, NoOrphans, OneNodePerUser
  <2>4. QED
    BY <2>2, <2>3 DEF IsHierarchy
<1>3. CASE \A c \in Calls : ~PutLands(c) /\ ~Delete(c)
  BY <1>3, TableStays DEF Disorderly
<1>4. QED
  BY <1>1, <1>2, <1>3

(***************************************************************************)
(* No cycle, no orphan and no second node of a user, but by the write of   *)
(* an outdated handler or by a repeat; however the calls overlap and fail. *)
(***************************************************************************)
THEOREM HierarchyStays == Spec => HierarchyKept
<1>1. TypeOK /\ HistoryInv /\ ChecksStillHold /\ [Next]_vars
      => [IsHierarchy(nodes) => IsHierarchy(nodes') \/ Disorderly]_vars
  BY HierarchyStep
<1>2. QED
  BY <1>1, OrgTypeCorrect, OrgHistoryHolds, ChecksHold, PTL
     DEF Spec, HierarchyKept

-------------------------------------------------------------------------------
(* The refinement: the table, seen without levels, is the abstract tree.   *)

LEMMA ChartTree ==
  ASSUME TypeOK
  PROVE  /\ Chart!Present(chart) = Present(nodes) /\ DOMAIN chart = Ids
         /\ \A n \in Present(nodes) :
              /\ chart[n] = [userId |-> nodes[n].userId,
                            supervisorId |-> nodes[n].supervisorId]
              /\ chart[n] \in Chart!Place
              /\ chart[n].userId = nodes[n].userId
              /\ chart[n].supervisorId = nodes[n].supervisorId
         /\ \A n \in Ids \ Present(nodes) : chart[n] = Undefined
<1>1. \A n \in Present(nodes) :
        n \in Ids /\ nodes[n] \in Node /\ nodes[n] # Undefined
  BY DEF Present, TypeOK, Tree
<1>2. \A n \in Present(nodes) :
        /\ nodes[n].userId \in User /\ nodes[n].supervisorId \in Ids \cup {ROOT}
  BY <1>1 DEF Node
<1>3. \A n \in Present(nodes) :
        chart[n] = [userId |-> nodes[n].userId,
                   supervisorId |-> nodes[n].supervisorId]
  BY <1>1 DEF chart, Place
<1>4. \A n \in Present(nodes) : chart[n] \in Chart!Place
  <2> SUFFICES ASSUME NEW n \in Present(nodes) PROVE chart[n] \in Chart!Place
    OBVIOUS
  <2>1. chart[n] = [userId |-> nodes[n].userId,
                   supervisorId |-> nodes[n].supervisorId]
    BY <1>3
  <2>2. [userId |-> nodes[n].userId, supervisorId |-> nodes[n].supervisorId]
          \in [userId : User, supervisorId : Ids \cup {ROOT}]
    BY <1>2
  <2>3. QED
    BY <2>1, <2>2 DEF Chart!Place
<1>5. \A n \in Present(nodes) : chart[n] # Undefined
  BY <1>4, OrgSentinelAssumption DEF Chart!Place
<1>6. \A n \in Ids \ Present(nodes) : chart[n] = Undefined
  BY DEF chart, Place, Present, TypeOK, Tree
<1>7. DOMAIN chart = Ids
  BY DEF chart
<1>8. Chart!Present(chart) = Present(nodes)
  BY <1>1, <1>5, <1>6, <1>7 DEF Chart!Present
<1>9. QED
  BY <1>3, <1>4, <1>6, <1>7, <1>8

LEMMA ChartAncestors ==
  ASSUME TypeOK, NEW above, NEW n
  PROVE  Chart!IsAncestor(chart, above, n) <=> IsAncestor(nodes, above, n)
<1>1. DOMAIN nodes = Ids
  BY DEF TypeOK, Tree
<1>2. \A S : Chart!ClosedUpwards(chart, S) <=> ClosedUpwards(nodes, S)
  BY ChartTree DEF Chart!ClosedUpwards, ClosedUpwards
<1>3. n \in Present(nodes) => chart[n].supervisorId = nodes[n].supervisorId
  BY ChartTree
<1>4. QED
  BY <1>1, <1>2, <1>3, ChartTree DEF Chart!IsAncestor, IsAncestor

LEMMA ChartHierarchy ==
  ASSUME TypeOK, IsHierarchy(nodes)
  PROVE  Chart!IsHierarchy(chart)
<1>1. Chart!Acyclic(chart)
  BY ChartTree DEF Chart!Acyclic, IsHierarchy, Acyclic
<1>2. Chart!NoOrphans(chart)
  BY ChartTree DEF Chart!NoOrphans, IsHierarchy, NoOrphans
<1>3. Chart!OneNodePerUser(chart)
  BY ChartTree DEF Chart!OneNodePerUser, IsHierarchy, OneNodePerUser
<1>4. QED
  BY <1>1, <1>2, <1>3 DEF Chart!IsHierarchy

LEMMA InitRefines == Init => Chart!Init
<1> SUFFICES ASSUME Init PROVE Chart!Init
  OBVIOUS
<1>1. TypeOK /\ IsHierarchy(nodes)
  BY InitType, TreesAssumption DEF Init
<1>2. Chart!IsHierarchy(chart)
  BY <1>1, ChartHierarchy
<1>3. chart \in [Ids -> Chart!Place \cup {Undefined}]
  <2>1. chart = [n \in Ids |-> chart[n]]
    BY DEF chart
  <2>2. \A n \in Ids : chart[n] \in Chart!Place \cup {Undefined}
    BY <1>1, ChartTree
  <2>3. QED
    BY <2>1, <2>2
<1>4. QED
  BY <1>2, <1>3 DEF Chart!Init, chart

(***************************************************************************)
(* A put that lands is an Add, a Move or nothing; a delete is a Remove.    *)
(***************************************************************************)
LEMMA LandsRefines ==
  ASSUME TypeOK, NEW c \in Calls, StillTrue(c), PutLands(c)
  PROVE  Chart!Next \/ chart' = chart
<1>1. PICK n \in outstanding[c] : Lands(n)
  BY DEF PutLands, Lands
<1>2. n \in Node /\ n.id \in Ids
  BY DEF TypeOK, FrameOK, Node
<1>3. n.userId \in User /\ n.supervisorId \in Ids \cup {ROOT} /\ n # Undefined
  BY <1>2, OrgSentinelAssumption DEF Node
<1>4. \A m \in Ids : nodes'[m] = IF m = n.id THEN n ELSE nodes[m]
  BY <1>1, <1>2 DEF Lands, TypeOK, Tree
<1>5. \A m \in Ids : m # n.id => Place(m)' = Place(m)
  BY <1>4 DEF Place
<1>6. Place(n.id)' = [userId |-> n.userId, supervisorId |-> n.supervisorId]
  BY <1>2, <1>3, <1>4 DEF Place
<1>7. CASE Adding(c, n)
  <2>1. chart' = [chart EXCEPT ![c] =
                   [userId |-> n.userId, supervisorId |-> n.supervisorId]]
    BY <1>5, <1>6, <1>7 DEF chart, Adding
  <2>2. chart[c] = Undefined
    BY <1>7 DEF Adding, chart, Place, Ids
  <2>3. n.supervisorId \in Chart!Supervisors
    BY <1>7, ChartTree DEF Adding, Chart!Supervisors, chart
  <2>4. \A m \in Chart!Present(chart) : chart[m].userId # n.userId
    BY <1>7, ChartTree DEF Adding, Free
  <2>5. Chart!Add(c)
    BY <1>3, <2>1, <2>2, <2>3, <2>4 DEF Chart!Add, chart
  <2>6. QED
    BY <2>5 DEF Chart!Next, Ids
<1>8. CASE Moving(n)
  <2>1. n.id \in Present(nodes)
        /\ chart[n.id] = [userId |-> n.userId,
                         supervisorId |-> nodes[n.id].supervisorId]
    BY <1>8, ChartTree DEF Moving
  <2>2. chart' = [chart EXCEPT ![n.id].supervisorId = n.supervisorId]
    BY <1>2, <1>5, <1>6, <2>1 DEF chart
  <2>3. n.supervisorId \in Chart!Supervisors
    BY <1>8, ChartTree DEF Moving, MayStillMove, Chart!Supervisors, chart
  <2>4. n.supervisorId # n.id
    BY <1>2, <1>8, OrgSentinelAssumption DEF Moving, MayStillMove, MayMove
  <2>5. n.supervisorId # ROOT => ~Chart!IsAncestor(chart, n.id, n.supervisorId)
    BY <1>8, ChartAncestors DEF Moving, MayStillMove, MayMove
  <2>6. n.id \in Chart!Present(chart)
    BY <2>1, ChartTree
  <2>7. Chart!Move(n.id)
    BY <2>2, <2>3, <2>4, <2>5, <2>6 DEF Chart!Move, chart
  <2>8. QED
    BY <1>2, <2>7 DEF Chart!Next
<1>9. CASE Staying(n)
  <2>1. chart[n.id] = Place(n.id)'
    BY <1>6, <1>9, ChartTree DEF Staying
  <2>2. QED
    BY <1>2, <1>5, <2>1 DEF chart
<1>10. QED
  BY <1>2, <1>7, <1>8, <1>9, PutKinds

LEMMA DeleteRefines ==
  ASSUME TypeOK, NEW c \in Calls, StillTrue(c), Delete(c)
  PROVE  Chart!Next
<1> DEFINE id == call[c].id
<1>1. nodes' = [nodes EXCEPT ![id] = Undefined]
  BY DEF Delete
<1>2. /\ id \in Present(nodes)
      /\ \A n \in Present(nodes) : nodes[n].supervisorId # id
  BY DeletesLeaf
<1>3. id \in Ids /\ \A m \in Ids : nodes'[m] = IF m = id THEN Undefined ELSE nodes[m]
  BY <1>1, <1>2 DEF Present, TypeOK, Tree
<1>4. chart' = [chart EXCEPT ![id] = Undefined]
  BY <1>3 DEF chart, Place
<1>5. /\ id \in Chart!Present(chart)
      /\ \A m \in Chart!Present(chart) : chart[m].supervisorId # id
  BY <1>2, ChartTree
<1>6. Chart!Remove(id)
  BY <1>4, <1>5 DEF Chart!Remove, chart
<1>7. QED
  BY <1>3, <1>6 DEF Chart!Next

LEMMA NextRefines ==
  ASSUME TypeOK, ChecksStillHold, [Next]_vars, ~Disorderly
  PROVE  Chart!Next \/ chart' = chart
<1>1. UNCHANGED nodes => chart' = chart
  BY DEF chart, Place
<1>2. \A c \in Calls : PutLands(c) \/ Delete(c) => StillTrue(c)
  BY DEF Disorderly, ChecksStillHold
<1>3. QED
  BY <1>1, <1>2, TableStays, LandsRefines, DeleteRefines DEF Disorderly

(***************************************************************************)
(* The handlers implement the abstract hierarchy but for those steps, in   *)
(* spite of lost puts, failures between their steps, stale reads and the   *)
(* calls that overlap.                                                     *)
(***************************************************************************)
THEOREM HierarchyImplemented == Spec => ImplementsHierarchy
<1>1. TypeOK /\ ChecksStillHold /\ [Next]_vars
      => [Chart!Next \/ Disorderly]_chart
  BY NextRefines
<1>2. QED
  BY InitRefines, <1>1, OrgTypeCorrect, ChecksHold, PTL DEF Spec, ImplementsHierarchy

-------------------------------------------------------------------------------
(* Levels.                                                                 *)

LEMMA TableIsTree ==
  ASSUME NEW t \in Tree
  PROVE  IsTree(t)
  BY IdsFinite, OrgSentinelAssumption DEF IsTree, Tree, Present, Node

(***************************************************************************)
(* A level depends on the nodes there are and on their supervisors, cycles *)
(* or not.                                                                 *)
(***************************************************************************)
LEMMA SameLevelOf ==
  ASSUME NEW t, NEW u, DOMAIN u = DOMAIN t, Present(u) = Present(t),
         \A n \in Present(t) : u[n].supervisorId = t[n].supervisorId, NEW n
  PROVE  LevelOf(u, n) = LevelOf(t, n)
<1>1. Ancestors(u, n) = Ancestors(t, n)
  BY SameAncestors DEF Ancestors
<1>2. {m \in Present(u) \cap ({n} \cup Ancestors(u, n)) :
         u[m].supervisorId \in Present(u)}
      = {m \in Present(t) \cap ({n} \cup Ancestors(t, n)) :
           t[m].supervisorId \in Present(t)}
  BY <1>1
<1>3. QED
  BY <1>2 DEF LevelOf

(***************************************************************************)
(* One put for each node, so what lands is that put.                       *)
(***************************************************************************)
OnePutPerNode(c) == \A v, w \in outstanding[c] : v.id = w.id => v = w

LEMMA LandedAt ==
  ASSUME NEW c \in Calls, OnePutPerNode(c), NEW n \in Ids
  PROVE  /\ \A v \in outstanding[c] : v.id = n => AllLanded(c)[n] = v
         /\ (\A v \in outstanding[c] : v.id # n) => AllLanded(c)[n] = nodes[n]
  BY DEF OnePutPerNode, AllLanded

(***************************************************************************)
(* It is enough that the levels of the call that takes the step are due.   *)
(***************************************************************************)
LEMMA LevelsStep ==
  ASSUME TypeOK, TypeOK', LevelInv, NEW c \in Calls, OnlyOf(c), Note(c),
         c \notin outdated' /\ pc'[c] = "putNodes" => LevelsDue(c)'
  PROVE  LevelInv'
<1> SUFFICES ASSUME NEW d \in Calls \ outdated', pc'[d] = "putNodes", d # c
             PROVE  LevelsDue(d)'
  BY DEF LevelInv
<1>1. d \in TreeWriters'
  BY DEF TreeWriters, TypeOK, FrameOK
<1>2. d \notin outdated /\ UNCHANGED nodes
  BY <1>1, NoteOutdated
<1>3. pc[d] = "putNodes" /\ call'[d] = call[d] /\ outstanding'[d] = outstanding[d]
  BY OthersSame
<1>4. LevelsDue(d)
  BY <1>2, <1>3 DEF LevelInv
<1>5. AllLanded(d)' = AllLanded(d)
  BY <1>2, <1>3 DEF AllLanded
<1>6. LevelsRight(AllLanded(d)') <=> LevelsRight(AllLanded(d))
  BY <1>5
<1>7. LevelsRight(AllLanded(d))' <=> LevelsRight(AllLanded(d)')
  BY DEF LevelsRight, LevelOf, Present, Ancestors, IsAncestor, ClosedUpwards
<1>8. QED
  BY <1>2, <1>3, <1>4, <1>6, <1>7 DEF LevelsDue, Moves, FitsUnder

(***************************************************************************)
(* createNode: one level more than the supervisor that was read.           *)
(***************************************************************************)
LEMMA CreateLevels ==
  ASSUME TypeOK, TypeOK', NEW c \in Calls, pc'[c] = "putNodes",
         CheckUser(c, nodes) \/ CheckSupervisor(c, nodes)
  PROVE  LevelsDue(c)'
<1>1. call[c].op = "createNode"
  BY DEF CheckUser, CheckSupervisor, At
<1>2. ~Answer(c, 400) /\ ~(Continue(c, "getSupervisor", Undefined) /\ Reads)
  BY DEF Answer, Leave, Continue, TypeOK
<1>3. PICK level :
        /\ PutNewNode(c, level)
        /\ level = IF call[c].supervisorId = ROOT THEN 0
                   ELSE nodes[call[c].supervisorId].level + 1
  <2>1. CASE CheckUser(c, nodes)
    BY <1>2, <2>1 DEF CheckUser
  <2>2. CASE CheckSupervisor(c, nodes)
    <3>1. call[c].supervisorId # ROOT
      BY <2>2 DEF CheckSupervisor, At, TypeOK, FrameOK
    <3>2. QED
      BY <1>2, <2>2, <3>1 DEF CheckSupervisor
  <2>3. QED
    BY <2>1, <2>2
<1>4. PICK v : v = NewNode(c, level)
  OBVIOUS
<1>5. /\ outstanding'[c] = {v} /\ call'[c] = call[c] /\ UNCHANGED nodes
      /\ v.id = c /\ v.level = level /\ v.supervisorId = call[c].supervisorId
  BY <1>3, <1>4, SendPutsOnly DEF PutNewNode, SendPuts, tables, NewNode
<1>6. FitsUnder(v)'
  BY <1>3, <1>5 DEF FitsUnder
<1>7. ~Moves(c)'
  BY <1>1, <1>5 DEF Moves
<1>8. QED
  BY <1>5, <1>6, <1>7 DEF LevelsDue

(***************************************************************************)
(* updateNode and assignSupervisor: the puts are all it takes for every    *)
(* level to be what recomputeLevels found in the moved tree.               *)
(***************************************************************************)
LEMMA LandedMove ==
  ASSUME TypeOK, HistoryInv, NEW id \in Present(nodes), NEW s \in Ids \cup {ROOT},
         NEW u, DOMAIN u = Ids,
         LET moved == [nodes EXCEPT ![id].supervisorId = s]
             puts == Changed(moved, id)
         IN \A n \in Ids :
              /\ \A v \in puts : v.id = n => u[n] = v
              /\ (\A v \in puts : v.id # n) => u[n] = nodes[n]
  PROVE  LevelsRight(u)
<1> DEFINE moved == [nodes EXCEPT ![id].supervisorId = s]
           puts == Changed(moved, id)
<1>1. moved \in Tree /\ Present(moved) = Present(nodes) /\ nodes \in Tree
  BY MovedType DEF TypeOK
<1>2. /\ moved[id] = [nodes[id] EXCEPT !.supervisorId = s]
      /\ \A n \in Present(nodes) \ {id} : moved[n] = nodes[n]
      /\ nodes[id] \in Node
  BY <1>1 DEF Tree, Present
<1>4. \A n \in Present(nodes) : moved[n] \in Node /\ moved[n].id = n
  <2>1. \A n \in Present(nodes) : moved[n].id = nodes[n].id
    BY <1>2 DEF Node
  <2>2. QED
    BY <1>1, <2>1, NodeFacts DEF Tree, Present
<1> HIDE DEF moved
<1>5. \A n \in Present(nodes) : LevelOf(moved, n) \in Nat
  BY <1>1, LevelType
<1>6. \A n \in Present(nodes) :
        /\ [moved[n] EXCEPT !.level = LevelOf(moved, n)].id = n
        /\ [moved[n] EXCEPT !.level = LevelOf(moved, n)].level = LevelOf(moved, n)
        /\ [moved[n] EXCEPT !.level = LevelOf(moved, n)].supervisorId
             = moved[n].supervisorId
  BY <1>4 DEF Node
<1>7. ASSUME NEW v \in puts
      PROVE  \E n \in Present(nodes) :
               v = [moved[n] EXCEPT !.level = LevelOf(moved, n)] /\ v.id = n
  <2>1. PICK n \in Present(nodes) :
          v = [moved[n] EXCEPT !.level = LevelOf(moved, n)]
    BY <1>1 DEF Changed, Relevelled
  <2>2. QED
    BY <1>6, <2>1
<1>8. ASSUME NEW n \in Present(nodes)
      PROVE  /\ u[n] # Undefined /\ u[n].level = LevelOf(moved, n)
             /\ u[n].supervisorId = moved[n].supervisorId
  <2>1. n \in Ids
    BY <1>1 DEF Tree, Present
  <2> DEFINE v == [moved[n] EXCEPT !.level = LevelOf(moved, n)]
  <2>2. v \in Node /\ v # Undefined /\ v.id = n
    BY <1>4, <1>5, <1>6, OrgSentinelAssumption DEF Node
  <2>3. CASE v \in puts
    BY <1>6, <2>1, <2>2, <2>3 DEF moved
  <2>4. CASE v \notin puts
    <3>1. n # id /\ moved[n].level = LevelOf(moved, n)
      BY <1>1, <2>4 DEF Changed, Relevelled
    <3>2. \A w \in puts : w.id # n
      BY <1>7, <2>4
    <3>3. u[n] = nodes[n]
      BY <2>1, <3>2 DEF moved
    <3>4. QED
      BY <1>2, <3>1, <3>3 DEF Present
  <2>5. QED
    BY <2>3, <2>4
<1>9. Present(u) = Present(nodes)
  <2>1. \A n \in Ids \ Present(nodes) : \A v \in puts : v.id # n
    BY <1>7
  <2>2. \A n \in Ids \ Present(nodes) : u[n] = Undefined
    BY <1>1, <2>1 DEF moved, Tree, Present
  <2>3. QED
    BY <1>1, <1>8, <2>2 DEF Present, Tree
<1>10. DOMAIN moved = Ids
  BY <1>1 DEF Tree
<1>11. \A n \in Present(nodes) : LevelOf(u, n) = LevelOf(moved, n)
  BY <1>1, <1>8, <1>9, <1>10, SameLevelOf
<1>12. QED
  BY <1>8, <1>9, <1>11 DEF LevelsRight

LEMMA ComputeUpdateLevels ==
  ASSUME TypeOK, TypeOK', HistoryInv, HistoryInv', NEW c \in Calls,
         pc'[c] = "putNodes", ComputeUpdate(c, nodes)
  PROVE  LevelsDue(c)'
<1> DEFINE id == call[c].id
           s == call[c].supervisorId
           moved == [nodes EXCEPT ![id].supervisorId = s]
<1>1. call[c] \in UpdateArgs /\ call[c].op = "updateNode"
  BY DEF ComputeUpdate, At, TypeOK, FrameOK
<1>2. s \in Ids \cup {ROOT, Undefined} /\ nodes \in Tree
  BY <1>1 DEF UpdateArgs, TypeOK
<1>3. \A status : ~Answer(c, status)
  BY DEF Answer, Leave, TypeOK
<1>4. PICK puts, entry :
        /\ id \in Present(nodes) /\ SendPuts(c, puts, entry)
        /\ \/ puts = {nodes[id]} /\ s = Undefined
           \/ puts = Changed(moved, id) /\ s # Undefined
  BY <1>3 DEF ComputeUpdate
<1>5. /\ outstanding'[c] = puts /\ call'[c] = call[c] /\ UNCHANGED nodes
  BY <1>4, SendPutsOnly DEF SendPuts, tables
<1>6. CASE puts = {nodes[id]} /\ s = Undefined
  <2>1. nodes[id].id = id /\ nodes[c] = Undefined /\ id # c
    BY <1>4, <1>5, NodeFacts, UnputAbsent DEF Present
  <2>2. ~Moves(c)'
    BY <1>5, <1>6 DEF Moves
  <2>3. QED
    BY <1>5, <1>6, <2>1, <2>2 DEF LevelsDue
<1>7. CASE puts = Changed(moved, id) /\ s # Undefined
  <2>1. s \in Ids \cup {ROOT}
    BY <1>2, <1>7
  <2>2. \A v, w \in puts : v.id = w.id => v = w
    BY <1>2, <1>4, <1>7, <2>1, ChangedOnce, NodeFacts
  <2> DEFINE u == AllLanded(c)'
  <2>3. DOMAIN u = Ids
    BY DEF AllLanded
  <2>4. \A n \in Ids :
          /\ \A v \in Changed(moved, id) : v.id = n => u[n] = v
          /\ (\A v \in Changed(moved, id) : v.id # n) => u[n] = nodes[n]
    <3>1. \A n \in Ids : /\ \A v \in puts : v.id = n => u[n] = v
                         /\ (\A v \in puts : v.id # n) => u[n] = nodes[n]
      BY <1>5, <2>2 DEF AllLanded
    <3>2. QED
      BY <1>7, <3>1
  <2> HIDE DEF u
  <2>5. LevelsRight(u)
    BY <1>4, <2>1, <2>3, <2>4, LandedMove
  <2>6. LevelsRight(AllLanded(c))'
    BY <2>5 DEF LevelsRight, LevelOf, Present, Ancestors, IsAncestor,
       ClosedUpwards, u
  <2>7. Moves(c)'
    BY <1>1, <1>5, <1>7 DEF Moves
  <2>8. QED
    BY <1>5, <2>2, <2>6, <2>7 DEF LevelsDue
<1>8. QED
  BY <1>4, <1>6, <1>7

(***************************************************************************)
(* A put that lands changes nothing about how the table will end.          *)
(***************************************************************************)
LEMMA LandsAsDue ==
  ASSUME TypeOK, NEW c \in Calls, OnePutPerNode(c), PutLands(c)
  PROVE  AllLanded(c)' = AllLanded(c) /\ OnePutPerNode(c)'
<1>1. PICK n \in outstanding[c] :
        /\ nodes' = [nodes EXCEPT ![n.id] = n]
        /\ outstanding' = [outstanding EXCEPT ![c] = @ \ {n}]
  BY DEF PutLands
<1>2. n \in Node /\ n.id \in Ids
  BY DEF TypeOK, Node
<1>3. outstanding'[c] = outstanding[c] \ {n}
  BY <1>1 DEF TypeOK
<1>4. OnePutPerNode(c)'
  BY <1>3 DEF OnePutPerNode
<1>5. AllLanded(c)' = AllLanded(c)
  <2>1. ASSUME NEW m \in Ids PROVE AllLanded(c)'[m] = AllLanded(c)[m]
    <3>1. /\ \A v \in outstanding[c] : v.id = m => AllLanded(c)[m] = v
          /\ (\A v \in outstanding[c] : v.id # m) => AllLanded(c)[m] = nodes[m]
      BY <1>4, LandedAt
    <3>2. /\ \A v \in outstanding'[c] : v.id = m => AllLanded(c)'[m] = v
          /\ (\A v \in outstanding'[c] : v.id # m) => AllLanded(c)'[m] = nodes'[m]
      BY <1>4 DEF OnePutPerNode, AllLanded
    <3>3. nodes'[m] = IF m = n.id THEN n ELSE nodes[m]
      BY <1>1, <1>2 DEF TypeOK, Tree
    <3>4. QED
      BY <1>3, <1>4, <3>1, <3>2, <3>3 DEF OnePutPerNode
  <2>2. QED
    BY <2>1 DEF AllLanded
<1>6. QED
  BY <1>4, <1>5

LEMMA PutLandsLevels ==
  ASSUME TypeOK, TypeOK', NEW c \in Calls, PutLands(c), pc'[c] = "putNodes",
         LevelsDue(c)
  PROVE  LevelsDue(c)'
<1>1. pc[c] = "putNodes" /\ call'[c] = call[c]
      /\ \A n : outstanding[c] # {n}
  BY DEF PutLands, handlers, Continue, Leave, TypeOK, FrameOK
<1>2. Moves(c) /\ OnePutPerNode(c) /\ LevelsRight(AllLanded(c))
  BY <1>1 DEF LevelsDue, OnePutPerNode
<1>3. AllLanded(c)' = AllLanded(c) /\ OnePutPerNode(c)'
  BY <1>2, LandsAsDue
<1>4. LevelsRight(AllLanded(c)')
  BY <1>2, <1>3
<1>5. LevelsRight(AllLanded(c))'
  BY <1>4 DEF LevelsRight, LevelOf, Present, Ancestors, IsAncestor, ClosedUpwards
<1>6. QED
  BY <1>1, <1>2, <1>3, <1>5 DEF LevelsDue, Moves, OnePutPerNode

LEMMA LevelNext ==
  ASSUME TypeOK, TypeOK', HistoryInv, HistoryInv', LevelInv, [Next]_vars
  PROVE  LevelInv'
<1>1. ASSUME NEW c \in Calls, Arrive(c) \/ Step(c) \/ Fail(c), Note(c)
      PROVE  LevelInv'
  <2>1. OnlyOf(c)
    BY <1>1, StepOnly
  <2>2. ASSUME c \notin outdated', pc'[c] = "putNodes" PROVE LevelsDue(c)'
    <3>1. c \in TreeWriters'
      BY <2>2 DEF TreeWriters, TypeOK, FrameOK
    <3>2. c \notin outdated /\ ~Misled(c)
      BY <1>1, <2>1, <2>2, <3>1, NoteOutdated
    <3>3. ~Arrive(c) /\ ~Delete(c)
      BY <3>1, ArriveIdle, DeleteIdle
    <3>4. ~WriteAudit(c) /\ ~Fail(c)
      BY <2>2 DEF WriteAudit, Fail, Answer, Leave, TypeOK
    <3>5. ~PutFails(c)
      BY <2>2 DEF PutFails, Leave, TypeOK
    <3>6. CASE PutLands(c)
      <4>1. pc[c] = "putNodes"
        BY <2>2, <3>6 DEF PutLands, handlers, Continue, Leave, TypeOK
      <4>2. QED
        BY <2>2, <3>2, <3>6, <4>1, PutLandsLevels DEF LevelInv
    <3>7. CASE \E t \in Views : Decide(c, t)
      <4>1. Decide(c, nodes)
        BY <3>2, <3>7, NotMisled
      <4>2. ~CheckNode(c, nodes) /\ ~CheckSubordinates(c, nodes)
        BY <2>2 DEF CheckNode, CheckSubordinates, Answer, Leave, Continue, TypeOK
      <4>3. QED
        BY <2>2, <4>1, <4>2, CreateLevels, ComputeUpdateLevels DEF Decide
    <3>8. QED
      BY <1>1, <3>3, <3>4, <3>5, <3>6, <3>7 DEF Step
  <2>3. QED
    BY <1>1, <2>1, <2>2, LevelsStep
<1>2. CASE LandAgain
  <2>1. outdated' = TreeWriters' /\ \A c \in Calls : pc'[c] = "putNodes" =>
          c \in TreeWriters'
    BY <1>2 DEF LandAgain, TreeWriters, handlers, TypeOK, FrameOK
  <2>2. QED
    BY <2>1 DEF LevelInv
<1>3. CASE UNCHANGED vars
  <2>1. UNCHANGED <<pc, call, outstanding, nodes, outdated>>
    BY <1>3 DEF vars, handlers, tables
  <2>2. \A c \in Calls : LevelsDue(c)' <=> LevelsDue(c)
    BY <2>1 DEF LevelsDue, Moves, FitsUnder, AllLanded, LevelsRight, LevelOf,
       Present, Ancestors, IsAncestor, ClosedUpwards
  <2>3. QED
    BY <2>1, <2>2 DEF LevelInv
<1>4. QED
  BY <1>1, <1>2, <1>3 DEF Next, Terminating

LEMMA InitLevels == Init => LevelInv
  BY DEF Init, LevelInv

(***************************************************************************)
(* What the puts of a call that is not outdated amount to: the inductive   *)
(* invariant on levels.                                                    *)
(***************************************************************************)
THEOREM LevelsHold == Spec => []LevelInv
<1>1. TypeOK /\ TypeOK' /\ HistoryInv /\ HistoryInv' /\ LevelInv /\ [Next]_vars
      => LevelInv'
  BY LevelNext
<1>2. QED
  BY InitLevels, <1>1, OrgTypeCorrect, OrgHistoryHolds, PTL DEF Spec

(***************************************************************************)
(* Only the landing of its last put takes a call to its audit entry.       *)
(***************************************************************************)
LEMMA LastPutIsAPut ==
  ASSUME TypeOK, [Next]_vars, NEW c \in Calls, LastPutLands(c)
  PROVE  /\ PutLands(c) /\ outstanding'[c] = {}
         /\ \A v : outstanding[c] = {v} => Lands(v)
<1>1. pc[c] = "putNodes" /\ pc'[c] = "writeAudit"
  BY DEF LastPutLands
<1>2. ~UNCHANGED vars /\ ~LandAgain
  BY <1>1 DEF vars, handlers, LandAgain
<1>3. PICK d \in Calls : Arrive(d) \/ Step(d) \/ Fail(d)
  BY <1>2 DEF Next, Terminating
<1>4. d = c
  BY <1>1, <1>3, StepOnly, OthersSame
<1>5. ~Arrive(c)
  BY <1>1 DEF Arrive, CreateNode, UpdateNode, AssignSupervisor, DeleteNode, Begin
<1>6. ~PutFails(c)
  BY <1>1 DEF PutFails, Leave, TypeOK
<1>7. PutLands(c)
  BY <1>1, <1>3, <1>4, <1>5, <1>6
     DEF Step, Decide, Fail, CheckUser, CheckSupervisor, ComputeUpdate, CheckNode,
         CheckSubordinates, Delete, WriteAudit, At
<1>8. outstanding'[c] = {}
  BY <1>1, <1>7 DEF PutLands, handlers, Leave, TypeOK
<1>9. \A v : outstanding[c] = {v} => Lands(v)
  BY <1>7 DEF PutLands, Lands
<1>10. QED
  BY <1>7, <1>8, <1>9

(***************************************************************************)
(* A new node fits under its supervisor: every other level stays right.    *)
(***************************************************************************)
LEMMA AddedFits ==
  ASSUME TypeOK, TypeOK', HistoryInv, NEW c \in Calls, pc[c] = "putNodes",
         Acyclic(nodes), LevelsRight(nodes),
         NEW v \in Node, Lands(v), Adding(c, v), FitsUnder(v)
  PROVE  LevelsRight(nodes')
<1>1. c \notin Present(nodes) /\ c # ROOT /\ ROOT \notin Present(nodes)
  BY OrgSentinelAssumption DEF Adding, Present, TypeOK, Tree, Ids
<1>2. \A n \in Present(nodes) : nodes[n].supervisorId # c
  <2>1. ~Known(c)
    BY DEF HistoryInv, CallOK
  <2>2. QED
    BY <1>1, <2>1, NodeFacts
<1>3. /\ nodes'[c] = v /\ Present(nodes') = Present(nodes) \cup {c}
      /\ \A n \in Present(nodes) : nodes'[n] = nodes[n]
  BY <1>1, LandsWhere DEF Adding
<1>4. v.supervisorId # c /\ v.supervisorId \in Present(nodes) \cup {ROOT}
  BY <1>1 DEF Adding
<1>5. Acyclic(nodes')
  BY <1>1, <1>2, <1>3, <1>4, AddAcyclic
<1>6. LevelsFit(nodes)
  BY TableIsTree, LevelsFitExact DEF TypeOK
<1>7. ASSUME NEW n \in Present(nodes)
      PROVE  nodes'[n].level = IF nodes'[n].supervisorId \in Present(nodes')
               THEN nodes'[nodes'[n].supervisorId].level + 1 ELSE 0
  <2>1. nodes'[n] = nodes[n] /\ nodes[n].supervisorId # c
    BY <1>2, <1>3
  <2>2. QED
    BY <1>3, <1>6, <2>1 DEF LevelsFit
<1>8. v.level = IF v.supervisorId \in Present(nodes')
                THEN nodes'[v.supervisorId].level + 1 ELSE 0
  BY <1>1, <1>3, <1>4 DEF FitsUnder
<1>9. LevelsFit(nodes')
  BY <1>3, <1>7, <1>8 DEF LevelsFit
<1>10. nodes' \in Tree
  BY DEF TypeOK
<1>11. QED
  BY <1>5, <1>9, <1>10, TableIsTree, LevelsFitExact

LEMMA LastPutLevels ==
  ASSUME TypeOK, TypeOK', HistoryInv, ChecksStillHold, LevelInv, [Next]_vars,
         NEW c \in Calls \ outdated, LastPutLands(c),
         Moves(c) \/ (Acyclic(nodes) /\ LevelsRight(nodes))
  PROVE  LevelsRight(nodes')
<1>1. /\ pc[c] = "putNodes" /\ outstanding'[c] = {} /\ PutLands(c)
      /\ \A v : outstanding[c] = {v} => Lands(v)
  BY LastPutIsAPut DEF LastPutLands
<1>2. LevelsDue(c) /\ StillTrue(c)
  BY <1>1 DEF LevelInv, ChecksStillHold
<1>3. CASE Moves(c)
  <2>1. OnePutPerNode(c) /\ LevelsRight(AllLanded(c))
    BY <1>2, <1>3 DEF LevelsDue, OnePutPerNode
  <2>2. AllLanded(c)' = AllLanded(c)
    BY <1>1, <2>1, LandsAsDue
  <2>3. AllLanded(c)' = nodes'
    BY <1>1 DEF AllLanded, TypeOK, Tree
  <2>4. QED
    BY <2>1, <2>2, <2>3
<1>4. CASE ~Moves(c)
  <2>1. PICK v \in outstanding[c] :
          /\ outstanding[c] = {v}
          /\ IF v.id = c THEN FitsUnder(v) ELSE v = nodes[v.id]
    BY <1>2, <1>4 DEF LevelsDue
  <2>2. v \in Node /\ Lands(v)
    BY <1>1, <2>1 DEF TypeOK
  <2>3. CASE v.id = c
    <3>1. Adding(c, v)
      BY <1>2, <2>3, PutKinds
    <3>2. QED
      BY <1>1, <1>4, <2>1, <2>2, <2>3, <3>1, AddedFits
  <2>4. CASE v.id # c
    <3>1. nodes' = nodes
      BY <2>1, <2>2, <2>4 DEF Lands, TypeOK, Tree
    <3>2. QED
      BY <1>4, <3>1
  <2>5. QED
    BY <2>3, <2>4
<1>5. QED
  BY <1>3, <1>4

(***************************************************************************)
(* Levels are right in the whole tree the moment the puts of a reparenting *)
(* that is not outdated have all landed, whatever failures and cycles went *)
(* before; the put of a new node keeps them right.                         *)
(***************************************************************************)
THEOREM LevelsAreRightHolds == Spec => LevelsAreRight
<1>1. /\ TypeOK /\ TypeOK' /\ HistoryInv /\ ChecksStillHold /\ LevelInv
      /\ [Next]_vars
      => [\A c \in Calls \ outdated :
            /\ LastPutLands(c)
            /\ Moves(c) \/ (Acyclic(nodes) /\ LevelsRight(nodes))
            => LevelsRight(nodes')]_vars
  BY LastPutLevels
<1>2. QED
  BY <1>1, OrgTypeCorrect, OrgHistoryHolds, ChecksHold, LevelsHold, PTL
     DEF Spec, LevelsAreRight
===============================================================================
