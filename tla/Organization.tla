------------------------------ MODULE Organization ------------------------------
(***************************************************************************)
(* The organization module of the BFF: OrganizationService over its        *)
(* repository, the audit log and DynamoDB.                                 *)
(*                                                                         *)
(* As in Vacation, every POST /organization that the guards let pass is a  *)
(* call, a little process that stops at each await; the node a call        *)
(* creates has that call as its id.  A handler that changes several nodes  *)
(* sends all their puts at once and awaits Promise.all: the puts land in   *)
(* any order, and the first that fails ends the handler while the others   *)
(* are still on their way.  A put or a delete may land again later: the    *)
(* SDK repeats a request whose answer it did not get.                      *)
(***************************************************************************)
EXTENDS OrgTree

CONSTANTS
  Calls,         \* the POST /organization calls, one per handler invocation
  Existing,      \* ids of the nodes that may exist initially
  User,          \* users that nodes are for
  Trees,         \* the trees the table may hold initially
  MaxInFlight,   \* how many handlers may be running at once
  EventualReads  \* whether reads may return older versions of an item

Ids == Calls \cup Existing

Node == [id : Ids, userId : User, supervisorId : Ids \cup {ROOT}, level : Nat]

Tree == [Ids -> Node \cup {Undefined}]

ASSUME OrgConfigAssumption ==
  /\ IsFiniteSet(Calls) /\ IsFiniteSet(Existing)
  /\ Calls \cap Existing = {}
  /\ MaxInFlight \in Nat /\ EventualReads \in BOOLEAN

ASSUME OrgSentinelAssumption ==
  /\ Undefined \notin Node \cup Ids \cup {ROOT} \cup Int /\ ROOT \notin Ids
  /\ Undefined \notin [userId : User, supervisorId : Ids \cup {ROOT}]

ASSUME TreesAssumption ==
  \A t \in Trees :
    /\ t \in Tree /\ IsHierarchy(t) /\ LevelsRight(t)
    /\ \A n \in Present(t) : n \in Existing /\ t[n].id = n

VARIABLES
  pc,           \* pc[c]: the await call c is at
  call,         \* call[c]: what the client of call c asked, while it runs
  held,         \* held[c]: the audit entry call c will write
  outstanding,  \* outstanding[c]: the puts of call c still on their way
  response,     \* response[c]: the HTTP status call c was answered with
  nodes,        \* table wfn-org-nodes, by id
  written,      \* every version of a node ever put
  removed,      \* every id ever deleted
  audit         \* table wfn-audit-logs

(***************************************************************************)
(* No handler reads these; they are for the properties.                    *)
(***************************************************************************)
VARIABLES
  outdated,  \* the handlers about to act on what the table does not hold
  crossed,   \* the updates that another update, or a repeat, came between
  disorder   \* whether a crossed update, or a repeat, changed the table

handlers == <<pc, call, held, response>>
tables == <<nodes, written, removed, audit>>
vars == <<handlers, outstanding, tables, outdated, crossed, disorder>>

-------------------------------------------------------------------------------
(* Handlers.                                                               *)

(***************************************************************************)
(* A handler that was answered 500 may have left puts on their way: it is  *)
(* then abandoned, and its call is still in flight.                        *)
(***************************************************************************)
InFlight == {c \in Calls : pc[c] \notin {"unsent", "answered"}}

HasRoom == Cardinality(InFlight) < MaxInFlight

Begin(c, args, await) ==
  /\ pc[c] = "unsent"
  /\ pc' = [pc EXCEPT ![c] = await]
  /\ call' = [call EXCEPT ![c] = args]
  /\ UNCHANGED <<held, response, outstanding, tables>>

Continue(c, await, entry) ==
  /\ pc' = [pc EXCEPT ![c] = await]
  /\ held' = [held EXCEPT ![c] = entry]
  /\ UNCHANGED <<call, response>>

Leave(c, await, status) ==
  /\ pc' = [pc EXCEPT ![c] = await]
  /\ call' = [call EXCEPT ![c] = Undefined]
  /\ held' = [held EXCEPT ![c] = Undefined]
  /\ response' = [response EXCEPT ![c] = status]

Answer(c, status) == Leave(c, "answered", status)

(***************************************************************************)
(* Every put of the Promise.all is sent before any has landed.             *)
(***************************************************************************)
SendPuts(c, puts, entry) ==
  /\ Continue(c, "putNodes", entry)
  /\ outstanding' = [outstanding EXCEPT ![c] = puts]
  /\ UNCHANGED tables

At(c, op, await) == pc[c] = await /\ call[c].op = op

(***************************************************************************)
(* A step that only reads.                                                 *)
(***************************************************************************)
Reads == UNCHANGED <<outstanding, tables>>

(***************************************************************************)
(* What a get, a scan, or a query over byUser or bySupervisor may take for *)
(* the table, none of which asks for a consistent read: each item as it    *)
(* is, or in any version put so far, or absent.                            *)
(***************************************************************************)
Views ==
  IF EventualReads
  THEN {t \in [Ids -> written \cup {Undefined}] :
          \A n \in Present(t) : t[n].id = n}
  ELSE {nodes}

\* Mutant: the entry names the call instead of the node.
EntryOfCall(c, action, id, supervisorId) ==
  [id |-> c, action |-> action, entityId |-> c, supervisorId |-> supervisorId]

Entry(c, action, id, supervisorId) ==
  [id |-> c, action |-> action, entityId |-> id, supervisorId |-> supervisorId]

-------------------------------------------------------------------------------
(* createNode.                                                             *)

CreateNode(c) ==
  /\ HasRoom
  /\ \E user \in User, s \in Ids \cup {ROOT} :
       Begin(c, [op |-> "createNode", userId |-> user, supervisorId |-> s],
             "getByUserId")

\* Mutant: the two ids swapped.
NewNodeSwapped(c, level) ==
  [id |-> IF call[c].supervisorId = ROOT THEN c ELSE call[c].supervisorId,
   userId |-> call[c].userId, supervisorId |-> ROOT, level |-> level]

NewNode(c, level) ==
  [id |-> c, userId |-> call[c].userId,
   supervisorId |-> call[c].supervisorId, level |-> level]

PutNewNode(c, level) ==
  SendPuts(c, {NewNode(c, level)},
           Entry(c, "HIERARCHY_CREATED", c, call[c].supervisorId))

\* Mutant: a user may have several nodes.
CheckNothing(c, t) ==
  /\ At(c, "createNode", "getByUserId")
  /\ \/ /\ call[c].supervisorId # ROOT
        /\ Continue(c, "getSupervisor", Undefined) /\ Reads
     \/ call[c].supervisorId = ROOT /\ PutNewNode(c, 0)

(***************************************************************************)
(* One node for each user; a node at the top needs no supervisor.  Here    *)
(* and below, t is what the read returned.                                 *)
(***************************************************************************)
CheckUser(c, t) ==
  /\ At(c, "createNode", "getByUserId")
  /\ LET taken == \E n \in Present(t) : t[n].userId = call[c].userId IN
     \/ taken /\ Answer(c, 400) /\ Reads
     \/ /\ ~taken /\ call[c].supervisorId # ROOT
        /\ Continue(c, "getSupervisor", Undefined) /\ Reads
     \/ ~taken /\ call[c].supervisorId = ROOT /\ PutNewNode(c, 0)

CheckSupervisor(c, t) ==
  /\ At(c, "createNode", "getSupervisor")
  /\ LET s == call[c].supervisorId IN
     \/ s \notin Present(t) /\ Answer(c, 400) /\ Reads
     \/ s \in Present(t) /\ PutNewNode(c, t[s].level + 1)

-------------------------------------------------------------------------------
(* updateNode and assignSupervisor.                                        *)

(***************************************************************************)
(* Position and department are data; without supervisorId (Undefined) the  *)
(* node is put back with nothing else changed.                             *)
(***************************************************************************)
UpdateNode(c) ==
  /\ HasRoom
  /\ \E id \in Ids, s \in Ids \cup {ROOT, Undefined} :
       Begin(c, [op |-> "updateNode", id |-> id, supervisorId |-> s], "getAll")

(***************************************************************************)
(* assignSupervisor is updateNode with a supervisor: the two differ in the *)
(* order in which they change the node in memory.                          *)
(***************************************************************************)
AssignSupervisor(c) ==
  /\ HasRoom
  /\ \E id \in Ids, s \in Ids \cup {ROOT} :
       Begin(c, [op |-> "updateNode", id |-> id, supervisorId |-> s], "getAll")

\* Mutants: the node itself is forgotten; the nodes below are forgotten.
ChangedLevels(t, id) == Relevelled(t)
ChangedAlone(t, id) == {[t[id] EXCEPT !.level = LevelOf(t, id)]}

(***************************************************************************)
(* The node, and every node whose level recomputeLevels corrects.          *)
(***************************************************************************)
Changed(t, id) ==
  Relevelled(t) \cup {[t[id] EXCEPT !.level = LevelOf(t, id)]}

ComputeUpdate(c, t) ==
  /\ At(c, "updateNode", "getAll")
  /\ LET id == call[c].id
         s == call[c].supervisorId
         moved == [t EXCEPT ![id].supervisorId = s]
     IN \/ id \notin Present(t) /\ Answer(c, 404) /\ Reads
        \/ /\ id \in Present(t) /\ s = Undefined
           /\ SendPuts(c, {t[id]},
                       Entry(c, "HIERARCHY_UPDATED", id, t[id].supervisorId))
        \/ /\ id \in Present(t) /\ s # Undefined /\ ~MayMove(t, id, s)
           /\ Answer(c, 400) /\ Reads
        \/ /\ id \in Present(t) /\ s # Undefined /\ MayMove(t, id, s)
           /\ SendPuts(c, Changed(moved, id),
                       Entry(c, "HIERARCHY_UPDATED", id, s))

-------------------------------------------------------------------------------
(* The puts of a handler.                                                  *)

(***************************************************************************)
(* One put lands; with the last one Promise.all resolves.                  *)
(***************************************************************************)
PutLands(c) ==
  \E n \in outstanding[c] :
    /\ nodes' = [nodes EXCEPT ![n.id] = n]
    /\ written' = written \cup {n}
    /\ outstanding' = [outstanding EXCEPT ![c] = @ \ {n}]
    /\ \/ outstanding[c] # {n} /\ UNCHANGED handlers
       \/ /\ outstanding[c] = {n} /\ pc[c] = "putNodes"
          /\ Continue(c, "writeAudit", held[c])
       \/ /\ outstanding[c] = {n} /\ pc[c] = "abandoned"
          /\ Leave(c, "answered", 500)
    /\ UNCHANGED <<removed, audit>>

(***************************************************************************)
(* One put fails: Promise.all rejects, and the call is answered 500.       *)
(***************************************************************************)
PutFails(c) ==
  \E n \in outstanding[c] :
    /\ outstanding' = [outstanding EXCEPT ![c] = @ \ {n}]
    /\ Leave(c, IF outstanding[c] = {n} THEN "answered" ELSE "abandoned", 500)
    /\ UNCHANGED tables

-------------------------------------------------------------------------------
(* deleteNode.                                                             *)

DeleteNode(c) ==
  /\ HasRoom
  /\ \E id \in Ids : Begin(c, [op |-> "deleteNode", id |-> id], "getNode")

CheckNode(c, t) ==
  /\ At(c, "deleteNode", "getNode")
  /\ \/ call[c].id \notin Present(t) /\ Answer(c, 404)
     \/ /\ call[c].id \in Present(t)
        /\ Continue(c, "getSubordinates",
                    Entry(c, "HIERARCHY_DELETED", call[c].id, Undefined))
  /\ Reads

\* Mutant: subordinates do not matter.
DeleteAnyway(c, t) ==
  /\ At(c, "deleteNode", "getSubordinates")
  /\ Continue(c, "delete", held[c])
  /\ Reads

CheckSubordinates(c, t) ==
  /\ At(c, "deleteNode", "getSubordinates")
  /\ LET leaf == \A n \in Present(t) : t[n].supervisorId # call[c].id IN
     \/ ~leaf /\ Answer(c, 400)
     \/ leaf /\ Continue(c, "delete", held[c])
  /\ Reads

Delete(c) ==
  /\ At(c, "deleteNode", "delete")
  /\ nodes' = [nodes EXCEPT ![call[c].id] = Undefined]
  /\ removed' = removed \cup {call[c].id}
  /\ Continue(c, "writeAudit", held[c])
  /\ UNCHANGED <<outstanding, written, audit>>

-------------------------------------------------------------------------------
(* The log, failures, the specification.                                   *)

\* Mutant: answered without an entry.
AuditSkipped(c) ==
  /\ pc[c] = "writeAudit"
  /\ \E status \in {200, 500} : Answer(c, status)
  /\ UNCHANGED <<outstanding, tables>>

WriteAudit(c) ==
  /\ pc[c] = "writeAudit"
  /\ audit' = audit \cup {held[c]}
  /\ \E status \in {200, 500} : Answer(c, status)
  /\ UNCHANGED <<outstanding, nodes, written, removed>>

(***************************************************************************)
(* Any other AWS call may reject before it takes effect.                   *)
(***************************************************************************)
Fail(c) ==
  /\ c \in InFlight /\ pc[c] \notin {"putNodes", "abandoned"}
  /\ Answer(c, 500)
  /\ Reads

Terminating ==
  /\ \A c \in Calls : pc[c] = "answered"
  /\ UNCHANGED vars

(***************************************************************************)
(* What a handler does with t, which its read returned.                    *)
(***************************************************************************)
Decide(c, t) ==
  \/ CheckUser(c, t) \/ CheckSupervisor(c, t)
  \/ ComputeUpdate(c, t)
  \/ CheckNode(c, t) \/ CheckSubordinates(c, t)

Arrive(c) ==
  CreateNode(c) \/ UpdateNode(c) \/ AssignSupervisor(c) \/ DeleteNode(c)

Step(c) ==
  \/ \E t \in Views : Decide(c, t)
  \/ PutLands(c) \/ PutFails(c) \/ Delete(c)
  \/ WriteAudit(c)

-------------------------------------------------------------------------------
(* Overlaps, stale reads and repeats, noted for the properties.            *)

(***************************************************************************)
(* The handlers that are between the read they decided on and the landing  *)
(* of their last put, the abandoned ones included.  updateNode decides on  *)
(* the scan from which it computes its puts.                               *)
(***************************************************************************)
TreeWriters ==
  {c \in Calls : \/ outstanding[c] # {}
                 \/ pc[c] \in {"getSupervisor", "getSubordinates", "delete"}}

(***************************************************************************)
(* The updates with puts on their way.                                     *)
(***************************************************************************)
Movers ==
  {c \in Calls : /\ outstanding[c] # {}
                 /\ pc[c] = "abandoned" \/ call[c].op = "updateNode"}

(***************************************************************************)
(* A step that goes on from a read as it could not have gone on from the   *)
(* table itself.                                                           *)
(***************************************************************************)
Misled(c) ==
  /\ pc[c] \in {"getByUserId", "getSupervisor", "getAll", "getNode",
                "getSubordinates"}
  /\ ~Decide(c, nodes)

TableChanges == nodes' # nodes

(***************************************************************************)
(* A handler is outdated when it was misled, or when the table has changed *)
(* under it; an update is crossed when it was misled, or when the puts of  *)
(* another have changed the table since its scan.                          *)
(***************************************************************************)
Note(c) ==
  /\ outdated' = {d \in TreeWriters' :
                    \/ d \in outdated
                    \/ d # c /\ TableChanges
                    \/ d = c /\ Misled(c)}
  /\ crossed' = {d \in Movers' :
                   \/ d \in crossed
                   \/ d # c /\ c \in Movers /\ TableChanges
                   \/ d = c /\ Misled(c)}
  /\ disorder' = (disorder \/ (c \in crossed /\ TableChanges))

(***************************************************************************)
(* A PutItem or DeleteItem that took effect is executed once more, however *)
(* late.                                                                   *)
(***************************************************************************)
LandAgain ==
  /\ \/ \E n \in written : nodes' = [nodes EXCEPT ![n.id] = n]
     \/ \E id \in removed : nodes' = [nodes EXCEPT ![id] = Undefined]
  /\ TableChanges
  /\ outdated' = TreeWriters /\ crossed' = Movers /\ disorder' = TRUE
  /\ UNCHANGED <<handlers, outstanding, written, removed, audit>>

Init ==
  /\ pc = [c \in Calls |-> "unsent"]
  /\ call = [c \in Calls |-> Undefined]
  /\ held = [c \in Calls |-> Undefined]
  /\ outstanding = [c \in Calls |-> {}]
  /\ response = [c \in Calls |-> Undefined]
  /\ nodes \in Trees
  /\ written = {nodes[n] : n \in Present(nodes)}
  /\ removed = {} /\ audit = {}
  /\ outdated = {} /\ crossed = {} /\ disorder = FALSE

Next ==
  \/ \E c \in Calls : (Arrive(c) \/ Step(c) \/ Fail(c)) /\ Note(c)
  \/ LandAgain
  \/ Terminating

Spec == Init /\ [][Next]_vars

-------------------------------------------------------------------------------
(* Type correctness.                                                       *)

Await ==
  {"getByUserId", "getSupervisor", "getAll", "putNodes", "abandoned",
   "getNode", "getSubordinates", "delete", "writeAudit"}

CreateArgs ==
  [op : {"createNode"}, userId : User, supervisorId : Ids \cup {ROOT}]
UpdateArgs ==
  [op : {"updateNode"}, id : Ids, supervisorId : Ids \cup {ROOT, Undefined}]
DeleteArgs == [op : {"deleteNode"}, id : Ids]

AuditLog ==
  [id : Calls,
   action : {"HIERARCHY_CREATED", "HIERARCHY_UPDATED", "HIERARCHY_DELETED"},
   entityId : Ids, supervisorId : Ids \cup {ROOT, Undefined}]

FrameOK(c) ==
  /\ pc[c] \in {"unsent", "abandoned", "answered"} => call[c] = Undefined
  /\ pc[c] \in {"getByUserId", "getSupervisor"} => call[c] \in CreateArgs
  /\ pc[c] = "getSupervisor" => call[c].supervisorId # ROOT
  /\ pc[c] = "getAll" => call[c] \in UpdateArgs
  /\ pc[c] = "putNodes" => call[c] \in CreateArgs \cup UpdateArgs
  /\ pc[c] \in {"getNode", "getSubordinates", "delete"} => call[c] \in DeleteArgs
  /\ pc[c] = "writeAudit" => call[c] \in CreateArgs \cup UpdateArgs \cup DeleteArgs
  /\ pc[c] \in {"putNodes", "getSubordinates", "delete", "writeAudit"} =>
       held[c] \in AuditLog
  /\ pc[c] \in {"putNodes", "abandoned"} <=> outstanding[c] # {}

TypeOK ==
  /\ pc \in [Calls -> Await \cup {"unsent", "answered"}]
  /\ call \in [Calls -> CreateArgs \cup UpdateArgs \cup DeleteArgs \cup {Undefined}]
  /\ held \in [Calls -> AuditLog \cup {Undefined}]
  /\ outstanding \in [Calls -> SUBSET Node]
  /\ response \in [Calls -> {200, 400, 404, 500, Undefined}]
  /\ nodes \in Tree
  /\ written \subseteq Node /\ removed \subseteq Ids
  /\ audit \subseteq AuditLog
  /\ \A c \in Calls : FrameOK(c)

-------------------------------------------------------------------------------
(* What the handlers keep, and who can break it.                           *)

Place(n) ==
  IF nodes[n] = Undefined THEN Undefined
  ELSE [userId |-> nodes[n].userId, supervisorId |-> nodes[n].supervisorId]

chart == [n \in Ids |-> Place(n)]

Chart == INSTANCE Hierarchy WITH tree <- chart

(***************************************************************************)
(* The steps of which nothing is promised: a repeat, and the write of a    *)
(* handler that a stale read misled or under which the table changed.      *)
(***************************************************************************)
Disorderly ==
  \/ LandAgain
  \/ \E c \in outdated : PutLands(c) \/ Delete(c)

(***************************************************************************)
(* Every other step is an atomic operation of the hierarchy, or none at    *)
(* all: one node added for a user without one, one node moved to where     *)
(* there is no cycle, one leaf removed; whichever puts of an update have   *)
(* landed and whichever failed, and in whatever state the table was left.  *)
(***************************************************************************)
ImplementsHierarchy ==
  Chart!Init /\ [][Chart!Next \/ Disorderly]_chart

(***************************************************************************)
(* Cycles, orphans and second nodes of a user come from such steps only.   *)
(***************************************************************************)
HierarchyKept ==
  [][IsHierarchy(nodes) => IsHierarchy(nodes') \/ Disorderly]_vars

(***************************************************************************)
(* The moment all the puts of a reparenting have landed, the levels are    *)
(* right in the whole tree, whatever puts of earlier ones were lost and    *)
(* whatever cycles there are; the put of a new node keeps them right, and  *)
(* so does that of a node that stays where it is.                          *)
(***************************************************************************)
Moves(c) == call[c].op = "updateNode" /\ call[c].supervisorId # Undefined

LastPutLands(c) == pc[c] = "putNodes" /\ pc'[c] = "writeAudit"

LevelsAreRight ==
  [][\A c \in Calls \ outdated :
       /\ LastPutLands(c)
       /\ Moves(c) \/ (Acyclic(nodes) /\ LevelsRight(nodes))
       => LevelsRight(nodes')]_vars

(***************************************************************************)
(* Creations and deletions cannot close a cycle, whatever they overlap and *)
(* however stale their reads: it takes an update that was misled by its    *)
(* scan, or since whose scan another update changed the table, or a        *)
(* repeat.                                                                 *)
(***************************************************************************)
CyclesOnlyFromCrossing == ~Acyclic(nodes) => disorder

(***************************************************************************)
(* What isAncestor is for, and does not see to when updates overlap.       *)
(***************************************************************************)
NoCycle == Acyclic(nodes)

-------------------------------------------------------------------------------
(* What holds however calls overlap, fail and read stale items.            *)

(***************************************************************************)
(* All versions of a node are of one user, although every update writes    *)
(* back whole nodes from what it read.                                     *)
(***************************************************************************)
VersionsAgree == \A v, w \in written : v.id = w.id => v.userId = w.userId

(***************************************************************************)
(* No node was ever its own supervisor or under an id that never existed.  *)
(***************************************************************************)
SupervisorsKnown ==
  \A v \in written :
    v.supervisorId # ROOT =>
      /\ v.supervisorId # v.id
      /\ \E w \in written : w.id = v.supervisorId

(***************************************************************************)
(* Every entry of the log tells of a node that existed, and one of a       *)
(* creation or an update names a supervisor the node was really given; and *)
(* a call has one entry.                                                   *)
(***************************************************************************)
AuditIsTrue ==
  \A a \in audit :
    /\ \E v \in written :
         /\ v.id = a.entityId
         /\ a.supervisorId \in {v.supervisorId, Undefined}
    /\ a.supervisorId = Undefined <=> a.action = "HIERARCHY_DELETED"
    /\ \A b \in audit : b.id = a.id => b = a

(***************************************************************************)
(* A node that was created is accounted for, even if it was deleted since: *)
(* its creation is logged, or about to be, or was answered 500.            *)
(***************************************************************************)
CreationIsAccountedFor ==
  \A v \in written : v.id \in Calls =>
    \/ \E a \in audit : /\ a.id = v.id /\ a.entityId = v.id
                        /\ a.action = "HIERARCHY_CREATED"
    \/ pc[v.id] = "writeAudit"
    \/ response[v.id] = 500

(***************************************************************************)
(* The inductive invariant behind these properties: what each put on its   *)
(* way and each running call owe to the versions put so far.  An id that   *)
(* is a call is known once that call has put its node.                     *)
(***************************************************************************)
Known(id) == \E v \in written : v.id = id

PutOK(c, v) ==
  /\ v.supervisorId # ROOT => v.supervisorId # v.id /\ Known(v.supervisorId)
  /\ v.id = c => \A w \in outstanding[c] : w = v
  /\ v.id # c => \E w \in written : w.id = v.id /\ w.userId = v.userId

EntryTrue(a, versions) ==
  /\ \E v \in versions : /\ v.id = a.entityId
                         /\ a.supervisorId \in {v.supervisorId, Undefined}
  /\ a.supervisorId = Undefined <=> a.action = "HIERARCHY_DELETED"

CallOK(c) ==
  /\ \A v \in outstanding[c] : PutOK(c, v)
  /\ pc[c] \notin {"writeAudit", "answered"} => ~Known(c)
  /\ pc[c] = "putNodes" =>
       /\ held[c].id = c /\ EntryTrue(held[c], outstanding[c] \cup written)
       /\ \A v \in outstanding[c] : v.id = c =>
            held[c].entityId = c /\ held[c].action = "HIERARCHY_CREATED"
  /\ pc[c] \in {"getSubordinates", "delete", "writeAudit"} =>
       held[c].id = c /\ EntryTrue(held[c], written)
  /\ pc[c] = "writeAudit" /\ Known(c) =>
       held[c].entityId = c /\ held[c].action = "HIERARCHY_CREATED"
  /\ pc[c] # "answered" => \A a \in audit : a.id # c

HistoryInv ==
  /\ \A n \in Present(nodes) : nodes[n] \in written /\ nodes[n].id = n
  /\ \A c \in Calls : CallOK(c)
  /\ VersionsAgree
  /\ SupervisorsKnown
  /\ AuditIsTrue
  /\ CreationIsAccountedFor

(***************************************************************************)
(* Behind CyclesOnlyFromCrossing: as long as there is order, whichever     *)
(* puts of an update that was not crossed have landed, the table has no    *)
(* cycle; a creation puts one node, its own.                               *)
(***************************************************************************)
Mixtures(c) ==
  {t \in [Ids -> {nodes[n] : n \in Ids} \cup outstanding[c]] :
     \A n \in Ids : t[n] = nodes[n] \/ (t[n] \in outstanding[c] /\ t[n].id = n)}

PutsItsOwn(c) == \E v \in outstanding[c] : outstanding[c] = {v} /\ v.id = c

EditInv ==
  /\ \A c \in Calls :
       pc[c] = "putNodes" /\ call[c].op = "createNode" => PutsItsOwn(c)
  /\ ~disorder =>
       /\ Acyclic(nodes)
       /\ \A c \in Movers \ crossed : \A t \in Mixtures(c) : Acyclic(t)

(***************************************************************************)
(* Behind the others: what a handler that is not outdated knows at each    *)
(* await of the table as it is.                                            *)
(***************************************************************************)
Free(user) == \A n \in Present(nodes) : nodes[n].userId # user

MayStillMove(v) ==
  /\ v.supervisorId \in Present(nodes) \cup {ROOT}
  /\ MayMove(nodes, v.id, v.supervisorId)

StillTrue(c) ==
  /\ pc[c] = "getSupervisor" => Free(call[c].userId)
  /\ pc[c] \notin {"writeAudit", "answered"} => nodes[c] = Undefined
  /\ \A v \in outstanding[c] :
       /\ v.id = c => /\ outstanding[c] = {v} /\ Free(v.userId)
                      /\ v.supervisorId \in Present(nodes) \cup {ROOT}
       /\ v.id # c => v.id \in Present(nodes) /\ v.userId = nodes[v.id].userId
       /\ v.id # c /\ v.supervisorId # nodes[v.id].supervisorId =>
            /\ MayStillMove(v)
            /\ \A w \in outstanding[c] :
                 w # v => /\ w.id # v.id
                          /\ w.supervisorId = nodes[w.id].supervisorId
  /\ pc[c] \in {"getSubordinates", "delete"} => call[c].id \in Present(nodes)
  /\ pc[c] = "delete" =>
       \A n \in Present(nodes) : nodes[n].supervisorId # call[c].id

ChecksStillHold == \A c \in Calls \ outdated : StillTrue(c)

(***************************************************************************)
(* Behind LevelsAreRight: what the levels will be once the puts on their   *)
(* way have landed.                                                        *)
(***************************************************************************)
AllLanded(c) ==
  [n \in Ids |-> IF \E v \in outstanding[c] : v.id = n
                 THEN CHOOSE v \in outstanding[c] : v.id = n
                 ELSE nodes[n]]

FitsUnder(v) ==
  v.level = IF v.supervisorId = ROOT THEN 0 ELSE nodes[v.supervisorId].level + 1

LevelsDue(c) ==
  \/ /\ Moves(c) /\ LevelsRight(AllLanded(c))
     /\ \A v, w \in outstanding[c] : v.id = w.id => v = w
  \/ /\ ~Moves(c)
     /\ \E v \in outstanding[c] :
          /\ outstanding[c] = {v}
          /\ IF v.id = c THEN FitsUnder(v) ELSE v = nodes[v.id]

LevelInv == \A c \in Calls \ outdated : pc[c] = "putNodes" => LevelsDue(c)
===============================================================================
