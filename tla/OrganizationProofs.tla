--------------------------- MODULE OrganizationProofs ---------------------------
(***************************************************************************)
(* Theorems about Organization, for any number of calls, users and nodes:  *)
(* type correctness, and what holds however calls overlap and fail.        *)
(***************************************************************************)
EXTENDS Organization, FiniteSetTheorems, TLAPS

-------------------------------------------------------------------------------
(* Lemmas about trees.                                                     *)

LEMMA IdsFinite == IsFiniteSet(Ids)
  BY FS_Union, OrgConfigAssumption DEF Ids

LEMMA LevelType ==
  ASSUME NEW t \in Tree, NEW n
  PROVE  LevelOf(t, n) \in Nat
<1>1. {m \in Present(t) \cap ({n} \cup Ancestors(t, n)) :
         t[m].supervisorId \in Present(t)} \subseteq Ids
  BY DEF Tree, Present
<1>2. QED
  BY <1>1, IdsFinite, FS_Subset, FS_CardinalityType DEF LevelOf

LEMMA ChangedType ==
  ASSUME NEW t \in Tree, NEW id \in Present(t)
  PROVE  Changed(t, id) \in SUBSET Node /\ Changed(t, id) # {}
<1>1. \A n \in Present(t) : t[n] \in Node
  BY DEF Tree, Present
<1>2. \A n \in Present(t) : [t[n] EXCEPT !.level = LevelOf(t, n)] \in Node
  BY <1>1, LevelType DEF Node
<1>3. QED
  BY <1>2 DEF Changed, Relevelled

LEMMA ViewsType ==
  ASSUME TypeOK
  PROVE  \A t \in Views : t \in Tree
  BY DEF TypeOK, Views, Tree

-------------------------------------------------------------------------------
(* Type correctness.                                                       *)

(***************************************************************************)
(* What a step of call c may touch of the handlers: c alone.               *)
(***************************************************************************)
OnlyOf(c) ==
  /\ pc' = [pc EXCEPT ![c] = pc'[c]]
  /\ call' = [call EXCEPT ![c] = call'[c]]
  /\ held' = [held EXCEPT ![c] = held'[c]]
  /\ outstanding' = [outstanding EXCEPT ![c] = outstanding'[c]]
  /\ response' = [response EXCEPT ![c] = response'[c]]

LEMMA BeginOnly ==
  ASSUME TypeOK, NEW c \in Calls, NEW args, NEW await, Begin(c, args, await)
  PROVE  OnlyOf(c) /\ pc'[c] = await /\ call'[c] = args /\ pc[c] = "unsent"
         /\ held'[c] = held[c] /\ outstanding'[c] = outstanding[c]
         /\ response'[c] = response[c]
  BY DEF TypeOK, Begin, OnlyOf

LEMMA AnswerOnly ==
  ASSUME TypeOK, NEW c \in Calls, NEW status, Answer(c, status), Reads
  PROVE  OnlyOf(c) /\ pc'[c] = "answered" /\ call'[c] = Undefined
         /\ outstanding'[c] = outstanding[c] /\ response'[c] = status
  BY DEF TypeOK, Answer, Leave, Reads, OnlyOf

LEMMA ContinueOnly ==
  ASSUME TypeOK, NEW c \in Calls, NEW await, NEW entry,
         Continue(c, await, entry), UNCHANGED outstanding
  PROVE  OnlyOf(c) /\ pc'[c] = await /\ call'[c] = call[c] /\ held'[c] = entry
         /\ outstanding'[c] = outstanding[c] /\ response'[c] = response[c]
  BY DEF TypeOK, Continue, OnlyOf

LEMMA SendPutsOnly ==
  ASSUME TypeOK, NEW c \in Calls, NEW puts, NEW entry, SendPuts(c, puts, entry)
  PROVE  OnlyOf(c) /\ pc'[c] = "putNodes" /\ call'[c] = call[c]
         /\ held'[c] = entry /\ outstanding'[c] = puts
         /\ response'[c] = response[c]
  BY DEF TypeOK, SendPuts, Continue, OnlyOf

(***************************************************************************)
(* Such a step keeps the types when it keeps those of c and of the tables. *)
(***************************************************************************)
LEMMA OthersSame ==
  ASSUME TypeOK, NEW c \in Calls, OnlyOf(c), NEW d \in Calls, d # c
  PROVE  /\ pc'[d] = pc[d] /\ call'[d] = call[d] /\ held'[d] = held[d]
         /\ outstanding'[d] = outstanding[d] /\ response'[d] = response[d]
  BY DEF TypeOK, OnlyOf

LEMMA OnlyType ==
  ASSUME TypeOK, NEW c \in Calls, OnlyOf(c), FrameOK(c)',
         pc'[c] \in Await \cup {"unsent", "answered"},
         outstanding'[c] \in SUBSET Node,
         response'[c] \in {200, 400, 404, 500, Undefined},
         call'[c] \in CreateArgs \cup UpdateArgs \cup DeleteArgs \cup {Undefined},
         held'[c] \in AuditLog \cup {Undefined},
         nodes' \in Tree, written' \subseteq Node, removed' \subseteq Ids,
         audit' \subseteq AuditLog
  PROVE  TypeOK'
<1>1. \A d \in Calls : FrameOK(d)'
  <2> SUFFICES ASSUME NEW d \in Calls, d # c PROVE FrameOK(d)'
    OBVIOUS
  <2>1. QED
    BY OthersSame DEF TypeOK, FrameOK
<1>2. pc' \in [Calls -> Await \cup {"unsent", "answered"}]
  BY DEF TypeOK, OnlyOf
<1>3. outstanding' \in [Calls -> SUBSET Node]
  BY DEF TypeOK, OnlyOf
<1>4. response' \in [Calls -> {200, 400, 404, 500, Undefined}]
  BY DEF TypeOK, OnlyOf
<1>5. call' \in [Calls -> CreateArgs \cup UpdateArgs \cup DeleteArgs
                              \cup {Undefined}]
  BY DEF TypeOK, OnlyOf
<1>6. held' \in [Calls -> AuditLog \cup {Undefined}]
  BY DEF TypeOK, OnlyOf
<1>7. QED
  BY <1>1, <1>2, <1>3, <1>4, <1>5, <1>6 DEF TypeOK

LEMMA InitType == Init => TypeOK
<1> SUFFICES ASSUME Init PROVE TypeOK
  OBVIOUS
<1>1. nodes \in Tree
  BY TreesAssumption DEF Init
<1>2. written \subseteq Node
  BY <1>1 DEF Init, Tree, Present
<1>3. \A c \in Calls : FrameOK(c)
  BY DEF Init, FrameOK
<1>4. QED
  BY <1>1, <1>2, <1>3 DEF Init, TypeOK

(***************************************************************************)
(* A call arrives: its arguments are those of its first await.             *)
(***************************************************************************)
LEMMA BeginType ==
  ASSUME TypeOK, NEW c \in Calls, NEW args, NEW await, Begin(c, args, await),
         \/ await = "getByUserId" /\ args \in CreateArgs
         \/ await = "getAll" /\ args \in UpdateArgs
         \/ await = "getNode" /\ args \in DeleteArgs
  PROVE  TypeOK'
<1>1. /\ OnlyOf(c) /\ pc'[c] = await /\ call'[c] = args /\ pc[c] = "unsent"
      /\ outstanding'[c] = outstanding[c] /\ response'[c] = response[c]
      /\ held'[c] = held[c]
  BY BeginOnly
<1>2. outstanding[c] = {}
  BY <1>1 DEF TypeOK, FrameOK
<1>3. FrameOK(c)'
  BY <1>1, <1>2 DEF FrameOK
<1>4. /\ nodes' \in Tree /\ written' \subseteq Node /\ removed' \subseteq Ids
      /\ audit' \subseteq AuditLog
  BY DEF TypeOK, Begin, tables
<1>5. /\ response[c] \in {200, 400, 404, 500, Undefined}
      /\ held[c] \in AuditLog \cup {Undefined}
  BY DEF TypeOK
<1>6. QED
  BY <1>1, <1>2, <1>3, <1>4, <1>5, OnlyType DEF Await

LEMMA ArriveType ==
  ASSUME TypeOK, NEW c \in Calls, Arrive(c)
  PROVE  TypeOK'
<1>1. CASE CreateNode(c)
  <2>1. PICK user \in User, s \in Ids \cup {ROOT} :
          Begin(c, [op |-> "createNode", userId |-> user, supervisorId |-> s],
                "getByUserId")
    BY <1>1 DEF CreateNode
  <2>2. QED
    BY <2>1, BeginType DEF CreateArgs
<1>2. CASE UpdateNode(c) \/ AssignSupervisor(c)
  <2>1. PICK id \in Ids, s \in Ids \cup {ROOT, Undefined} :
          Begin(c, [op |-> "updateNode", id |-> id, supervisorId |-> s], "getAll")
    BY <1>2 DEF UpdateNode, AssignSupervisor
  <2>2. QED
    BY <2>1, BeginType DEF UpdateArgs
<1>3. CASE DeleteNode(c)
  <2>1. PICK id \in Ids : Begin(c, [op |-> "deleteNode", id |-> id], "getNode")
    BY <1>3 DEF DeleteNode
  <2>2. QED
    BY <2>1, BeginType DEF DeleteArgs
<1>4. QED
  BY <1>1, <1>2, <1>3 DEF Arrive

(***************************************************************************)
(* A call is answered, with nothing of it left on its way.                 *)
(***************************************************************************)
LEMMA AnswerType ==
  ASSUME TypeOK, NEW c \in Calls, pc[c] \notin {"putNodes", "abandoned"},
         NEW status \in {200, 400, 404, 500}, Answer(c, status), 
         UNCHANGED <<outstanding, nodes, written, removed>>,
         audit' \subseteq AuditLog
  PROVE  TypeOK'
<1>1. /\ OnlyOf(c) /\ pc'[c] = "answered" /\ call'[c] = Undefined
      /\ held'[c] = Undefined /\ outstanding'[c] = {} /\ response'[c] = status
  BY DEF TypeOK, Answer, Leave, OnlyOf, FrameOK
<1>2. FrameOK(c)'
  BY <1>1 DEF FrameOK
<1>3. nodes' \in Tree /\ written' \subseteq Node /\ removed' \subseteq Ids
  BY DEF TypeOK
<1>4. QED
  BY <1>1, <1>2, <1>3, OnlyType

(***************************************************************************)
(* A handler goes on to an await at which nothing of it is on its way.     *)
(***************************************************************************)
LEMMA ContinueType ==
  ASSUME TypeOK, NEW c \in Calls, pc[c] \notin {"putNodes", "abandoned"},
         NEW await, NEW entry, Continue(c, await, entry),
         UNCHANGED <<outstanding, written, audit>>, nodes' \in Tree,
         removed' \subseteq Ids,
         \/ /\ await = "getSupervisor"
            /\ call[c] \in CreateArgs /\ call[c].supervisorId # ROOT
            /\ entry = Undefined
         \/ /\ await \in {"getSubordinates", "delete", "writeAudit"}
            /\ call[c] \in DeleteArgs /\ entry \in AuditLog
  PROVE  TypeOK'
<1>1. /\ OnlyOf(c) /\ pc'[c] = await /\ call'[c] = call[c] /\ held'[c] = entry
      /\ outstanding'[c] = {} /\ response'[c] = response[c]
  BY ContinueOnly DEF TypeOK, FrameOK
<1>2. FrameOK(c)'
  BY <1>1 DEF FrameOK
<1>3. written' \subseteq Node /\ audit' \subseteq AuditLog
  BY DEF TypeOK
<1>4. response[c] \in {200, 400, 404, 500, Undefined}
  BY DEF TypeOK
<1>5. QED
  BY <1>1, <1>2, <1>3, <1>4, OnlyType DEF Await

LEMMA SendPutsType ==
  ASSUME TypeOK, NEW c \in Calls, NEW puts, NEW entry, SendPuts(c, puts, entry),
         call[c] \in CreateArgs \cup UpdateArgs,
         puts \in SUBSET Node, puts # {}, entry \in AuditLog
  PROVE  TypeOK'
<1>1. /\ OnlyOf(c) /\ pc'[c] = "putNodes" /\ call'[c] = call[c]
      /\ held'[c] = entry /\ outstanding'[c] = puts
      /\ response'[c] = response[c]
  BY SendPutsOnly
<1>2. FrameOK(c)'
  BY <1>1 DEF FrameOK
<1>3. /\ nodes' \in Tree /\ written' \subseteq Node /\ removed' \subseteq Ids
      /\ audit' \subseteq AuditLog
  BY DEF TypeOK, SendPuts, tables
<1>4. response[c] \in {200, 400, 404, 500, Undefined}
  BY DEF TypeOK
<1>5. QED
  BY <1>1, <1>2, <1>3, <1>4, OnlyType DEF Await

(***************************************************************************)
(* The steps of the handlers, one by one.                                  *)
(***************************************************************************)
LEMMA PutNewNodeType ==
  ASSUME TypeOK, NEW c \in Calls, NEW level \in Nat, call[c] \in CreateArgs,
         PutNewNode(c, level)
  PROVE  TypeOK'
<1>1. NewNode(c, level) \in Node
  BY DEF NewNode, Node, CreateArgs, Ids
<1>2. Entry(c, "HIERARCHY_CREATED", c, call[c].supervisorId) \in AuditLog
  BY DEF Entry, AuditLog, CreateArgs, Ids
<1>3. QED
  BY <1>1, <1>2, SendPutsType DEF PutNewNode

LEMMA CheckUserType ==
  ASSUME TypeOK, NEW c \in Calls, NEW t \in Views, CheckUser(c, t)
  PROVE  TypeOK'
<1>1. pc[c] = "getByUserId" /\ call[c] \in CreateArgs
  BY DEF CheckUser, At, TypeOK, FrameOK
<1>2. CASE Answer(c, 400) /\ Reads
  BY <1>1, <1>2, AnswerType DEF Reads, tables, TypeOK
<1>3. CASE /\ call[c].supervisorId # ROOT
           /\ Continue(c, "getSupervisor", Undefined) /\ Reads
  BY <1>1, <1>3, ContinueType DEF Reads, tables, TypeOK
<1>4. CASE PutNewNode(c, 0)
  BY <1>1, <1>4, PutNewNodeType
<1>5. QED
  BY <1>2, <1>3, <1>4 DEF CheckUser

LEMMA CheckSupervisorType ==
  ASSUME TypeOK, NEW c \in Calls, NEW t \in Views, CheckSupervisor(c, t)
  PROVE  TypeOK'
<1>1. pc[c] = "getSupervisor" /\ call[c] \in CreateArgs
  BY DEF CheckSupervisor, At, TypeOK, FrameOK
<1>2. \/ Answer(c, 400) /\ Reads
      \/ /\ call[c].supervisorId \in Present(t)
         /\ PutNewNode(c, t[call[c].supervisorId].level + 1)
  BY DEF CheckSupervisor
<1>3. CASE Answer(c, 400) /\ Reads
  BY <1>1, <1>3, AnswerType DEF Reads, tables, TypeOK
<1>4. CASE /\ call[c].supervisorId \in Present(t)
           /\ PutNewNode(c, t[call[c].supervisorId].level + 1)
  <2>1. t[call[c].supervisorId].level + 1 \in Nat
    BY <1>4, ViewsType DEF Tree, Present, Node
  <2>2. QED
    BY <2>1, <1>1, <1>4, PutNewNodeType
<1>5. QED
  BY <1>2, <1>3, <1>4

LEMMA ComputeUpdateType ==
  ASSUME TypeOK, NEW c \in Calls, NEW t \in Views, ComputeUpdate(c, t)
  PROVE  TypeOK'
<1> DEFINE id == call[c].id
           s == call[c].supervisorId
<1>1. pc[c] = "getAll" /\ call[c] \in UpdateArgs
  BY DEF ComputeUpdate, At, TypeOK, FrameOK
<1>2. id \in Ids /\ s \in Ids \cup {ROOT, Undefined}
  BY <1>1 DEF UpdateArgs
<1>3. \/ \E status \in {400, 404} : Answer(c, status) /\ Reads
      \/ /\ id \in Present(t)
         /\ SendPuts(c, {t[id]},
                     Entry(c, "HIERARCHY_UPDATED", id, t[id].supervisorId))
      \/ /\ id \in Present(t) /\ s # Undefined
         /\ SendPuts(c, Changed([t EXCEPT ![id].supervisorId = s], id),
                     Entry(c, "HIERARCHY_UPDATED", id, s))
  BY DEF ComputeUpdate
<1>4. t \in Tree
  BY ViewsType
<1>5. CASE \E status \in {400, 404} : Answer(c, status) /\ Reads
  BY <1>1, <1>5, AnswerType DEF Reads, tables, TypeOK
<1>6. CASE /\ id \in Present(t)
           /\ SendPuts(c, {t[id]},
                       Entry(c, "HIERARCHY_UPDATED", id, t[id].supervisorId))
  <2>1. t[id] \in Node
    BY <1>4, <1>6 DEF Tree, Present
  <2>2. Entry(c, "HIERARCHY_UPDATED", id, t[id].supervisorId) \in AuditLog
    BY <1>2, <2>1 DEF Entry, AuditLog, Node
  <2>3. QED
    BY <1>1, <1>6, <2>1, <2>2, SendPutsType
<1>7. CASE /\ id \in Present(t) /\ s # Undefined
           /\ SendPuts(c, Changed([t EXCEPT ![id].supervisorId = s], id),
                       Entry(c, "HIERARCHY_UPDATED", id, s))
  <2> DEFINE moved == [t EXCEPT ![id].supervisorId = s]
  <2>1. moved \in Tree /\ id \in Present(moved)
    <3>1. [t[id] EXCEPT !.supervisorId = s] \in Node
      BY <1>2, <1>4, <1>7 DEF Tree, Present, Node
    <3>2. QED
      BY <3>1, <1>2, <1>4, OrgSentinelAssumption DEF Tree, Present
  <2>2. Entry(c, "HIERARCHY_UPDATED", id, s) \in AuditLog
    BY <1>2 DEF Entry, AuditLog
  <2>3. Changed(moved, id) \in SUBSET Node /\ Changed(moved, id) # {}
    BY <2>1, ChangedType
  <2>4. QED
    BY <1>1, <1>7, <2>2, <2>3, SendPutsType
<1>8. QED
  BY <1>3, <1>5, <1>6, <1>7

LEMMA PutLandsType ==
  ASSUME TypeOK, NEW c \in Calls, PutLands(c)
  PROVE  TypeOK'
<1>1. PICK n \in outstanding[c] :
        /\ nodes' = [nodes EXCEPT ![n.id] = n]
        /\ written' = written \cup {n}
        /\ outstanding' = [outstanding EXCEPT ![c] = @ \ {n}]
        /\ \/ outstanding[c] # {n} /\ UNCHANGED handlers
           \/ /\ outstanding[c] = {n} /\ pc[c] = "putNodes"
              /\ Continue(c, "writeAudit", held[c])
           \/ /\ outstanding[c] = {n} /\ pc[c] = "abandoned"
              /\ Leave(c, "answered", 500)
        /\ UNCHANGED <<removed, audit>>
  BY DEF PutLands
<1>2. n \in Node /\ pc[c] \in {"putNodes", "abandoned"}
  BY DEF TypeOK, FrameOK
<1>3. /\ nodes' \in Tree /\ written' \subseteq Node /\ removed' \subseteq Ids
      /\ audit' \subseteq AuditLog
  BY <1>1, <1>2 DEF TypeOK, Tree, Node
<1>4. outstanding'[c] = outstanding[c] \ {n} /\ outstanding'[c] \in SUBSET Node
  BY <1>1 DEF TypeOK
<1>5. OnlyOf(c)
  BY <1>1 DEF TypeOK, OnlyOf, handlers, Continue, Leave
<1>6. CASE outstanding[c] # {n} /\ UNCHANGED handlers
  <2>1. FrameOK(c)'
    BY <1>4, <1>6 DEF TypeOK, FrameOK, handlers
  <2>2. QED
    BY <1>3, <1>4, <1>5, <1>6, <2>1, OnlyType DEF TypeOK, handlers
<1>7. CASE /\ outstanding[c] = {n} /\ pc[c] = "putNodes"
           /\ Continue(c, "writeAudit", held[c])
  <2>1. /\ pc'[c] = "writeAudit" /\ call'[c] = call[c] /\ held'[c] = held[c]
        /\ response'[c] = response[c]
    BY <1>7 DEF TypeOK, Continue
  <2>2. FrameOK(c)'
    BY <1>4, <1>7, <2>1 DEF TypeOK, FrameOK
  <2>3. QED
    BY <1>3, <1>4, <1>5, <2>1, <2>2, OnlyType DEF TypeOK, Await
<1>8. CASE outstanding[c] = {n} /\ Leave(c, "answered", 500)
  <2>1. /\ pc'[c] = "answered" /\ call'[c] = Undefined /\ held'[c] = Undefined
        /\ response'[c] = 500
    BY <1>8 DEF TypeOK, Leave
  <2>2. FrameOK(c)'
    BY <1>4, <1>8, <2>1 DEF FrameOK
  <2>3. QED
    BY <1>3, <1>4, <1>5, <2>1, <2>2, OnlyType
<1>9. QED
  BY <1>1, <1>6, <1>7, <1>8

LEMMA PutFailsType ==
  ASSUME TypeOK, NEW c \in Calls, PutFails(c)
  PROVE  TypeOK'
<1>1. PICK n \in outstanding[c] :
        /\ outstanding' = [outstanding EXCEPT ![c] = @ \ {n}]
        /\ Leave(c, IF outstanding[c] = {n} THEN "answered" ELSE "abandoned", 500)
        /\ UNCHANGED tables
  BY DEF PutFails
<1>2. outstanding'[c] = outstanding[c] \ {n} /\ outstanding'[c] \in SUBSET Node
  BY <1>1 DEF TypeOK
<1>3. /\ pc'[c] = IF outstanding[c] = {n} THEN "answered" ELSE "abandoned"
      /\ call'[c] = Undefined /\ held'[c] = Undefined /\ response'[c] = 500
  BY <1>1 DEF TypeOK, Leave
<1>4. OnlyOf(c)
  BY <1>1 DEF TypeOK, OnlyOf, Leave
<1>5. FrameOK(c)'
  BY <1>2, <1>3 DEF FrameOK
<1>6. QED
  BY <1>1, <1>2, <1>3, <1>4, <1>5, OnlyType DEF TypeOK, tables, Await

LEMMA DeleteStepsType ==
  ASSUME TypeOK, NEW c \in Calls, NEW t,
         \/ t \in Views /\ (CheckNode(c, t) \/ CheckSubordinates(c, t))
         \/ Delete(c)
  PROVE  TypeOK'
<1>1. /\ pc[c] \in {"getNode", "getSubordinates", "delete"}
      /\ call[c] \in DeleteArgs
      /\ pc[c] # "getNode" => held[c] \in AuditLog
  BY DEF CheckNode, CheckSubordinates, Delete, At, TypeOK, FrameOK
<1>2. Entry(c, "HIERARCHY_DELETED", call[c].id, Undefined) \in AuditLog
  BY <1>1 DEF Entry, AuditLog, DeleteArgs
<1>3. CASE \E status \in {400, 404} : Answer(c, status) /\ Reads
  BY <1>1, <1>3, AnswerType DEF Reads, tables, TypeOK
<1>4. CASE /\ Reads
           /\ \/ Continue(c, "getSubordinates",
                          Entry(c, "HIERARCHY_DELETED", call[c].id, Undefined))
              \/ pc[c] = "getSubordinates" /\ Continue(c, "delete", held[c])
  BY <1>1, <1>2, <1>4, ContinueType DEF Reads, tables, TypeOK
<1>5. CASE Delete(c)
  <2>1. nodes' \in Tree /\ removed' \subseteq Ids
    BY <1>1, <1>5 DEF Delete, TypeOK, Tree, DeleteArgs
  <2>2. QED
    BY <1>1, <1>5, <2>1, ContinueType DEF Delete, At
<1>6. QED
  BY <1>3, <1>4, <1>5 DEF CheckNode, CheckSubordinates, At

LEMMA WriteAuditType ==
  ASSUME TypeOK, NEW c \in Calls, WriteAudit(c)
  PROVE  TypeOK'
<1>1. held[c] \in AuditLog
  BY DEF WriteAudit, TypeOK, FrameOK
<1>2. audit' \subseteq AuditLog /\ removed' \subseteq Ids
  BY <1>1 DEF WriteAudit, TypeOK
<1>3. QED
  BY <1>2, AnswerType DEF WriteAudit

LEMMA FailType ==
  ASSUME TypeOK, NEW c \in Calls, Fail(c)
  PROVE  TypeOK'
  BY AnswerType DEF Fail, Reads, tables, TypeOK

(***************************************************************************)
(* A repeat puts back a version that was put, or removes a node again.     *)
(***************************************************************************)
LEMMA LandAgainType ==
  ASSUME TypeOK, LandAgain
  PROVE  TypeOK'
<1>1. nodes' \in Tree
  BY DEF LandAgain, TypeOK, Tree, Node
<1>2. \A c \in Calls : FrameOK(c)'
  BY DEF LandAgain, TypeOK, handlers, FrameOK
<1>3. QED
  BY <1>1, <1>2 DEF LandAgain, TypeOK, handlers

LEMMA StutterType ==
  ASSUME TypeOK, UNCHANGED vars
  PROVE  TypeOK'
<1>1. \A c \in Calls : FrameOK(c)'
  BY DEF TypeOK, vars, handlers, FrameOK
<1>2. QED
  BY <1>1 DEF TypeOK, vars, handlers, tables

(***************************************************************************)
(* Every step of every call keeps each handler's frame and each table      *)
(* within its type; in particular Promise.all always has a put to wait     *)
(* for.                                                                    *)
(***************************************************************************)
THEOREM OrgTypeCorrect == Spec => []TypeOK
<1>1. TypeOK /\ [Next]_vars => TypeOK'
  <2> SUFFICES ASSUME TypeOK, [Next]_vars PROVE TypeOK'
    OBVIOUS
  <2>1. ASSUME NEW c \in Calls, Arrive(c) PROVE TypeOK'
    BY <2>1, ArriveType
  <2>2. ASSUME NEW c \in Calls, Step(c) PROVE TypeOK'
    BY <2>2, CheckUserType, CheckSupervisorType, ComputeUpdateType,
       PutLandsType, PutFailsType, DeleteStepsType, WriteAuditType
       DEF Step, Decide
  <2>3. ASSUME NEW c \in Calls, Fail(c) PROVE TypeOK'
    BY <2>3, FailType
  <2>4. CASE LandAgain
    BY <2>4, LandAgainType
  <2>5. CASE UNCHANGED vars
    BY <2>5, StutterType
  <2>6. QED
    BY <2>1, <2>2, <2>3, <2>4, <2>5 DEF Next, Terminating
<1>2. QED
  BY InitType, <1>1, PTL DEF Spec

-------------------------------------------------------------------------------
(* What a call owes of its creation.                                       *)

AccountedFor(c) ==
  Known(c) =>
    \/ \E a \in audit : /\ a.id = c /\ a.entityId = c
                        /\ a.action = "HIERARCHY_CREATED"
    \/ pc[c] = "writeAudit"
    \/ response[c] = 500

LEMMA AllAccountedFor ==
  CreationIsAccountedFor <=> \A c \in Calls : AccountedFor(c)
  BY DEF CreationIsAccountedFor, AccountedFor, Known

(***************************************************************************)
(* What is read from the table, however stale, was put, under its id.      *)
(***************************************************************************)
LEMMA ReadsWereWritten ==
  ASSUME TypeOK, HistoryInv, NEW t \in Views, NEW n \in Present(t)
  PROVE  n \in Ids /\ t[n] \in written /\ t[n].id = n /\ t[n] \in Node
         /\ Known(n)
<1>1. t \in Tree /\ n \in Ids /\ t[n] # Undefined
  BY ViewsType DEF Present, Tree
<1>2. CASE EventualReads
  BY <1>1, <1>2 DEF Views, Present, TypeOK, Known
<1>3. CASE ~EventualReads
  BY <1>1, <1>3 DEF Views, HistoryInv, Present, TypeOK, Known
<1>4. QED
  BY <1>2, <1>3

-------------------------------------------------------------------------------
(* One step of call c.                                                     *)

(***************************************************************************)
(* The versions that c adds are of c or of nodes put before, its entry is  *)
(* its own: the other calls have what they had.                            *)
(***************************************************************************)
Adds(c) ==
  /\ written \subseteq written' /\ audit \subseteq audit'
  /\ \A v \in written' : v \in written \/ v.id = c \/ Known(v.id)
  /\ \A a \in audit' : a \in audit \/ a.id = c

LEMMA KnownStays ==
  ASSUME NEW c, Adds(c), NEW id
  PROVE  /\ Known(id) => Known(id)'
         /\ id # c /\ Known(id)' => Known(id)
  BY DEF Adds, Known

LEMMA OthersOK ==
  ASSUME TypeOK, HistoryInv, NEW c \in Calls, OnlyOf(c), Adds(c),
         NEW d \in Calls, d # c
  PROVE  CallOK(d)' /\ AccountedFor(d)'
<1>1. /\ pc'[d] = pc[d] /\ held'[d] = held[d]
      /\ outstanding'[d] = outstanding[d] /\ response'[d] = response[d]
  BY OthersSame
<1>2. CallOK(d) /\ AccountedFor(d)
  BY AllAccountedFor DEF HistoryInv
<1>3. Known(d)' <=> Known(d)
  BY KnownStays
<1>4. \A v \in outstanding[d] : PutOK(d, v)'
  <2> SUFFICES ASSUME NEW v \in outstanding[d] PROVE PutOK(d, v)'
    OBVIOUS
  <2>1. PutOK(d, v)
    BY <1>2 DEF CallOK
  <2>2. QED
    BY <2>1, <1>1, KnownStays DEF PutOK, Adds
<1>5. \A a : EntryTrue(a, outstanding[d] \cup written) =>
               EntryTrue(a, outstanding[d] \cup written')
  BY DEF EntryTrue, Adds
<1>6. \A a : EntryTrue(a, written) => EntryTrue(a, written')
  BY DEF EntryTrue, Adds
<1>7. \A a \in audit' : a.id = d => a \in audit
  BY DEF Adds
<1>8. CallOK(d)'
  <2>1. \A v \in outstanding'[d] : PutOK(d, v)'
    BY <1>1, <1>4
  <2>2. pc'[d] \notin {"writeAudit", "answered"} => ~Known(d)'
    BY <1>1, <1>2, <1>3 DEF CallOK
  <2>3. pc'[d] = "putNodes" =>
          /\ held'[d].id = d /\ EntryTrue(held'[d], outstanding'[d] \cup written')
          /\ \A v \in outstanding'[d] : v.id = d =>
               held'[d].entityId = d /\ held'[d].action = "HIERARCHY_CREATED"
    BY <1>1, <1>2, <1>5 DEF CallOK
  <2>4. pc'[d] \in {"getSubordinates", "delete", "writeAudit"} =>
          held'[d].id = d /\ EntryTrue(held'[d], written')
    BY <1>1, <1>2, <1>6 DEF CallOK
  <2>5. pc'[d] = "writeAudit" /\ Known(d)' =>
          held'[d].entityId = d /\ held'[d].action = "HIERARCHY_CREATED"
    BY <1>1, <1>2, <1>3 DEF CallOK
  <2>6. pc'[d] # "answered" => \A a \in audit' : a.id # d
    BY <1>1, <1>2, <1>7 DEF CallOK
  <2>7. QED
    BY <2>1, <2>2, <2>3, <2>4, <2>5, <2>6 DEF CallOK, EntryTrue
<1>9. AccountedFor(d)'
  BY <1>1, <1>2, <1>3 DEF AccountedFor, Adds
<1>10. QED
  BY <1>8, <1>9

LEMMA HistoryStep ==
  ASSUME TypeOK, HistoryInv, NEW c \in Calls, OnlyOf(c), Adds(c),
         CallOK(c)', AccountedFor(c)',
         \A n \in Present(nodes') : nodes'[n] \in written' /\ nodes'[n].id = n,
         VersionsAgree', SupervisorsKnown', AuditIsTrue'
  PROVE  HistoryInv'
<1>1. \A d \in Calls : CallOK(d)' /\ AccountedFor(d)'
  BY OthersOK
<1>2. CreationIsAccountedFor'
  BY <1>1 DEF CreationIsAccountedFor, AccountedFor, Known
<1>3. \A n \in Present(nodes)' : nodes'[n] \in written' /\ nodes'[n].id = n
  BY DEF Present
<1>4. QED
  BY <1>1, <1>2, <1>3 DEF HistoryInv

(***************************************************************************)
(* A step that leaves the versions and the log alone.                      *)
(***************************************************************************)
LEMMA QuietStep ==
  ASSUME TypeOK, HistoryInv, NEW c \in Calls, OnlyOf(c),
         UNCHANGED <<written, audit>>,
         \A n \in Present(nodes') : nodes'[n] = nodes[n] /\ n \in Present(nodes),
         CallOK(c)', AccountedFor(c)'
  PROVE  HistoryInv'
<1>1. Adds(c)
  BY DEF Adds
<1>2. \A n \in Present(nodes') : nodes'[n] \in written' /\ nodes'[n].id = n
  BY DEF HistoryInv
<1>3. VersionsAgree' /\ SupervisorsKnown' /\ AuditIsTrue'
  BY DEF HistoryInv, VersionsAgree, SupervisorsKnown, AuditIsTrue
<1>4. QED
  BY <1>1, <1>2, <1>3, HistoryStep

LEMMA Tableless ==
  ASSUME UNCHANGED tables
  PROVE  /\ UNCHANGED <<written, audit>>
         /\ \A n \in Present(nodes') : nodes'[n] = nodes[n] /\ n \in Present(nodes)
         /\ \A id : Known(id)' <=> Known(id)
         /\ \A a : EntryTrue(a, written') <=> EntryTrue(a, written)
  BY DEF tables, Known

(***************************************************************************)
(* A call arrives, is answered early, or goes on to an await at which it   *)
(* has no puts on their way.                                               *)
(***************************************************************************)
LEMMA BeginHistory ==
  ASSUME TypeOK, HistoryInv, NEW c \in Calls, NEW args,
         NEW await \in {"getByUserId", "getAll", "getNode"},
         Begin(c, args, await)
  PROVE  HistoryInv'
<1>1. /\ OnlyOf(c) /\ pc'[c] = await /\ pc[c] = "unsent"
      /\ outstanding'[c] = {} /\ UNCHANGED tables
  BY BeginOnly DEF TypeOK, FrameOK, Begin
<1>2. ~Known(c) /\ \A a \in audit : a.id # c
  BY <1>1 DEF HistoryInv, CallOK
<1>3. ~Known(c)' /\ \A a \in audit' : a.id # c
  BY <1>1, <1>2, Tableless
<1>4. CallOK(c)' /\ AccountedFor(c)'
  BY <1>1, <1>3 DEF CallOK, AccountedFor
<1>5. QED
  BY <1>1, <1>4, QuietStep, Tableless

LEMMA AnswerHistory ==
  ASSUME TypeOK, HistoryInv, NEW c \in Calls, NEW status, Answer(c, status),
         Reads, pc[c] \notin {"putNodes", "abandoned", "answered"},
         pc[c] = "writeAudit" => status = 500
  PROVE  HistoryInv'
<1>1. /\ OnlyOf(c) /\ pc'[c] = "answered" /\ outstanding'[c] = {}
      /\ response'[c] = status /\ UNCHANGED tables
  BY AnswerOnly DEF TypeOK, FrameOK, Reads
<1>2. CallOK(c)'
  BY <1>1 DEF CallOK
<1>3. pc[c] # "writeAudit" => ~Known(c)'
  BY <1>1, Tableless DEF HistoryInv, CallOK
<1>4. AccountedFor(c)'
  BY <1>1, <1>3 DEF AccountedFor
<1>5. QED
  BY <1>1, <1>2, <1>4, QuietStep, Tableless

LEMMA ContinueHistory ==
  ASSUME TypeOK, HistoryInv, NEW c \in Calls, NEW await, NEW entry,
         Continue(c, await, entry), UNCHANGED <<outstanding, written, audit>>,
         \A n \in Present(nodes') : nodes'[n] = nodes[n] /\ n \in Present(nodes),
         pc[c] \in {"getByUserId", "getNode", "getSubordinates", "delete"},
         \/ await = "getSupervisor"
         \/ /\ await \in {"getSubordinates", "delete", "writeAudit"}
            /\ entry.id = c /\ EntryTrue(entry, written)
  PROVE  HistoryInv'
<1>1. /\ OnlyOf(c) /\ pc'[c] = await /\ held'[c] = entry /\ outstanding'[c] = {}
  BY ContinueOnly DEF TypeOK, FrameOK
<1>2. ~Known(c) /\ \A a \in audit : a.id # c
  BY DEF HistoryInv, CallOK
<1>3. ~Known(c)' /\ \A a \in audit' : a.id # c
  BY <1>2 DEF Known
<1>4. await # "getSupervisor" => entry.id = c /\ EntryTrue(entry, written')
  OBVIOUS
<1>5. CallOK(c)' /\ AccountedFor(c)'
  BY <1>1, <1>3, <1>4 DEF CallOK, AccountedFor
<1>6. QED
  BY <1>1, <1>5, QuietStep

(***************************************************************************)
(* A call sends its puts.                                                  *)
(***************************************************************************)
LEMMA SendPutsHistory ==
  ASSUME TypeOK, HistoryInv, NEW c \in Calls, NEW puts, NEW entry,
         SendPuts(c, puts, entry),
         pc[c] \in {"getByUserId", "getSupervisor", "getAll"},
         \A v \in puts :
           /\ v.supervisorId # ROOT =>
                v.supervisorId # v.id /\ Known(v.supervisorId)
           /\ v.id = c => /\ puts = {v}
                          /\ entry.entityId = c
                          /\ entry.action = "HIERARCHY_CREATED"
           /\ v.id # c => \E w \in written : w.id = v.id /\ w.userId = v.userId,
         entry.id = c, EntryTrue(entry, puts \cup written)
  PROVE  HistoryInv'
<1>1. /\ OnlyOf(c) /\ pc'[c] = "putNodes" /\ held'[c] = entry
      /\ outstanding'[c] = puts
  BY SendPutsOnly
<1>2. UNCHANGED tables
  BY DEF SendPuts
<1>3. ~Known(c) /\ \A a \in audit : a.id # c
  BY DEF HistoryInv, CallOK
<1>4. ~Known(c)' /\ \A a \in audit' : a.id # c
  BY <1>2, <1>3, Tableless
<1>5. \A v \in puts : PutOK(c, v)'
  BY <1>1, <1>2, Tableless DEF PutOK
<1>6. EntryTrue(entry, puts \cup written')
  BY <1>2, Tableless
<1>7. \A v \in puts : v.id = c =>
        entry.entityId = c /\ entry.action = "HIERARCHY_CREATED"
  OBVIOUS
<1>8. CallOK(c)' /\ AccountedFor(c)'
  BY <1>1, <1>4, <1>5, <1>6, <1>7 DEF CallOK, AccountedFor
<1>9. QED
  BY <1>1, <1>2, <1>8, QuietStep, Tableless

-------------------------------------------------------------------------------
(* The steps of the handlers, one by one.                                  *)

LEMMA PutNewNodeHistory ==
  ASSUME TypeOK, HistoryInv, NEW c \in Calls, NEW level, PutNewNode(c, level),
         pc[c] \in {"getByUserId", "getSupervisor"},
         call[c].supervisorId = ROOT \/ Known(call[c].supervisorId)
  PROVE  HistoryInv'
<1> DEFINE n == NewNode(c, level)
           e == Entry(c, "HIERARCHY_CREATED", c, call[c].supervisorId)
<1>1. /\ n.id = c /\ n.supervisorId = call[c].supervisorId
      /\ e.id = c /\ e.entityId = c /\ e.action = "HIERARCHY_CREATED"
      /\ e.supervisorId = n.supervisorId
  BY DEF NewNode, Entry
<1>2. ~Known(c) /\ call[c] \in CreateArgs
  BY DEF HistoryInv, CallOK, TypeOK, FrameOK
<1>3. e.supervisorId # Undefined
  BY <1>1, <1>2, OrgSentinelAssumption DEF CreateArgs
<1>4. EntryTrue(e, {n} \cup written)
  BY <1>1, <1>3 DEF EntryTrue
<1>5. n.supervisorId # ROOT => n.supervisorId # n.id /\ Known(n.supervisorId)
  BY <1>1, <1>2
<1>6. SendPuts(c, {n}, e)
  BY DEF PutNewNode
<1> HIDE DEF n, e
<1>7. QED
  BY <1>1, <1>4, <1>5, <1>6, SendPutsHistory

LEMMA CheckUserHistory ==
  ASSUME TypeOK, HistoryInv, NEW c \in Calls, NEW t \in Views,
         CheckUser(c, t)
  PROVE  HistoryInv'
<1>1. pc[c] = "getByUserId"
  BY DEF CheckUser, At
<1>2. CASE Answer(c, 400) /\ Reads
  BY <1>1, <1>2, AnswerHistory
<1>3. CASE Continue(c, "getSupervisor", Undefined) /\ Reads
  BY <1>1, <1>3, ContinueHistory, Tableless DEF Reads, tables
<1>4. CASE call[c].supervisorId = ROOT /\ PutNewNode(c, 0)
  BY <1>1, <1>4, PutNewNodeHistory
<1>5. QED
  BY <1>2, <1>3, <1>4 DEF CheckUser

LEMMA CheckSupervisorHistory ==
  ASSUME TypeOK, HistoryInv, NEW c \in Calls, NEW t \in Views,
         CheckSupervisor(c, t)
  PROVE  HistoryInv'
<1>1. pc[c] = "getSupervisor"
  BY DEF CheckSupervisor, At
<1>2. CASE Answer(c, 400) /\ Reads
  BY <1>1, <1>2, AnswerHistory
<1>3. CASE /\ call[c].supervisorId \in Present(t)
           /\ PutNewNode(c, t[call[c].supervisorId].level + 1)
  BY <1>1, <1>3, PutNewNodeHistory, ReadsWereWritten
<1>4. QED
  BY <1>2, <1>3 DEF CheckSupervisor

(***************************************************************************)
(* The nodes of a reparenting are those read, but for the one supervisor.  *)
(***************************************************************************)
LEMMA ChangedNodes ==
  ASSUME NEW t \in Tree, NEW id \in Present(t), NEW s \in Ids \cup {ROOT},
         NEW v \in Changed([t EXCEPT ![id].supervisorId = s], id)
  PROVE  \E n \in Present(t) :
           /\ v.id = t[n].id /\ v.userId = t[n].userId
           /\ v.supervisorId = IF n = id THEN s ELSE t[n].supervisorId
<1> DEFINE moved == [t EXCEPT ![id].supervisorId = s]
<1>1. \A n \in Present(t) : t[n] \in Node
  BY DEF Tree, Present
<1>2. Present(moved) = Present(t)
  <2>1. id \in Ids /\ moved[id] = [t[id] EXCEPT !.supervisorId = s]
    BY DEF Tree, Present
  <2>2. moved[id] \in Node
    BY <2>1, <1>1 DEF Node
  <2>3. moved[id] # Undefined
    BY <2>2, OrgSentinelAssumption
  <2>4. QED
    BY <2>1, <2>3 DEF Present, Tree
<1>3. \A n \in Present(t) :
        /\ moved[n] \in Node
        /\ moved[n].id = t[n].id /\ moved[n].userId = t[n].userId
        /\ moved[n].supervisorId = IF n = id THEN s ELSE t[n].supervisorId
  BY <1>1 DEF Node, Present, Tree
<1>4. PICK n \in Present(t) : v = [moved[n] EXCEPT !.level = LevelOf(moved, n)]
  BY <1>2 DEF Changed, Relevelled
<1> HIDE DEF moved
<1>5. v.id = moved[n].id /\ v.userId = moved[n].userId
      /\ v.supervisorId = moved[n].supervisorId
  BY <1>3, <1>4 DEF Node
<1>6. QED
  BY <1>3, <1>5

LEMMA MovedNodeChanged ==
  ASSUME NEW t \in Tree, NEW id \in Present(t), NEW s \in Ids \cup {ROOT}
  PROVE  \E v \in Changed([t EXCEPT ![id].supervisorId = s], id) :
           v.id = t[id].id /\ v.supervisorId = s
<1> DEFINE moved == [t EXCEPT ![id].supervisorId = s]
           v == [moved[id] EXCEPT !.level = LevelOf(moved, id)]
<1>1. t[id] \in Node /\ id \in Ids
  BY DEF Tree, Present
<1>2. moved[id] = [t[id] EXCEPT !.supervisorId = s]
  BY <1>1 DEF Tree
<1>3. v.id = t[id].id /\ v.supervisorId = s
  BY <1>1, <1>2 DEF Node
<1>4. v \in Changed(moved, id)
  BY DEF Changed
<1>5. QED
  BY <1>3, <1>4

LEMMA ComputeUpdateHistory ==
  ASSUME TypeOK, HistoryInv, NEW c \in Calls, NEW t \in Views,
         ComputeUpdate(c, t)
  PROVE  HistoryInv'
<1> DEFINE id == call[c].id
           s == call[c].supervisorId
           e(sup) == Entry(c, "HIERARCHY_UPDATED", id, sup)
<1>1. pc[c] = "getAll" /\ call[c] \in UpdateArgs
  BY DEF ComputeUpdate, At, TypeOK, FrameOK
<1>2. ~Known(c) /\ s \in Ids \cup {ROOT, Undefined} /\ Undefined # ROOT
  BY <1>1, OrgSentinelAssumption DEF HistoryInv, CallOK, UpdateArgs
<1>3. \A sup : /\ e(sup).id = c /\ e(sup).entityId = id
               /\ e(sup).action = "HIERARCHY_UPDATED"
               /\ e(sup).supervisorId = sup
  BY DEF Entry
<1>4. \/ \E status \in {400, 404} : Answer(c, status) /\ Reads
      \/ id \in Present(t) /\ SendPuts(c, {t[id]}, e(t[id].supervisorId))
      \/ /\ id \in Present(t) /\ s # Undefined /\ MayMove(t, id, s)
         /\ SendPuts(c, Changed([t EXCEPT ![id].supervisorId = s], id), e(s))
  BY DEF ComputeUpdate
<1>5. t \in Tree
  BY ViewsType
<1>6. \A n \in Present(t) :
        /\ t[n] \in written /\ t[n].id = n /\ Known(n) /\ n # c
        /\ t[n].supervisorId \in Ids \cup {ROOT}
        /\ t[n].supervisorId # ROOT =>
             t[n].supervisorId # n /\ Known(t[n].supervisorId)
  BY <1>2, ReadsWereWritten DEF HistoryInv, SupervisorsKnown, Known, Node
<1> HIDE DEF e
<1>7. CASE \E status \in {400, 404} : Answer(c, status) /\ Reads
  BY <1>1, <1>7, AnswerHistory
<1>8. CASE id \in Present(t) /\ SendPuts(c, {t[id]}, e(t[id].supervisorId))
  <2>1. EntryTrue(e(t[id].supervisorId), {t[id]} \cup written)
    BY <1>3, <1>6, <1>8, OrgSentinelAssumption DEF EntryTrue
  <2>2. QED
    BY <1>1, <1>3, <1>6, <1>8, <2>1, SendPutsHistory
<1>9. CASE /\ id \in Present(t) /\ s # Undefined /\ MayMove(t, id, s)
           /\ SendPuts(c, Changed([t EXCEPT ![id].supervisorId = s], id), e(s))
  <2> DEFINE puts == Changed([t EXCEPT ![id].supervisorId = s], id)
  <2>1. s # ROOT => s # id /\ s \in Present(t)
    BY <1>9 DEF MayMove
  <2>2. \A v \in puts : \E n \in Present(t) :
          /\ v.id = t[n].id /\ v.userId = t[n].userId
          /\ v.supervisorId = IF n = id THEN s ELSE t[n].supervisorId
    BY <1>2, <1>5, <1>9, ChangedNodes
  <2>3. \E v \in puts : v.id = t[id].id /\ v.supervisorId = s
    BY <1>2, <1>5, <1>9, MovedNodeChanged
  <2> HIDE DEF puts
  <2>4. EntryTrue(e(s), puts \cup written)
    BY <1>3, <1>6, <1>9, <2>3 DEF EntryTrue
  <2>5. \A v \in puts :
          /\ v.supervisorId # ROOT =>
               v.supervisorId # v.id /\ Known(v.supervisorId)
          /\ v.id # c
          /\ \E w \in written : w.id = v.id /\ w.userId = v.userId
    <3> SUFFICES ASSUME NEW v \in puts
                 PROVE  /\ v.supervisorId # ROOT =>
                             v.supervisorId # v.id /\ Known(v.supervisorId)
                        /\ v.id # c
                        /\ \E w \in written : w.id = v.id /\ w.userId = v.userId
      OBVIOUS
    <3>1. PICK n \in Present(t) :
            /\ v.id = t[n].id /\ v.userId = t[n].userId
            /\ v.supervisorId = IF n = id THEN s ELSE t[n].supervisorId
      BY <2>2
    <3>2. v.id = n /\ n # c /\ t[n] \in written /\ t[n].id = n
      BY <1>6, <3>1
    <3>3. CASE n = id
      BY <1>6, <2>1, <3>1, <3>2, <3>3
    <3>4. CASE n # id
      BY <1>6, <3>1, <3>2, <3>4
    <3>5. QED
      BY <3>3, <3>4
  <2>6. SendPuts(c, puts, e(s))
    BY <1>9 DEF puts
  <2>7. QED
    BY <1>1, <1>3, <2>4, <2>5, <2>6, SendPutsHistory
<1>10. QED
  BY <1>4, <1>7, <1>8, <1>9

(***************************************************************************)
(* A put lands: it is the first of a new node, or agrees with those before.*)
(***************************************************************************)
LEMMA PutLandsHistory ==
  ASSUME TypeOK, HistoryInv, NEW c \in Calls, PutLands(c)
  PROVE  HistoryInv'
<1>1. PICK n \in outstanding[c] :
        /\ nodes' = [nodes EXCEPT ![n.id] = n]
        /\ written' = written \cup {n}
        /\ outstanding' = [outstanding EXCEPT ![c] = @ \ {n}]
        /\ \/ outstanding[c] # {n} /\ UNCHANGED handlers
           \/ /\ outstanding[c] = {n} /\ pc[c] = "putNodes"
              /\ Continue(c, "writeAudit", held[c])
           \/ /\ outstanding[c] = {n} /\ pc[c] = "abandoned"
              /\ Leave(c, "answered", 500)
        /\ UNCHANGED <<removed, audit>>
  BY DEF PutLands
<1>2. pc[c] \in {"putNodes", "abandoned"}
  BY DEF TypeOK, FrameOK
<1>3. /\ ~Known(c) /\ PutOK(c, n)
      /\ \A a \in audit : a.id # c
  BY <1>2 DEF HistoryInv, CallOK
<1>4. OnlyOf(c) /\ outstanding'[c] = outstanding[c] \ {n}
  BY <1>1 DEF TypeOK, OnlyOf, handlers, Continue, Leave
<1>5. Adds(c)
  BY <1>1, <1>3 DEF Adds, PutOK, Known
<1>6. \A m \in Present(nodes') : nodes'[m] \in written' /\ nodes'[m].id = m
  BY <1>1 DEF HistoryInv, Present, TypeOK, Tree
<1>7. VersionsAgree'
  BY <1>1, <1>3 DEF HistoryInv, VersionsAgree, PutOK, Known
<1>8. SupervisorsKnown'
  BY <1>1, <1>3 DEF HistoryInv, SupervisorsKnown, PutOK, Known
<1>9. AuditIsTrue'
  BY <1>1 DEF HistoryInv, AuditIsTrue
<1>10. n.id = c => outstanding[c] = {n}
  BY <1>3 DEF PutOK
<1>11. n.id # c => ~Known(c)'
  BY <1>1, <1>3 DEF Known
<1>12. \A v \in outstanding'[c] : PutOK(c, v)'
  <2> SUFFICES ASSUME NEW v \in outstanding'[c] PROVE PutOK(c, v)'
    OBVIOUS
  <2>1. PutOK(c, v) /\ v \in outstanding[c]
    BY <1>4 DEF HistoryInv, CallOK
  <2>2. QED
    BY <2>1, <1>4, <1>5, KnownStays DEF PutOK, Adds
<1>13. CallOK(c)' /\ AccountedFor(c)'
  <2>1. CASE outstanding[c] # {n} /\ UNCHANGED handlers
    <3>1. pc'[c] = pc[c] /\ held'[c] = held[c] /\ ~Known(c)'
      BY <2>1, <1>10, <1>11 DEF handlers
    <3>2. outstanding'[c] \cup written' = outstanding[c] \cup written
      BY <1>1, <1>4
    <3>3. pc[c] = "putNodes" =>
            /\ held[c].id = c /\ EntryTrue(held[c], outstanding'[c] \cup written')
            /\ \A v \in outstanding'[c] : v.id = c =>
                 held[c].entityId = c /\ held[c].action = "HIERARCHY_CREATED"
      BY <1>4, <3>2 DEF HistoryInv, CallOK
    <3>4. QED
      BY <1>1, <1>2, <1>3, <1>12, <3>1, <3>3 DEF CallOK, AccountedFor
  <2>2. CASE /\ outstanding[c] = {n} /\ pc[c] = "putNodes"
             /\ Continue(c, "writeAudit", held[c])
    <3>1. pc'[c] = "writeAudit" /\ held'[c] = held[c] /\ outstanding'[c] = {}
      BY <1>4, <2>2 DEF Continue, TypeOK
    <3>2. held[c].id = c /\ EntryTrue(held[c], written')
      BY <1>1, <2>2 DEF HistoryInv, CallOK, EntryTrue
    <3>3. n.id = c =>
            held[c].entityId = c /\ held[c].action = "HIERARCHY_CREATED"
      BY <2>2 DEF HistoryInv, CallOK
    <3>4. QED
      BY <1>1, <1>3, <1>11, <3>1, <3>2, <3>3 DEF CallOK, AccountedFor
  <2>3. CASE /\ outstanding[c] = {n} /\ pc[c] = "abandoned"
             /\ Leave(c, "answered", 500)
    <3>1. pc'[c] = "answered" /\ response'[c] = 500 /\ outstanding'[c] = {}
      BY <1>4, <2>3 DEF Leave, TypeOK
    <3>2. QED
      BY <3>1 DEF CallOK, AccountedFor
  <2>4. QED
    BY <1>1, <2>1, <2>2, <2>3
<1>14. QED
  BY <1>4, <1>5, <1>6, <1>7, <1>8, <1>9, <1>13, HistoryStep

LEMMA PutFailsHistory ==
  ASSUME TypeOK, HistoryInv, NEW c \in Calls, PutFails(c)
  PROVE  HistoryInv'
<1>1. PICK n \in outstanding[c] :
        /\ outstanding' = [outstanding EXCEPT ![c] = @ \ {n}]
        /\ Leave(c, IF outstanding[c] = {n} THEN "answered" ELSE "abandoned", 500)
        /\ UNCHANGED tables
  BY DEF PutFails
<1>2. pc[c] \in {"putNodes", "abandoned"}
  BY DEF TypeOK, FrameOK
<1>3. ~Known(c)' /\ \A a \in audit' : a.id # c
  BY <1>1, <1>2, Tableless DEF HistoryInv, CallOK, tables
<1>4. /\ OnlyOf(c) /\ outstanding'[c] = outstanding[c] \ {n}
      /\ pc'[c] \in {"answered", "abandoned"} /\ response'[c] = 500
  BY <1>1 DEF TypeOK, OnlyOf, Leave
<1>5. \A v \in outstanding[c] : PutOK(c, v)
  BY DEF HistoryInv, CallOK
<1>6. \A v \in outstanding'[c] : PutOK(c, v)'
  BY <1>1, <1>4, <1>5, Tableless DEF PutOK, tables
<1>7. CallOK(c)' /\ AccountedFor(c)'
  BY <1>3, <1>4, <1>6 DEF CallOK, AccountedFor
<1>8. QED
  BY <1>1, <1>4, <1>7, QuietStep, Tableless

LEMMA DeleteHistory ==
  ASSUME TypeOK, HistoryInv, NEW c \in Calls, NEW t,
         \/ t \in Views /\ (CheckNode(c, t) \/ CheckSubordinates(c, t))
         \/ Delete(c)
  PROVE  HistoryInv'
<1>1. CASE t \in Views /\ CheckNode(c, t)
  <2> DEFINE e == Entry(c, "HIERARCHY_DELETED", call[c].id, Undefined)
  <2>1. pc[c] = "getNode" /\ Reads
    BY <1>1 DEF CheckNode, At
  <2>2. \/ Answer(c, 404)
        \/ call[c].id \in Present(t) /\ Continue(c, "getSubordinates", e)
    BY <1>1 DEF CheckNode
  <2>3. CASE Answer(c, 404)
    BY <2>1, <2>3, AnswerHistory
  <2>4. CASE call[c].id \in Present(t) /\ Continue(c, "getSubordinates", e)
    <3>1. \E v \in written : v.id = call[c].id
      BY <1>1, <2>4, ReadsWereWritten
    <3>2. /\ e.id = c /\ e.entityId = call[c].id /\ e.supervisorId = Undefined
          /\ e.action = "HIERARCHY_DELETED"
      BY DEF Entry
    <3> HIDE DEF e
    <3>3. EntryTrue(e, written)
      BY <3>1, <3>2 DEF EntryTrue
    <3>4. UNCHANGED <<outstanding, tables>>
      BY <2>1 DEF Reads
    <3>5. UNCHANGED <<written, audit>> /\ UNCHANGED nodes
      BY <3>4 DEF tables
    <3>6. QED
      BY <2>1, <2>4, <3>2, <3>3, <3>4, <3>5, ContinueHistory
  <2>5. QED
    BY <2>2, <2>3, <2>4
<1>2. CASE CheckSubordinates(c, t)
  <2>1. pc[c] = "getSubordinates" /\ Reads
    BY <1>2 DEF CheckSubordinates, At
  <2>2. held[c].id = c /\ EntryTrue(held[c], written)
    BY <2>1 DEF HistoryInv, CallOK
  <2>3. CASE Answer(c, 400)
    BY <2>1, <2>3, AnswerHistory
  <2>4. CASE Continue(c, "delete", held[c])
    <3>1. UNCHANGED <<outstanding, written, audit>> /\ UNCHANGED nodes
      BY <2>1 DEF Reads, tables
    <3>2. QED
      BY <2>1, <2>2, <2>4, <3>1, ContinueHistory
  <2>5. QED
    BY <1>2, <2>3, <2>4 DEF CheckSubordinates
<1>3. CASE Delete(c)
  <2>1. /\ pc[c] = "delete" /\ Continue(c, "writeAudit", held[c])
        /\ nodes' = [nodes EXCEPT ![call[c].id] = Undefined]
        /\ UNCHANGED <<outstanding, written, audit>>
    BY <1>3 DEF Delete, At
  <2>2. held[c].id = c /\ EntryTrue(held[c], written)
    BY <2>1 DEF HistoryInv, CallOK
  <2>3. \A n \in Present(nodes') : nodes'[n] = nodes[n] /\ n \in Present(nodes)
    BY <2>1 DEF Present, TypeOK, Tree
  <2>4. QED
    BY <2>1, <2>2, <2>3, ContinueHistory
<1>4. QED
  BY <1>1, <1>2, <1>3

LEMMA WriteAuditHistory ==
  ASSUME TypeOK, HistoryInv, NEW c \in Calls, WriteAudit(c)
  PROVE  HistoryInv'
<1>1. /\ pc[c] = "writeAudit" /\ audit' = audit \cup {held[c]}
      /\ UNCHANGED <<outstanding, nodes, written>>
  BY DEF WriteAudit
<1>2. PICK status \in {200, 500} : Answer(c, status)
  BY DEF WriteAudit
<1>3. OnlyOf(c) /\ pc'[c] = "answered" /\ outstanding'[c] = {}
  BY <1>1, <1>2 DEF TypeOK, FrameOK, OnlyOf, Answer, Leave
<1>4. /\ held[c].id = c /\ EntryTrue(held[c], written)
      /\ \A a \in audit : a.id # c
      /\ Known(c) => held[c].entityId = c /\ held[c].action = "HIERARCHY_CREATED"
  BY <1>1 DEF HistoryInv, CallOK
<1>5. AuditIsTrue'
  BY <1>1, <1>4 DEF HistoryInv, AuditIsTrue, EntryTrue
<1>6. VersionsAgree' /\ SupervisorsKnown' /\ Adds(c)
  BY <1>1, <1>4 DEF HistoryInv, VersionsAgree, SupervisorsKnown, Adds
<1>7. CallOK(c)'
  BY <1>3 DEF CallOK
<1>8. AccountedFor(c)'
  BY <1>1, <1>4 DEF AccountedFor, Known
<1>9. \A n \in Present(nodes') : nodes'[n] \in written' /\ nodes'[n].id = n
  BY <1>1 DEF HistoryInv
<1>10. QED
  BY <1>3, <1>5, <1>6, <1>7, <1>8, <1>9, HistoryStep

-------------------------------------------------------------------------------
(* The theorems.                                                           *)

LEMMA InitHistory == Init => HistoryInv
<1> SUFFICES ASSUME Init PROVE HistoryInv
  OBVIOUS
<1>1. /\ nodes \in Tree /\ IsHierarchy(nodes)
      /\ \A n \in Present(nodes) : n \in Existing /\ nodes[n].id = n
  BY TreesAssumption DEF Init
<1>2. \A v \in written : \E n \in Present(nodes) : v = nodes[n] /\ v.id = n
  BY <1>1 DEF Init
<1>3. \A n \in Present(nodes) : nodes[n] \in written
  BY DEF Init
<1>4. \A v \in written : v.id \notin Calls
  BY <1>1, <1>2, OrgConfigAssumption
<1>5. VersionsAgree
  BY <1>2 DEF VersionsAgree
<1>6. SupervisorsKnown
  <2> SUFFICES ASSUME NEW n \in Present(nodes), nodes[n].supervisorId # ROOT
               PROVE  /\ nodes[n].supervisorId # n
                      /\ nodes[n].supervisorId \in Present(nodes)
    BY <1>1, <1>2, <1>3 DEF SupervisorsKnown
  <2>1. nodes[n].supervisorId \in Present(nodes)
    BY <1>1 DEF IsHierarchy, NoOrphans
  <2>2. nodes[n].supervisorId \notin {n}
    <3>1. {n} \in SUBSET Present(nodes) /\ {n} # {}
      OBVIOUS
    <3>2. \E m \in {n} : nodes[m].supervisorId \notin {n}
      BY <1>1, <3>1 DEF IsHierarchy, Acyclic
    <3>3. QED
      BY <3>2
  <2>3. QED
    BY <2>1, <2>2
<1>7. \A c \in Calls : CallOK(c)
  BY <1>4 DEF Init, CallOK, Known
<1>8. AuditIsTrue /\ CreationIsAccountedFor
  BY <1>4 DEF Init, AuditIsTrue, CreationIsAccountedFor
<1>9. QED
  BY <1>1, <1>3, <1>5, <1>6, <1>7, <1>8 DEF HistoryInv

LEMMA LandAgainHistory ==
  ASSUME TypeOK, HistoryInv, LandAgain
  PROVE  HistoryInv'
<1>1. UNCHANGED <<pc, held, outstanding, response, written, audit>>
  BY DEF LandAgain, handlers
<1>2. \A n \in Present(nodes)' : nodes'[n] \in written' /\ nodes'[n].id = n
  BY DEF LandAgain, HistoryInv, Present, TypeOK, Tree
<1>3. \A c \in Calls : CallOK(c)'
  <2> SUFFICES ASSUME NEW c \in Calls PROVE CallOK(c)'
    OBVIOUS
  <2>1. CallOK(c)
    BY DEF HistoryInv
  <2>2. QED
    BY <1>1, <2>1 DEF CallOK, PutOK, EntryTrue, Known
<1>4. QED
  BY <1>1, <1>2, <1>3 DEF HistoryInv, VersionsAgree, SupervisorsKnown,
     AuditIsTrue, CreationIsAccountedFor

LEMMA HistoryNext ==
  ASSUME TypeOK, HistoryInv, [Next]_vars
  PROVE  HistoryInv'
<1>1. ASSUME NEW c \in Calls, Arrive(c) PROVE HistoryInv'
  BY <1>1, BeginHistory
     DEF Arrive, CreateNode, UpdateNode, AssignSupervisor, DeleteNode
<1>2. ASSUME NEW c \in Calls, Step(c) PROVE HistoryInv'
  BY <1>2, CheckUserHistory, CheckSupervisorHistory, ComputeUpdateHistory,
     PutLandsHistory, PutFailsHistory, DeleteHistory, WriteAuditHistory
     DEF Step, Decide
<1>3. ASSUME NEW c \in Calls, Fail(c) PROVE HistoryInv'
  BY <1>3, AnswerHistory DEF Fail, InFlight
<1>4. CASE UNCHANGED vars
  <2>1. UNCHANGED <<pc, held, outstanding, response, nodes, written, audit>>
    BY <1>4 DEF vars, handlers, tables
  <2>2. \A c \in Calls : CallOK(c)'
    <3> SUFFICES ASSUME NEW c \in Calls PROVE CallOK(c)'
      OBVIOUS
    <3>1. CallOK(c)
      BY DEF HistoryInv
    <3>2. QED
      BY <2>1, <3>1 DEF CallOK, PutOK, EntryTrue, Known
  <2>3. QED
    BY <2>1, <2>2 DEF HistoryInv, Present, VersionsAgree, SupervisorsKnown,
       AuditIsTrue, CreationIsAccountedFor
<1>5. CASE LandAgain
  BY <1>5, LandAgainHistory
<1>6. QED
  BY <1>1, <1>2, <1>3, <1>4, <1>5 DEF Next, Terminating

(***************************************************************************)
(* Every put on its way and every running call agrees with the versions    *)
(* put so far, however the calls overlap: the inductive invariant.         *)
(***************************************************************************)
THEOREM OrgHistoryHolds == Spec => []HistoryInv
  BY InitHistory, HistoryNext, OrgTypeCorrect, PTL DEF Spec

(***************************************************************************)
(* However updates overwrite one another, a node stays of one user.        *)
(***************************************************************************)
THEOREM OrgVersionsHold == Spec => []VersionsAgree
<1>1. HistoryInv => VersionsAgree
  BY DEF HistoryInv
<1>2. QED
  BY <1>1, OrgHistoryHolds, PTL

(***************************************************************************)
(* However calls overlap, no node is put under itself or under an id that  *)
(* never was a node.                                                       *)
(***************************************************************************)
THEOREM SupervisorsHold == Spec => []SupervisorsKnown
<1>1. HistoryInv => SupervisorsKnown
  BY DEF HistoryInv
<1>2. QED
  BY <1>1, OrgHistoryHolds, PTL

(***************************************************************************)
(* The log tells only of nodes that existed and of supervisors they had.   *)
(***************************************************************************)
THEOREM OrgAuditHolds == Spec => []AuditIsTrue
<1>1. HistoryInv => AuditIsTrue
  BY DEF HistoryInv
<1>2. QED
  BY <1>1, OrgHistoryHolds, PTL

(***************************************************************************)
(* Every node that was created is logged, about to be, or was answered 500.*)
(***************************************************************************)
THEOREM CreationHolds == Spec => []CreationIsAccountedFor
<1>1. HistoryInv => CreationIsAccountedFor
  BY DEF HistoryInv
<1>2. QED
  BY <1>1, OrgHistoryHolds, PTL
===============================================================================
