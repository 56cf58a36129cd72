---------------------------- MODULE VacationProofs ----------------------------
(***************************************************************************)
(* Theorems about Vacation, for any number of calls, users, days and nodes.*)
(***************************************************************************)
EXTENDS Vacation, FiniteSetTheorems, TLAPS

-------------------------------------------------------------------------------
(* Type correctness.                                                       *)

(***************************************************************************)
(* A step of call c leaves the frames of the other calls alone.            *)
(***************************************************************************)
LEMMA OtherFrames ==
  ASSUME TypeOK, NEW c \in Calls, NEW d \in Calls \ {c},
         \/ \E status : Answer(c, status) \/ Respond(c, status)
         \/ \E await, value : Continue(c, await, value)
         \/ \E args, await : Begin(c, args, await)
  PROVE  /\ pc'[d] = pc[d] /\ call'[d] = call[d] /\ held'[d] = held[d]
         /\ FrameOK(d)'
<1>1. pc'[d] = pc[d] /\ call'[d] = call[d] /\ held'[d] = held[d]
  BY DEF TypeOK, Answer, Respond, Continue, Begin
<1>2. FrameOK(d)
  BY DEF TypeOK
<1>3. QED
  BY <1>1, <1>2 DEF FrameOK

HandlersOK ==
  /\ pc \in [Calls -> Await \cup {"unsent", "answered"}]
  /\ DOMAIN call = Calls /\ DOMAIN held = Calls
  /\ \A c \in Calls : FrameOK(c)
  /\ response \in [Calls -> {200, 400, 403, 404, 500, Undefined}]

TablesOK ==
  /\ requests \in [Calls -> Request \cup {Undefined}]
  /\ written \subseteq Request
  /\ balances \in [User -> Balance \cup {Undefined}]
  /\ assigned \subseteq Balance
  /\ audit \subseteq AuditLog
  /\ orgNodes \in [NodeId -> Node \cup {Undefined}]

ShapeOK == HandlersOK /\ TablesOK

LEMMA TypeParts ==
  /\ TypeOK <=> ShapeOK /\ outdated \subseteq Calls
  /\ TypeOK' <=> ShapeOK' /\ outdated' \subseteq Calls
  /\ ShapeOK <=> HandlersOK /\ TablesOK
  /\ ShapeOK' <=> HandlersOK' /\ TablesOK'
  BY DEF TypeOK, ShapeOK, HandlersOK, TablesOK

LEMMA TablesSame ==
  ASSUME TablesOK, UNCHANGED <<tables, orgNodes>>
  PROVE  TablesOK'
  BY DEF TablesOK, tables

LEMMA AnswerType ==
  ASSUME TypeOK, NEW c \in Calls,
         NEW status \in {200, 400, 403, 404, 500},
         Answer(c, status) \/ Respond(c, status)
  PROVE  HandlersOK'
<1>1. FrameOK(c)'
  BY DEF TypeOK, Answer, Respond, FrameOK
<1>2. \A d \in Calls \ {c} : FrameOK(d)'
  BY OtherFrames
<1>3. QED
  BY <1>1, <1>2 DEF TypeOK, HandlersOK, Answer, Respond

LEMMA ContinueType ==
  ASSUME TypeOK, NEW c \in Calls, NEW await \in Await, NEW value,
         Continue(c, await, value), FrameOK(c)'
  PROVE  HandlersOK'
<1>1. \A d \in Calls \ {c} : FrameOK(d)'
  BY OtherFrames
<1>2. QED
  BY <1>1 DEF TypeOK, HandlersOK, Continue

LEMMA BeginType ==
  ASSUME TypeOK, NEW c \in Calls, NEW await \in Await, NEW args,
         Begin(c, args, await), FrameOK(c)'
  PROVE  HandlersOK'
<1>1. \A d \in Calls \ {c} : FrameOK(d)'
  BY OtherFrames
<1>2. QED
  BY <1>1 DEF TypeOK, HandlersOK, Begin

LEMMA InitType == Init => TypeOK
<1> SUFFICES ASSUME Init PROVE TypeOK
  OBVIOUS
<1>1. \A c \in Calls : FrameOK(c)
  BY DEF Init, FrameOK
<1>2. balances \in [User -> Balance \cup {Undefined}]
  BY DEF Init, Balance
<1>3. assigned \subseteq Balance
  BY <1>2 DEF Init
<1>4. orgNodes \in [NodeId -> Node \cup {Undefined}]
  BY ConfigAssumption DEF Init
<1>5. QED
  BY <1>1, <1>2, <1>3, <1>4 DEF Init, TypeOK

LEMMA DaysType ==
  ASSUME NEW start \in Int, NEW end \in Int
  PROVE  CalculateDays(start, end) \in Nat
<1>1. Distance(start, end) \in Nat
  BY DEF Distance
<1>2. (Distance(start, end) + TicksPerDay - 1) \div TicksPerDay \in Nat
  BY <1>1, TicksAssumption
<1>3. QED
  BY <1>2 DEF CalculateDays

LEMMA NewRequestType ==
  ASSUME NEW c \in Calls, call[c] \in CreateArgs,
         NEW supervisor \in User \cup {NoSupervisor}
  PROVE  NewRequest(c, supervisor) \in Request
<1>1. CalculateDays(call[c].start, call[c].end) \in Nat
  BY DaysType DEF CreateArgs
<1>2. QED
  BY <1>1 DEF CreateArgs, NewRequest, Request, Status

LEMMA UpdatedType ==
  ASSUME NEW c \in Calls, NEW r \in Request, NEW status \in Status
  PROVE  Updated(c, r, status) \in Request
  BY DEF Updated, Request

LEMMA CreateRequestType ==
  ASSUME TypeOK, NEW c \in Calls, CreateRequest(c)
  PROVE  ShapeOK'
<1>1. TablesOK'
  BY TypeParts, TablesSame DEF CreateRequest
<1>2. CASE \E status \in {400, 403} : Answer(c, status)
  BY <1>1, <1>2, TypeParts, AnswerType
<1>3. CASE \E user \in User, p \in Periods :
             Begin(c, [op |-> "createRequest", user |-> user,
                       start |-> p.start, end |-> p.end], "getBalance")
  <2>1. PICK user \in User, p \in Periods :
             Begin(c, [op |-> "createRequest", user |-> user,
                       start |-> p.start, end |-> p.end], "getBalance")
    BY <1>3
  <2>2. call'[c] \in CreateArgs
    BY <2>1, ConfigAssumption DEF TypeOK, Begin, CreateArgs
  <2>3. FrameOK(c)'
    BY <2>1, <2>2 DEF TypeOK, Begin, FrameOK
  <2>4. QED
    BY <2>1, <2>3, <1>1, BeginType, TypeParts DEF Await
<1>4. QED
  BY <1>2, <1>3 DEF CreateRequest

LEMMA ReadBalanceType ==
  ASSUME TypeOK, NEW c \in Calls, ReadBalance(c)
  PROVE  ShapeOK'
<1>1. TablesOK'
  BY TypeParts, TablesSame DEF ReadBalance, GoOn
<1>2. CASE Answer(c, 400)
  BY <1>1, <1>2, TypeParts, AnswerType
<1>3. ASSUME NEW b \in GetBalanceReads(call[c].user), b # Undefined,
             Continue(c, "queryRequests", b)
      PROVE  ShapeOK'
  <2>1. call[c] \in CreateArgs /\ call[c].user \in User
    BY DEF ReadBalance, At, TypeOK, FrameOK, CreateArgs
  <2>2. b \in Balance
    BY <1>3, <2>1 DEF GetBalanceReads, TypeOK
  <2>3. FrameOK(c)'
    BY <1>3, <2>1, <2>2 DEF TypeOK, Continue, FrameOK
  <2>4. QED
    BY <1>1, <1>3, <2>3, ContinueType, TypeParts DEF Await
<1>4. QED
  BY <1>2, <1>3 DEF ReadBalance, GoOn

LEMMA CheckAvailableType ==
  ASSUME TypeOK, NEW c \in Calls, CheckAvailable(c)
  PROVE  ShapeOK'
<1>1. TablesOK'
  BY TypeParts, TablesSame DEF CheckAvailable, GoOn
<1>2. CASE Answer(c, 400)
  BY <1>1, <1>2, TypeParts, AnswerType
<1>3. CASE Continue(c, "getOrgNode", Undefined)
  <2>1. FrameOK(c)'
    BY <1>3 DEF CheckAvailable, At, TypeOK, FrameOK, Continue
  <2>2. QED
    BY <1>1, <1>3, <2>1, ContinueType, TypeParts DEF Await
<1>4. QED
  BY <1>2, <1>3 DEF CheckAvailable, GoOn

LEMMA ReadOrgNodeType ==
  ASSUME TypeOK, NEW c \in Calls, ReadOrgNode(c)
  PROVE  ShapeOK'
<1>1. TablesOK'
  BY TypeParts, TablesSame DEF ReadOrgNode, GoOn
<1>2. call[c] \in CreateArgs /\ pc[c] = "getOrgNode"
  BY DEF ReadOrgNode, At, TypeOK, FrameOK
<1>3. CASE Continue(c, "putRequest", NewRequest(c, NoSupervisor))
  <2>1. FrameOK(c)'
    BY <1>2, <1>3, NewRequestType DEF TypeOK, FrameOK, Continue
  <2>2. QED
    BY <1>1, <1>3, <2>1, ContinueType, TypeParts DEF Await
<1>4. ASSUME NEW n \in NodesOf(call[c].user), n.supervisorId # ROOT,
             Continue(c, "getSupervisorNode", n.supervisorId)
      PROVE  ShapeOK'
  <2>1. n \in Node
    BY DEF NodesOf, TypeOK
  <2>2. FrameOK(c)'
    BY <1>2, <1>4, <2>1 DEF TypeOK, FrameOK, Continue, Node
  <2>3. QED
    BY <1>1, <1>4, <2>2, ContinueType, TypeParts DEF Await
<1>5. QED
  BY <1>3, <1>4 DEF ReadOrgNode, GoOn

LEMMA ReadSupervisorNodeType ==
  ASSUME TypeOK, NEW c \in Calls, ReadSupervisorNode(c)
  PROVE  ShapeOK'
<1>1. TablesOK'
  BY TypeParts, TablesSame DEF ReadSupervisorNode, GoOn
<1>2. call[c] \in CreateArgs /\ held[c] \in NodeId
  BY DEF ReadSupervisorNode, At, TypeOK, FrameOK
<1> DEFINE boss == orgNodes[held[c]]
           supervisor == IF boss = Undefined THEN NoSupervisor ELSE boss.userId
<1>3. supervisor \in User \cup {NoSupervisor}
  BY <1>2 DEF TypeOK, Node
<1>4. Continue(c, "putRequest", NewRequest(c, supervisor))
  BY DEF ReadSupervisorNode, GoOn
<1> HIDE DEF supervisor
<1>5. FrameOK(c)'
  BY <1>2, <1>3, <1>4, NewRequestType DEF TypeOK, FrameOK, Continue
<1>6. QED
  BY <1>1, <1>4, <1>5, ContinueType, TypeParts DEF Await

LEMMA ResolveRequestType ==
  ASSUME TypeOK, NEW c \in Calls, ResolveRequest(c)
  PROVE  ShapeOK'
<1>1. TablesOK'
  BY TypeParts, TablesSame DEF ResolveRequest
<1>2. PICK user \in User, id \in Calls, op \in ResolveOps \cup {"cancelRequest"} :
        Begin(c, [op |-> op, user |-> user, id |-> id], "getRequest")
  BY DEF ResolveRequest
<1>3. call'[c] \in ResolveArgs
  BY <1>2 DEF TypeOK, Begin, ResolveArgs
<1>4. FrameOK(c)'
  BY <1>2, <1>3 DEF TypeOK, Begin, FrameOK
<1>5. QED
  BY <1>1, <1>2, <1>4, BeginType, TypeParts DEF Await

(***************************************************************************)
(* What resolveRequest and cancelRequest carry to their put.               *)
(***************************************************************************)
LEMMA CarryType ==
  ASSUME TypeOK, NEW c \in Calls, pc[c] = "getRequest",
         NEW r \in GetRequestReads(call[c].id), r # Undefined,
         NEW status \in Status, Continue(c, "putRequest", Updated(c, r, status)),
         TablesOK'
  PROVE  ShapeOK'
<1>1. call[c] \in ResolveArgs /\ call[c].id \in Calls
  BY DEF TypeOK, FrameOK, ResolveArgs
<1>2. r \in Request
  BY <1>1 DEF GetRequestReads, TypeOK
<1>3. Updated(c, r, status) \in Request
  BY <1>2, UpdatedType
<1>4. FrameOK(c)'
  BY <1>1, <1>3 DEF TypeOK, FrameOK, Continue
<1>5. QED
  BY <1>4, ContinueType, TypeParts DEF Await

LEMMA CheckResolveType ==
  ASSUME TypeOK, NEW c \in Calls, CheckResolve(c)
  PROVE  ShapeOK'
<1>1. TablesOK'
  BY TypeParts, TablesSame DEF CheckResolve, GoOn
<1>2. CASE \E status \in {400, 403, 404} : Answer(c, status)
  BY <1>1, <1>2, TypeParts, AnswerType
<1>3. CASE \E r \in GetRequestReads(call[c].id), status \in Status :
             r # Undefined /\ Continue(c, "putRequest", Updated(c, r, status))
  BY <1>1, <1>3, CarryType DEF CheckResolve, At
<1>4. QED
  BY <1>2, <1>3 DEF CheckResolve, GoOn, Status

LEMMA CheckCancelType ==
  ASSUME TypeOK, NEW c \in Calls, CheckCancel(c)
  PROVE  ShapeOK'
<1>1. TablesOK'
  BY TypeParts, TablesSame DEF CheckCancel, GoOn
<1>2. CASE \E status \in {400, 403, 404} : Answer(c, status)
  BY <1>1, <1>2, TypeParts, AnswerType
<1>3. CASE \E r \in GetRequestReads(call[c].id), status \in Status :
             r # Undefined /\ Continue(c, "putRequest", Updated(c, r, status))
  BY <1>1, <1>3, CarryType DEF CheckCancel, At
<1>4. QED
  BY <1>2, <1>3 DEF CheckCancel, GoOn, Status

LEMMA PutRequestType ==
  ASSUME TypeOK, NEW c \in Calls, PutRequest(c)
  PROVE  ShapeOK'
<1>1. held[c] \in Request /\ held[c].id \in Calls
  BY DEF PutRequest, TypeOK, FrameOK, Request
<1>2. TablesOK'
  BY <1>1 DEF PutRequest, TypeOK, TablesOK
<1>3. FrameOK(c)'
  BY <1>1 DEF PutRequest, Continue, TypeOK, FrameOK
<1>4. Continue(c, "writeAudit", held[c])
  BY DEF PutRequest
<1>5. QED
  BY <1>2, <1>3, <1>4, ContinueType, TypeParts DEF Await

LEMMA WriteAuditType ==
  ASSUME TypeOK, NEW c \in Calls, WriteAudit(c)
  PROVE  ShapeOK'
<1>1. /\ held[c] \in Request
      /\ call[c].user \in User
  BY DEF WriteAudit, TypeOK, FrameOK, CreateArgs, ResolveArgs
<1>2. AuditEntry(c) \in AuditLog
  BY <1>1 DEF AuditEntry, AuditLog, Request
<1>3. TablesOK'
  BY <1>2 DEF WriteAudit, TypeOK, TablesOK
<1>4. \E status \in {200, 500} : Answer(c, status)
  BY DEF WriteAudit
<1>5. QED
  BY <1>3, <1>4, AnswerType, TypeParts

LEMMA SetBalanceType ==
  ASSUME TypeOK, NEW c \in Calls, SetBalance(c)
  PROVE  ShapeOK'
<1>1. TablesOK'
  BY TypeParts, TablesSame DEF SetBalance
<1>2. CASE \E status \in {400, 403} : Answer(c, status)
  BY <1>1, <1>2, TypeParts, AnswerType
<1>3. ASSUME NEW user \in User, NEW target \in User, NEW total \in Totals,
             IsAdmin(user), total >= 0,
             Begin(c, [op |-> "setBalance", user |-> user,
                       target |-> target, totalDays |-> total], "queryUsed")
      PROVE  ShapeOK'
  <2>1. total \in Nat
    BY <1>3, ConfigAssumption
  <2>2. call'[c] \in AssignArgs
    BY <1>3, <2>1 DEF TypeOK, Begin, AssignArgs, IsAdmin
  <2>3. FrameOK(c)'
    BY <1>3, <2>2 DEF TypeOK, Begin, FrameOK
  <2>4. QED
    BY <1>1, <1>3, <2>3, BeginType, TypeParts DEF Await
<1>4. QED
  BY <1>2, <1>3 DEF SetBalance

LEMMA CheckUsedType ==
  ASSUME TypeOK, NEW c \in Calls, CheckUsed(c)
  PROVE  ShapeOK'
<1>1. TablesOK'
  BY TypeParts, TablesSame DEF CheckUsed, GoOn
<1>2. CASE Answer(c, 400)
  BY <1>1, <1>2, TypeParts, AnswerType
<1>3. CASE Continue(c, "putBalance", Undefined)
  <2>1. FrameOK(c)'
    BY <1>3 DEF CheckUsed, At, TypeOK, FrameOK, Continue
  <2>2. QED
    BY <1>1, <1>3, <2>1, ContinueType, TypeParts DEF Await
<1>4. QED
  BY <1>2, <1>3 DEF CheckUsed, GoOn

LEMMA PutBalanceType ==
  ASSUME TypeOK, NEW c \in Calls, PutBalance(c)
  PROVE  ShapeOK'
<1>1. call[c] \in AssignArgs
  BY DEF PutBalance, At, TypeOK, FrameOK
<1>2. NewBalance(c) \in Balance
  BY <1>1 DEF NewBalance, Balance, AssignArgs
<1>3. TablesOK'
  BY <1>1, <1>2 DEF PutBalance, TypeOK, TablesOK, AssignArgs
<1>4. \E status \in {200, 500} : Respond(c, status)
  BY DEF PutBalance
<1>5. QED
  BY <1>3, <1>4, AnswerType, TypeParts

LEMMA FailType ==
  ASSUME TypeOK, NEW c \in Calls, Fail(c)
  PROVE  ShapeOK'
<1>1. TablesOK' /\ Answer(c, 500)
  BY TypeParts, TablesSame DEF Fail
<1>2. QED
  BY <1>1, TypeParts, AnswerType

(***************************************************************************)
(* A step of the tables alone, in which no handler takes part.             *)
(***************************************************************************)
LEMMA LandsAgainType ==
  ASSUME TypeOK, RequestLandsAgain \/ BalanceLandsAgain
  PROVE  ShapeOK'
<1>1. UNCHANGED handlers
  BY DEF RequestLandsAgain, BalanceLandsAgain
<1>2. HandlersOK'
  BY <1>1 DEF TypeOK, HandlersOK, FrameOK, handlers
<1>3. CASE RequestLandsAgain
  <2>1. PICK r \in written : requests' = [requests EXCEPT ![r.id] = r]
    BY <1>3 DEF RequestLandsAgain
  <2>2. r \in Request
    BY DEF TypeOK
  <2>3. TablesOK'
    BY <1>3, <2>1, <2>2 DEF RequestLandsAgain, TypeOK, TablesOK
  <2>4. QED
    BY <1>2, <2>3, TypeParts
<1>4. CASE BalanceLandsAgain
  <2>1. PICK b \in assigned : balances' = [balances EXCEPT ![b.userId] = b]
    BY <1>4 DEF BalanceLandsAgain
  <2>2. b \in Balance
    BY DEF TypeOK
  <2>3. TablesOK'
    BY <1>4, <2>1, <2>2 DEF BalanceLandsAgain, TypeOK, TablesOK
  <2>4. QED
    BY <1>2, <2>3, TypeParts
<1>5. QED
  BY <1>3, <1>4

(***************************************************************************)
(* Only calls are ever outdated.                                           *)
(***************************************************************************)
LEMMA OutdatedType ==
  ASSUME TypeOK, [Next]_vars
  PROVE  outdated' \subseteq Calls
<1>1. ASSUME NEW c \in Calls,
             \/ \E args, await : Begin(c, args, await)
             \/ \E status : Answer(c, status)
             \/ \E await, value, current : GoOn(c, await, value, current)
      PROVE  outdated' \subseteq Calls
  BY <1>1 DEF TypeOK, Begin, Answer, GoOn
<1>2. ASSUME NEW c \in Calls, Arrive(c) PROVE outdated' \subseteq Calls
  BY <1>1, <1>2 DEF Arrive, CreateRequest, ResolveRequest, SetBalance
<1>3. ASSUME NEW c \in Calls, Step(c) PROVE outdated' \subseteq Calls
  <2>1. CASE ReadBalance(c) \/ CheckAvailable(c) \/ CheckUsed(c)
    BY <1>1, <2>1 DEF ReadBalance, CheckAvailable, CheckUsed
  <2>2. CASE ReadOrgNode(c) \/ ReadSupervisorNode(c)
    BY <1>1, <2>2 DEF ReadOrgNode, ReadSupervisorNode
  <2>3. CASE CheckResolve(c) \/ CheckCancel(c) \/ WriteAudit(c)
    BY <1>1, <2>3 DEF CheckResolve, CheckCancel, WriteAudit
  <2>4. CASE PutRequest(c) \/ PutBalance(c)
    BY <2>4 DEF TypeOK, PutRequest, PutBalance
  <2>5. QED
    BY <1>3, <2>1, <2>2, <2>3, <2>4 DEF Step
<1>4. ASSUME NEW c \in Calls, Fail(c) PROVE outdated' \subseteq Calls
  BY <1>1, <1>4 DEF Fail
<1>5. CASE RequestLandsAgain \/ BalanceLandsAgain
  BY <1>5 DEF TypeOK, RequestLandsAgain, BalanceLandsAgain
<1>6. CASE UNCHANGED outdated
  BY <1>6 DEF TypeOK
<1>7. QED
  BY <1>2, <1>3, <1>4, <1>5, <1>6 DEF Next, TreeChanges, Terminating, vars

LEMMA TreeChangesType ==
  ASSUME TypeOK, TreeChanges
  PROVE  ShapeOK'
<1>1. \A c \in Calls : FrameOK(c)'
  BY DEF TypeOK, TreeChanges, handlers, FrameOK
<1>2. orgNodes' \in [NodeId -> Node \cup {Undefined}]
  BY ConfigAssumption DEF TreeChanges
<1>3. QED
  BY <1>1, <1>2 DEF TypeOK, ShapeOK, HandlersOK, TablesOK, TreeChanges, handlers, tables

LEMMA StutterType ==
  ASSUME TypeOK, UNCHANGED vars
  PROVE  ShapeOK'
<1>1. \A c \in Calls : FrameOK(c)'
  BY DEF TypeOK, vars, handlers, FrameOK
<1>2. QED
  BY <1>1 DEF TypeOK, ShapeOK, HandlersOK, TablesOK, vars, handlers, tables

(***************************************************************************)
(* Every step of every call keeps each handler's frame and each table      *)
(* within its type: the run-time shape the TypeScript types only declare.  *)
(***************************************************************************)
THEOREM TypeCorrect == Spec => []TypeOK
<1>1. TypeOK /\ [Next]_vars => TypeOK'
  <2> SUFFICES ASSUME TypeOK, [Next]_vars PROVE ShapeOK'
    BY OutdatedType, TypeParts
  <2>1. ASSUME NEW c \in Calls, Arrive(c) PROVE ShapeOK'
    BY <2>1, CreateRequestType, ResolveRequestType, SetBalanceType DEF Arrive
  <2>2. ASSUME NEW c \in Calls, Step(c) PROVE ShapeOK'
    BY <2>2, ReadBalanceType, CheckAvailableType, ReadOrgNodeType,
       ReadSupervisorNodeType, CheckResolveType, CheckCancelType,
       PutRequestType, WriteAuditType, CheckUsedType, PutBalanceType DEF Step
  <2>3. ASSUME NEW c \in Calls, Fail(c) PROVE ShapeOK'
    BY <2>3, FailType
  <2>4. CASE TreeChanges
    BY <2>4, TreeChangesType
  <2>5. CASE UNCHANGED vars
    BY <2>5, StutterType
  <2>6. CASE RequestLandsAgain \/ BalanceLandsAgain
    BY <2>6, LandsAgainType
  <2>7. QED
    BY <2>1, <2>2, <2>3, <2>4, <2>5, <2>6 DEF Next, Terminating
<1>2. QED
  BY InitType, <1>1, PTL DEF Spec

-------------------------------------------------------------------------------
(* What the tables and the audit log tell, for any interleaving of calls,  *)
(* any failures and any staleness of the reads.                            *)

(***************************************************************************)
(* What an answer may claim, for one call: AnswersAreHonest is this of all.*)
(***************************************************************************)
Honest(c) ==
  /\ response[c] \in {400, 403, 404} =>
       /\ \A v \in written \cup assigned : v.updatedAt # c
       /\ \A a \in audit : a.id # c
  /\ response[c] = 200 =>
       \/ \E v \in written, a \in audit : v.updatedAt = c /\ a.id = c
       \/ \E b \in assigned : b.updatedAt = c

LEMMA HonestAll == AnswersAreHonest <=> \A c \in Calls : Honest(c)
  BY DEF AnswersAreHonest, Honest

LEMMA InitHistory == Init => HistoryInv
<1> SUFFICES ASSUME Init PROVE HistoryInv
  OBVIOUS
<1>1. \A b \in assigned : b.updatedAt = Before
  BY DEF Init
<1>2. \A c \in Calls : CallOK(c)
  BY <1>1, SentinelAssumption DEF Init, CallOK
<1>3. AnswersAreHonest
  BY SentinelAssumption DEF Init, AnswersAreHonest
<1>4. QED
  BY <1>2, <1>3 DEF Init, HistoryInv, AuditIsTrue, StatusIsAccountedFor,
                    VersionsAgree

(***************************************************************************)
(* Answer, Continue and Begin leave everything about other calls alone.    *)
(***************************************************************************)
LEMMA OthersSame ==
  ASSUME TypeOK, NEW c \in Calls, NEW d \in Calls \ {c},
         \/ \E status : Answer(c, status) \/ Respond(c, status)
         \/ \E await, value : Continue(c, await, value)
         \/ \E args, await : Begin(c, args, await)
  PROVE  /\ pc'[d] = pc[d] /\ call'[d] = call[d] /\ held'[d] = held[d]
         /\ response'[d] = response[d]
<1>1. pc'[d] = pc[d] /\ call'[d] = call[d] /\ held'[d] = held[d]
  BY OtherFrames
<1>2. response'[d] = response[d]
  BY DEF TypeOK, Answer, Respond, Continue, Begin
<1>3. QED
  BY <1>1, <1>2

(***************************************************************************)
(* A step of call c that writes no table keeps the invariant when it keeps *)
(* what the invariant says of c.                                           *)
(***************************************************************************)
LEMMA QuietStep ==
  ASSUME TypeOK, HistoryInv, NEW c \in Calls, UNCHANGED tables,
         \A d \in Calls \ {c} :
           /\ pc'[d] = pc[d] /\ call'[d] = call[d] /\ held'[d] = held[d]
           /\ response'[d] = response[d],
         HasPut(c) => HasPut(c)',
         CallOK(c)',
         Honest(c)',
         pc[c] = "writeAudit" => response'[c] = 500,
         response[c] = 500 => response'[c] = 500
  PROVE  HistoryInv'
<1> USE DEF HistoryInv, tables
<1>1. \A v \in written' : VersionOK(v)'
  <2> SUFFICES ASSUME NEW v \in written PROVE VersionOK(v)'
    OBVIOUS
  <2>1. VersionOK(v) /\ v.id \in Calls /\ v.updatedAt \in Calls
    BY DEF TypeOK, Request
  <2>2. \A d \in Calls : HasPut(d) => HasPut(d)'
    BY DEF HasPut
  <2>3. QED
    BY <2>1, <2>2 DEF VersionOK, WellFormed
<1>2. \A d \in Calls \ {c} : CallOK(d)'
  BY DEF CallOK, WellFormed, Entitled
<1>3. AuditIsTrue'
  BY DEF AuditIsTrue, Entitled
<1>4. StatusIsAccountedFor'
  <2> SUFFICES ASSUME NEW v \in written
               PROVE  LET d == v.updatedAt IN
                      \/ \E a \in audit : a.id = d /\ a.entityId = v.id
                      \/ pc'[d] = "writeAudit"
                      \/ response'[d] = 500
    BY DEF StatusIsAccountedFor
  <2>1. v.updatedAt \in Calls
    BY DEF TypeOK, Request
  <2>2. QED
    BY <2>1 DEF StatusIsAccountedFor
<1>5. AnswersAreHonest'
  <2>1. \A d \in Calls \ {c} : Honest(d)'
    BY HonestAll DEF Honest
  <2>2. (\A d \in Calls : Honest(d)')
    BY <2>1
  <2>3. QED
    BY <2>2 DEF AnswersAreHonest, Honest
<1>6. VersionsAgree'
  BY DEF VersionsAgree, SameRequest
<1>7. QED
  BY <1>1, <1>2, <1>3, <1>4, <1>5, <1>6

LEMMA QuietAnswer ==
  ASSUME TypeOK, HistoryInv, NEW c \in Calls, pc[c] # "answered",
         NEW status \in {400, 403, 404, 500}, Answer(c, status),
         UNCHANGED tables, pc[c] = "writeAudit" => status = 500
  PROVE  HistoryInv'
<1>1. pc'[c] = "answered" /\ response'[c] = status
  BY DEF TypeOK, Answer, Respond
<1>2. CallOK(c)'
  BY <1>1 DEF CallOK
<1>3. Honest(c)'
  <2>1. CASE status = 500
    BY <1>1, <2>1 DEF Honest
  <2>2. CASE status # 500
    <3>1. ~HasPut(c)
      BY <2>2 DEF HasPut
    <3>2. \A v \in written : v.updatedAt # c
      BY <3>1 DEF HistoryInv, VersionOK
    <3>3. /\ \A b \in assigned : b.updatedAt # c
          /\ \A a \in audit : a.id # c
      BY DEF HistoryInv, CallOK
    <3>4. QED
      BY <1>1, <3>2, <3>3 DEF Honest, tables
  <2>3. QED
    BY <2>1, <2>2
<1>4. response[c] = Undefined
  BY DEF HistoryInv, CallOK
<1>5. QED
  BY <1>1, <1>2, <1>3, <1>4, OthersSame, QuietStep, SentinelAssumption
  DEF HasPut

(***************************************************************************)
(* The parts of CallOK about a call that has not answered.                 *)
(***************************************************************************)
Unanswered(c) ==
  /\ response[c] = Undefined
  /\ \A b \in assigned : b.updatedAt # c
  /\ \A a \in audit : a.id # c

CreateAwait ==
  {"getBalance", "queryRequests", "getOrgNode", "getSupervisorNode"}

LEMMA QuietBegin ==
  ASSUME TypeOK, HistoryInv, NEW c \in Calls, pc[c] = "unsent",
         NEW await \in Await \ {"putRequest", "writeAudit"}, NEW args,
         Begin(c, args, await), UNCHANGED tables,
         await \in CreateAwait => args.start <= args.end
  PROVE  HistoryInv'
<1>1. /\ pc'[c] = await /\ call'[c] = args
      /\ response' = response /\ held' = held
  BY DEF TypeOK, Begin
<1>2. Unanswered(c)
  BY DEF HistoryInv, CallOK, Unanswered
<1>3. CallOK(c)'
  BY <1>1, <1>2 DEF CallOK, Unanswered, tables, CreateAwait
<1>4. Honest(c)'
  BY <1>1, <1>2, SentinelAssumption DEF Honest, Unanswered
<1>5. ~HasPut(c)
  BY DEF HasPut
<1>6. QED
  BY <1>1, <1>2, <1>3, <1>4, <1>5, OthersSame, QuietStep

(***************************************************************************)
(* A handler goes on to its next await without writing.                    *)
(***************************************************************************)
LEMMA QuietContinue ==
  ASSUME TypeOK, HistoryInv, NEW c \in Calls,
         pc[c] \in Await \ {"putRequest", "writeAudit"},
         NEW await \in Await \ {"writeAudit"}, NEW value,
         Continue(c, await, value), UNCHANGED tables,
         await \in CreateAwait => pc[c] \in CreateAwait,
         await = "putRequest" =>
           /\ value.updatedAt = c
           /\ Entitled(call[c].user, value)
           /\ WellFormed(value)
           /\ IF value.status = "PENDING" THEN value.id = c
              ELSE \E v \in written : SameRequest(v, value)
  PROVE  HistoryInv'
<1>1. /\ pc'[c] = await /\ held'[c] = value
      /\ call' = call /\ response' = response
  BY DEF TypeOK, Continue
<1>2. Unanswered(c) /\ pc[c] # "answered"
  BY DEF HistoryInv, CallOK, Unanswered, Await
<1>3. CallOK(c)'
  <2>1. await \in CreateAwait => call[c].start <= call[c].end
    BY DEF HistoryInv, CallOK, CreateAwait
  <2>2. QED
    BY <1>1, <1>2, <2>1 DEF CallOK, Unanswered, tables, CreateAwait,
       Entitled, WellFormed, SameRequest, Await
<1>4. Honest(c)'
  BY <1>1, <1>2, SentinelAssumption DEF Honest, Unanswered
<1>5. ~HasPut(c)
  BY <1>2 DEF HasPut
<1>6. QED
  BY <1>1, <1>2, <1>3, <1>4, <1>5, OthersSame, QuietStep
-------------------------------------------------------------------------------
(* One lemma per action: first those that only read.                       *)

LEMMA CreateRequestHistory ==
  ASSUME TypeOK, HistoryInv, NEW c \in Calls, CreateRequest(c)
  PROVE  HistoryInv'
<1>1. UNCHANGED tables /\ pc[c] = "unsent"
  BY DEF CreateRequest, Arrives
<1>2. CASE \E status \in {400, 403} : Answer(c, status)
  BY <1>1, <1>2, QuietAnswer
<1>3. ASSUME NEW user \in User, NEW p \in Periods, p.start <= p.end,
             Begin(c, [op |-> "createRequest", user |-> user,
                       start |-> p.start, end |-> p.end], "getBalance")
      PROVE  HistoryInv'
  <2> DEFINE args == [op |-> "createRequest", user |-> user,
                      start |-> p.start, end |-> p.end]
  <2>1. args.start <= args.end
    BY <1>3
  <2>2. Begin(c, args, "getBalance")
    BY <1>3
  <2> HIDE DEF args
  <2>3. QED
    BY <1>1, <2>1, <2>2, QuietBegin DEF Await
<1>4. QED
  BY <1>2, <1>3 DEF CreateRequest

LEMMA ReadBalanceHistory ==
  ASSUME TypeOK, HistoryInv, NEW c \in Calls, ReadBalance(c)
  PROVE  HistoryInv'
<1>1. UNCHANGED tables /\ pc[c] = "getBalance"
  BY DEF ReadBalance, At
<1>2. CASE Answer(c, 400)
  BY <1>1, <1>2, QuietAnswer
<1>3. CASE \E value : Continue(c, "queryRequests", value)
  BY <1>1, <1>3, QuietContinue DEF Await, CreateAwait
<1>4. QED
  BY <1>2, <1>3 DEF ReadBalance, GoOn

LEMMA CheckAvailableHistory ==
  ASSUME TypeOK, HistoryInv, NEW c \in Calls, CheckAvailable(c)
  PROVE  HistoryInv'
<1>1. UNCHANGED tables /\ pc[c] = "queryRequests"
  BY DEF CheckAvailable, At
<1>2. CASE Answer(c, 400)
  BY <1>1, <1>2, QuietAnswer
<1>3. CASE Continue(c, "getOrgNode", Undefined)
  BY <1>1, <1>3, QuietContinue DEF Await, CreateAwait
<1>4. QED
  BY <1>2, <1>3 DEF CheckAvailable, GoOn

(***************************************************************************)
(* The request createRequest is about to put, whatever its supervisor.     *)
(***************************************************************************)
LEMMA NewRequestHistory ==
  ASSUME TypeOK, HistoryInv, NEW c \in Calls, UNCHANGED tables,
         pc[c] \in {"getOrgNode", "getSupervisorNode"}, NEW supervisor,
         Continue(c, "putRequest", NewRequest(c, supervisor))
  PROVE  HistoryInv'
<1> DEFINE r == NewRequest(c, supervisor)
<1>1. call[c].start <= call[c].end
  BY DEF HistoryInv, CallOK
<1>2. /\ r.updatedAt = c /\ r.id = c /\ r.status = "PENDING"
      /\ Entitled(call[c].user, r)
  BY DEF NewRequest, Entitled
<1>3. WellFormed(r)
  BY <1>1 DEF NewRequest, WellFormed
<1>4. Continue(c, "putRequest", r)
  OBVIOUS
<1> HIDE DEF r
<1>5. QED
  BY <1>2, <1>3, <1>4, QuietContinue DEF Await, CreateAwait

LEMMA ReadOrgNodeHistory ==
  ASSUME TypeOK, HistoryInv, NEW c \in Calls, ReadOrgNode(c)
  PROVE  HistoryInv'
<1>1. UNCHANGED tables /\ pc[c] = "getOrgNode"
  BY DEF ReadOrgNode, At
<1>2. CASE Continue(c, "putRequest", NewRequest(c, NoSupervisor))
  BY <1>1, <1>2, NewRequestHistory
<1>3. CASE \E value : Continue(c, "getSupervisorNode", value)
  BY <1>1, <1>3, QuietContinue DEF Await, CreateAwait
<1>4. QED
  BY <1>2, <1>3 DEF ReadOrgNode, GoOn

LEMMA ReadSupervisorNodeHistory ==
  ASSUME TypeOK, HistoryInv, NEW c \in Calls, ReadSupervisorNode(c)
  PROVE  HistoryInv'
<1>1. UNCHANGED tables /\ pc[c] = "getSupervisorNode"
  BY DEF ReadSupervisorNode, At
<1>2. \E supervisor : Continue(c, "putRequest", NewRequest(c, supervisor))
  BY DEF ReadSupervisorNode, GoOn
<1>3. QED
  BY <1>1, <1>2, NewRequestHistory

LEMMA ResolveRequestHistory ==
  ASSUME TypeOK, HistoryInv, NEW c \in Calls, ResolveRequest(c)
  PROVE  HistoryInv'
<1>1. UNCHANGED tables /\ pc[c] = "unsent"
  BY DEF ResolveRequest, Arrives
<1>2. \E args : Begin(c, args, "getRequest")
  BY DEF ResolveRequest
<1>3. QED
  BY <1>1, <1>2, QuietBegin DEF Await, CreateAwait

(***************************************************************************)
(* The version a resolution is about to put differs from the one it read   *)
(* in status and timestamp only.                                           *)
(***************************************************************************)
LEMMA UpdatedHistory ==
  ASSUME TypeOK, HistoryInv, NEW c \in Calls, UNCHANGED tables,
         pc[c] = "getRequest",
         NEW r \in GetRequestReads(call[c].id), r # Undefined,
         NEW status \in {"APPROVED", "REJECTED", "CANCELLED"},
         IF status = "CANCELLED" THEN r.requester = call[c].user
         ELSE r.supervisor = call[c].user \/ IsApprover(call[c].user),
         Continue(c, "putRequest", Updated(c, r, status))
  PROVE  HistoryInv'
<1> DEFINE w == Updated(c, r, status)
<1>1. call[c].id \in Calls
  BY DEF TypeOK, FrameOK, ResolveArgs
<1>2. r \in written /\ r \in Request
  BY <1>1 DEF GetRequestReads, HistoryInv, TypeOK
<1>3. WellFormed(r)
  BY <1>2 DEF HistoryInv, VersionOK
<1>4. /\ w.id = r.id /\ w.requester = r.requester
      /\ w.supervisor = r.supervisor /\ w.start = r.start /\ w.end = r.end
      /\ w.totalDays = r.totalDays /\ w.status = status /\ w.updatedAt = c
  BY <1>2 DEF Updated, Request
<1>5. Continue(c, "putRequest", w)
  OBVIOUS
<1> HIDE DEF w
<1>6. SameRequest(r, w) /\ WellFormed(w) /\ Entitled(call[c].user, w)
  BY <1>3, <1>4 DEF SameRequest, WellFormed, Entitled
<1>7. QED
  BY <1>2, <1>4, <1>5, <1>6, QuietContinue DEF Await, CreateAwait

LEMMA CheckResolveHistory ==
  ASSUME TypeOK, HistoryInv, NEW c \in Calls, CheckResolve(c)
  PROVE  HistoryInv'
<1>1. UNCHANGED tables /\ pc[c] = "getRequest"
  BY DEF CheckResolve, At
<1>2. CASE \E status \in {400, 403, 404} : Answer(c, status)
  BY <1>1, <1>2, QuietAnswer
<1>3. CASE \E r \in GetRequestReads(call[c].id), status \in {"APPROVED", "REJECTED"} :
             /\ r # Undefined
             /\ r.supervisor = call[c].user \/ IsApprover(call[c].user)
             /\ Continue(c, "putRequest", Updated(c, r, status))
  BY <1>1, <1>3, UpdatedHistory
<1>4. QED
  BY <1>2, <1>3 DEF CheckResolve, GoOn

LEMMA CheckCancelHistory ==
  ASSUME TypeOK, HistoryInv, NEW c \in Calls, CheckCancel(c)
  PROVE  HistoryInv'
<1>1. UNCHANGED tables /\ pc[c] = "getRequest"
  BY DEF CheckCancel, At
<1>2. CASE \E status \in {400, 403, 404} : Answer(c, status)
  BY <1>1, <1>2, QuietAnswer
<1>3. CASE \E r \in GetRequestReads(call[c].id) :
             /\ r # Undefined
             /\ r.requester = call[c].user
             /\ Continue(c, "putRequest", Updated(c, r, "CANCELLED"))
  BY <1>1, <1>3, UpdatedHistory
<1>4. QED
  BY <1>2, <1>3 DEF CheckCancel, GoOn

LEMMA SetBalanceHistory ==
  ASSUME TypeOK, HistoryInv, NEW c \in Calls, SetBalance(c)
  PROVE  HistoryInv'
<1>1. UNCHANGED tables /\ pc[c] = "unsent"
  BY DEF SetBalance, Arrives
<1>2. CASE \E status \in {400, 403} : Answer(c, status)
  BY <1>1, <1>2, QuietAnswer
<1>3. CASE \E args : Begin(c, args, "queryUsed")
  BY <1>1, <1>3, QuietBegin DEF Await, CreateAwait
<1>4. QED
  BY <1>2, <1>3 DEF SetBalance

LEMMA CheckUsedHistory ==
  ASSUME TypeOK, HistoryInv, NEW c \in Calls, CheckUsed(c)
  PROVE  HistoryInv'
<1>1. UNCHANGED tables /\ pc[c] = "queryUsed"
  BY DEF CheckUsed, At
<1>2. CASE Answer(c, 400)
  BY <1>1, <1>2, QuietAnswer
<1>3. CASE Continue(c, "putBalance", Undefined)
  BY <1>1, <1>3, QuietContinue DEF Await, CreateAwait
<1>4. QED
  BY <1>2, <1>3 DEF CheckUsed, GoOn

LEMMA FailHistory ==
  ASSUME TypeOK, HistoryInv, NEW c \in Calls, Fail(c)
  PROVE  HistoryInv'
  BY QuietAnswer DEF Fail, InFlight
-------------------------------------------------------------------------------
(* The actions that write.                                                 *)

LEMMA PutRequestHistory ==
  ASSUME TypeOK, HistoryInv, NEW c \in Calls, PutRequest(c)
  PROVE  HistoryInv'
<1> DEFINE r == held[c]
<1>1. /\ pc[c] = "putRequest" /\ pc'[c] = "writeAudit"
      /\ \A d \in Calls : held'[d] = held[d]
      /\ call' = call /\ response' = response
      /\ written' = written \cup {r}
      /\ requests' = [requests EXCEPT ![r.id] = r]
      /\ UNCHANGED <<assigned, audit>>
      /\ r' = r
  BY DEF PutRequest, Continue, TypeOK
<1>2. \A d \in Calls \ {c} : pc'[d] = pc[d]
  BY DEF PutRequest, Continue, TypeOK
<1>3. r \in Request /\ r.id \in Calls /\ r.updatedAt = c
  BY <1>1 DEF TypeOK, FrameOK, HistoryInv, CallOK, Request
<1>4. /\ Entitled(call[c].user, r) /\ WellFormed(r)
      /\ IF r.status = "PENDING" THEN r.id = c
         ELSE \E v \in written : SameRequest(v, r)
      /\ Unanswered(c)
  BY <1>1 DEF HistoryInv, CallOK, Unanswered
<1>5. /\ \A v \in written : v.updatedAt # c /\ v.id # c
  BY <1>1 DEF HistoryInv, VersionOK, HasPut
<1>6. \A d \in Calls : HasPut(d) => HasPut(d)'
  BY <1>1, <1>2 DEF HasPut
<1> HIDE DEF r
<1>7. \A v \in written' : VersionOK(v)'
  <2>1. \A v \in written : VersionOK(v)'
    BY <1>6 DEF HistoryInv, VersionOK, WellFormed, TypeOK, Request
  <2>2. HasPut(r.id)'
    <3>1. CASE r.status = "PENDING"
      BY <3>1, <1>1, <1>4 DEF HasPut
    <3>2. CASE r.status # "PENDING"
      <4>1. PICK v \in written : SameRequest(v, r)
        BY <3>2, <1>4
      <4>2. v.id = r.id /\ HasPut(v.id)
        BY <4>1 DEF HistoryInv, VersionOK, SameRequest
      <4>3. QED
        BY <4>2, <1>1, <1>3, <1>6 DEF HasPut
    <3>3. QED
      BY <3>1, <3>2
  <2>3. VersionOK(r)'
    BY <1>1, <1>3, <1>4, <2>2 DEF VersionOK, WellFormed, HasPut
  <2>4. QED
    BY <1>1, <2>1, <2>3
<1>8. \A id \in Calls : requests'[id] # Undefined =>
        requests'[id] \in written' /\ requests'[id].id = id
  BY <1>1, <1>3 DEF HistoryInv, TypeOK
<1>9. \A d \in Calls : CallOK(d)'
  <2>1. CallOK(c)'
    BY <1>1, <1>3, <1>4, <1>5 DEF CallOK, Unanswered, r, Entitled, WellFormed
  <2>2. ASSUME NEW d \in Calls \ {c} PROVE CallOK(d)'
    BY <1>1, <1>2, <1>3 DEF HistoryInv, CallOK, Entitled, WellFormed, SameRequest
  <2>3. QED
    BY <2>1, <2>2
<1>10. AuditIsTrue'
  BY <1>1 DEF HistoryInv, AuditIsTrue, Entitled
<1>11. StatusIsAccountedFor'
  <2>1. ASSUME NEW v \in written
        PROVE  LET d == v.updatedAt IN
               \/ \E a \in audit : a.id = d /\ a.entityId = v.id
               \/ pc'[d] = "writeAudit"
               \/ response[d] = 500
    <3>1. v.updatedAt \in Calls \ {c}
      BY <1>5 DEF TypeOK, Request
    <3>2. QED
      BY <1>2, <3>1 DEF HistoryInv, StatusIsAccountedFor
  <2>2. pc'[r.updatedAt] = "writeAudit"
    BY <1>1, <1>3
  <2>3. QED
    BY <1>1, <2>1, <2>2 DEF StatusIsAccountedFor
<1>12. AnswersAreHonest'
  BY <1>1, <1>3, <1>4, SentinelAssumption
  DEF HistoryInv, AnswersAreHonest, Unanswered
<1>13. VersionsAgree'
  <2>1. \A v \in written : v.id = r.id => SameRequest(v, r)
    <3>1. CASE r.status = "PENDING"
      BY <3>1, <1>4, <1>5
    <3>2. CASE r.status # "PENDING"
      <4>1. PICK w \in written : SameRequest(w, r)
        BY <3>2, <1>4
      <4>2. QED
        BY <4>1 DEF HistoryInv, VersionsAgree, SameRequest
    <3>3. QED
      BY <3>1, <3>2
  <2>2. QED
    BY <1>1, <2>1 DEF HistoryInv, VersionsAgree, SameRequest
<1>14. QED
  BY <1>7, <1>8, <1>9, <1>10, <1>11, <1>12, <1>13 DEF HistoryInv

LEMMA WriteAuditHistory ==
  ASSUME TypeOK, HistoryInv, NEW c \in Calls, WriteAudit(c)
  PROVE  HistoryInv'
<1> DEFINE e == AuditEntry(c)
<1>1. PICK status \in {200, 500} : Answer(c, status)
  BY DEF WriteAudit
<1>2. /\ pc[c] = "writeAudit" /\ pc'[c] = "answered" /\ response'[c] = status
      /\ audit' = audit \cup {e}
      /\ UNCHANGED <<requests, written, assigned>>
  BY <1>1 DEF WriteAudit, Answer, Respond, TypeOK
<1>3. \A d \in Calls \ {c} :
        /\ pc'[d] = pc[d] /\ call'[d] = call[d] /\ held'[d] = held[d]
        /\ response'[d] = response[d]
  BY <1>1, OthersSame
<1>4. /\ held[c] \in written /\ held[c] \in Request
      /\ held[c].updatedAt = c
      /\ Entitled(call[c].user, held[c])
      /\ \A v \in written : v.updatedAt = c => v = held[c]
      /\ Unanswered(c)
  BY <1>2 DEF TypeOK, HistoryInv, CallOK, Unanswered
<1>5. /\ e.id = c /\ e.entityId = held[c].id /\ e.userId = call[c].user
      /\ e.action = AuditAction[held[c].status]
  BY DEF AuditEntry
<1> HIDE DEF e
<1>6. \A v \in written' : VersionOK(v)'
  BY <1>2, <1>3 DEF HistoryInv, VersionOK, WellFormed, HasPut, TypeOK, Request
<1>7. \A d \in Calls : CallOK(d)'
  <2>1. CallOK(c)'
    BY <1>2 DEF CallOK
  <2>2. ASSUME NEW d \in Calls \ {c} PROVE CallOK(d)'
    BY <1>2, <1>3, <1>5 DEF HistoryInv, CallOK, Entitled, WellFormed, SameRequest
  <2>3. QED
    BY <2>1, <2>2
<1>8. AuditIsTrue'
  <2>1. \A a \in audit : a.id # e.id
    BY <1>4, <1>5 DEF Unanswered
  <2>2. /\ held[c] \in written
        /\ held[c].updatedAt = e.id /\ held[c].id = e.entityId
        /\ AuditAction[held[c].status] = e.action
        /\ Entitled(e.userId, held[c])
    BY <1>4, <1>5
  <2>3. QED
    BY <1>2, <2>1, <2>2 DEF HistoryInv, AuditIsTrue, Entitled
<1>9. StatusIsAccountedFor'
  <2> SUFFICES ASSUME NEW v \in written
               PROVE  LET d == v.updatedAt IN
                      \/ \E a \in audit' : a.id = d /\ a.entityId = v.id
                      \/ pc'[d] = "writeAudit"
                      \/ response'[d] = 500
    BY <1>2 DEF StatusIsAccountedFor
  <2>1. v.updatedAt \in Calls
    BY DEF TypeOK, Request
  <2>2. CASE v.updatedAt = c
    <3>1. v = held[c]
      BY <2>2, <1>4
    <3>2. QED
      BY <1>2, <1>5, <2>2, <3>1
  <2>3. CASE v.updatedAt # c
    BY <1>2, <1>3, <2>1, <2>3 DEF HistoryInv, StatusIsAccountedFor
  <2>4. QED
    BY <2>2, <2>3
<1>10. AnswersAreHonest'
  <2> SUFFICES ASSUME NEW d \in Calls PROVE Honest(d)'
    BY DEF AnswersAreHonest, Honest
  <2>1. CASE d = c
    BY <1>2, <1>4, <1>5, <2>1 DEF Honest
  <2>2. CASE d # c
    <3>1. Honest(d)
      BY HonestAll DEF HistoryInv
    <3>2. QED
      BY <1>2, <1>3, <1>5, <2>2, <3>1 DEF Honest
  <2>3. QED
    BY <2>1, <2>2
<1>11. QED
  BY <1>2, <1>6, <1>7, <1>8, <1>9, <1>10
  DEF HistoryInv, VersionsAgree, SameRequest

LEMMA PutBalanceHistory ==
  ASSUME TypeOK, HistoryInv, NEW c \in Calls, PutBalance(c)
  PROVE  HistoryInv'
<1> DEFINE b == NewBalance(c)
<1>1. PICK status \in {200, 500} : Respond(c, status)
  BY DEF PutBalance
<1>2. /\ pc[c] = "putBalance" /\ pc'[c] = "answered" /\ response'[c] = status
      /\ assigned' = assigned \cup {b} /\ b.updatedAt = c
      /\ UNCHANGED <<requests, written, audit>>
  BY <1>1 DEF PutBalance, At, Answer, Respond, TypeOK, NewBalance
<1>3. \A d \in Calls \ {c} :
        /\ pc'[d] = pc[d] /\ call'[d] = call[d] /\ held'[d] = held[d]
        /\ response'[d] = response[d]
  BY <1>1, OthersSame
<1> HIDE DEF b
<1>4. \A v \in written' : VersionOK(v)'
  BY <1>2, <1>3 DEF HistoryInv, VersionOK, WellFormed, HasPut, TypeOK, Request
<1>5. \A d \in Calls : CallOK(d)'
  <2>1. CallOK(c)'
    BY <1>2 DEF CallOK
  <2>2. ASSUME NEW d \in Calls \ {c} PROVE CallOK(d)'
    BY <1>2, <1>3 DEF HistoryInv, CallOK, Entitled, WellFormed, SameRequest
  <2>3. QED
    BY <2>1, <2>2
<1>6. AuditIsTrue'
  BY <1>2 DEF HistoryInv, AuditIsTrue, Entitled
<1>7. StatusIsAccountedFor'
  <2> SUFFICES ASSUME NEW v \in written
               PROVE  LET d == v.updatedAt IN
                      \/ \E a \in audit : a.id = d /\ a.entityId = v.id
                      \/ pc'[d] = "writeAudit"
                      \/ response'[d] = 500
    BY <1>2 DEF StatusIsAccountedFor
  <2>1. v.updatedAt \in Calls /\ v.updatedAt # c
    BY <1>2 DEF TypeOK, Request, HistoryInv, VersionOK, HasPut
  <2>2. QED
    BY <1>3, <2>1 DEF HistoryInv, StatusIsAccountedFor
<1>8. AnswersAreHonest'
  <2> SUFFICES ASSUME NEW d \in Calls PROVE Honest(d)'
    BY DEF AnswersAreHonest, Honest
  <2>1. CASE d = c
    BY <1>2, <2>1 DEF Honest
  <2>2. CASE d # c
    <3>1. Honest(d)
      BY HonestAll DEF HistoryInv
    <3>2. QED
      BY <1>2, <1>3, <2>2, <3>1 DEF Honest
  <2>3. QED
    BY <2>1, <2>2
<1>9. QED
  BY <1>2, <1>4, <1>5, <1>6, <1>7, <1>8
  DEF HistoryInv, VersionsAgree, SameRequest

LEMMA UnchangedHistory ==
  ASSUME TypeOK, HistoryInv, UNCHANGED <<handlers, tables>>
  PROVE  HistoryInv'
<1>1. \A c \in Calls : CallOK(c)'
  BY DEF HistoryInv, CallOK, Entitled, WellFormed, SameRequest, handlers, tables
<1>2. \A v \in written' : VersionOK(v)'
  BY DEF HistoryInv, VersionOK, WellFormed, HasPut, handlers, tables
<1>3. AuditIsTrue' /\ StatusIsAccountedFor' /\ AnswersAreHonest' /\ VersionsAgree'
  BY DEF HistoryInv, AuditIsTrue, StatusIsAccountedFor, AnswersAreHonest,
         VersionsAgree, SameRequest, Entitled, handlers, tables
<1>4. QED
  BY <1>1, <1>2, <1>3 DEF HistoryInv, handlers, tables

(***************************************************************************)
(* The version that lands again was put before.                            *)
(***************************************************************************)
LEMMA LandsAgainHistory ==
  ASSUME TypeOK, HistoryInv, RequestLandsAgain \/ BalanceLandsAgain
  PROVE  HistoryInv'
<1>1. UNCHANGED <<handlers, written, assigned, audit>>
  BY DEF RequestLandsAgain, BalanceLandsAgain
<1>2. \A c \in Calls : CallOK(c)'
  BY <1>1 DEF HistoryInv, CallOK, Entitled, WellFormed, SameRequest, handlers
<1>3. \A v \in written' : VersionOK(v)'
  BY <1>1 DEF HistoryInv, VersionOK, WellFormed, HasPut, handlers
<1>4. AuditIsTrue' /\ StatusIsAccountedFor' /\ AnswersAreHonest' /\ VersionsAgree'
  BY <1>1 DEF HistoryInv, AuditIsTrue, StatusIsAccountedFor, AnswersAreHonest,
              VersionsAgree, SameRequest, Entitled, handlers
<1>5. \A id \in Calls : requests'[id] # Undefined =>
        requests'[id] \in written /\ requests'[id].id = id
  <2>1. CASE BalanceLandsAgain
    BY <2>1 DEF BalanceLandsAgain, HistoryInv
  <2>2. CASE RequestLandsAgain
    BY <2>2 DEF RequestLandsAgain, HistoryInv, TypeOK
  <2>3. QED
    BY <2>1, <2>2
<1>6. QED
  BY <1>1, <1>2, <1>3, <1>4, <1>5 DEF HistoryInv

-------------------------------------------------------------------------------
(* The theorems.                                                           *)

LEMMA HistoryStep == TypeOK /\ HistoryInv /\ [Next]_vars => HistoryInv'
<1> SUFFICES ASSUME TypeOK, HistoryInv, [Next]_vars PROVE HistoryInv'
  OBVIOUS
<1>1. ASSUME NEW c \in Calls, Arrive(c) PROVE HistoryInv'
  BY <1>1, CreateRequestHistory, ResolveRequestHistory, SetBalanceHistory
  DEF Arrive
<1>2. ASSUME NEW c \in Calls, Step(c) PROVE HistoryInv'
  BY <1>2, ReadBalanceHistory, CheckAvailableHistory, ReadOrgNodeHistory,
     ReadSupervisorNodeHistory, CheckResolveHistory, CheckCancelHistory,
     PutRequestHistory, WriteAuditHistory, CheckUsedHistory, PutBalanceHistory
  DEF Step
<1>3. ASSUME NEW c \in Calls, Fail(c) PROVE HistoryInv'
  BY <1>3, FailHistory
<1>4. CASE TreeChanges
  BY <1>4, UnchangedHistory DEF TreeChanges
<1>5. CASE UNCHANGED vars
  BY <1>5, UnchangedHistory DEF vars
<1>6. CASE RequestLandsAgain \/ BalanceLandsAgain
  BY <1>6, LandsAgainHistory
<1>7. QED
  BY <1>1, <1>2, <1>3, <1>4, <1>5, <1>6 DEF Next, Terminating

(***************************************************************************)
(* The records, the log and the calls they name stay in agreement, however *)
(* the handlers of vacation.service.ts interleave and fail.                *)
(***************************************************************************)
THEOREM HistoryHolds == Spec => []HistoryInv
<1>1. Init => HistoryInv
  BY InitHistory
<1>2. TypeOK /\ HistoryInv /\ [Next]_vars => HistoryInv'
  BY HistoryStep
<1>3. QED
  BY <1>1, <1>2, TypeCorrect, PTL DEF Spec

(***************************************************************************)
(* Every entry of the audit log is true and its actor was entitled.        *)
(***************************************************************************)
THEOREM AuditHolds == Spec => []AuditIsTrue
<1>1. HistoryInv => AuditIsTrue
  BY DEF HistoryInv
<1>2. QED
  BY <1>1, HistoryHolds, PTL

(***************************************************************************)
(* A status without its log entry belongs to a call that is about to write *)
(* it or was answered 500.                                                 *)
(***************************************************************************)
THEOREM StatusHolds == Spec => []StatusIsAccountedFor
<1>1. HistoryInv => StatusIsAccountedFor
  BY DEF HistoryInv
<1>2. QED
  BY <1>1, HistoryHolds, PTL

(***************************************************************************)
(* A 4xx means nothing was written, a 200 that the write and its entry are *)
(* there.                                                                  *)
(***************************************************************************)
THEOREM AnswersHold == Spec => []AnswersAreHonest
<1>1. HistoryInv => AnswersAreHonest
  BY DEF HistoryInv
<1>2. QED
  BY <1>1, HistoryHolds, PTL

(***************************************************************************)
(* No resolution, not even one that overwrites another, alters who asked   *)
(* for which days under which supervisor.                                  *)
(***************************************************************************)
THEOREM VersionsHold == Spec => []VersionsAgree
<1>1. HistoryInv => VersionsAgree
  BY DEF HistoryInv
<1>2. QED
  BY <1>1, HistoryHolds, PTL

(***************************************************************************)
(* calculateDays charges every calendar day of the period, and one more if *)
(* the time of day at its end is later than at its start.                  *)
(***************************************************************************)
LEMMA DaysExact ==
  ASSUME NEW start \in Int, NEW end \in Int, start <= end
  PROVE  CalculateDays(start, end) = DaysTouched(start, end) + ExtraDay(start, end)
<1> DEFINE T == TicksPerDay
           s == start \div T
           e == end \div T
           x == start % T
           y == end % T
           n == (end - start + T - 1) \div T
<1>1. T \in Nat /\ T > 0
  BY TicksAssumption
<1>2. /\ s \in Int /\ x \in 0..T-1 /\ start = T * s + x
      /\ e \in Int /\ y \in 0..T-1 /\ end = T * e + y
      /\ n \in Int /\ T * n <= end - start + T - 1 /\ end - start - 1 < T * n
  BY <1>1
<1>3. ExtraDay(start, end) = IF x < y THEN 1 ELSE 0
  BY DEF ExtraDay, TimeOfDay
<1> HIDE DEF s, e, n, T, x, y
<1>4. n = e - s + (IF x < y THEN 1 ELSE 0)
  <2> DEFINE k == n - (e - s)
  <2>1. /\ k \in Int
        /\ T * k <= y - x + T - 1
        /\ y - x - 1 < T * k
    BY <1>1, <1>2
  <2> HIDE DEF k
  <2>2. k = IF x < y THEN 1 ELSE 0
    BY <1>1, <1>2, <2>1
  <2>3. QED
    BY <1>2, <2>2 DEF k
<1>5. QED
  BY <1>2, <1>3, <1>4 DEF CalculateDays, DaysTouched, CalendarDay, Distance, n, s, e, T

THEOREM ChargedDaysHold == Spec => []ChargedDaysExact
<1>1. TypeOK /\ HistoryInv => ChargedDaysExact
  BY DaysExact
  DEF TypeOK, HistoryInv, VersionOK, WellFormed, ChargedDaysExact, Request
<1>2. QED
  BY <1>1, TypeCorrect, HistoryHolds, PTL
===============================================================================
