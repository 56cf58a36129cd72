------------------------------- MODULE Vacation -------------------------------
(***************************************************************************)
(* The vacation module of the BFF: VacationService over its repositories   *)
(* and DynamoDB.                                                           *)
(*                                                                         *)
(* Every POST /vacation is a call.  Node runs the calls' handlers          *)
(* interleaved at their awaits, and the service keeps nothing between      *)
(* calls, so a call is a little process: pc names the await it is at, held *)
(* is the value it carries across that await, and the tables are all that  *)
(* calls share.  A call also stands for the randomUUID() and the timestamp *)
(* it draws: the request a call creates has that call as its id, and a     *)
(* record written by a call names it in updatedAt.                         *)
(***************************************************************************)
EXTENDS VacationDays

CONSTANTS
  Calls,          \* the POST /vacation calls, one per handler invocation
  User,           \* identities (Cognito usernames)
  Admins,         \* users whose session carries the group Admins
  Managers,       \* users whose session carries the group Managers
  Periods,        \* [start, end] pairs a client sends, instants in ticks
  Totals,         \* totals an administrator sends
  NodeId,         \* ids of organization nodes
  ROOT,           \* supervisorId of a node at the top of the tree
  Trees,          \* contents the table of organization nodes can have
  NoSupervisor,   \* the supervisorId '' of a request without supervisor
  Before,         \* whoever wrote the balances that exist initially
  Undefined,      \* an item that is not there, a variable without value
  MaxInFlight,    \* how many handlers may be running at once
  EventualReads,  \* whether reads may return older versions of an item
  PageSize        \* how many items fit in the one page a query returns

Node == [id : NodeId, userId : User, supervisorId : NodeId \cup {ROOT}]

Status == {"PENDING", "APPROVED", "REJECTED", "CANCELLED"}

Request ==
  [id : Calls, requester : User, supervisor : User \cup {NoSupervisor},
   start : Int, end : Int, totalDays : Nat,
   status : Status, updatedAt : Calls]

Balance == [userId : User, totalDays : Nat, updatedAt : Calls \cup {Before}]

ASSUME ConfigAssumption ==
  /\ IsFiniteSet(Calls)
  /\ Admins \subseteq User /\ Managers \subseteq User
  /\ Periods \subseteq [start : Int, end : Int]
  /\ Totals \subseteq Int
  /\ Trees \subseteq [NodeId -> Node \cup {Undefined}]
  /\ MaxInFlight \in Nat /\ PageSize \in Nat
  /\ EventualReads \in BOOLEAN

ASSUME SentinelAssumption ==
  /\ Undefined \notin Request \cup Balance \cup Node \cup Int
  /\ ROOT \notin NodeId
  /\ NoSupervisor \notin User
  /\ Before \notin Calls

VARIABLES
  pc,         \* pc[c]: the await call c is at
  call,       \* call[c]: what the client of call c asked, while it runs
  held,       \* held[c]: the value call c carries to its next step
  response,   \* response[c]: the HTTP status call c was answered with
  requests,   \* table wfn-vacation-requests, by id
  written,    \* every version of a request ever put
  balances,   \* table wfn-vacation-balances, by user
  assigned,   \* every version of a balance ever put
  audit,      \* table wfn-audit-logs
  orgNodes    \* table wfn-org-nodes, which this module only reads

(***************************************************************************)
(* No handler reads this one; it is for the properties.  A call is         *)
(* outdated when it is about to act on what the tables do not hold: a read *)
(* returned an older version or a short page, or what it read has been     *)
(* replaced since.                                                         *)
(***************************************************************************)
VARIABLE outdated

handlers == <<pc, call, held, response>>
tables == <<requests, written, balances, assigned, audit>>
vars == <<handlers, tables, orgNodes, outdated>>

-------------------------------------------------------------------------------
(* Handlers.                                                               *)

InFlight == {c \in Calls : pc[c] \notin {"unsent", "answered"}}

\* Mutant: every session passes for an administrator's.
AnyoneIsAdmin(user) == user \in User

IsAdmin(user) == user \in Admins

IsApprover(user) == user \in Admins \cup Managers

Begin(c, args, await) ==
  /\ pc' = [pc EXCEPT ![c] = await]
  /\ call' = [call EXCEPT ![c] = args]
  /\ UNCHANGED <<held, response, outdated>>

Continue(c, await, value) ==
  /\ pc' = [pc EXCEPT ![c] = await]
  /\ held' = [held EXCEPT ![c] = value]
  /\ UNCHANGED <<call, response>>

Respond(c, status) ==
  /\ pc' = [pc EXCEPT ![c] = "answered"]
  /\ call' = [call EXCEPT ![c] = Undefined]
  /\ held' = [held EXCEPT ![c] = Undefined]
  /\ response' = [response EXCEPT ![c] = status]

Answer(c, status) ==
  /\ Respond(c, status)
  /\ outdated' = outdated \ {c}

(***************************************************************************)
(* A handler goes on with what it read, which the tables hold or not.      *)
(***************************************************************************)
GoOn(c, await, value, current) ==
  /\ Continue(c, await, value)
  /\ outdated' = IF current THEN outdated ELSE outdated \cup {c}

(***************************************************************************)
(* A call arrives.                                                         *)
(***************************************************************************)
Arrives(c) == pc[c] = "unsent" /\ Cardinality(InFlight) < MaxInFlight

At(c, ops, await) == pc[c] = await /\ call[c].op \in ops

-------------------------------------------------------------------------------
(* DynamoDB.                                                               *)

(***************************************************************************)
(* GetItem without ConsistentRead: any version of the item, or none yet.   *)
(***************************************************************************)
GetRequestReads(id) ==
  IF EventualReads
  THEN {v \in written : v.id = id} \cup {Undefined}
  ELSE {requests[id]}

GetBalanceReads(user) ==
  IF EventualReads
  THEN {b \in assigned : b.userId = user} \cup {Undefined}
  ELSE {balances[user]}

(***************************************************************************)
(* What the index byRequester holds of a user's requests: the table's      *)
(* items, or an older version of each of some of them.                     *)
(***************************************************************************)
RequestsOf(user) ==
  {requests[i] : i \in {j \in Calls : requests[j] # Undefined
                                      /\ requests[j].requester = user}}

IndexContents(user) ==
  IF EventualReads
  THEN {rs \in SUBSET {v \in written : v.requester = user} :
          \A v, w \in rs : v.id = w.id => v = w}
  ELSE {RequestsOf(user)}

(***************************************************************************)
(* query sends one QueryCommand and never follows LastEvaluatedKey: what   *)
(* does not fit in the first page is not seen.                             *)
(***************************************************************************)
FirstPages(rs) ==
  IF Cardinality(rs) <= PageSize
  THEN {rs}
  ELSE {page \in SUBSET rs : Cardinality(page) = PageSize}

QueryReads(user) == UNION {FirstPages(rs) : rs \in IndexContents(user)}

-------------------------------------------------------------------------------
(* createRequest.                                                          *)

(***************************************************************************)
(* The checks before the first await: a request is made in one's own name  *)
(* and does not end before it starts.                                      *)
(***************************************************************************)
CreateRequest(c) ==
  /\ Arrives(c)
  /\ \E user, requester \in User, p \in Periods :
       \/ /\ requester # user
          /\ Answer(c, 403)
       \/ /\ requester = user
          /\ p.end < p.start
          /\ Answer(c, 400)
       \/ /\ requester = user
          /\ p.start <= p.end
          /\ Begin(c, [op |-> "createRequest", user |-> user,
                       start |-> p.start, end |-> p.end], "getBalance")
  /\ UNCHANGED <<tables, orgNodes>>

(***************************************************************************)
(* computeBalance, first half: without an assigned balance, 400.           *)
(***************************************************************************)
ReadBalance(c) ==
  /\ At(c, {"createRequest"}, "getBalance")
  /\ \E b \in GetBalanceReads(call[c].user) :
       \/ b = Undefined /\ Answer(c, 400)
       \/ /\ b # Undefined
          /\ GoOn(c, "queryRequests", b, b = balances[call[c].user])
  /\ UNCHANGED <<tables, orgNodes>>

(***************************************************************************)
(* computeBalance, second half, and the comparison with what is available. *)
(***************************************************************************)
CheckAvailable(c) ==
  /\ At(c, {"createRequest"}, "queryRequests")
  /\ \E rs \in QueryReads(call[c].user) :
       LET days == CalculateDays(call[c].start, call[c].end)
           available == Available(held[c].totalDays, rs)
       IN \/ available < days /\ Answer(c, 400)
          \/ /\ available >= days
             /\ GoOn(c, "getOrgNode", Undefined, rs = RequestsOf(call[c].user))
  /\ UNCHANGED <<tables, orgNodes>>

NewRequest(c, supervisor) ==
  [id |-> c, requester |-> call[c].user, supervisor |-> supervisor,
   start |-> call[c].start, end |-> call[c].end,
   totalDays |-> CalculateDays(call[c].start, call[c].end),
   status |-> "PENDING", updatedAt |-> c]

NodesOf(user) ==
  {orgNodes[n] : n \in {m \in NodeId : orgNodes[m] # Undefined
                                       /\ orgNodes[m].userId = user}}

(***************************************************************************)
(* getOrgNodeByUserId takes the first of the user's nodes, if any.         *)
(***************************************************************************)
ReadOrgNode(c) ==
  /\ At(c, {"createRequest"}, "getOrgNode")
  /\ LET above == {n \in NodesOf(call[c].user) : n.supervisorId # ROOT} IN
     \/ /\ above = {} \/ above # NodesOf(call[c].user)
        /\ GoOn(c, "putRequest", NewRequest(c, NoSupervisor), TRUE)
     \/ \E n \in above : GoOn(c, "getSupervisorNode", n.supervisorId, TRUE)
  /\ UNCHANGED <<tables, orgNodes>>

\* Mutant: a missing supervisor node is waited for.
AwaitSupervisorNode(c) ==
  /\ At(c, {"createRequest"}, "getSupervisorNode")
  /\ orgNodes[held[c]] # Undefined
  /\ GoOn(c, "putRequest", NewRequest(c, orgNodes[held[c]].userId), TRUE)
  /\ UNCHANGED <<tables, orgNodes>>

ReadSupervisorNode(c) ==
  /\ At(c, {"createRequest"}, "getSupervisorNode")
  /\ LET supervisorNode == orgNodes[held[c]] IN
     GoOn(c, "putRequest",
          NewRequest(c, IF supervisorNode = Undefined THEN NoSupervisor
                        ELSE supervisorNode.userId), TRUE)
  /\ UNCHANGED <<tables, orgNodes>>

-------------------------------------------------------------------------------
(* approveRequest, rejectRequest, cancelRequest.                           *)

ResolveOps == {"approveRequest", "rejectRequest"}

ResolveRequest(c) ==
  /\ Arrives(c)
  /\ \E user \in User, id \in Calls, op \in ResolveOps \cup {"cancelRequest"} :
       Begin(c, [op |-> op, user |-> user, id |-> id], "getRequest")
  /\ UNCHANGED <<tables, orgNodes>>

\* Mutants: the resolver is recorded as the supervisor; the status is forgotten.
UpdatedByResolver(c, r, status) ==
  [r EXCEPT !.status = status, !.updatedAt = c, !.supervisor = call[c].user]
UpdatedStamp(c, r, status) == [r EXCEPT !.updatedAt = c]

(***************************************************************************)
(* {...request, status, updatedAt}: everything else as it was read.        *)
(***************************************************************************)
Updated(c, r, status) == [r EXCEPT !.status = status, !.updatedAt = c]

(***************************************************************************)
(* resolveRequest after its read: 404, then 403, then 400, else the put.   *)
(***************************************************************************)
CheckResolve(c) ==
  /\ At(c, ResolveOps, "getRequest")
  /\ \E r \in GetRequestReads(call[c].id) :
       \/ r = Undefined /\ Answer(c, 404)
       \/ /\ r # Undefined
          /\ LET mayResolve == \/ r.supervisor = call[c].user
                               \/ IsApprover(call[c].user)
                 status == IF call[c].op = "approveRequest"
                           THEN "APPROVED" ELSE "REJECTED"
             IN \/ ~mayResolve /\ Answer(c, 403)
                \/ mayResolve /\ r.status # "PENDING" /\ Answer(c, 400)
                \/ /\ mayResolve /\ r.status = "PENDING"
                   /\ GoOn(c, "putRequest", Updated(c, r, status),
                           r = requests[call[c].id])
  /\ UNCHANGED <<tables, orgNodes>>

\* Mutant: cancelRequest without its look at the status.
CancelWhatever(c) ==
  /\ At(c, {"cancelRequest"}, "getRequest")
  /\ \E r \in GetRequestReads(call[c].id) :
       \/ r = Undefined /\ Answer(c, 404)
       \/ /\ r # Undefined
          /\ \/ r.requester # call[c].user /\ Answer(c, 403)
             \/ /\ r.requester = call[c].user
                /\ GoOn(c, "putRequest", Updated(c, r, "CANCELLED"),
                        r = requests[call[c].id])
  /\ UNCHANGED <<tables, orgNodes>>

(***************************************************************************)
(* cancelRequest after its read.                                           *)
(***************************************************************************)
CheckCancel(c) ==
  /\ At(c, {"cancelRequest"}, "getRequest")
  /\ \E r \in GetRequestReads(call[c].id) :
       \/ r = Undefined /\ Answer(c, 404)
       \/ /\ r # Undefined
          /\ \/ r.requester # call[c].user /\ Answer(c, 403)
             \/ /\ r.requester = call[c].user
                /\ r.status # "PENDING"
                /\ Answer(c, 400)
             \/ /\ r.requester = call[c].user
                /\ r.status = "PENDING"
                /\ GoOn(c, "putRequest", Updated(c, r, "CANCELLED"),
                        r = requests[call[c].id])
  /\ UNCHANGED <<tables, orgNodes>>

-------------------------------------------------------------------------------
(* The writes of a request and of its entry in the audit log.              *)

Books(c) ==
  \/ pc[c] \in {"getOrgNode", "getSupervisorNode"}
  \/ pc[c] = "putRequest" /\ held[c].status = "PENDING"

Requester(c) ==
  IF pc[c] = "putRequest" THEN held[c].requester ELSE call[c].user

(***************************************************************************)
(* What call c has read and is about to act on: the balance of a user, the *)
(* requests of a user, the item of a request.                              *)
(***************************************************************************)
UsesBalance(c, user) ==
  (pc[c] = "queryRequests" \/ Books(c)) /\ Requester(c) = user

UsesRows(c, user) ==
  \/ Books(c) /\ Requester(c) = user
  \/ pc[c] = "putBalance" /\ call[c].target = user

UsesItem(c, id) ==
  pc[c] = "putRequest" /\ held[c].status # "PENDING" /\ held[c].id = id

UsesRequest(c, r) == UsesRows(c, r.requester) \/ UsesItem(c, r.id)

(***************************************************************************)
(* PutItem: creates or replaces, whatever the table holds by now.          *)
(***************************************************************************)
PutRequest(c) ==
  /\ pc[c] = "putRequest"
  /\ requests' = [requests EXCEPT ![held[c].id] = held[c]]
  /\ written' = written \cup {held[c]}
  /\ Continue(c, "writeAudit", held[c])
  /\ outdated' = (outdated \cup {d \in Calls : UsesRequest(d, held[c])}) \ {c}
  /\ UNCHANGED <<balances, assigned, audit, orgNodes>>

(***************************************************************************)
(* The SDK sends a put again when it has seen no answer to it, and both    *)
(* copies may land, the second one however late.                           *)
(***************************************************************************)
RequestLandsAgain ==
  /\ \E r \in written :
       /\ requests[r.id] # r
       /\ requests' = [requests EXCEPT ![r.id] = r]
       /\ outdated' = outdated \cup {d \in Calls : UsesRequest(d, r)}
  /\ UNCHANGED <<handlers, written, balances, assigned, audit, orgNodes>>

AuditAction ==
  [PENDING |-> "REQUEST_CREATED", APPROVED |-> "REQUEST_APPROVED",
   REJECTED |-> "REQUEST_REJECTED", CANCELLED |-> "REQUEST_CANCELLED"]

\* Mutant: the entry names a fresh id instead of the request's.
AuditEntryOfCall(c) ==
  [id |-> c, action |-> AuditAction[held[c].status],
   entityId |-> c, userId |-> call[c].user]

AuditEntry(c) ==
  [id |-> c, action |-> AuditAction[held[c].status],
   entityId |-> held[c].id, userId |-> call[c].user]

\* Mutant: answered without an entry.
AuditSkipped(c) ==
  /\ pc[c] = "writeAudit"
  /\ \E status \in {200, 500} : Answer(c, status)
  /\ UNCHANGED <<tables, orgNodes>>

(***************************************************************************)
(* The last await of the three operations.  The write may take effect and  *)
(* the call fail all the same.                                             *)
(***************************************************************************)
WriteAudit(c) ==
  /\ pc[c] = "writeAudit"
  /\ audit' = audit \cup {AuditEntry(c)}
  /\ \E status \in {200, 500} : Answer(c, status)
  /\ UNCHANGED <<requests, written, balances, assigned, orgNodes>>

-------------------------------------------------------------------------------
(* setBalance.                                                             *)

SetBalance(c) ==
  /\ Arrives(c)
  /\ \E user, target \in User, total \in Totals :
       \/ /\ ~IsAdmin(user)
          /\ Answer(c, 403)
       \/ /\ IsAdmin(user)
          /\ total < 0
          /\ Answer(c, 400)
       \/ /\ IsAdmin(user)
          /\ total >= 0
          /\ Begin(c, [op |-> "setBalance", user |-> user,
                       target |-> target, totalDays |-> total], "queryUsed")
  /\ UNCHANGED <<tables, orgNodes>>

\* Mutant: any total is accepted.
AssignUnchecked(c) ==
  /\ At(c, {"setBalance"}, "queryUsed")
  /\ GoOn(c, "putBalance", Undefined, TRUE)
  /\ UNCHANGED <<tables, orgNodes>>

(***************************************************************************)
(* Approved days, and only those, must fit in the new total.               *)
(***************************************************************************)
CheckUsed(c) ==
  /\ At(c, {"setBalance"}, "queryUsed")
  /\ \E rs \in QueryReads(call[c].target) :
       LET used == SumDays(rs, "APPROVED") IN
       \/ call[c].totalDays < used /\ Answer(c, 400)
       \/ /\ call[c].totalDays >= used
          /\ GoOn(c, "putBalance", Undefined, rs = RequestsOf(call[c].target))
  /\ UNCHANGED <<tables, orgNodes>>

NewBalance(c) ==
  [userId |-> call[c].target, totalDays |-> call[c].totalDays, updatedAt |-> c]

PutBalance(c) ==
  /\ At(c, {"setBalance"}, "putBalance")
  /\ balances' = [balances EXCEPT ![call[c].target] = NewBalance(c)]
  /\ assigned' = assigned \cup {NewBalance(c)}
  /\ \E status \in {200, 500} : Respond(c, status)
  /\ outdated' =
       (outdated \cup {d \in Calls : UsesBalance(d, call[c].target)}) \ {c}
  /\ UNCHANGED <<requests, written, audit, orgNodes>>

BalanceLandsAgain ==
  /\ \E b \in assigned :
       /\ balances[b.userId] # b
       /\ balances' = [balances EXCEPT ![b.userId] = b]
       /\ outdated' = outdated \cup {d \in Calls : UsesBalance(d, b.userId)}
  /\ UNCHANGED <<handlers, requests, written, assigned, audit, orgNodes>>

-------------------------------------------------------------------------------
(* Failures, the rest of the system, the specification.                    *)

\* Mutant: a failed AWS call is reported as a bad request.
FailAsBadRequest(c) ==
  /\ c \in InFlight
  /\ Answer(c, 400)
  /\ UNCHANGED <<tables, orgNodes>>

(***************************************************************************)
(* Any AWS call may reject, and the process may die, before the step takes *)
(* effect: the call is answered 500 and what it already wrote stays.       *)
(***************************************************************************)
Fail(c) ==
  /\ c \in InFlight
  /\ Answer(c, 500)
  /\ UNCHANGED <<tables, orgNodes>>

(***************************************************************************)
(* The organization module rewrites the tree whenever it likes.            *)
(***************************************************************************)
TreeChanges ==
  /\ orgNodes' \in Trees \ {orgNodes}
  /\ UNCHANGED <<handlers, tables, outdated>>

Terminating ==
  /\ \A c \in Calls : pc[c] = "answered"
  /\ UNCHANGED vars

Init ==
  /\ pc = [c \in Calls |-> "unsent"]
  /\ call = [c \in Calls |-> Undefined]
  /\ held = [c \in Calls |-> Undefined]
  /\ response = [c \in Calls |-> Undefined]
  /\ requests = [c \in Calls |-> Undefined]
  /\ written = {}
  /\ balances \in [User -> [userId : User, totalDays : Totals \cap Nat,
                            updatedAt : {Before}] \cup {Undefined}]
  /\ \A u \in User : balances[u] # Undefined => balances[u].userId = u
  /\ assigned = {balances[u] : u \in User} \ {Undefined}
  /\ audit = {}
  /\ orgNodes \in Trees
  /\ outdated = {}

Arrive(c) == CreateRequest(c) \/ ResolveRequest(c) \/ SetBalance(c)

Step(c) ==
  \/ ReadBalance(c) \/ CheckAvailable(c) \/ ReadOrgNode(c)
  \/ ReadSupervisorNode(c)
  \/ CheckResolve(c) \/ CheckCancel(c)
  \/ PutRequest(c) \/ WriteAudit(c)
  \/ CheckUsed(c) \/ PutBalance(c)

Next ==
  \/ \E c \in Calls : Arrive(c) \/ Step(c) \/ Fail(c)
  \/ RequestLandsAgain
  \/ BalanceLandsAgain
  \/ TreeChanges
  \/ Terminating

Spec == Init /\ [][Next]_vars

(***************************************************************************)
(* The event loop runs every handler whose await has settled; that calls   *)
(* arrive, fail or find the tree changed is nobody's duty.                 *)
(***************************************************************************)
FairSpec == Spec /\ \A c \in Calls : WF_vars(Step(c))

-------------------------------------------------------------------------------
(* Type correctness.                                                       *)

Await ==
  {"getBalance", "queryRequests", "getOrgNode", "getSupervisorNode",
   "getRequest", "putRequest", "writeAudit", "queryUsed", "putBalance"}

CreateArgs ==
  [op : {"createRequest"}, user : User, start : Int, end : Int]
ResolveArgs ==
  [op : ResolveOps \cup {"cancelRequest"}, user : User, id : Calls]
AssignArgs ==
  [op : {"setBalance"}, user : Admins, target : User, totalDays : Nat]

(***************************************************************************)
(* The arguments and the carried value a call has at each await.           *)
(***************************************************************************)
FrameOK(c) ==
  /\ pc[c] \in {"unsent", "answered"} => call[c] = Undefined
  /\ pc[c] \in {"getBalance", "queryRequests", "getOrgNode",
                "getSupervisorNode"} => call[c] \in CreateArgs
  /\ pc[c] = "getRequest" => call[c] \in ResolveArgs
  /\ pc[c] \in {"putRequest", "writeAudit"} =>
       call[c] \in CreateArgs \cup ResolveArgs /\ held[c] \in Request
  /\ pc[c] \in {"queryUsed", "putBalance"} => call[c] \in AssignArgs
  /\ pc[c] = "queryRequests" => held[c] \in Balance
  /\ pc[c] = "getSupervisorNode" => held[c] \in NodeId

AuditLog ==
  [id : Calls, action : {AuditAction[s] : s \in Status},
   entityId : Calls, userId : User]

TypeOK ==
  /\ pc \in [Calls -> Await \cup {"unsent", "answered"}]
  /\ DOMAIN call = Calls /\ DOMAIN held = Calls
  /\ \A c \in Calls : FrameOK(c)
  /\ response \in [Calls -> {200, 400, 403, 404, 500, Undefined}]
  /\ requests \in [Calls -> Request \cup {Undefined}]
  /\ written \subseteq Request
  /\ balances \in [User -> Balance \cup {Undefined}]
  /\ assigned \subseteq Balance
  /\ audit \subseteq AuditLog
  /\ orgNodes \in [NodeId -> Node \cup {Undefined}]
  /\ outdated \subseteq Calls
-------------------------------------------------------------------------------
(* What the handlers promise, and who alone breaks it.                     *)

Ledger == INSTANCE LeaveLedger WITH Ids <- Calls

(***************************************************************************)
(* The steps for which the ledger answers for nothing: a call acts on what *)
(* is not so any more, or a put lands again.                               *)
(***************************************************************************)
Disorderly ==
  \/ \E c \in outdated : PutRequest(c) \/ PutBalance(c)
  \/ RequestLandsAgain
  \/ BalanceLandsAgain

(***************************************************************************)
(* Every other step of the handlers is an atomic operation of the ledger   *)
(* or none at all, however many calls are in between their reads and their *)
(* puts and whatever failed before.                                        *)
(***************************************************************************)
ImplementsLedger ==
  Ledger!Init /\ [][Ledger!Next \/ Disorderly]_<<requests, balances>>

CreatesRequest(c) == requests[c] = Undefined /\ requests'[c] # Undefined

Fits(user, days) ==
  /\ balances[user] # Undefined
  /\ days <= Available(balances[user].totalDays, RequestsOf(user))

(***************************************************************************)
(* A request enters the table only when its user has a balance with enough *)
(* available days: the comment above createRequest's check.                *)
(***************************************************************************)
CreateFitsBalance ==
  [][\A c \in Calls : CreatesRequest(c) =>
       Fits(requests'[c].requester, requests'[c].totalDays)]_vars

(***************************************************************************)
(* No call replaces a request that is no longer PENDING: the check of      *)
(* resolveRequest and the message it answers with.                         *)
(***************************************************************************)
ResolutionIsFinal ==
  [][\A c \in Calls :
       PutRequest(c) /\ requests[held[c].id] # Undefined
         => requests[held[c].id].status = "PENDING"]_vars

(***************************************************************************)
(* A request never disappears.  Back to PENDING it goes only by a put that *)
(* lands again, and once resolved it changes only by such a put or by one  *)
(* of a call that is outdated.                                             *)
(***************************************************************************)
OutcomesLostOnlyLate ==
  [][\A id \in Calls :
       requests[id] # Undefined /\ requests'[id] # requests[id] =>
         /\ requests'[id] # Undefined
         /\ requests'[id].status = "PENDING" => requests'[id] \in written
         /\ requests[id].status # "PENDING" =>
              \/ requests'[id] \in written
              \/ requests'[id].updatedAt \in outdated]_vars

Overdrawn(user) ==
  /\ balances[user] # Undefined
  /\ Available(balances[user].totalDays, RequestsOf(user)) < 0

(***************************************************************************)
(* A user's available days go below zero by an administrator's new total,  *)
(* for setBalance looks at approved days and not at pending ones, and      *)
(* otherwise by a disorderly step alone.                                   *)
(***************************************************************************)
OverdrawnOnlyByAssignment ==
  [][\A user \in User :
       ~Overdrawn(user) /\ Overdrawn(user)'
         => balances'[user] # balances[user] \/ Disorderly]_vars

(***************************************************************************)
(* What a handler knows at each await unless it is outdated: what it read  *)
(* and checked is still so when it writes.                                 *)
(***************************************************************************)
StillTrue(c) ==
  /\ pc[c] = "queryRequests" =>
       /\ balances[call[c].user] # Undefined
       /\ balances[call[c].user].totalDays = held[c].totalDays
  /\ pc[c] \in {"getOrgNode", "getSupervisorNode"} =>
       Fits(call[c].user, CalculateDays(call[c].start, call[c].end))
  /\ pc[c] = "putRequest" /\ held[c].status = "PENDING" =>
       Fits(held[c].requester, held[c].totalDays)
  /\ pc[c] = "putRequest" /\ held[c].status # "PENDING" =>
       /\ requests[held[c].id] # Undefined
       /\ requests[held[c].id].status = "PENDING"
       /\ held[c] = Updated(c, requests[held[c].id], held[c].status)
  /\ pc[c] = "putBalance" =>
       SumDays(RequestsOf(call[c].target), "APPROVED") <= call[c].totalDays

(***************************************************************************)
(* A call that is not outdated may trust its checks: no other await of its *)
(* own and no step of another call, short of those that outdate it, makes  *)
(* them false.                                                             *)
(***************************************************************************)
ReadsStillHold == \A c \in Calls \ outdated : StillTrue(c)

-------------------------------------------------------------------------------
(* What holds whoever is outdated.                                         *)

(***************************************************************************)
(* Who may have brought a request to the status of version v.              *)
(***************************************************************************)
Entitled(user, v) ==
  IF v.status \in {"PENDING", "CANCELLED"}
  THEN v.requester = user
  ELSE v.supervisor = user \/ IsApprover(user)

(***************************************************************************)
(* Every entry of the audit log tells of a version that was really put, by *)
(* the call that wrote the entry, for a user entitled to it; and a call    *)
(* has one entry.                                                          *)
(***************************************************************************)
AuditIsTrue ==
  \A a \in audit :
    /\ \E v \in written : /\ v.updatedAt = a.id
                          /\ v.id = a.entityId
                          /\ AuditAction[v.status] = a.action
                          /\ Entitled(a.userId, v)
    /\ \A b \in audit : b.id = a.id => b = a

(***************************************************************************)
(* Every state a request is or was ever in is accounted for: the call that *)
(* put it has logged it, is about to, or was answered 500.                 *)
(***************************************************************************)
StatusIsAccountedFor ==
  \A v \in written :
    LET c == v.updatedAt IN
    \/ \E a \in audit : a.id = c /\ a.entityId = v.id
    \/ pc[c] = "writeAudit"
    \/ response[c] = 500

(***************************************************************************)
(* What the client may conclude from the answer: a 4xx means the call      *)
(* wrote nothing anywhere, a 200 that its write and its log entry exist.   *)
(***************************************************************************)
AnswersAreHonest ==
  \A c \in Calls :
    /\ response[c] \in {400, 403, 404} =>
         /\ \A v \in written \cup assigned : v.updatedAt # c
         /\ \A a \in audit : a.id # c
    /\ response[c] = 200 =>
         \/ \E v \in written, a \in audit : v.updatedAt = c /\ a.id = c
         \/ \E b \in assigned : b.updatedAt = c

SameRequest(v, w) ==
  \A field \in {"id", "requester", "supervisor", "start", "end", "totalDays"} :
    v[field] = w[field]

(***************************************************************************)
(* All versions of a request agree on who asks, on the supervisor recorded *)
(* at creation and on the days, although every resolution writes the whole *)
(* item back from what it read.                                            *)
(***************************************************************************)
VersionsAgree == \A v, w \in written : v.id = w.id => SameRequest(v, w)

(***************************************************************************)
(* A request is charged the calendar days it touches, and one day more     *)
(* when it ends at a later time of day than it starts: Math.ceil counts    *)
(* the part of a day left over.                                            *)
(***************************************************************************)
ExtraDay(start, end) == IF TimeOfDay(start) < TimeOfDay(end) THEN 1 ELSE 0

ChargedDaysExact ==
  \A v \in written :
    v.totalDays = DaysTouched(v.start, v.end) + ExtraDay(v.start, v.end)

(***************************************************************************)
(* What the comment above calculateDays says: inclusive days between two   *)
(* dates.                                                                  *)
(***************************************************************************)
ChargedDaysInclusive ==
  \A v \in written : v.totalDays = DaysTouched(v.start, v.end)

(***************************************************************************)
(* The inductive invariant behind these properties: what a record owes to  *)
(* the calls it names, while they run and ever after.                      *)
(***************************************************************************)
HasPut(c) == pc[c] \in {"writeAudit", "answered"}

WellFormed(r) ==
  r.start <= r.end /\ r.totalDays = CalculateDays(r.start, r.end)

VersionOK(v) ==
  /\ WellFormed(v)
  /\ HasPut(v.id) /\ HasPut(v.updatedAt)
  /\ v.status = "PENDING" => v.updatedAt = v.id

CallOK(c) ==
  /\ pc[c] \in {"getBalance", "queryRequests", "getOrgNode",
                "getSupervisorNode"} => call[c].start <= call[c].end
  /\ pc[c] \in {"putRequest", "writeAudit"} =>
       /\ held[c].updatedAt = c
       /\ Entitled(call[c].user, held[c])
       /\ WellFormed(held[c])
  /\ pc[c] = "putRequest" =>
       IF held[c].status = "PENDING" THEN held[c].id = c
       ELSE \E v \in written : SameRequest(v, held[c])
  /\ pc[c] = "writeAudit" =>
       /\ held[c] \in written
       /\ \A v \in written : v.updatedAt = c => v = held[c]
  /\ pc[c] # "answered" =>
       /\ response[c] = Undefined
       /\ \A b \in assigned : b.updatedAt # c
       /\ \A a \in audit : a.id # c

HistoryInv ==
  /\ \A v \in written : VersionOK(v)
  /\ \A id \in Calls : requests[id] # Undefined =>
       requests[id] \in written /\ requests[id].id = id
  /\ \A c \in Calls : CallOK(c)
  /\ AuditIsTrue
  /\ StatusIsAccountedFor
  /\ AnswersAreHonest
  /\ VersionsAgree

(***************************************************************************)
(* Every call that arrives is answered.                                    *)
(***************************************************************************)
EveryCallIsAnswered ==
  \A c \in Calls : c \in InFlight ~> pc[c] = "answered"
===============================================================================
