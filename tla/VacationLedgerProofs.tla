------------------------- MODULE VacationLedgerProofs -------------------------
(***************************************************************************)
(* The handlers implement LeaveLedger, however their awaits interleave,    *)
(* except where an outdated call writes or a put lands again: those steps  *)
(* are named, and every promise is proved of all the others.               *)
(***************************************************************************)
EXTENDS VacationProofs

-------------------------------------------------------------------------------
(* What the reads return, and the sums over it.                            *)

LEMMA RequestsOfFinite ==
  ASSUME TypeOK, NEW user
  PROVE  /\ RequestsOf(user) \subseteq Request
         /\ IsFiniteSet(RequestsOf(user))
         /\ Cardinality(RequestsOf(user)) \in Nat
         /\ Cardinality(RequestsOf(user)) <= Cardinality(Calls)
<1> DEFINE D == {j \in Calls : requests[j] # Undefined
                               /\ requests[j].requester = user}
           f == [i \in D |-> requests[i]]
<1>1. RequestsOf(user) \subseteq Request
  BY DEF RequestsOf, TypeOK
<1>2. IsFiniteSet(D) /\ Cardinality(D) <= Cardinality(Calls)
  BY ConfigAssumption, FS_Subset
<1>3. f \in Surjection(D, RequestsOf(user))
  BY DEF RequestsOf, Surjection
<1>4. /\ IsFiniteSet(RequestsOf(user))
      /\ Cardinality(RequestsOf(user)) <= Cardinality(D)
  BY <1>2, <1>3, FS_Surjection
<1>5. QED
  BY <1>1, <1>2, <1>4, FS_CardinalityType, ConfigAssumption

LEMMA DayPairsFinite ==
  ASSUME NEW rs \in SUBSET Request, IsFiniteSet(rs)
  PROVE  IsFiniteSet(DayPairs(rs))
<1> DEFINE F(r) == {r.id} \X (1..r.totalDays)
           T == {F(r) : r \in rs}
           f == [r \in rs |-> F(r)]
<1>1. f \in Surjection(rs, T)
  BY DEF Surjection
<1>2. IsFiniteSet(T)
  BY <1>1, FS_Surjection
<1>3. ASSUME NEW r \in rs PROVE IsFiniteSet(F(r))
  <2>1. r.totalDays \in Int
    BY DEF Request
  <2>2. IsFiniteSet({r.id})
    BY FS_Singleton
  <2>3. IsFiniteSet(1..r.totalDays)
    BY <2>1, FS_Interval
  <2>4. QED
    BY <2>2, <2>3, FS_Product
<1>4. IsFiniteSet(UNION T)
  BY <1>2, <1>3, FS_UNION
<1>5. QED
  BY <1>4 DEF DayPairs

LEMMA SumDaysType ==
  ASSUME NEW rs \in SUBSET Request, IsFiniteSet(rs), NEW status
  PROVE  SumDays(rs, status) \in Nat
<1> DEFINE S == {r \in rs : r.status = status}
<1>1. S \in SUBSET Request /\ IsFiniteSet(S)
  BY FS_Subset
<1>2. IsFiniteSet(DayPairs(S))
  BY <1>1, DayPairsFinite
<1>3. QED
  BY <1>2, FS_CardinalityType DEF SumDays

-------------------------------------------------------------------------------
(* What a handler knows survives the steps of the others.                  *)

(***************************************************************************)
(* The steps that write nothing disturb nobody else.                       *)
(***************************************************************************)
LEMMA KeepsReadsStep ==
  ASSUME TypeOK, ReadsStillHold, NEW c \in Calls,
         \/ \E status : Answer(c, status)
         \/ \E await, value : Continue(c, await, value)
         \/ \E args, await : Begin(c, args, await),
         UNCHANGED <<requests, balances>>, outdated \ {c} \subseteq outdated',
         c \notin outdated' => StillTrue(c)'
  PROVE  ReadsStillHold'
<1>1. ASSUME NEW d \in Calls \ {c}, d \notin outdated PROVE StillTrue(d)'
  <2>1. /\ pc'[d] = pc[d] /\ call'[d] = call[d] /\ held'[d] = held[d]
        /\ requests' = requests /\ balances' = balances
    BY OtherFrames
  <2>2. /\ RequestsOf(call[d].user)' = RequestsOf(call[d].user)
        /\ RequestsOf(call[d].target)' = RequestsOf(call[d].target)
        /\ RequestsOf(held[d].requester)' = RequestsOf(held[d].requester)
    BY <2>1 DEF RequestsOf
  <2>3. StillTrue(d)
    BY <1>1 DEF ReadsStillHold
  <2>4. QED
    BY <2>1, <2>2, <2>3 DEF StillTrue, Fits
<1>2. QED
  BY <1>1 DEF ReadsStillHold

LEMMA AnswerHolds ==
  ASSUME TypeOK, ReadsStillHold, NEW c \in Calls,
         NEW status, Answer(c, status), UNCHANGED <<requests, balances>>
  PROVE  ReadsStillHold'
<1>1. StillTrue(c)'
  BY DEF TypeOK, Answer, Respond, StillTrue
<1>2. QED
  BY <1>1, KeepsReadsStep DEF Answer

LEMMA BeginHolds ==
  ASSUME TypeOK, ReadsStillHold, NEW c \in Calls,
         NEW await \in {"getBalance", "getRequest", "queryUsed"},
         NEW args, Begin(c, args, await), UNCHANGED tables
  PROVE  ReadsStillHold'
<1>1. StillTrue(c)'
  BY DEF TypeOK, Begin, StillTrue
<1>2. QED
  BY <1>1, KeepsReadsStep DEF Begin, tables

(***************************************************************************)
(* A handler that goes on knows what it read, if that was current and so   *)
(* was what it knew before.                                                *)
(***************************************************************************)
LEMMA GoOnHolds ==
  ASSUME TypeOK, ReadsStillHold, NEW c \in Calls, NEW await, NEW value,
         NEW current, GoOn(c, await, value, current), UNCHANGED tables,
         c \notin outdated /\ current => StillTrue(c)'
  PROVE  ReadsStillHold'
<1>1. outdated \subseteq outdated' /\ (c \in outdated' \/ StillTrue(c)')
  BY DEF GoOn
<1>2. Continue(c, await, value)
  BY DEF GoOn
<1>3. QED
  BY <1>1, <1>2, KeepsReadsStep DEF tables

LEMMA ArriveHolds ==
  ASSUME TypeOK, ReadsStillHold, NEW c \in Calls, Arrive(c)
  PROVE  ReadsStillHold'
<1>1. UNCHANGED tables
  BY DEF Arrive, CreateRequest, ResolveRequest, SetBalance
<1>2. CASE \E status : Answer(c, status)
  BY <1>1, <1>2, AnswerHolds DEF tables
<1>3. CASE \E args, await : /\ await \in {"getBalance", "getRequest", "queryUsed"}
                           /\ Begin(c, args, await)
  BY <1>1, <1>3, BeginHolds
<1>4. QED
  BY <1>2, <1>3 DEF Arrive, CreateRequest, ResolveRequest, SetBalance

LEMMA ReadBalanceHolds ==
  ASSUME TypeOK, ReadsStillHold, NEW c \in Calls, ReadBalance(c)
  PROVE  ReadsStillHold'
<1>1. pc[c] = "getBalance" /\ UNCHANGED tables
  BY DEF ReadBalance, At
<1>2. CASE \E status : Answer(c, status)
  BY <1>1, <1>2, AnswerHolds DEF tables
<1>3. ASSUME NEW b, b # Undefined,
             GoOn(c, "queryRequests", b, b = balances[call[c].user])
      PROVE  ReadsStillHold'
  <2>1. b = balances[call[c].user] => StillTrue(c)'
    BY <1>1, <1>3 DEF TypeOK, GoOn, Continue, StillTrue, tables
  <2>2. QED
    BY <1>1, <1>3, <2>1, GoOnHolds
<1>4. QED
  BY <1>2, <1>3 DEF ReadBalance

LEMMA CheckAvailableHolds ==
  ASSUME TypeOK, ReadsStillHold, NEW c \in Calls, CheckAvailable(c)
  PROVE  ReadsStillHold'
<1>1. pc[c] = "queryRequests" /\ UNCHANGED tables /\ call[c] \in CreateArgs
  BY DEF CheckAvailable, At, TypeOK, FrameOK
<1>2. CASE \E status : Answer(c, status)
  BY <1>1, <1>2, AnswerHolds DEF tables
<1> DEFINE user == call[c].user
           days == CalculateDays(call[c].start, call[c].end)
<1>3. ASSUME NEW rs, Available(held[c].totalDays, rs) >= days,
             GoOn(c, "getOrgNode", Undefined, rs = RequestsOf(user))
      PROVE  ReadsStillHold'
  <2> SUFFICES ASSUME c \notin outdated, rs = RequestsOf(user)
               PROVE  StillTrue(c)'
    BY <1>1, <1>3, GoOnHolds
  <2>1. /\ balances[user] # Undefined
        /\ balances[user].totalDays = held[c].totalDays
    BY <1>1 DEF ReadsStillHold, StillTrue
  <2>2. days \in Nat /\ held[c].totalDays \in Nat
    BY <1>1, DaysType DEF CreateArgs, TypeOK, FrameOK, Balance
  <2>3. Available(held[c].totalDays, RequestsOf(user)) \in Int
    BY <2>2, RequestsOfFinite, SumDaysType DEF Available
  <2>4. Fits(user, days)
    BY <1>3, <2>1, <2>2, <2>3 DEF Fits
  <2>5. Fits(user, days)'
    BY <1>1, <1>3, <2>4 DEF Fits, RequestsOf, GoOn, Continue, tables
  <2>6. pc'[c] = "getOrgNode"
    BY <1>3 DEF TypeOK, GoOn, Continue
  <2>7. QED
    BY <2>5, <2>6 DEF StillTrue
<1>4. QED
  BY <1>2, <1>3 DEF CheckAvailable

(***************************************************************************)
(* The request createRequest is about to put still fits.                   *)
(***************************************************************************)
LEMMA NewRequestHolds ==
  ASSUME TypeOK, ReadsStillHold, NEW c \in Calls,
         pc[c] \in {"getOrgNode", "getSupervisorNode"}, UNCHANGED tables,
         NEW supervisor, GoOn(c, "putRequest", NewRequest(c, supervisor), TRUE)
  PROVE  ReadsStillHold'
<1> SUFFICES ASSUME c \notin outdated
             PROVE  StillTrue(c)'
  BY GoOnHolds
<1>1. Fits(call[c].user, CalculateDays(call[c].start, call[c].end))
  BY DEF ReadsStillHold, StillTrue
<1> DEFINE r == NewRequest(c, supervisor)
<1>2. /\ r.status = "PENDING" /\ r.requester = call[c].user
      /\ r.totalDays = CalculateDays(call[c].start, call[c].end)
  BY DEF NewRequest
<1>3. GoOn(c, "putRequest", r, TRUE)
  OBVIOUS
<1> HIDE DEF r
<1>4. pc'[c] = "putRequest" /\ held'[c] = r
  BY <1>3 DEF TypeOK, GoOn, Continue
<1>5. Fits(held[c].requester, held[c].totalDays)'
  <2>1. PICK user : user = call[c].user
    OBVIOUS
  <2>2. Fits(user, r.totalDays)
    BY <1>1, <1>2, <2>1
  <2>3. held'[c].requester = user /\ held'[c].totalDays = r.totalDays
    BY <1>2, <1>4, <2>1
  <2>4. RequestsOf(held[c].requester)' = RequestsOf(user)
    BY <2>3 DEF RequestsOf, tables
  <2>5. QED
    BY <2>2, <2>3, <2>4 DEF Fits, tables
<1>6. QED
  BY <1>2, <1>4, <1>5 DEF StillTrue

LEMMA ReadOrgNodeHolds ==
  ASSUME TypeOK, ReadsStillHold, NEW c \in Calls, ReadOrgNode(c)
  PROVE  ReadsStillHold'
<1>1. pc[c] = "getOrgNode" /\ UNCHANGED tables
  BY DEF ReadOrgNode, At
<1>2. CASE GoOn(c, "putRequest", NewRequest(c, NoSupervisor), TRUE)
  BY <1>1, <1>2, NewRequestHolds
<1>3. ASSUME NEW value, GoOn(c, "getSupervisorNode", value, TRUE)
      PROVE  ReadsStillHold'
  <2> SUFFICES ASSUME c \notin outdated
               PROVE  StillTrue(c)'
    BY <1>1, <1>3, GoOnHolds
  <2>1. pc'[c] = "getSupervisorNode" /\ call'[c] = call[c]
    BY <1>3 DEF TypeOK, GoOn, Continue
  <2>2. Fits(call[c].user, CalculateDays(call[c].start, call[c].end))
    BY <1>1 DEF ReadsStillHold, StillTrue
  <2>3. Fits(call[c].user, CalculateDays(call[c].start, call[c].end))'
    BY <1>1, <2>1, <2>2 DEF Fits, RequestsOf, tables
  <2>4. QED
    BY <2>1, <2>3 DEF StillTrue
<1>4. QED
  BY <1>2, <1>3 DEF ReadOrgNode

LEMMA ReadSupervisorNodeHolds ==
  ASSUME TypeOK, ReadsStillHold, NEW c \in Calls, ReadSupervisorNode(c)
  PROVE  ReadsStillHold'
<1>1. pc[c] = "getSupervisorNode" /\ UNCHANGED tables
  BY DEF ReadSupervisorNode, At
<1>2. \E supervisor : GoOn(c, "putRequest", NewRequest(c, supervisor), TRUE)
  BY DEF ReadSupervisorNode
<1>3. QED
  BY <1>1, <1>2, NewRequestHolds

(***************************************************************************)
(* The resolution about to be put is of a request that is still pending.   *)
(***************************************************************************)
LEMMA UpdatedHolds ==
  ASSUME TypeOK, HistoryInv, ReadsStillHold, NEW c \in Calls,
         pc[c] = "getRequest", UNCHANGED tables,
         NEW r, r # Undefined, r.status = "PENDING",
         NEW status \in {"APPROVED", "REJECTED", "CANCELLED"},
         GoOn(c, "putRequest", Updated(c, r, status), r = requests[call[c].id])
  PROVE  ReadsStillHold'
<1> SUFFICES ASSUME r = requests[call[c].id]
             PROVE  StillTrue(c)'
  BY GoOnHolds
<1> DEFINE w == Updated(c, r, status)
<1>1. call[c].id \in Calls
  BY DEF TypeOK, FrameOK, ResolveArgs
<1>2. r \in Request /\ r.id = call[c].id
  BY <1>1 DEF TypeOK, HistoryInv
<1>3. w.id = r.id /\ w.status = status
  BY <1>2 DEF Updated, Request
<1>4. pc'[c] = "putRequest" /\ held'[c] = w
  BY DEF TypeOK, GoOn, Continue
<1>5. held'[c] = Updated(c, requests'[held'[c].id], held'[c].status)
  BY <1>2, <1>3, <1>4 DEF tables
<1>6. /\ requests'[held'[c].id] # Undefined
      /\ requests'[held'[c].id].status = "PENDING"
  BY <1>2, <1>3, <1>4 DEF tables
<1>7. held'[c].status # "PENDING"
  BY <1>3, <1>4
<1> HIDE DEF w
<1>8. QED
  BY <1>4, <1>5, <1>6, <1>7 DEF StillTrue, Updated

LEMMA CheckResolveHolds ==
  ASSUME TypeOK, HistoryInv, ReadsStillHold, NEW c \in Calls, CheckResolve(c)
  PROVE  ReadsStillHold'
<1>1. pc[c] = "getRequest" /\ UNCHANGED tables
  BY DEF CheckResolve, At
<1>2. CASE \E status : Answer(c, status)
  BY <1>1, <1>2, AnswerHolds DEF tables
<1>3. CASE \E r, status :
             /\ r # Undefined /\ r.status = "PENDING"
             /\ status \in {"APPROVED", "REJECTED"}
             /\ GoOn(c, "putRequest", Updated(c, r, status),
                     r = requests[call[c].id])
  BY <1>1, <1>3, UpdatedHolds
<1>4. QED
  BY <1>2, <1>3 DEF CheckResolve

LEMMA CheckCancelHolds ==
  ASSUME TypeOK, HistoryInv, ReadsStillHold, NEW c \in Calls, CheckCancel(c)
  PROVE  ReadsStillHold'
<1>1. pc[c] = "getRequest" /\ UNCHANGED tables
  BY DEF CheckCancel, At
<1>2. CASE \E status : Answer(c, status)
  BY <1>1, <1>2, AnswerHolds DEF tables
<1>3. CASE \E r : /\ r # Undefined /\ r.status = "PENDING"
                 /\ GoOn(c, "putRequest", Updated(c, r, "CANCELLED"),
                         r = requests[call[c].id])
  BY <1>1, <1>3, UpdatedHolds
<1>4. QED
  BY <1>2, <1>3 DEF CheckCancel

LEMMA CheckUsedHolds ==
  ASSUME TypeOK, ReadsStillHold, NEW c \in Calls, CheckUsed(c)
  PROVE  ReadsStillHold'
<1>1. pc[c] = "queryUsed" /\ UNCHANGED tables /\ call[c].totalDays \in Nat
  BY DEF CheckUsed, At, TypeOK, FrameOK, AssignArgs
<1>2. CASE \E status : Answer(c, status)
  BY <1>1, <1>2, AnswerHolds DEF tables
<1>3. ASSUME NEW rs, call[c].totalDays >= SumDays(rs, "APPROVED"),
             GoOn(c, "putBalance", Undefined, rs = RequestsOf(call[c].target))
      PROVE  ReadsStillHold'
  <2> SUFFICES ASSUME rs = RequestsOf(call[c].target)
               PROVE  StillTrue(c)'
    BY <1>1, <1>3, GoOnHolds
  <2>1. SumDays(RequestsOf(call[c].target), "APPROVED") \in Nat
    BY RequestsOfFinite, SumDaysType
  <2>2. SumDays(RequestsOf(call[c].target), "APPROVED") <= call[c].totalDays
    BY <1>1, <1>3, <2>1
  <2>3. pc'[c] = "putBalance" /\ call' = call
    BY <1>3 DEF TypeOK, GoOn, Continue
  <2>4. RequestsOf(call[c].target)' = RequestsOf(call[c].target)
    BY <1>1, <2>3 DEF RequestsOf, tables
  <2>5. QED
    BY <2>2, <2>3, <2>4 DEF StillTrue
<1>4. QED
  BY <1>2, <1>3 DEF CheckUsed

LEMMA FailHolds ==
  ASSUME TypeOK, ReadsStillHold, NEW c \in Calls, Fail(c)
  PROVE  ReadsStillHold'
<1>1. Answer(c, 500) /\ UNCHANGED tables
  BY DEF Fail
<1>2. QED
  BY <1>1, AnswerHolds DEF tables

LEMMA UnchangedHolds ==
  ASSUME ReadsStillHold, UNCHANGED <<handlers, tables, outdated>>
  PROVE  ReadsStillHold'
<1>1. ASSUME NEW c \in Calls \ outdated PROVE StillTrue(c)'
  <2>1. /\ RequestsOf(call[c].user)' = RequestsOf(call[c].user)
        /\ RequestsOf(call[c].target)' = RequestsOf(call[c].target)
        /\ RequestsOf(held[c].requester)' = RequestsOf(held[c].requester)
    BY DEF RequestsOf, handlers, tables
  <2>2. QED
    BY <2>1 DEF ReadsStillHold, StillTrue, Fits, handlers, tables
<1>2. QED
  BY <1>1 DEF ReadsStillHold
-------------------------------------------------------------------------------
(* A write disturbs those alone whom it outdates.                          *)

(***************************************************************************)
(* A version r comes to the table where no request or one of the same      *)
(* requester was.                                                          *)
(***************************************************************************)
Replaces(r) ==
  /\ r \in Request /\ r.id \in Calls
  /\ requests' = [requests EXCEPT ![r.id] = r]
  /\ requests[r.id] # Undefined => requests[r.id].requester = r.requester

LEMMA ReplacesElsewhere ==
  ASSUME TypeOK, NEW r, Replaces(r), NEW user, user # r.requester
  PROVE  RequestsOf(user)' = RequestsOf(user)
<1>1. \A j \in Calls : requests'[j] = IF j = r.id THEN r ELSE requests[j]
  BY DEF TypeOK, Replaces
<1>2. QED
  BY <1>1 DEF RequestsOf, Replaces

LEMMA PutReplaces ==
  ASSUME TypeOK, HistoryInv, NEW c \in Calls, PutRequest(c)
  PROVE  /\ Replaces(held[c])
         /\ UNCHANGED balances
         /\ held[c].status = "PENDING" => held[c].id = c /\ requests[c] = Undefined
<1> DEFINE r == held[c]
           old == requests[r.id]
<1>1. pc[c] = "putRequest"
  BY DEF PutRequest
<1>2. r \in Request /\ r.id \in Calls
  BY <1>1 DEF TypeOK, FrameOK, Request
<1>3. ASSUME old # Undefined PROVE old \in written /\ old.id = r.id
  BY <1>2, <1>3 DEF HistoryInv
<1>4. CASE r.status = "PENDING"
  <2>1. r.id = c
    BY <1>1, <1>4 DEF HistoryInv, CallOK
  <2>2. old = Undefined
    BY <1>1, <1>3, <2>1 DEF HistoryInv, VersionOK, HasPut
  <2>3. QED
    BY <1>2, <2>1, <2>2 DEF PutRequest, Replaces
<1>5. CASE r.status # "PENDING"
  <2>1. PICK v \in written : SameRequest(v, r)
    BY <1>1, <1>5 DEF HistoryInv, CallOK
  <2>2. ASSUME old # Undefined PROVE old.requester = r.requester
    BY <1>3, <2>1, <2>2 DEF HistoryInv, VersionsAgree, SameRequest
  <2>3. QED
    BY <1>2, <1>5, <2>2 DEF PutRequest, Replaces
<1>6. QED
  BY <1>4, <1>5

LEMMA LandsAgainReplaces ==
  ASSUME TypeOK, HistoryInv, NEW r \in written,
         requests' = [requests EXCEPT ![r.id] = r]
  PROVE  Replaces(r)
<1>1. r \in Request /\ r.id \in Calls
  BY DEF TypeOK, Request
<1>2. ASSUME requests[r.id] # Undefined
      PROVE  requests[r.id].requester = r.requester
  BY <1>1, <1>2 DEF HistoryInv, VersionsAgree, SameRequest
<1>3. QED
  BY <1>1, <1>2 DEF Replaces

(***************************************************************************)
(* Whoever does not use request r loses nothing by a new version of it.    *)
(***************************************************************************)
LEMMA RequestUndisturbing ==
  ASSUME TypeOK, HistoryInv, NEW r, Replaces(r), UNCHANGED balances,
         NEW d \in Calls, ~UsesRequest(d, r), StillTrue(d),
         pc'[d] = pc[d], call'[d] = call[d], held'[d] = held[d]
  PROVE  StillTrue(d)'
<1>1. /\ call[d].user # r.requester =>
           RequestsOf(call[d].user)' = RequestsOf(call[d].user)
      /\ call[d].target # r.requester =>
           RequestsOf(call[d].target)' = RequestsOf(call[d].target)
      /\ held[d].requester # r.requester =>
           RequestsOf(held[d].requester)' = RequestsOf(held[d].requester)
  <2>1. ASSUME NEW user, user # r.requester
        PROVE  RequestsOf(user)' = RequestsOf(user)
    BY <2>1, ReplacesElsewhere
  <2>2. ASSUME call[d].user # r.requester
        PROVE  RequestsOf(call[d].user)' = RequestsOf(call[d].user)
    <3>1. PICK user : user = call[d].user /\ user = call[d].user'
      OBVIOUS
    <3>2. RequestsOf(user)' = RequestsOf(user)
      BY <2>1, <2>2, <3>1
    <3>3. RequestsOf(call[d].user)' = RequestsOf(user)'
      BY <3>1 DEF RequestsOf
    <3>4. QED
      BY <3>1, <3>2, <3>3
  <2>3. ASSUME call[d].target # r.requester
        PROVE  RequestsOf(call[d].target)' = RequestsOf(call[d].target)
    <3>1. PICK user : user = call[d].target /\ user = call[d].target'
      OBVIOUS
    <3>2. RequestsOf(user)' = RequestsOf(user)
      BY <2>1, <2>3, <3>1
    <3>3. RequestsOf(call[d].target)' = RequestsOf(user)'
      BY <3>1 DEF RequestsOf
    <3>4. QED
      BY <3>1, <3>2, <3>3
  <2>4. ASSUME held[d].requester # r.requester
        PROVE  RequestsOf(held[d].requester)' = RequestsOf(held[d].requester)
    <3>1. PICK user : user = held[d].requester /\ user = held[d].requester'
      OBVIOUS
    <3>2. RequestsOf(user)' = RequestsOf(user)
      BY <2>1, <2>4, <3>1
    <3>3. RequestsOf(held[d].requester)' = RequestsOf(user)'
      BY <3>1 DEF RequestsOf
    <3>4. QED
      BY <3>1, <3>2, <3>3
  <2>5. QED
    BY <2>2, <2>3, <2>4
<1>2. CASE pc[d] = "queryRequests"
  BY <1>2 DEF StillTrue
<1>3. CASE pc[d] \in {"getOrgNode", "getSupervisorNode"}
  <2>1. call[d].user # r.requester
    BY <1>3 DEF UsesRequest, UsesRows, Books, Requester
  <2>2. Fits(call[d].user, CalculateDays(call[d].start, call[d].end))
    BY <1>3 DEF StillTrue
  <2>3. Fits(call[d].user, CalculateDays(call[d].start, call[d].end))'
    BY <1>1, <2>1, <2>2 DEF Fits, RequestsOf
  <2>4. QED
    BY <1>3, <2>3 DEF StillTrue
<1>4. CASE pc[d] = "putRequest" /\ held[d].status = "PENDING"
  <2>1. held[d].requester # r.requester
    BY <1>4 DEF UsesRequest, UsesRows, Books, Requester
  <2>2. Fits(held[d].requester, held[d].totalDays)
    BY <1>4 DEF StillTrue
  <2>3. Fits(held[d].requester, held[d].totalDays)'
    BY <1>1, <2>1, <2>2 DEF Fits, RequestsOf
  <2>4. QED
    BY <1>4, <2>3 DEF StillTrue
<1>5. CASE pc[d] = "putRequest" /\ held[d].status # "PENDING"
  <2>1. held[d].id # r.id /\ held[d].id \in Calls
    BY <1>5 DEF UsesRequest, UsesItem, TypeOK, FrameOK, Request
  <2>2. requests'[held[d].id] = requests[held[d].id]
    BY <2>1 DEF Replaces, TypeOK
  <2>3. QED
    BY <1>5, <2>2 DEF StillTrue, Updated
<1>6. CASE pc[d] = "putBalance"
  <2>1. call[d].target # r.requester
    BY <1>6 DEF UsesRequest, UsesRows
  <2>2. RequestsOf(call[d].target)' = RequestsOf(call[d].target)
    BY <1>1, <2>1
  <2>3. QED
    BY <1>6, <2>2 DEF StillTrue, RequestsOf
<1>7. CASE pc[d] \notin {"queryRequests", "getOrgNode", "getSupervisorNode",
                         "putRequest", "putBalance"}
  BY <1>7 DEF StillTrue
<1>8. QED
  BY <1>2, <1>3, <1>4, <1>5, <1>6, <1>7

(***************************************************************************)
(* Whoever does not use a user's balance loses nothing by a new one.       *)
(***************************************************************************)
LEMMA BalanceUndisturbing ==
  ASSUME TypeOK, NEW user \in User, NEW b,
         balances' = [balances EXCEPT ![user] = b], UNCHANGED requests,
         NEW d \in Calls, ~UsesBalance(d, user), StillTrue(d),
         pc'[d] = pc[d], call'[d] = call[d], held'[d] = held[d]
  PROVE  StillTrue(d)'
<1>1. /\ RequestsOf(call[d].user)' = RequestsOf(call[d].user)
      /\ RequestsOf(call[d].target)' = RequestsOf(call[d].target)
      /\ RequestsOf(held[d].requester)' = RequestsOf(held[d].requester)
  BY DEF RequestsOf
<1>2. ASSUME pc[d] = "queryRequests" \/ Books(d)
      PROVE  balances'[Requester(d)] = balances[Requester(d)]
  BY <1>2 DEF UsesBalance, TypeOK
<1>3. /\ pc[d] \in {"queryRequests", "getOrgNode", "getSupervisorNode"} =>
           balances'[call[d].user] = balances[call[d].user]
      /\ pc[d] = "putRequest" /\ held[d].status = "PENDING" =>
           balances'[held[d].requester] = balances[held[d].requester]
  BY <1>2 DEF Books, Requester
<1>4. QED
  BY <1>1, <1>3 DEF StillTrue, Fits

LEMMA PutRequestHolds ==
  ASSUME TypeOK, HistoryInv, ReadsStillHold, NEW c \in Calls, PutRequest(c)
  PROVE  ReadsStillHold'
<1>1. Replaces(held[c]) /\ UNCHANGED balances
  BY PutReplaces
<1>2. StillTrue(c)'
  BY DEF PutRequest, Continue, TypeOK, StillTrue
<1>3. ASSUME NEW d \in Calls \ {c}, d \notin outdated' PROVE StillTrue(d)'
  <2>1. pc'[d] = pc[d] /\ call'[d] = call[d] /\ held'[d] = held[d]
    BY OtherFrames DEF PutRequest
  <2>2. d \notin outdated /\ ~UsesRequest(d, held[c])
    BY <1>3 DEF PutRequest
  <2>3. QED
    BY <1>1, <2>1, <2>2, RequestUndisturbing DEF ReadsStillHold
<1>4. QED
  BY <1>2, <1>3 DEF ReadsStillHold

LEMMA PutBalanceHolds ==
  ASSUME TypeOK, ReadsStillHold, NEW c \in Calls, PutBalance(c)
  PROVE  ReadsStillHold'
<1> DEFINE target == call[c].target
<1>1. /\ requests' = requests /\ target \in User
      /\ balances' = [balances EXCEPT ![target] = NewBalance(c)]
  BY DEF PutBalance, At, TypeOK, FrameOK, AssignArgs
<1>2. PICK status : Respond(c, status)
  BY DEF PutBalance
<1>3. StillTrue(c)'
  BY <1>2 DEF TypeOK, Respond, StillTrue
<1>4. ASSUME NEW d \in Calls \ {c}, d \notin outdated' PROVE StillTrue(d)'
  <2>1. pc'[d] = pc[d] /\ call'[d] = call[d] /\ held'[d] = held[d]
    BY <1>2, OtherFrames
  <2>2. d \notin outdated /\ ~UsesBalance(d, target)
    BY <1>4 DEF PutBalance
  <2>3. QED
    BY <1>1, <2>1, <2>2, BalanceUndisturbing DEF ReadsStillHold
<1>5. QED
  BY <1>3, <1>4 DEF ReadsStillHold

LEMMA LandsAgainHolds ==
  ASSUME TypeOK, HistoryInv, ReadsStillHold,
         RequestLandsAgain \/ BalanceLandsAgain
  PROVE  ReadsStillHold'
<1>1. UNCHANGED handlers
  BY DEF RequestLandsAgain, BalanceLandsAgain
<1>2. CASE RequestLandsAgain
  <2>1. PICK r \in written :
          /\ requests' = [requests EXCEPT ![r.id] = r]
          /\ outdated' = outdated \cup {d \in Calls : UsesRequest(d, r)}
    BY <1>2 DEF RequestLandsAgain
  <2>2. Replaces(r) /\ UNCHANGED balances
    BY <1>2, <2>1, LandsAgainReplaces DEF RequestLandsAgain
  <2>3. QED
    BY <1>1, <2>1, <2>2, RequestUndisturbing DEF ReadsStillHold, handlers
<1>3. CASE BalanceLandsAgain
  <2>1. PICK b \in assigned :
          /\ balances' = [balances EXCEPT ![b.userId] = b]
          /\ outdated' = outdated \cup {d \in Calls : UsesBalance(d, b.userId)}
    BY <1>3 DEF BalanceLandsAgain
  <2>2. b.userId \in User /\ UNCHANGED requests
    BY <1>3 DEF BalanceLandsAgain, TypeOK, Balance
  <2>3. QED
    BY <1>1, <2>1, <2>2, BalanceUndisturbing DEF ReadsStillHold, handlers
<1>4. QED
  BY <1>2, <1>3

LEMMA WriteAuditHolds ==
  ASSUME TypeOK, ReadsStillHold, NEW c \in Calls, WriteAudit(c)
  PROVE  ReadsStillHold'
<1>1. UNCHANGED <<requests, balances>> /\ \E status : Answer(c, status)
  BY DEF WriteAudit
<1>2. QED
  BY <1>1, AnswerHolds

-------------------------------------------------------------------------------
(* The theorems.                                                           *)

LEMMA ReadsStep ==
  ASSUME TypeOK, HistoryInv, ReadsStillHold, [Next]_vars
  PROVE  ReadsStillHold'
<1>1. ASSUME NEW c \in Calls, Arrive(c) PROVE ReadsStillHold'
  BY <1>1, ArriveHolds
<1>2. ASSUME NEW c \in Calls, Step(c) PROVE ReadsStillHold'
  BY <1>2, ReadBalanceHolds, CheckAvailableHolds, ReadOrgNodeHolds,
     ReadSupervisorNodeHolds, CheckResolveHolds, CheckCancelHolds,
     PutRequestHolds, WriteAuditHolds, CheckUsedHolds, PutBalanceHolds
  DEF Step
<1>3. ASSUME NEW c \in Calls, Fail(c) PROVE ReadsStillHold'
  BY <1>3, FailHolds
<1>4. CASE RequestLandsAgain \/ BalanceLandsAgain
  BY <1>4, LandsAgainHolds
<1>5. CASE TreeChanges
  BY <1>5, UnchangedHolds DEF TreeChanges
<1>6. CASE UNCHANGED vars
  BY <1>6, UnchangedHolds DEF vars
<1>7. QED
  BY <1>1, <1>2, <1>3, <1>4, <1>5, <1>6 DEF Next, Terminating

(***************************************************************************)
(* What a handler of vacation.service.ts read and checked is still true    *)
(* when it writes, unless a read of its own was not current or a write of  *)
(* another call, or a repeated one, changed what it uses.                  *)
(***************************************************************************)
THEOREM ReadsHold == Spec => []ReadsStillHold
<1>1. Init => ReadsStillHold
  BY DEF Init, ReadsStillHold, StillTrue
<1>2. TypeOK /\ HistoryInv /\ ReadsStillHold /\ [Next]_vars => ReadsStillHold'
  BY ReadsStep
<1>3. QED
  BY <1>1, <1>2, TypeCorrect, HistoryHolds, PTL DEF Spec

(***************************************************************************)
(* The only actions that change the two tables.                            *)
(***************************************************************************)
LEMMA OnlyPutsWrite ==
  ASSUME Next, <<requests, balances>>' # <<requests, balances>>
  PROVE  \/ \E c \in Calls \ outdated : PutRequest(c) \/ PutBalance(c)
         \/ Disorderly
<1>1. ASSUME NEW c \in Calls, Arrive(c) \/ Step(c) \/ Fail(c)
      PROVE  PutRequest(c) \/ PutBalance(c)
  BY <1>1 DEF Arrive, Step, Fail, vars, tables,
         CreateRequest, ResolveRequest, SetBalance, ReadBalance,
         CheckAvailable, ReadOrgNode, ReadSupervisorNode, CheckResolve,
         CheckCancel, WriteAudit, CheckUsed
<1>2. ~TreeChanges /\ ~Terminating
  BY DEF TreeChanges, Terminating, vars, tables
<1>3. QED
  BY <1>1, <1>2 DEF Next, Disorderly

(***************************************************************************)
(* What a put of a call that is not outdated writes.                       *)
(***************************************************************************)
LEMMA PutWrites ==
  ASSUME TypeOK, HistoryInv, ReadsStillHold, NEW c \in Calls \ outdated,
         PutRequest(c)
  PROVE  LET r == held[c] IN
         /\ r \in Request /\ r.id \in Calls
         /\ requests' = [requests EXCEPT ![r.id] = r]
         /\ UNCHANGED balances
         /\ r.status = "PENDING" =>
              r.id = c /\ requests[c] = Undefined
              /\ Fits(r.requester, r.totalDays)
         /\ r.status # "PENDING" =>
              /\ requests[r.id] # Undefined
              /\ requests[r.id].status = "PENDING"
              /\ r = Updated(c, requests[r.id], r.status)
<1>1. pc[c] = "putRequest" /\ StillTrue(c)
  BY DEF PutRequest, ReadsStillHold
<1>2. QED
  BY <1>1, PutReplaces DEF Replaces, StillTrue

(***************************************************************************)
(* A request never disappears, and its outcome is lost only to a put that  *)
(* lands again or to an outdated call.                                     *)
(***************************************************************************)
THEOREM OutcomesHold == Spec => OutcomesLostOnlyLate
<1> DEFINE Late == \A id \in Calls :
             requests[id] # Undefined /\ requests'[id] # requests[id] =>
               /\ requests'[id] # Undefined
               /\ requests'[id].status = "PENDING" => requests'[id] \in written
               /\ requests[id].status # "PENDING" =>
                    \/ requests'[id] \in written
                    \/ requests'[id].updatedAt \in outdated
<1>1. TypeOK /\ HistoryInv /\ ReadsStillHold /\ [Next]_vars => [Late]_vars
  <2> SUFFICES ASSUME TypeOK, HistoryInv, ReadsStillHold, Next, NEW id \in Calls,
                      requests[id] # Undefined, requests'[id] # requests[id]
               PROVE  /\ requests'[id] # Undefined
                      /\ requests'[id].status = "PENDING" => requests'[id] \in written
                      /\ requests[id].status # "PENDING" =>
                           \/ requests'[id] \in written
                           \/ requests'[id].updatedAt \in outdated
    OBVIOUS
  <2>1. CASE RequestLandsAgain
    <3>1. PICK r \in written : requests' = [requests EXCEPT ![r.id] = r]
      BY <2>1 DEF RequestLandsAgain
    <3>2. requests'[id] = r /\ r \in Request
      BY <3>1 DEF TypeOK
    <3>3. QED
      BY <3>1, <3>2, SentinelAssumption
  <2>2. ASSUME NEW c \in Calls, PutRequest(c)
        PROVE  /\ requests'[id] # Undefined
               /\ requests'[id].status # "PENDING"
               /\ requests[id].status # "PENDING" =>
                    requests'[id].updatedAt \in outdated
    <3>1. /\ Replaces(held[c])
          /\ held[c].status = "PENDING" => held[c].id = c /\ requests[c] = Undefined
      BY <2>2, PutReplaces
    <3>2. requests'[id] = held[c] /\ held[c].id = id
      BY <3>1 DEF Replaces, TypeOK
    <3>3. held[c].updatedAt = c
      BY <2>2 DEF PutRequest, HistoryInv, CallOK
    <3>4. held[c] # Undefined /\ held[c].status # "PENDING"
      BY <3>1, <3>2, SentinelAssumption DEF Replaces
    <3>5. requests[id].status # "PENDING" => c \in outdated
      BY <2>2, <3>2, <3>4, PutWrites
    <3>6. QED
      BY <3>2, <3>3, <3>4, <3>5
  <2>3. RequestLandsAgain \/ \E c \in Calls : PutRequest(c)
    <3>1. requests' # requests
      OBVIOUS
    <3>2. outdated \subseteq Calls
      BY DEF TypeOK
    <3>3. QED
      BY <3>1, <3>2, OnlyPutsWrite DEF Disorderly, PutBalance, BalanceLandsAgain
  <2>4. QED
    BY <2>1, <2>2, <2>3
<1>2. QED
  BY <1>1, TypeCorrect, HistoryHolds, ReadsHold, PTL DEF Spec, OutcomesLostOnlyLate

-------------------------------------------------------------------------------
(* The refinement.                                                         *)

LEMMA SameLedger ==
  /\ \A rs, status : Ledger!SumDays(rs, status) = SumDays(rs, status)
  /\ \A total, rs : Ledger!Available(total, rs) = Available(total, rs)
  /\ \A user : Ledger!RequestsOf(user) = RequestsOf(user)
<1>0. ASSUME NEW S PROVE Ledger!Cardinality(S) = Cardinality(S)
  BY DEF Ledger!Cardinality, Cardinality
<1>1. ASSUME NEW rs PROVE Ledger!DayPairs(rs) = DayPairs(rs)
  BY DEF Ledger!DayPairs, DayPairs
<1>2. ASSUME NEW rs, NEW status
      PROVE  Ledger!SumDays(rs, status) = SumDays(rs, status)
  <2> DEFINE S == {r \in rs : r.status = status}
  <2>1. Ledger!DayPairs(S) = DayPairs(S)
    BY <1>1
  <2>2. QED
    BY <2>1, <1>0 DEF Ledger!SumDays, SumDays
<1>3. ASSUME NEW total, NEW rs
      PROVE  Ledger!Available(total, rs) = Available(total, rs)
  BY <1>2 DEF Ledger!Available, Available
<1>4. ASSUME NEW user PROVE Ledger!RequestsOf(user) = RequestsOf(user)
  BY DEF Ledger!RequestsOf, RequestsOf
<1>5. QED
  BY <1>2, <1>3, <1>4

LEMMA PutRequestRefines ==
  ASSUME TypeOK, HistoryInv, ReadsStillHold, NEW c \in Calls \ outdated,
         PutRequest(c)
  PROVE  Ledger!Next
<1> DEFINE r == held[c]
           i == r.id
<1>1. /\ r \in Request /\ i \in Calls
      /\ requests' = [requests EXCEPT ![i] = r]
      /\ UNCHANGED balances
  BY PutWrites
<1>2. requests'[i] = r
  BY <1>1 DEF TypeOK
<1>3. Ledger!Write(i)
  BY <1>1, <1>2 DEF Ledger!Write
<1>4. CASE r.status = "PENDING"
  <2>1. requests[i] = Undefined /\ Fits(r.requester, r.totalDays)
    BY <1>4, PutWrites
  <2>2. Ledger!Book(i)
    BY <1>2, <1>3, <1>4, <2>1, SameLedger DEF Ledger!Book, Fits
  <2>3. QED
    BY <1>1, <2>2 DEF Ledger!Next
<1>5. CASE r.status # "PENDING"
  <2>1. /\ requests[i] # Undefined /\ requests[i].status = "PENDING"
        /\ r = Updated(c, requests[i], r.status)
    BY <1>5, PutWrites
  <2>2. requests[i] \in Request
    BY <1>1, <2>1 DEF TypeOK
  <2>3. \A field \in {"requester", "start", "end", "totalDays"} :
          r[field] = requests[i][field]
    BY <2>1, <2>2 DEF Updated, Request
  <2>4. r.status \in Ledger!Outcomes
    BY <1>1, <1>5 DEF Ledger!Outcomes, Request, Status
  <2>5. Ledger!Resolve(i)
    BY <1>2, <1>3, <2>1, <2>3, <2>4 DEF Ledger!Resolve
  <2>6. QED
    BY <1>1, <2>5 DEF Ledger!Next
<1>6. QED
  BY <1>4, <1>5

LEMMA PutBalanceRefines ==
  ASSUME TypeOK, HistoryInv, ReadsStillHold, NEW c \in Calls \ outdated,
         PutBalance(c)
  PROVE  Ledger!Next
<1> DEFINE user == call[c].target
           b == NewBalance(c)
<1>1. pc[c] = "putBalance" /\ call[c] \in AssignArgs /\ user \in User
  BY DEF PutBalance, At, TypeOK, FrameOK, AssignArgs
<1>2. b \in Balance /\ b.totalDays = call[c].totalDays
  BY <1>1 DEF NewBalance, Balance, AssignArgs
<1>3. balances' = [balances EXCEPT ![user] = b] /\ UNCHANGED requests
  BY DEF PutBalance
<1>4. balances'[user] = b
  BY <1>1, <1>3 DEF TypeOK
<1>5. SumDays(RequestsOf(user), "APPROVED") <= b.totalDays
  BY <1>1, <1>2 DEF ReadsStillHold, StillTrue
<1>6. Ledger!Assign(user)
  BY <1>2, <1>3, <1>4, <1>5, SameLedger DEF Ledger!Assign
<1>7. QED
  BY <1>1, <1>6 DEF Ledger!Next

(***************************************************************************)
(* The handlers of vacation.service.ts implement the atomic ledger: every  *)
(* put of a call that is not outdated is one of its operations, and every  *)
(* step that is not a put a stutter.                                       *)
(***************************************************************************)
THEOREM LedgerImplemented == Spec => ImplementsLedger
<1>1. Init /\ TypeOK => Ledger!Init
  BY DEF Init, TypeOK, Ledger!Init
<1>2. TypeOK /\ HistoryInv /\ ReadsStillHold /\ [Next]_vars
        => [Ledger!Next \/ Disorderly]_<<requests, balances>>
  <2> SUFFICES ASSUME TypeOK, HistoryInv, ReadsStillHold, Next,
                      <<requests, balances>>' # <<requests, balances>>, ~Disorderly
               PROVE  Ledger!Next
    BY DEF vars, tables
  <2>1. PICK c \in Calls \ outdated : PutRequest(c) \/ PutBalance(c)
    BY OnlyPutsWrite
  <2>2. QED
    BY <2>1, PutRequestRefines, PutBalanceRefines
<1>3. QED
  BY <1>1, <1>2, TypeCorrect, HistoryHolds, ReadsHold, PTL
  DEF Spec, ImplementsLedger

-------------------------------------------------------------------------------
(* Nobody is overdrawn by a put of a request.                              *)

LEMMA DaysOfOne ==
  ASSUME NEW r \in Request
  PROVE  /\ IsFiniteSet({r.id} \X (1..r.totalDays))
         /\ Cardinality({r.id} \X (1..r.totalDays)) = r.totalDays
<1>1. r.totalDays \in Nat
  BY DEF Request
<1>2. IsFiniteSet({r.id}) /\ Cardinality({r.id}) = 1
  BY FS_Singleton
<1>3. IsFiniteSet(1..r.totalDays) /\ Cardinality(1..r.totalDays) = r.totalDays
  BY <1>1, FS_Interval
<1>4. QED
  BY <1>1, <1>2, <1>3, FS_Product

(***************************************************************************)
(* One more request has its own days and no other's.                       *)
(***************************************************************************)
LEMMA OneMore ==
  ASSUME NEW rs \in SUBSET Request, IsFiniteSet(rs), NEW r \in Request,
         \A s \in rs : s.id # r.id
  PROVE  /\ Cardinality(DayPairs(rs)) \in Nat
         /\ Cardinality(DayPairs(rs \cup {r}))
              = Cardinality(DayPairs(rs)) + r.totalDays
<1> DEFINE D == {r.id} \X (1..r.totalDays)
<1>1. DayPairs(rs \cup {r}) = DayPairs(rs) \cup D
  BY DEF DayPairs
<1>2. DayPairs(rs) \cap D = {}
  BY DEF DayPairs
<1>3. /\ IsFiniteSet(DayPairs(rs)) /\ IsFiniteSet(D)
      /\ Cardinality(D) = r.totalDays
  BY DayPairsFinite, DaysOfOne
<1>4. Cardinality(DayPairs(rs) \cup D)
        = Cardinality(DayPairs(rs)) + Cardinality(D) - Cardinality(DayPairs(rs) \cap D)
  BY <1>3, FS_Union
<1>5. Cardinality(DayPairs(rs) \cap D) = 0
  BY <1>2, FS_EmptySet
<1>6. Cardinality(DayPairs(rs)) \in Nat /\ r.totalDays \in Nat
  BY <1>3, FS_CardinalityType DEF Request
<1>7. Cardinality(DayPairs(rs \cup {r})) = Cardinality(DayPairs(rs) \cup D)
  BY <1>1
<1> HIDE DEF D
<1>8. QED
  BY <1>3, <1>4, <1>5, <1>6, <1>7

Of(rs, status) == {r \in rs : r.status = status}

(***************************************************************************)
(* A request comes to a set of others, PENDING, and holds its days.        *)
(***************************************************************************)
LEMMA BookedDays ==
  ASSUME NEW rs \in SUBSET Request, IsFiniteSet(rs), NEW r \in Request,
         \A s \in rs : s.id # r.id, r.status = "PENDING", NEW total \in Nat
  PROVE  Available(total, rs \cup {r}) = Available(total, rs) - r.totalDays
<1>1. /\ Of(rs \cup {r}, "PENDING") = Of(rs, "PENDING") \cup {r}
      /\ Of(rs \cup {r}, "APPROVED") = Of(rs, "APPROVED")
  BY DEF Of
<1>2. Of(rs, "PENDING") \in SUBSET Request /\ IsFiniteSet(Of(rs, "PENDING"))
  BY FS_Subset DEF Of
<1>3. \A s \in Of(rs, "PENDING") : s.id # r.id
  BY DEF Of
<1>4. /\ Cardinality(DayPairs(Of(rs, "PENDING"))) \in Nat
      /\ Cardinality(DayPairs(Of(rs, "PENDING") \cup {r}))
           = Cardinality(DayPairs(Of(rs, "PENDING"))) + r.totalDays
  BY <1>2, <1>3, OneMore
<1>5. SumDays(rs, "APPROVED") \in Nat /\ r.totalDays \in Nat
  BY SumDaysType DEF Request
<1>6. /\ SumDays(rs \cup {r}, "PENDING") = SumDays(rs, "PENDING") + r.totalDays
      /\ SumDays(rs \cup {r}, "APPROVED") = SumDays(rs, "APPROVED")
      /\ SumDays(rs, "PENDING") \in Nat
  BY <1>1, <1>4 DEF SumDays, Of
<1>7. QED
  BY <1>5, <1>6 DEF Available

(***************************************************************************)
(* A pending request is resolved: its days are given back or stay held.    *)
(***************************************************************************)
LEMMA ResolvedDays ==
  ASSUME NEW rs \in SUBSET Request, IsFiniteSet(rs),
         NEW r \in Request, NEW q \in Request,
         \A s \in rs : s.id # r.id, q.id = r.id, q.totalDays = r.totalDays,
         r.status = "PENDING", q.status # "PENDING", NEW total \in Nat
  PROVE  /\ Available(total, rs \cup {r}) \in Int
         /\ Available(total, rs \cup {r}) <= Available(total, rs \cup {q})
<1>1. /\ Of(rs \cup {q}, "PENDING") = Of(rs, "PENDING")
      /\ q.status = "APPROVED" =>
           Of(rs \cup {q}, "APPROVED") = Of(rs, "APPROVED") \cup {q}
      /\ q.status # "APPROVED" =>
           Of(rs \cup {q}, "APPROVED") = Of(rs, "APPROVED")
  BY DEF Of
<1>2. Of(rs, "APPROVED") \in SUBSET Request /\ IsFiniteSet(Of(rs, "APPROVED"))
  BY FS_Subset DEF Of
<1>3. \A s \in Of(rs, "APPROVED") : s.id # q.id
  BY DEF Of
<1>4. /\ Cardinality(DayPairs(Of(rs, "APPROVED"))) \in Nat
      /\ Cardinality(DayPairs(Of(rs, "APPROVED") \cup {q}))
           = Cardinality(DayPairs(Of(rs, "APPROVED"))) + q.totalDays
  BY <1>2, <1>3, OneMore
<1>5. /\ SumDays(rs, "APPROVED") \in Nat /\ SumDays(rs, "PENDING") \in Nat
      /\ r.totalDays \in Nat
  BY SumDaysType DEF Request
<1>6. /\ SumDays(rs \cup {q}, "PENDING") = SumDays(rs, "PENDING")
      /\ \/ SumDays(rs \cup {q}, "APPROVED") = SumDays(rs, "APPROVED") + r.totalDays
         \/ SumDays(rs \cup {q}, "APPROVED") = SumDays(rs, "APPROVED")
  BY <1>1, <1>4 DEF SumDays, Of
<1>7. /\ Available(total, rs \cup {r}) = Available(total, rs) - r.totalDays
      /\ Available(total, rs) = total - SumDays(rs, "APPROVED") - SumDays(rs, "PENDING")
  BY BookedDays DEF Available
<1>8. Available(total, rs \cup {q})
        = total - SumDays(rs \cup {q}, "APPROVED") - SumDays(rs \cup {q}, "PENDING")
  BY DEF Available
<1>9. QED
  BY <1>5, <1>6, <1>7, <1>8

(***************************************************************************)
(* How a put of a request changes the requests of a user.                  *)
(***************************************************************************)
LEMMA PutChanges ==
  ASSUME TypeOK, HistoryInv, ReadsStillHold, NEW c \in Calls \ outdated,
         PutRequest(c), NEW user \in User
  PROVE  LET r == held[c]
             others == {q \in RequestsOf(user) : q.id # r.id}
         IN /\ others \in SUBSET Request /\ IsFiniteSet(others)
            /\ RequestsOf(user)' =
                 IF r.requester = user THEN others \cup {r} ELSE others
            /\ RequestsOf(user) =
                 IF requests[r.id] # Undefined /\ requests[r.id].requester = user
                 THEN others \cup {requests[r.id]} ELSE others
<1> DEFINE r == held[c]
           others == {q \in RequestsOf(user) : q.id # r.id}
<1>1. r \in Request /\ r.id \in Calls /\ requests' = [requests EXCEPT ![r.id] = r]
  BY PutReplaces DEF Replaces
<1>2. others \in SUBSET Request /\ IsFiniteSet(others)
  BY RequestsOfFinite, FS_Subset
<1>3. \A i \in Calls : requests[i] # Undefined => requests[i].id = i
  BY DEF HistoryInv
<1>4. r # Undefined
  BY <1>1, SentinelAssumption
<1>5. others = {requests[i] : i \in {j \in Calls \ {r.id} :
                   requests[j] # Undefined /\ requests[j].requester = user}}
  BY <1>3 DEF RequestsOf
<1> HIDE DEF r
<1>6. \A i \in Calls : requests'[i] = IF i = r.id THEN r ELSE requests[i]
  BY <1>1 DEF TypeOK
<1>7. RequestsOf(user)' =
        IF r.requester = user THEN others \cup {r} ELSE others
  BY <1>1, <1>4, <1>5, <1>6 DEF RequestsOf
<1>8. RequestsOf(user) =
        IF requests[r.id] # Undefined /\ requests[r.id].requester = user
        THEN others \cup {requests[r.id]} ELSE others
  BY <1>1, <1>5 DEF RequestsOf
<1>9. QED
  BY <1>2, <1>7, <1>8 DEF r

LEMMA AvailableType ==
  ASSUME NEW rs \in SUBSET Request, IsFiniteSet(rs), NEW total \in Nat
  PROVE  Available(total, rs) \in Int
<1>1. SumDays(rs, "APPROVED") \in Nat /\ SumDays(rs, "PENDING") \in Nat
  BY SumDaysType
<1>2. QED
  BY <1>1 DEF Available

LEMMA PutOverdrawsNobody ==
  ASSUME TypeOK, HistoryInv, ReadsStillHold, NEW c \in Calls \ outdated,
         PutRequest(c), NEW user \in User,
         ~Overdrawn(user), balances[user] # Undefined
  PROVE  ~(Available(balances[user].totalDays, RequestsOf(user)') < 0)
<1> DEFINE r == held[c]
           old == requests[r.id]
           others == {q \in RequestsOf(user) : q.id # r.id}
           total == balances[user].totalDays
<1>1. total \in Nat
  BY DEF TypeOK, Balance
<1>2. /\ RequestsOf(user) \in SUBSET Request /\ IsFiniteSet(RequestsOf(user))
      /\ Available(total, RequestsOf(user)) \in Int
  BY <1>1, RequestsOfFinite, AvailableType
<1>3. 0 <= Available(total, RequestsOf(user))
  BY <1>2 DEF Overdrawn
<1>4. /\ others \in SUBSET Request /\ IsFiniteSet(others)
      /\ \A s \in others : s.id # r.id
      /\ RequestsOf(user)' =
           IF r.requester = user THEN others \cup {r} ELSE others
      /\ RequestsOf(user) =
           IF old # Undefined /\ old.requester = user
           THEN others \cup {old} ELSE others
  BY PutChanges
<1>5. /\ r \in Request /\ r.id \in Calls /\ r.totalDays \in Nat
      /\ r.status = "PENDING" =>
           r.id = c /\ requests[c] = Undefined /\ Fits(r.requester, r.totalDays)
      /\ r.status # "PENDING" =>
           old # Undefined /\ old.status = "PENDING"
             /\ r = Updated(c, old, r.status)
  BY PutWrites DEF Request
<1> HIDE DEF r, old, others, total
<1>6. CASE r.status = "PENDING"
  <2>1. RequestsOf(user) = others
    BY <1>4, <1>5, <1>6 DEF old
  <2>2. CASE r.requester = user
    <3>1. Available(total, others \cup {r}) = Available(total, others) - r.totalDays
      BY <1>1, <1>4, <1>5, <1>6, BookedDays
    <3>2. r.totalDays <= Available(total, others)
      BY <1>5, <1>6, <2>1, <2>2 DEF Fits, total
    <3>3. Available(total, others) - r.totalDays \in Nat
      BY <1>2, <1>5, <2>1, <3>2
    <3>4. RequestsOf(user)' = others \cup {r}
      BY <1>4, <2>2
    <3>5. Available(total, RequestsOf(user)') \in Nat
      BY <3>1, <3>3, <3>4
    <3>6. QED
      BY <3>5 DEF total
  <2>3. CASE r.requester # user
    <3>1. RequestsOf(user)' = RequestsOf(user)
      BY <1>4, <2>1, <2>3
    <3>2. QED
      BY <1>2, <1>3, <3>1 DEF total
  <2>4. QED
    BY <2>2, <2>3
<1>7. CASE r.status # "PENDING"
  <2>1. old \in Request /\ old # Undefined /\ old.id = r.id
    BY <1>5, <1>7 DEF TypeOK, HistoryInv, old
  <2>2. r.requester = old.requester /\ r.totalDays = old.totalDays
    BY <1>5, <1>7, <2>1 DEF Updated, Request
  <2>3. CASE old.requester = user
    <3>1. /\ Available(total, others \cup {old}) \in Int
          /\ Available(total, others \cup {old}) <= Available(total, others \cup {r})
      BY <1>1, <1>4, <1>5, <1>7, <2>1, <2>2, ResolvedDays
    <3>2. RequestsOf(user) = others \cup {old} /\ RequestsOf(user)' = others \cup {r}
      BY <1>4, <2>1, <2>2, <2>3
    <3>3. others \cup {r} \in SUBSET Request /\ IsFiniteSet(others \cup {r})
      BY <1>4, <1>5, FS_AddElement
    <3>4. Available(total, others \cup {r}) \in Int
      BY <1>1, <3>3, AvailableType
    <3>5. QED
      BY <1>3, <3>1, <3>2, <3>4 DEF total
  <2>4. CASE old.requester # user
    BY <1>2, <1>3, <1>4, <2>2, <2>4 DEF total
  <2>5. QED
    BY <2>3, <2>4
<1>8. QED
  BY <1>6, <1>7

(***************************************************************************)
(* Neither a request nor its resolution overdraws anybody, unless its call *)
(* is outdated or its put lands again: a total that setBalance assigns may.*)
(***************************************************************************)
THEOREM OverdrawnHolds == Spec => OverdrawnOnlyByAssignment
<1> DEFINE Assigned == \A user \in User :
             ~Overdrawn(user) /\ Overdrawn(user)'
               => balances'[user] # balances[user] \/ Disorderly
<1>1. TypeOK /\ HistoryInv /\ ReadsStillHold /\ [Next]_vars => [Assigned]_vars
  <2> SUFFICES ASSUME TypeOK, HistoryInv, ReadsStillHold, Next, NEW user \in User,
                      ~Overdrawn(user), Overdrawn(user)',
                      balances'[user] = balances[user], ~Disorderly
               PROVE  FALSE
    OBVIOUS
  <2>1. balances[user] # Undefined
        /\ Available(balances[user].totalDays, RequestsOf(user)') < 0
    BY DEF Overdrawn, Available
  <2>2. requests' # requests
    BY <2>1 DEF Overdrawn, RequestsOf
  <2>3. PICK c \in Calls \ outdated : PutRequest(c)
    BY <2>2, OnlyPutsWrite DEF PutBalance
  <2>4. QED
    BY <2>1, <2>3, PutOverdrawsNobody
<1>2. QED
  BY <1>1, TypeCorrect, HistoryHolds, ReadsHold, PTL
  DEF Spec, OverdrawnOnlyByAssignment
===============================================================================
