----------------------------- MODULE LeaveLedger ------------------------------
(***************************************************************************)
(* What the vacation module promises, with no handlers, no awaits and no   *)
(* failures: two tables and three atomic operations.  A request is booked  *)
(* only against days that are still available, is resolved once, and an    *)
(* administrator never assigns fewer days than were already approved.      *)
(***************************************************************************)
EXTENDS VacationDays

CONSTANTS
  Ids,          \* request ids
  User,
  Request,      \* every vacation request record
  Balance,      \* every balance record
  Undefined     \* an absent item

VARIABLES requests, balances

vars == <<requests, balances>>

Outcomes == {"APPROVED", "REJECTED", "CANCELLED"}

RequestsOf(user) ==
  {requests[i] : i \in {j \in Ids : requests[j] # Undefined
                                    /\ requests[j].requester = user}}

Init ==
  /\ requests = [i \in Ids |-> Undefined]
  /\ balances \in [User -> Balance \cup {Undefined}]

(***************************************************************************)
(* Only the item of request i changes, to a record of request i.           *)
(***************************************************************************)
Write(i) ==
  /\ requests'[i] \in Request
  /\ requests'[i].id = i
  /\ requests' = [requests EXCEPT ![i] = requests'[i]]
  /\ UNCHANGED balances

(***************************************************************************)
(* A user asks for days: they must be available at that very moment.       *)
(***************************************************************************)
Book(i) ==
  /\ requests[i] = Undefined
  /\ Write(i)
  /\ LET r == requests'[i] IN
       /\ r.status = "PENDING"
       /\ balances[r.requester] # Undefined
       /\ r.totalDays <= Available(balances[r.requester].totalDays,
                                   RequestsOf(r.requester))

(***************************************************************************)
(* A pending request is approved, rejected or cancelled; who asked for it  *)
(* and for which days does not change.                                     *)
(***************************************************************************)
Resolve(i) ==
  /\ requests[i] # Undefined
  /\ requests[i].status = "PENDING"
  /\ Write(i)
  /\ requests'[i].status \in Outcomes
  /\ \A field \in {"requester", "start", "end", "totalDays"} :
       requests'[i][field] = requests[i][field]

(***************************************************************************)
(* An administrator assigns a total that covers the days already approved. *)
(***************************************************************************)
Assign(user) ==
  /\ balances'[user] \in Balance
  /\ SumDays(RequestsOf(user), "APPROVED") <= balances'[user].totalDays
  /\ balances' = [balances EXCEPT ![user] = balances'[user]]
  /\ UNCHANGED requests

Next ==
  \/ \E i \in Ids : Book(i) \/ Resolve(i)
  \/ \E user \in User : Assign(user)

Spec == Init /\ [][Next]_vars
===============================================================================
