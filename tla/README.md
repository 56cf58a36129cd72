# A TLA+ model of the AuthSystem BFF

The repository is one NestJS application, the back end for two single-page
applications: it signs users in through Cognito, keeps the session in an
encrypted cookie, and serves vacation requests, an organization tree, user
administration, profile pictures and encrypted messages. Nothing lives in the
process between calls. All state is in DynamoDB tables, Cognito, S3 and the
cookie, and every handler is an `async` function that reads, checks, writes and
logs, with an `await` (and so a chance for every other handler to run, or for
the call to fail) between any two of those.

The code uses no conditional writes, no transactions and no consistent reads, and
leaves the SDK's retries on. The questions this project asks are therefore: which
promises of the code survive when handlers overlap, fail half way, read stale items
or have their writes repeated; which do not; and which steps, exactly, break those.

A handler here is *outdated* when what it is about to act on is not what the tables
hold: a read returned an old version or a short page, or another write has replaced
since what it read. Nothing in the code prevents that, and nothing in the models
excludes it. They note it, so that a property can say of every step of an
unrestricted system either that it keeps the promise or which of the named disorders
it is.

## Inventory

| component | state | operations | interacts with | hard behaviour | what makes it correct |
|---|---|---|---|---|---|
| vacation (`vacation/`) | tables of requests and of balances | createRequest, approve/reject/cancelRequest, setBalance; seven reads | reads the org tree, writes the audit log | check far from put, whole-item puts, derived balances over an index | no more days booked than assigned and a request resolved once, unless an outdated handler writes; versions of a request agree |
| audit log (`vacation/audit.repo.ts`) | table of entries | write, list | written last by vacation, organization, users, storage | the last write of each operation can fail alone | entries are true; states are accounted for |
| DynamoDB access (`shared/dynamo/`) | none | get, put, delete, query, scan | used by all repositories | stale reads and indexes, one-page queries, failures | - |
| organization (`organization/`) | table of nodes with levels | createNode, updateNode, assignSupervisor, deleteNode; four reads | read by vacation | read-all, recompute in memory, put many | a forest: no cycles, no orphans, one node per user, right levels, unless an outdated handler writes |
| messages (`messages/`) | table of messages | send, list, decrypt, delete | KMS | decrypt writes the record back long after reading it; the SDK repeats writes | content stays what was sent; read only after somebody opened it; a removed message comes back only by a copy somebody read before it was gone, or from a stale replica |
| kms (`kms/`) | none | encrypt, decrypt | KMS, messages | incomplete answers, a tag that does not match | payload and data key stay a pair |
| session and login (`auth/`, `session/`) | the cookie | login, callback, refresh, logout, session, guards | Cognito | each request works on the cookie it brought; several answers set one cookie in any order | a callback completes only its own login; parts of sessions never mix; a logout is undone only by what overlapped it |
| users, roles (`users/`, `roles/`) | Cognito users and groups | create, delete, add to / remove from group, reset password, list | audit log | Cognito call and audit write are not atomic; the groups in the session are as old as the login | what was done was done by an administrator, and is logged or answered 500 |
| profile pictures (`storage/`) | S3 objects | getUploadUrl, get URLs, delete | audit log | an upload URL outlives the call, the session and the account | every picture was announced in the log by its user |
| confinement to a system (`auth/system-access.util.ts`) | none | test of the `X-System` header | session | - | - |
| configuration, bootstrap | cached Lambda handler | - | - | - | - |

`PROJECT.json` lists the components with their status and every hazard at the
line where it bites.

## Modules

| module | what it is |
|---|---|
| `VacationDays` | the arithmetic: `CalculateDays` (calculateDays), `SumDays` (sumDays), `Available` (deriveBalance) |
| `LeaveLedger` | the abstract specification: two tables, three atomic operations `Book`, `Resolve`, `Assign` |
| `Vacation` | the detailed one: every call of `POST /vacation` as a process that stops at each await |
| `MCVacation` | small instances for TLC |
| `VacationProofs` | type correctness, and what holds under any interleaving, failure and stale read |
| `VacationLedgerProofs` | what a handler that is not outdated may trust, and the refinement of `LeaveLedger` |
| `OrgTree` | the tree as a value: `IsAncestor`, `LevelOf`, `Relevelled`, `Roots` by what the source's functions return, the guards of applyReparent (`MayMove`), and what makes a tree a hierarchy |
| `OrgTreeLoops`, `MCOrgTree` | the same functions with the loops and recursions of the source, and their comparison on every small tree |
| `OrgTreeProofs` | facts about trees: what a move, an addition and a removal do to ancestors, cycles and levels |
| `OrgTreeLoopsProofs` | the same comparison on every finite tree, proved |
| `Hierarchy` | the abstract specification: one table of nodes, three atomic operations `Add`, `Move`, `Remove` |
| `Organization` | the detailed one: every call of `POST /organization` that the guards let pass, with the puts it has on their way |
| `MCOrganization` | small instances for TLC |
| `OrganizationProofs` | type correctness, and what holds under any interleaving, lost or repeated put, failure and stale read |
| `OrganizationTreeProofs` | what can close a cycle, what a handler that is not outdated may trust, the refinement of `Hierarchy`, and when levels are right |
| `Kms` | envelope encryption: `Seal`, `Unsealed` |
| `Messages` | every call of `POST /messages` that changes state, with the writes the SDK has on their way |
| `MCMessages`, `MessagesProofs` | a small instance; type correctness and every property of `Messages`, proved |
| `Session` | browsers, their cookies, and login, callback, refresh and logout between them and Cognito |
| `Access` | extends `Session` with what sessions are for: users, roles, pictures and their audit entries; `Next` of the two together |
| `MCAccess`, `AccessProofs` | a small instance; type correctness and every property of `Session` and `Access`, proved |

`Vacation` and `Organization` EXTEND their pure modules (`VacationDays`, `OrgTree`)
and INSTANCE their abstract specifications; `VacationLedgerProofs`
extends `VacationProofs`, `OrganizationTreeProofs` extends `OrganizationProofs` and
`OrgTreeProofs`, `OrgTreeLoopsProofs` extends `MCOrgTree` and `OrgTreeProofs`. Loops and
recursions are recursive functions (`OrgTreeLoops`); no module has a RECURSIVE operator.

### How `Vacation` corresponds to the code

A *call* `c` is one HTTP request together with the UUID and the timestamp it
draws, so the request created by `c` has id `c`, and a record written by `c` has
`updatedAt = c`. `pc[c]` is the await the handler is at, `call[c]` its arguments,
`held[c]` the local value that survives the await, `response[c]` the HTTP status.

| operation | actions, in order |
|---|---|
| createRequest | `CreateRequest` (403, 400) - `ReadBalance` (400) - `CheckAvailable` (400) - `ReadOrgNode` - `ReadSupervisorNode` - `PutRequest` - `WriteAudit` |
| approveRequest, rejectRequest | `ResolveRequest` - `CheckResolve` (404, 403, 400) - `PutRequest` - `WriteAudit` |
| cancelRequest | `ResolveRequest` - `CheckCancel` (404, 403, 400) - `PutRequest` - `WriteAudit` |
| setBalance | `SetBalance` (403, 400) - `CheckUsed` (400) - `PutBalance` |

Each action is the code from the moment an await settles to the next await, and
it includes the effect of the AWS call that has settled. `Fail` is an AWS call
that rejects before taking effect, or a process that dies: the call is answered
500 and keeps what it wrote. A write that takes effect and still fails is `Fail`
at the await after it, and the 500 alternative of `WriteAudit` and `PutBalance`
where there is none.

`PutItem` can take effect more than once: the SDK sends it again when the answer to
the first copy is lost, and either copy may land late. `RequestLandsAgain` and
`BalanceLandsAgain` put any version that was ever put, at any time, also after the
client was answered. A put that first lands after its call was answered 500 is a
`PutRequest` with `Fail` after it, or the 500 of `PutBalance`: the tables go through the
same states, only the answer is later. The audit
log has one item for each entry id, so a repeat of that write changes nothing.

Reads: with `EventualReads` a GetItem (sent without `ConsistentRead`) returns any
version of the item ever put, or nothing, and an index, which cannot be read
consistently at all, holds for each request some version or none. That is weaker than
what DynamoDB documents and so covers it. Without `EventualReads`, reads return the
tables; the runs that look for a violation use that, so that the trace needs no stale
read. The table of organization nodes
belongs to another module and is changed by `TreeChanges` at any time, so reading
it needs no staleness of its own. A query returns one page of at most `PageSize`
items, because `DynamoService.query` never follows `LastEvaluatedKey`.

`outdated` is history. `GoOn` adds a call when a read it goes on from differs from the
tables; a put adds every call that is between such a read and its own put and uses
what the put replaces (`UsesBalance`, `UsesRows`, `UsesItem`). A call leaves with its
put or its answer. It is not refused anything: outdated handlers write as the code does.

Abstracted: emails, names, comments, type of leave, reason, `year`; JSON and
DynamoDB marshalling; the session guard (401) and the missing-parameter check
(400) that answer before the service is entered. Dates are whole numbers of
ticks; a date that does not parse is not modelled. The sum of days is written as
the cardinality of a set of (request, day) pairs, which is the same number and
can be reasoned about without recursion. `written` and `assigned` are history:
the versions ever put, which reads and repeats draw from and properties speak of.

### How `Organization` corresponds to the code

Calls, awaits, failures and reads are as in `Vacation`; the node created by call
`c` has id `c`. `held[c]` is the audit entry to be written at the end. The guards
(session, group Admins) and the missing-parameter check answer before the service
is entered and are left out.

| operation | actions, in order |
|---|---|
| createNode | `CreateNode` - `CheckUser` (400) - `CheckSupervisor` (400), unless the node is a root - `PutLands` - `WriteAudit` |
| updateNode, assignSupervisor | `UpdateNode` or `AssignSupervisor` - `ComputeUpdate` (404, 400) - `PutLands`, once for each changed node - `WriteAudit` |
| deleteNode | `DeleteNode` - `CheckNode` (404) - `CheckSubordinates` (400) - `Delete` - `WriteAudit` |

`await Promise.all(changed.map(put))` sends every put before any has landed.
`outstanding[c]` holds the puts still on their way; `PutLands` lands one of them, in
any order, and the handler goes on after the last. `PutFails` makes Promise.all
reject: the client is answered 500 while the other puts are still on their way, so
the call becomes `abandoned` and its remaining puts land or fail later. A put that
lands and whose answer is lost is `PutLands` with a `PutFails` of another put or a
`Fail` of the audit write after it: the tables go through the same states.
`LandAgain` is the SDK's repeat: any version ever put is put again, or any id ever
deleted (`removed`) is deleted again, at any time.
assignSupervisor differs from updateNode only in the order in which it changes the
node in memory, between two awaits, so both share `ComputeUpdate`; updateNode
without a supervisor (`Undefined`) puts the one node back as it was read.

`outdated`, `crossed` and `disorder` are history, kept by `Note` in every step of a call.
A handler between the read it decides on and its last put is outdated when that read
could not have led it on from the table as it is (`Misled`), or when the table has
changed since. An update with puts on their way is crossed when it was misled or when
the puts of *another update* have changed the table since its scan; creations and
deletions do not cross it. `disorder` becomes true when a crossed update, or a repeat,
changes the table.

`Views` is what a get, a scan or a query may take for the table: the table itself,
or, with `EventualReads`, for every id any version put so far or nothing. The
indexes byUser and bySupervisor are read through it too. Scans follow
`LastEvaluatedKey`; the two queries look at one page, which is enough for the first
node of a user and for "some subordinate exists".

Abstracted: names, emails, position, department, timestamps; an entry of the log
keeps only the supervisor of its details. `LevelOf` counts supervisors with
`Cardinality`, `IsAncestor` quantifies over upward-closed sets: both say what the
source's guarded loops return (run `org_tree`, and `OrgTreeLoopsProofs` for every
finite tree) in a form that can be reasoned about without recursion. In `OrgTreeLoops`
a loop with a `seen` set is a recursive function of the *walk* so far: the id it has
come to and the ids it has seen.

### How `Messages` corresponds to the code

A call `c` is one POST with the UUID and the data key it draws: the message sent by
`c` has id `c` and is sealed under key `c`. `record[c]` is the record the handler
holds, `content[c]` what it has decrypted. The session guard and the
missing-parameter check answer before the service and are left out.

| operation | actions, in order |
|---|---|
| send | `Send` - `Encrypt` (500 when KMS answers incompletely) - `Land` |
| decrypt | `Decrypt` - `ReadRecord` (404) - `Open` (500, 400; 200 when already read) - `Land` |
| delete | `Delete` (403) - `CheckDelete` (404) - `Land` |

Each handler makes at most one write. `SendWrite` gives it to the SDK, which may
send `MaxAttempts` copies: `flying[c]` counts those that may still land. `Land` lands
one, and its answer reaches the handler or is lost; `Fail` answers 500 while copies
may still be on their way, as after a timeout. So a write can take effect never,
once or several times, and after the client was told that it failed. The SDK's standard
retry is not configured in the repository, which uses its default.

`written` holds the versions ever put, `landings[c]` how often the write of `c` has
landed, `racing[m]` which calls could still put message `m` when a delete last
removed it, `misread` the decrypts that read a message when the table did not hold it:
history that reads or properties draw on. `Views` is as in `Vacation`, and the run has
`EventualReads`, as `dynamo.service.ts:36` has it.

Abstracted: type, employee, date, description and level (a member of `Report` stands
for them and the subject), names and time of sending. What JSON.parse refuses, and a
payload too short for iv, tag and text, cannot come from `Seal` and nothing else
writes the table. list and the two `/kms` endpoints change no state.

### How `Session` and `Access` correspond to the code

A call is one HTTP request of a browser. The session lives in the cookie alone, so
`session[c]` is `req.session`: the cookie as it was when the request left. The
handler works on that copy, and `Deliver` puts it in the cookie of the browser when
the answer of a login, callback, refresh or logout arrives: in any order, or never.
`Lapse` is the cookie's `maxAge`. `Fits` is the limit of about 4 KB that the comment
at `auth.controller.ts:55` tells of: a cookie with both tokens and a handshake is
dropped. Cognito is `account`; the account that call `c` creates has `c` as its
`sub`, so a name can be deleted and created again as another account.

| operation | actions, in order |
|---|---|
| login | `Login` - `Deliver` |
| callback | `Callback` (401) - `Exchange` (400, 401, 500) - `Deliver` |
| refresh | `Refresh` (401) - `Renew` (401, 500) - `Deliver` |
| logout | `Logout` - `Deliver` |
| createUser, deleteUser, addToGroup, removeFromGroup, resetPassword | `Administer` (401, 403, 400) - `ChangeAccount` (500) - `WriteAudit` (500) |
| addUser, removeUser of `/roles` | `Administer` (401, 403) - `ChangeAccount` (204, 500) |
| getUploadUrl | `AskPicture` (401, 400) - `WriteAudit` (500); then `Upload`, at any time and repeatedly |
| delete of `/storage` | `AskPicture` (401) - `DeleteObject` (500) - `WriteAudit` (500) |

`Callback` comes for any login whose redirect the browser has followed, in whichever
browser the URL is opened, and for any account, because who signs in at Cognito's
page is not the program's to say. Cognito exchanges the code while the account it was
issued for exists, and refreshes tokens likewise. In `ChangeAccount` and
`DeleteObject` the change can take effect and its answer be lost (500);
in `WriteAudit` the entry likewise.

History: `granted` has the sessions that callbacks were entitled to give, taken from
the *login* the state names and not from the cookie; `atLogout[b]` the requests of
browser `b` that were done and that were open when its last logout took effect;
`last[b]` the answer that set the cookie last; `changed` the calls whose effect on
Cognito or S3 took place.

Abstracted: e-mail, names, passwords, content types, `return_to`, expiry of tokens,
the five minutes a URL is good for (it may be used at any time, which is weaker),
entry details. A user always has a `username`. Callers of `/roles` with a bearer
token, and the check of such tokens, are not modelled.

## Runs

| run | instance | what it shows |
|---|---|---|
| `vac_ledger` | 3 calls interleaved, an employee and an administrator, stale items and indexes, repeated puts | the handlers implement `LeaveLedger`, but for repeats and the puts of outdated calls, although they overlap and any may fail at any await; what a handler read and checked is still so when it writes, unless it is outdated; otherwise only an administrator's new total overdraws a user |
| `vac_concurrent` | 3 calls interleaved, stale reads, pages of one item, repeated puts, half-day ticks, a negative total | the log is true, every state is accounted for, answers are honest, versions of a request agree, the charged days are exactly those of the formula (see the four violations), an outcome is lost only to a repeat or an outdated call |
| `vac_answered` | 2 calls, the tree losing the supervisor's node at any time, weak fairness | every call that arrives is answered |
| `vac_overbook` | 2 calls interleaved, current reads | **violated**: two creates of one user are both stored although only the first fits |
| `vac_final` | 3 calls interleaved, current reads | **violated**: a resolution that overlaps another replaces its outcome |
| `vac_days` | 2 calls, current reads, half-day ticks | **violated**: a period within one day, from its start to noon, is charged two days |
| `org_tree` | every tree over 4 ids, cyclic ones and those with missing supervisors included | isAncestor, recomputeLevels and buildTree terminate and return what `OrgTree` says; the guards of applyReparent refuse exactly the moves that close a cycle; getTree shows every node of exactly the acyclic trees |
| `org_concurrent` | 2 calls interleaved, up to 4 nodes, stale reads, lost, late and repeated puts and deletes | the handlers implement `Hierarchy`, but for repeats and the writes of outdated calls, whichever puts land or fail; a cycle comes only of disorder; a handler that is not outdated may trust its checks; a reparenting that completes, not outdated, leaves right levels everywhere; and, in any case, versions of a node agree on its user, no node is under itself or under an id that never existed, the log is true, every creation is accounted for |
| `org_cycle` | 2 calls interleaved, up to 4 nodes, current reads | **violated**: two overlapping reparentings close a cycle |
| `messages` | 4 calls, 3 at once, stale gets, 2 attempts for each write, a person who may delete and one who may not | versions stay intact, read means opened, and both anomalies of whole-record puts (unread again, back after removal) come only the ways that the properties name |
| `access` | 3 requests, 2 browsers (one of an administrator, one of a user), 2 names, the group Admins, accounts that change | sessions are from logins, no cookie is dropped, a logout is undone only by what overlapped it, changes are by administrators and logged, pictures are announced |

No run and no theorem restricts which calls may overlap, nor which reads may be stale.

Bounds: `Calls` bounds the number of calls over a behaviour. Three calls are
enough for a creation and two calls that race over it, for create-approve-assign and
create-create-approve, where availability can go wrong, all three overlapping or one
after the other; two for a race of creations. Totals of one to three days
against periods of one to three days make both outcomes of every comparison
happen. Calls are symmetric (no value depends on which call is which), and
`CallSymmetry` is used only where no liveness is checked. `PageSize` is one in
`vac_concurrent`, so that a query misses requests (the hazard at
`dynamo.service.ts:71`), and not below the number of items elsewhere: in `vac_ledger`
the stale index already shows every subset of them. In `vac_concurrent`
an employee, a boss without a group who is her supervisor in the tree, and an
administrator cover the ways to be entitled; `Managers` is empty because a
manager differs from an administrator only in setBalance, which an ordinary user
already shows refused.

For the tree, two calls on one tree of two roots and one of a root and its subordinate
allow every race of two operations: two creations for one user, a creation under a node
that is being moved or deleted, a deletion between the scan and the puts of a
reparenting that brings the node back, a reparenting with two puts that land in either
order or not at all, two reparentings. What would take a third call is there by other
means: a stale read returns whatever a further, earlier call might have left, and a
repeat changes the table at any moment, the completed calls' writes included. With
three calls at once the run takes longer than a check kept beside the code should;
the theorems are for any number. `MaxInFlight` is how many handlers run at once (an
abandoned one counts: its puts are still to land), and is at least the number of calls
in the runs of `Vacation` and `Organization`. The pure functions are compared on four
ids: chains of every length up to three links, two disjoint cycles, a chain that runs
into a cycle.

For messages, four calls are a send, a decrypt and a delete that overlap and one that
reads afterwards; two attempts let every write land before and after any other. With
three requests a login, its callback and a request that overlaps both fit, and the
sessions there are initially spare the login for refresh, logout and administration:
a refresh that overlaps a logout, a role removed while its holder works, an account
deleted between code and exchange, or deleted and created again. Two browsers are
needed for a callback opened in the wrong one.

Fairness: `FairSpec` has weak fairness of `Step(c)` for each call, because the
event loop runs the continuation of every settled await and the AWS SDK settles
every request (answer, error or timeout). Arrivals, failures and changes of the
tree are not fair. `Terminating` lets the bounded system stop without TLC
reporting a deadlock; every other state without successor would be one.

### The four violations

Three come from checks followed by unconditional puts. `createRequest`
(`vacation.service.ts:79-121`) checks available days and then awaits the tree
twice before storing, so two overlapping creations both fit (`vac_overbook`);
`resolveRequest` and `cancelRequest` (`156-180`, `200-216`) check `status` on the item
they read and put the whole item, so the later of two outcomes stays (`vac_final`). All
their traces are with current reads and without repeats. They are not the only way:
stale reads, the index that lags behind the last put, a short page and a repeated put
lose the same promises without any overlap, so a lock in the process would not do. What is
established is the other direction: `ImplementsLedger` and `OutcomesLostOnlyLate` say
that it takes one of these disorders. A condition expression on the put
(`status = PENDING`; for a creation, that there is no item yet) would mend the second
and refuse the repeats as well; the first needs a transaction or a counter of reserved
days in the balance item.

`assignSupervisor` and `updateNode` (`organization.service.ts:83-100`, `113-125`) look
for a cycle in the nodes they scanned. Two administrators who at the same moment hang
A under B and B under A both pass, and the two nodes with everything below them
vanish from `getTree`, which starts at the roots (`org_cycle`). A stale scan can close a
cycle without any overlap, and so can a repeated put. `CyclesOnlyFromCrossing` says that
this is all: creations and deletions, overlapping anything and however stale their
reads, close none, nor does an update whose scan was current and which no other update
or repeat came between.

The fourth is of a comment. `calculateDays` is documented as the inclusive days between
two dates (`vacation.types.ts:101`). It adds one to the distance of the two instants
in days, rounded up. For two instants of the same time of day that is the inclusive
count; but when the period ends at a later time of day than it starts, it is one more
(`vac_days`: a morning is charged two days). `ChargedDaysExact` says when the extra day
is charged and that there is no other deviation. The DTO takes any string for the two
dates (`vacation-action.dto.ts:33-38`).

## Proofs

Every theorem is about the full `Spec`: handlers overlap at will, reads are stale or not
(`EventualReads` is any truth value), pages are short, writes are repeated. The
assumptions are on constants only: `TicksAssumption`, `ConfigAssumption` and
`SentinelAssumption` (constants have their types, the calls of a behaviour are finitely
many, markers are not values). The proofs hold for any number of calls, users, nodes,
periods, totals, page size and ticks per day.

- `TypeCorrect`: `Spec => []TypeOK`. `FrameOK` ties the shape of `call[c]` and
  `held[c]` to `pc[c]`, so the proof checks that every path through a handler
  brings the right values to every await.
- `HistoryHolds`: `Spec => []HistoryInv`, relative to `TypeOK`. `AuditIsTrue`,
  `StatusIsAccountedFor`, `AnswersAreHonest` and `VersionsAgree` are not inductive
  alone: one has to know what each running call carries (`CallOK`) and what each
  stored version owes to the calls it names (`VersionOK`), in particular that the
  version a resolution is about to put agrees with one already put, and that a
  `PENDING` version was put by the request's own creation. A repeat puts a version
  already in `written`, so it disturbs nothing here. The length of a period
  (`WellFormed`) gives `ChargedDaysHold`, by the arithmetic of `CalculateDays`.
  The four properties and the days follow as theorems.
- `ReadsHold`: `Spec => []ReadsStillHold`, inductive relative to `TypeOK` and
  `HistoryInv`. `StillTrue(c)` says what a handler knows at each await. A read that
  lets the handler go on either agrees with the tables, which establishes it, or makes
  the call outdated; a put for one user leaves the requests and the balance of all
  others alone, and whoever uses what it replaces becomes outdated. That the sets
  `UsesBalance`, `UsesRows` and `UsesItem` are enough is what the proof shows: a call
  that no put of these touched can rely on its reads at its own put.
- `LedgerImplemented`, `OverdrawnHolds`, `OutcomesHold`: from `ReadsHold` and
  `HistoryHolds`. The refinement maps `PutRequest` of a call that is not outdated to
  `Book` or `Resolve`, `PutBalance` to `Assign`, every step that writes neither table to
  a stutter, with the tables mapped to themselves; what remains is `Disorderly`. For
  `OverdrawnHolds`, a creation puts what fits and a resolution only lowers the days that
  count against the total, each a sum over requests of which one changed. For
  `OutcomesHold`, a put that is not outdated finds its request `PENDING`, and one that
  makes a request `PENDING` is its creation or a repeat.

For `Organization` the assumptions are `OrgConfigAssumption`, `OrgSentinelAssumption`
(markers are neither values nor numbers) and `TreesAssumption` (the initial tree is a
hierarchy with right levels). The proofs
hold for any number of calls, users and nodes.

- `OrgTypeCorrect`: `Spec => []TypeOK`, by the same plan as `TypeCorrect`; a step of
  call `c` touches nothing of the others (`OnlyOf`, `OthersSame`).
- `OrgHistoryHolds`: `Spec => []HistoryInv`. What survives any overlap rests on what
  the puts still on their way owe to the versions already put (`PutOK`): an update
  puts only nodes of a user who already had that node, under a node already put; and
  an id that is a call is unknown until that call's own put lands. The step of one
  call keeps what the others owe (`OthersOK`). `OrgVersionsHold`, `SupervisorsHold`,
  `OrgAuditHolds` and `CreationHolds` follow.
- `EditHolds`: `Spec => []EditInv`, and `CyclesHold` from it. `Acyclic` is not inductive,
  because the puts of a reparenting land one by one. `EditInv` says that, as long as
  there was no disorder, every mixture of the table with the outstanding puts of an
  update that was not crossed is acyclic. A mixture has the supervisors of the scanned
  tree or of the moved one, and `MoveAcyclic` proves the move harmless: if a set of
  nodes were closed under the new supervisors, its part above the new supervisor would
  be closed under the old ones. A creation adds a node that nothing is under yet
  (`AddAcyclic`), a deletion only removes (`FewerAcyclic`), so neither needs to be current.
- `ChecksHold`: `Spec => []ChecksStillHold`, inductive. It says which checks are still
  true when each write of a handler that is not outdated lands: the user of a creation
  has no node, its supervisor is there, a deletion removes a leaf, an outstanding put
  says of a node what the move makes of it. A step of another handler keeps that
  because it does not change the table, or else the handler is outdated from then on.
- `HierarchyStays`, `HierarchyImplemented`: from `ChecksHold`. Of the puts of an update at
  most one moves a node, so each `PutLands` of a call that is not outdated maps to an
  `Add`, a `Move` or a stutter, and `Delete` to a `Remove`; the abstract tree is the
  table without levels. `HierarchyKept` (no cycle, no orphan, no second node of a user)
  is the consequence in terms of the table; it is a theorem and has no run of its own.
- `LevelsHold`, `LevelsAreRightHolds`. That every level is right is not inductive: the
  puts of a reparenting land in any order, some may be lost, and a lost one leaves wrong
  levels until some later reparenting. `LevelInv` speaks of the tree as it will be when
  the outstanding puts have landed (`AllLanded`) and says that levels are right there,
  from the moment a reparenting that is not outdated sends its puts. That a
  reparenting rewrites every wrong level, also those it did not cause, is what makes
  `LevelsAreRight` true after losses; its step is the one in which the last put lands
  (`LastPutLands`), for the next writer may start, and fail, before this one has written
  the log.

The functions on trees are proved apart from the service, for every tree with finitely
many ids (`OrgTreeProofs`, `OrgTreeLoopsProofs`; `IdAssumption` says so of `MCOrgTree`).

- `ReparentTestExact`: on a tree without cycles the guards of applyReparent refuse
  exactly the moves that would close one. `ShownUnlessCycle`: buildTree can reach every
  node exactly when there is no cycle.
- `IsAncestorLoopCorrect`, `LevelOfLoopCorrect`, `BuildTreeCorrect`: the loops, as
  written, return what `OrgTree` says, on cyclic trees too. A recursive function is
  what satisfies its equation, if anything does, so each proof gives a solution and
  shows that there is no other. The solution of a guarded loop at a walk is the
  `OrgTree` operator on the tree without the nodes seen (`Without`): seeing a node is
  as good as removing it. There is no other, because of the walks on which two
  solutions differ one has seen most, and the next step from it has seen more
  (`LastWalk`). buildTree has no `seen` set and on a cycle its equation has many
  solutions, but they agree on what hangs from a root: every solution has all that is
  below a node (`UnderHasAll`), and of the shown nodes with something too many, the one
  with most nodes above it would have a child with the same (`UnderHasOnly`).
  This is induction over data without an operator as parameter: the well-founded
  order of strict subsets of a finite set gives a minimal set (`MinimalSubset`).
- The four invariants of `MCOrgTree` follow (`IsAncestorAgreesHolds`, `LevelOfAgreesHolds`,
  `TreeShowsAllHolds`, `ReparentGuardsExactHolds`), for any finite set of ids.

For `Messages` the assumptions are `MessagesAssumption` and `MessagesSentinelAssumption`;
the proofs hold for any number of calls, people, attempts and handlers at once and for
both kinds of reads.

- `MessagesTypeCorrect`, then `MessagesInvHolds`. `HeldOK` says that what a decrypt
  holds is a version once put and that it has opened it before it writes, `VersionOK`
  that every version is intact, `ItemOK` that an item is a version of its own message.
  The two anomalies need more: a put of the sender is the only one that stores
  `unread`, so an item unread after it was read means a second landing; and after a
  removal (`AwayOK`) whoever could still put the message was in `racing[m]`, or is in
  `misread`, because a call that reads later finds nothing but by a stale get. The five
  properties follow.

For `Session` and `Access` they are `SessionAssumption` and `SessionSentinelAssumption`,
for any number of browsers, requests, names and groups.

- `AccessTypeCorrect`, then `AccessInvHolds`. `Belongs(b, s)` says which session data
  may ever be in browser `b`: a user granted there with his own tokens and no
  handshake, or a handshake of a login of `b` and no user. It holds of the cookies and
  of every copy a request of `b` works on (`SessionInv`), so no order of deliveries
  can break it, and nothing that belongs is too large for a cookie (`LastInv`).
  `LogoutInv` adds that a refresh that began after the logout took a session along
  only if one was back already. `ChangeInv`, `EntryInv`, `UrlInv` and `PictureInv`
  follow one request from its guard to its entry. The six properties follow.

Only model-checked: `EveryCallIsAnswered`, because liveness under fairness is beyond
this prover. Every other property of a run that TLC finds to hold is a theorem. That
the four violated properties fail is TLC's to show.

## Not modelled, and why

- Operations that change no state: reads of requests, balances, the log, the tree,
  messages, users, roles and pictures, `/kms`, `/auth/session`, `me`, `verify-token`. They
  return what is stored, or fail; the properties are about what is stored. One is
  listed as a hazard (`users.service.ts:48`).
- Bearer tokens: a signature check done by a library, without state. So callers of
  `/roles` are those with a session.
- Configuration and bootstrap: no behaviour over time.
- Confinement to a system: the guard refuses an administrator's session (401) when the
  request carries the header `X-System` of the other system, and only then. It is a test
  of one request that a client avoids by sending no header, so the models' requests are
  those without one, which every session passes.
- Repeated writes of the audit log, which put the same item under the same id, and
  repeated calls of Cognito and S3 beyond the lost answers of `Access`.

## Plan

`Vacation`, `Organization`, `Messages` and `Session` with `Access` are done, as above, and
every safety property their runs check is proved. Left: `Vacation` over the real
`Organization` in place of `TreeChanges`, whose any change at any time covers it.
