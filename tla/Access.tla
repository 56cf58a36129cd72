--------------------------------- MODULE Access ---------------------------------
(***************************************************************************)
(* What sessions are for: UsersService and RolesService change accounts in *)
(* Cognito, StorageService keeps profile pictures in S3, and all but the   *)
(* roles write the audit log afterwards.  Together with Session, because   *)
(* the accounts changed here are those whose logins are exchanged there.   *)
(***************************************************************************)
EXTENDS Session

VARIABLES
  changed,   \* the calls whose effect on Cognito or S3 has taken place
  log,       \* table wfn-audit-logs
  picture    \* picture[u]: the call whose URL the picture of u was uploaded with

administration == <<changed, log, picture>>
vars == <<requests, browsers, account, granted, administration>>

-------------------------------------------------------------------------------
(* users and roles.                                                        *)

UserArgs ==
  [op : {"createUser", "deleteUser", "resetPassword"},
   browser : Browser, username : Username]
    \cup [op : {"addToGroup", "removeFromGroup", "addUser", "removeUser"},
          browser : Browser, username : Username, group : Group]

RoleOps == {"addUser", "removeUser"}

\* Mutant: a session is enough.
MayAdminister(s) == s.user # Undefined

IsAdminSession(s) == s.user # Undefined /\ ADMINS \in s.user.groups

(***************************************************************************)
(* POST /users and /roles: 401 without a session, 403 without Admins, 400  *)
(* from /users for a parameter that is missing.                            *)
(***************************************************************************)
Administer(c) ==
  /\ HasRoom
  /\ \E args \in UserArgs :
       LET s == cookie[args.browser] IN
       /\ Arrive(c, args, s)
       /\ \/ IsAdminSession(s) /\ Wait(c, "cognito")
          \/ ~IsAdminSession(s) /\ Answer(c, IF s.user = Undefined THEN 401 ELSE 403)
          \/ s.user # Undefined /\ args.op \notin RoleOps /\ Answer(c, 400)
       /\ UNCHANGED <<browsers, account, granted, administration>>

(***************************************************************************)
(* The account of the user after what call c asks.                         *)
(***************************************************************************)
NewAccount(c) ==
  LET a == account[call[c].username] IN
  CASE call[c].op = "createUser" -> [sub |-> c, groups |-> {}]
    [] call[c].op = "deleteUser" -> Undefined
    [] call[c].op \in {"addToGroup", "addUser"} ->
         [a EXCEPT !.groups = @ \cup {call[c].group}]
    [] call[c].op \in {"removeFromGroup", "removeUser"} ->
         [a EXCEPT !.groups = @ \ {call[c].group}]
    [] call[c].op = "resetPassword" -> a

\* Mutant: what Cognito refuses is logged all the same.
ChangeAndGoOn(c) ==
  /\ pc[c] = "cognito"
  /\ Wait(c, "audit")
  /\ UNCHANGED <<call, session, browsers, account, granted, administration>>

(***************************************************************************)
(* Cognito does it, and its answer comes or is lost; or it refuses.        *)
(***************************************************************************)
ChangeAccount(c) ==
  LET u == call[c].username IN
  /\ pc[c] = "cognito"
  /\ \/ /\ account[u] = Undefined <=> call[c].op = "createUser"
        /\ account' = [account EXCEPT ![u] = NewAccount(c)]
        /\ changed' = changed \cup {c}
        /\ \/ call[c].op \in RoleOps /\ Answer(c, 204)
           \/ call[c].op \notin RoleOps /\ Wait(c, "audit")
           \/ Answer(c, 500)
     \/ Answer(c, 500) /\ UNCHANGED <<account, changed>>
  /\ UNCHANGED <<call, session, browsers, granted, log, picture>>

-------------------------------------------------------------------------------
(* Profile pictures.                                                       *)

PictureArgs == [op : {"getUploadUrl", "deletePicture"}, browser : Browser]

FirstAwait(op) == IF op = "getUploadUrl" THEN "audit" ELSE "deleteObject"

(***************************************************************************)
(* Signing a URL asks nobody.  400 for a content type not allowed.         *)
(***************************************************************************)
AskPicture(c) ==
  /\ HasRoom
  /\ \E args \in PictureArgs :
       LET s == cookie[args.browser] IN
       /\ Arrive(c, args, s)
       /\ \/ s.user # Undefined /\ Wait(c, FirstAwait(args.op))
          \/ s.user # Undefined /\ args.op = "getUploadUrl" /\ Answer(c, 400)
          \/ s.user = Undefined /\ Answer(c, 401)
       /\ UNCHANGED <<browsers, account, granted, administration>>

(***************************************************************************)
(* The key of the picture of call c, from the session it came with.        *)
(***************************************************************************)
KeyFor(c) == session[c].user.username

(***************************************************************************)
(* The browser uses the URL it was given, once or again.                   *)
(***************************************************************************)
Upload(c) ==
  /\ pc[c] = "answered" /\ call[c].op = "getUploadUrl" /\ response[c] = 200
  /\ picture' = [picture EXCEPT ![KeyFor(c)] = c]
  /\ UNCHANGED <<requests, browsers, account, granted, changed, log>>

DeleteObject(c) ==
  /\ pc[c] = "deleteObject"
  /\ \/ /\ picture' = [picture EXCEPT ![KeyFor(c)] = Undefined]
        /\ changed' = changed \cup {c}
        /\ Wait(c, "audit") \/ Answer(c, 500)
     \/ Answer(c, 500) /\ UNCHANGED <<picture, changed>>
  /\ UNCHANGED <<call, session, browsers, account, granted, log>>

-------------------------------------------------------------------------------
(* The audit log.                                                          *)

Subject(c) ==
  IF call[c].op \in {"getUploadUrl", "deletePicture"}
  THEN session[c].user.username ELSE call[c].username

Entry(c) ==
  [by |-> c, op |-> call[c].op, entityId |-> Subject(c),
   userId |-> session[c].user.sub]

\* Mutant: an entry that cannot be written is not missed.
WriteAuditAtWill(c) ==
  /\ pc[c] = "audit"
  /\ \/ log' = log \cup {Entry(c)}
     \/ UNCHANGED log
  /\ Answer(c, 200)
  /\ UNCHANGED <<call, session, browsers, account, granted, changed, picture>>

WriteAudit(c) ==
  /\ pc[c] = "audit"
  /\ \/ /\ log' = log \cup {Entry(c)}
        /\ Answer(c, 200) \/ Answer(c, 500)
     \/ Answer(c, 500) /\ UNCHANGED log
  /\ UNCHANGED <<call, session, browsers, account, granted, changed, picture>>

-------------------------------------------------------------------------------
(* The specification.                                                      *)

Init ==
  /\ SessionInit
  /\ changed = {} /\ log = {}
  /\ picture = [u \in Username |-> Undefined]

AccessStep(c) ==
  Administer(c) \/ ChangeAccount(c) \/ AskPicture(c) \/ Upload(c)
    \/ DeleteObject(c) \/ WriteAudit(c)

Terminating ==
  /\ \A c \in Calls : pc[c] \in {"answered", "delivered"}
  /\ UNCHANGED vars

Next ==
  \/ \E c \in Calls :
       \/ SessionStep(c) /\ UNCHANGED administration
       \/ AccessStep(c)
  \/ \E b \in Browser : Lapse(b) /\ UNCHANGED administration
  \/ Terminating

Spec == Init /\ [][Next]_vars

-------------------------------------------------------------------------------
(* Type correctness.                                                       *)

LoginArgs == [op : {"login"}, browser : Browser, origin : System]
CallbackArgs ==
  [op : {"callback"}, browser : Browser, state : Calls, username : Username, sub : Sub]
CookieArgs == [op : {"refresh", "logout"}, browser : Browser]
Args == LoginArgs \cup CallbackArgs \cup CookieArgs \cup UserArgs \cup PictureArgs

FrameOK(c) ==
  /\ pc[c] # "unsent" => call[c] \in Args
  /\ pc[c] = "exchange" =>
       /\ call[c] \in CallbackArgs /\ session[c].oauth # Undefined
       /\ pc[call[c].state] # "unsent" /\ call[call[c].state] \in LoginArgs
  /\ pc[c] = "renew" => call[c] \in CookieArgs /\ CanRefresh(session[c])
  /\ pc[c] = "cognito" => call[c] \in UserArgs
  /\ pc[c] = "deleteObject" => call[c] \in PictureArgs
  /\ pc[c] = "audit" =>
       call[c] \in UserArgs \cup PictureArgs /\ call[c].op \notin RoleOps
  /\ pc[c] \in {"cognito", "deleteObject", "audit"} => session[c].user # Undefined
  /\ response[c] # Undefined => pc[c] \in {"answered", "delivered"}

LogEntry ==
  [by : Calls, op : {"createUser", "deleteUser", "resetPassword", "addToGroup",
                     "removeFromGroup", "getUploadUrl", "deletePicture"},
   entityId : Username, userId : Sub]

TypeOK ==
  /\ pc \in [Calls -> {"unsent", "exchange", "renew", "cognito", "audit",
                       "deleteObject", "answered", "delivered"}]
  /\ call \in [Calls -> Args \cup {Undefined}]
  /\ session \in [Calls -> SessionData]
  /\ response \in [Calls -> {200, 204, 302, 400, 401, 403, 500, Undefined}]
  /\ cookie \in [Browser -> SessionData]
  /\ last \in [Browser -> Calls \cup {Undefined}]
  /\ atLogout \in [Browser ->
                     [done : SUBSET Calls, open : SUBSET Calls] \cup {Undefined}]
  /\ account \in [Username -> Account \cup {Undefined}]
  /\ granted \subseteq [browser : Browser, user : User]
  /\ changed \subseteq Calls
  /\ log \subseteq LogEntry
  /\ picture \in [Username -> Calls \cup {Undefined}]
  /\ \A c \in Calls : FrameOK(c)

-------------------------------------------------------------------------------
(* Properties.                                                             *)

(***************************************************************************)
(* Accounts are changed only for somebody who was an administrator when    *)
(* he signed in with the browser the request came from, although the       *)
(* session may by then be stale, restored or overwritten by another.       *)
(***************************************************************************)
ChangesByAdmins ==
  \A c \in changed : call[c] \in UserArgs =>
    \E g \in granted :
      /\ g.browser = call[c].browser /\ g.user = session[c].user
      /\ ADMINS \in g.user.groups

(***************************************************************************)
(* The log and what was done agree, whichever call failed in between: an   *)
(* entry names who did it, by a login of his, and was written after it was *)
(* done; and what was done is logged, about to be, answered 500, or was    *)
(* done through /roles, which logs nothing.                                *)
(***************************************************************************)
LogMatchesChanges ==
  /\ \A e \in log :
       /\ e.op = call[e.by].op /\ e.entityId = Subject(e.by)
       /\ e.op = "getUploadUrl" \/ e.by \in changed
       /\ \E g \in granted :
            g.browser = call[e.by].browser /\ g.user.sub = e.userId
  /\ \A c \in changed :
       \/ pc[c] = "audit" \/ call[c].op \in RoleOps \/ response[c] = 500
       \/ response[c] = 200 /\ \E e \in log : e.by = c

(***************************************************************************)
(* Every picture was announced: the log says that the user it is of asked  *)
(* for the URL, though the URL outlives the call, the session and, as it   *)
(* goes by the name, the account.                                          *)
(***************************************************************************)
PicturesAnnounced ==
  \A u \in Username : picture[u] # Undefined =>
    \E e \in log :
      /\ e.by = picture[u] /\ e.op = "getUploadUrl" /\ e.entityId = u
      /\ \E g \in granted :
           /\ g.browser = call[e.by].browser
           /\ g.user.username = u /\ g.user.sub = e.userId

-------------------------------------------------------------------------------
(* The inductive invariant behind them.                                    *)

(***************************************************************************)
(* Session data that browser b may have: the user of a login of its own    *)
(* with his tokens, or the handshake of such a login, or neither.          *)
(***************************************************************************)
Belongs(b, s) ==
  /\ s.user = Undefined <=> s.tokens = Undefined
  /\ s.user # Undefined =>
       GrantedIn(b, s.user) /\ s.tokens = s.user.sub /\ s.oauth = Undefined
  /\ s.oauth # Undefined =>
       /\ pc[s.oauth.state] # "unsent"
       /\ call[s.oauth.state] = [op |-> "login", browser |-> b, origin |-> s.oauth.origin]

Written(c) == \E e \in log : e.by = c

SessionInv(c) ==
  pc[c] # "unsent" =>
    /\ Belongs(call[c].browser, session[c])
    /\ pc[c] = "exchange" => StateMatches(session[c], call[c].state)
    /\ call[c].op = "login" => StateMatches(session[c], c)
    /\ call[c].op = "logout" => session[c] = Empty
    /\ pc[c] = "delivered" => SetsCookie(c)

ChangeInv(c) ==
  /\ c \in changed \/ pc[c] = "audit" =>
       /\ pc[c] \in {"audit", "answered"}
       /\ call[c] \in UserArgs \cup PictureArgs
       /\ session[c].user # Undefined
  /\ (c \in changed \/ pc[c] \in {"cognito", "audit"}) /\ call[c] \in UserArgs =>
       IsAdminSession(session[c])
  /\ pc[c] = "audit" => call[c].op = "getUploadUrl" \/ c \in changed
  /\ c \in changed =>
       \/ pc[c] = "audit" \/ call[c].op \in RoleOps \/ response[c] = 500
       \/ response[c] = 200 /\ Written(c)

EntryInv(e) ==
  /\ pc[e.by] = "answered" /\ call[e.by] \in UserArgs \cup PictureArgs
  /\ session[e.by].user # Undefined
  /\ e = Entry(e.by)
  /\ e.op = "getUploadUrl" \/ e.by \in changed

UrlInv(c) ==
  pc[c] = "answered" /\ call[c].op = "getUploadUrl" /\ response[c] = 200 => Written(c)

PictureInv(u) ==
  LET c == picture[u] IN
  c # Undefined =>
    /\ pc[c] = "answered" /\ call[c].op = "getUploadUrl" /\ response[c] = 200
    /\ session[c].user # Undefined /\ session[c].user.username = u

LastInv(b) ==
  last[b] # Undefined =>
    /\ pc[last[b]] = "delivered" /\ cookie[b] = session[last[b]]

LogoutInv(b) ==
  atLogout[b] # Undefined =>
    /\ atLogout[b].done \subseteq Done(b)
    /\ cookie[b].user # Undefined => Back(b)
    /\ \A c \in CallsOf(b) \ (atLogout[b].done \cup atLogout[b].open) :
         call[c].op = "refresh" /\ session[c].user # Undefined => Back(b)

AccessInv ==
  /\ TypeOK
  /\ \A b \in Browser : Belongs(b, cookie[b]) /\ LastInv(b) /\ LogoutInv(b)
  /\ \A c \in Calls : SessionInv(c) /\ ChangeInv(c) /\ UrlInv(c)
  /\ \A e \in log : EntryInv(e)
  /\ \A u \in Username : PictureInv(u)
===============================================================================
