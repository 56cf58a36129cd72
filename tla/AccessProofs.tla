------------------------------ MODULE AccessProofs ------------------------------
(***************************************************************************)
(* Theorems about Access and, through it, Session, for any number of       *)
(* calls, browsers, users and groups.                                      *)
(***************************************************************************)
EXTENDS Access, TLAPS

Place == {"unsent", "exchange", "renew", "cognito", "audit", "deleteObject",
          "answered", "delivered"}

Status == {200, 204, 302, 400, 401, 403, 500, Undefined}

-------------------------------------------------------------------------------
(* Lemmas about session data.                                              *)

LEMMA EmptyType == Empty \in SessionData
  BY DEF Empty, SessionData

LEMMA HandshakeType ==
  ASSUME NEW s \in SessionData, NEW c \in Calls, NEW origin \in System
  PROVE  /\ Handshake(s, c, origin) \in SessionData
         /\ Handshake(s, c, origin).user = Undefined
         /\ Handshake(s, c, origin).tokens = Undefined
         /\ Handshake(s, c, origin).oauth = [state |-> c, origin |-> origin]
         /\ [state |-> c, origin |-> origin] \in OAuth
         /\ [state |-> c, origin |-> origin] # Undefined
<1>1. [state |-> c, origin |-> origin] \in OAuth
  BY DEF OAuth
<1>2. [state |-> c, origin |-> origin] # Undefined
  BY <1>1, SessionSentinelAssumption
<1>3. QED
  BY <1>1, <1>2 DEF Handshake, SessionData

LEMMA UserOfType ==
  ASSUME TypeOK, NEW c \in Calls, call[c] \in CallbackArgs,
         AccountLives(call[c].username, call[c].sub), NEW origin \in System
  PROVE  /\ UserOf(c, origin) \in User /\ UserOf(c, origin) # Undefined
         /\ UserOf(c, origin).sub = call[c].sub
         /\ UserOf(c, origin).username = call[c].username
  BY SessionSentinelAssumption
  DEF TypeOK, UserOf, User, Account, AccountLives, CallbackArgs

LEMMA RenewedSame ==
  ASSUME NEW c \in Calls, session[c] \in SessionData
  PROVE  Renewed(c) = session[c]
  BY DEF Renewed, SessionData

LEMMA NewAccountType ==
  ASSUME TypeOK, NEW c \in Calls, call[c] \in UserArgs,
         account[call[c].username] = Undefined <=> call[c].op = "createUser"
  PROVE  NewAccount(c) \in Account \cup {Undefined}
<1>1. account[call[c].username] \in Account \cup {Undefined}
  BY DEF TypeOK, UserArgs
<1>2. CASE call[c].op = "createUser"
  BY <1>2 DEF NewAccount, Account, Sub
<1>3. CASE call[c].op = "deleteUser"
  BY <1>3 DEF NewAccount
<1>4. CASE call[c].op \in {"addToGroup", "addUser"}
  <2>1. account[call[c].username] \in Account /\ call[c].group \in Group
    BY <1>1, <1>4 DEF UserArgs
  <2>2. QED
    BY <1>4, <2>1 DEF NewAccount, Account
<1>5. CASE call[c].op \in {"removeFromGroup", "removeUser"}
  <2>1. account[call[c].username] \in Account /\ call[c].group \in Group
    BY <1>1, <1>5 DEF UserArgs
  <2>2. QED
    BY <1>5, <2>1 DEF NewAccount, Account
<1>6. CASE call[c].op = "resetPassword"
  BY <1>1, <1>6 DEF NewAccount
<1>7. QED
  BY <1>2, <1>3, <1>4, <1>5, <1>6 DEF UserArgs

-------------------------------------------------------------------------------
(* Type correctness.                                                       *)

(***************************************************************************)
(* What a step of call c may touch of the requests: c alone.               *)
(***************************************************************************)
OnlyOf(c) ==
  /\ pc' = [pc EXCEPT ![c] = pc'[c]]
  /\ call' = [call EXCEPT ![c] = call'[c]]
  /\ session' = [session EXCEPT ![c] = session'[c]]
  /\ response' = [response EXCEPT ![c] = response'[c]]

(***************************************************************************)
(* The types of what the requests share.                                   *)
(***************************************************************************)
SharedOK ==
  /\ cookie \in [Browser -> SessionData]
  /\ last \in [Browser -> Calls \cup {Undefined}]
  /\ atLogout \in [Browser ->
                     [done : SUBSET Calls, open : SUBSET Calls] \cup {Undefined}]
  /\ account \in [Username -> Account \cup {Undefined}]
  /\ granted \subseteq [browser : Browser, user : User]
  /\ changed \subseteq Calls
  /\ log \subseteq LogEntry
  /\ picture \in [Username -> Calls \cup {Undefined}]

LEMMA SharedTyped == TypeOK => SharedOK
  BY DEF TypeOK, SharedOK

(***************************************************************************)
(* Such a step keeps the types when it keeps those of c and of what is     *)
(* shared.                                                                 *)
(***************************************************************************)
LEMMA TypeFrame ==
  ASSUME TypeOK, NEW c \in Calls, OnlyOf(c),
         pc[c] # "unsent" => pc'[c] # "unsent" /\ call'[c] = call[c],
         pc'[c] \in Place, call'[c] \in Args \cup {Undefined},
         session'[c] \in SessionData, response'[c] \in Status,
         SharedOK', FrameOK(c)'
  PROVE  TypeOK'
<1>1. \A d \in Calls : FrameOK(d)'
  <2> SUFFICES ASSUME NEW d \in Calls, d # c PROVE FrameOK(d)'
    OBVIOUS
  <2>1. /\ pc'[d] = pc[d] /\ call'[d] = call[d] /\ session'[d] = session[d]
        /\ response'[d] = response[d]
    BY DEF TypeOK, OnlyOf
  <2>2. FrameOK(d)
    BY DEF TypeOK
  <2>3. QED
    <3>1. CASE pc[d] = "exchange"
      <4>1. call[d].state \in Calls
        BY <2>2, <3>1 DEF FrameOK, CallbackArgs
      <4>2. \A e \in Calls : pc[e] # "unsent" => pc'[e] # "unsent" /\ call'[e] = call[e]
        BY DEF TypeOK, OnlyOf
      <4>3. QED
        BY <2>1, <2>2, <3>1, <4>1, <4>2 DEF FrameOK
    <3>2. CASE pc[d] # "exchange"
      BY <2>1, <2>2, <3>2 DEF FrameOK, CanRefresh
    <3>3. QED
      BY <3>1, <3>2
<1>2. /\ pc' \in [Calls -> Place]
      /\ call' \in [Calls -> Args \cup {Undefined}]
  BY DEF TypeOK, OnlyOf, Place
<1>3. /\ session' \in [Calls -> SessionData]
      /\ response' \in [Calls -> Status]
  BY DEF TypeOK, OnlyOf, Status
<1>4. QED
  BY <1>1, <1>2, <1>3 DEF TypeOK, SharedOK, Place, Status

(***************************************************************************)
(* What each kind of step does to its call.                                *)
(***************************************************************************)
LEMMA SameCalls ==
  ASSUME TypeOK, NEW c \in Calls
  PROVE  /\ call' = call =>
              call'[c] = call[c] /\ call' = [call EXCEPT ![c] = call'[c]]
         /\ session' = session =>
              session'[c] = session[c] /\ session' = [session EXCEPT ![c] = session'[c]]
         /\ response' = response =>
              response'[c] = response[c]
                /\ response' = [response EXCEPT ![c] = response'[c]]
         /\ pc' = pc => pc'[c] = pc[c] /\ pc' = [pc EXCEPT ![c] = pc'[c]]
  BY DEF TypeOK

LEMMA ArriveOnly ==
  ASSUME TypeOK, NEW c \in Calls, NEW args, NEW s, Arrive(c, args, s)
  PROVE  /\ pc[c] = "unsent" /\ call'[c] = args /\ session'[c] = s
         /\ response[c] = Undefined
         /\ call' = [call EXCEPT ![c] = call'[c]]
         /\ session' = [session EXCEPT ![c] = session'[c]]
<1>1. FrameOK(c)
  BY DEF TypeOK
<1>2. QED
  BY <1>1 DEF Arrive, TypeOK, FrameOK

LEMMA AnswerOnly ==
  ASSUME TypeOK, NEW c \in Calls, NEW status, Answer(c, status)
  PROVE  /\ pc'[c] = "answered" /\ response'[c] = status
         /\ pc' = [pc EXCEPT ![c] = pc'[c]]
         /\ response' = [response EXCEPT ![c] = response'[c]]
  BY DEF TypeOK, Answer

LEMMA WaitOnly ==
  ASSUME TypeOK, NEW c \in Calls, NEW await, Wait(c, await)
  PROVE  /\ pc'[c] = await /\ response'[c] = response[c]
         /\ response' = response
         /\ pc' = [pc EXCEPT ![c] = pc'[c]]
  BY DEF TypeOK, Wait

LEMMA SharedSame ==
  ASSUME TypeOK, UNCHANGED <<browsers, account, granted, administration>>
  PROVE  SharedOK'
  BY SharedTyped DEF SharedOK, browsers, administration

(***************************************************************************)
(* Requests that are answered when they arrive, or wait for something.     *)
(***************************************************************************)
LEMMA ArriveAnswerType ==
  ASSUME TypeOK, NEW c \in Calls, NEW args \in Args, NEW s \in SessionData,
         NEW status \in Status, Arrive(c, args, s), Answer(c, status),
         UNCHANGED <<browsers, account, granted, administration>>
  PROVE  TypeOK'
<1>1. OnlyOf(c)
  BY ArriveOnly, AnswerOnly DEF OnlyOf
<1>2. FrameOK(c)'
  BY ArriveOnly, AnswerOnly DEF FrameOK
<1>3. pc'[c] \in Place
  BY AnswerOnly DEF Place
<1>4. QED
  BY <1>1, <1>2, <1>3, ArriveOnly, AnswerOnly, SharedSame, TypeFrame

LEMMA ArriveWaitType ==
  ASSUME TypeOK, NEW c \in Calls, NEW args \in Args, NEW s \in SessionData,
         NEW await \in Place, Arrive(c, args, s), Wait(c, await),
         UNCHANGED <<browsers, account, granted, administration>>,
         \/ /\ await = "exchange" /\ args \in CallbackArgs /\ s.oauth # Undefined
            /\ pc[args.state] # "unsent" /\ call[args.state] \in LoginArgs
         \/ await = "renew" /\ args \in CookieArgs /\ CanRefresh(s)
         \/ await = "cognito" /\ args \in UserArgs /\ s.user # Undefined
         \/ await = "deleteObject" /\ args \in PictureArgs /\ s.user # Undefined
         \/ await = "audit" /\ args \in PictureArgs /\ s.user # Undefined
  PROVE  TypeOK'
<1> USE DEF PictureArgs, RoleOps
<1>1. OnlyOf(c)
  BY ArriveOnly, WaitOnly, SameCalls DEF OnlyOf
<1>2. FrameOK(c)'
  <2>1. CASE await = "exchange"
    <3>1. /\ args \in CallbackArgs /\ s.oauth # Undefined
          /\ pc[args.state] # "unsent" /\ call[args.state] \in LoginArgs
      BY <2>1
    <3>2. args.state \in Calls /\ args.state # c
      BY <3>1, ArriveOnly DEF CallbackArgs
    <3>3. pc'[args.state] = pc[args.state] /\ call'[args.state] = call[args.state]
      BY <1>1, <3>2 DEF OnlyOf, TypeOK
    <3>4. QED
      BY <2>1, <3>1, <3>3, ArriveOnly, WaitOnly DEF FrameOK
  <2>2. CASE await # "exchange"
    BY <2>2, ArriveOnly, WaitOnly DEF FrameOK, CanRefresh
  <2>3. QED
    BY <2>1, <2>2
<1>3. response'[c] \in Status
  BY ArriveOnly, WaitOnly DEF Status
<1>4. QED
  BY <1>1, <1>2, <1>3, ArriveOnly, WaitOnly, SharedSame, TypeFrame

LEMMA CookieType ==
  ASSUME TypeOK, NEW b \in Browser
  PROVE  cookie[b] \in SessionData
  BY DEF TypeOK

LEMMA LoginType ==
  ASSUME TypeOK, NEW c \in Calls, Login(c), UNCHANGED administration
  PROVE  TypeOK'
<1>1. PICK b \in Browser, origin \in System :
        /\ Arrive(c, [op |-> "login", browser |-> b, origin |-> origin],
                  Handshake(cookie[b], c, origin))
        /\ Answer(c, 302)
        /\ UNCHANGED <<browsers, account, granted>>
  BY DEF Login
<1>2. [op |-> "login", browser |-> b, origin |-> origin] \in Args
  BY DEF Args, LoginArgs
<1>3. Handshake(cookie[b], c, origin) \in SessionData
  BY CookieType, HandshakeType
<1>4. QED
  BY <1>1, <1>2, <1>3, ArriveAnswerType DEF Status

LEMMA CallbackType ==
  ASSUME TypeOK, NEW c \in Calls, Callback(c), UNCHANGED administration
  PROVE  TypeOK'
<1>1. PICK b \in Browser, state \in Calls, u \in Username :
        /\ pc[state] = "delivered" /\ call[state].op = "login"
        /\ account[u] # Undefined
        /\ Arrive(c, [op |-> "callback", browser |-> b, state |-> state,
                      username |-> u, sub |-> account[u].sub], cookie[b])
        /\ \/ StateMatches(cookie[b], state) /\ Wait(c, "exchange")
           \/ Answer(c, 401)
        /\ UNCHANGED <<browsers, account, granted>>
  BY DEF Callback
<1>2. [op |-> "callback", browser |-> b, state |-> state, username |-> u,
       sub |-> account[u].sub] \in CallbackArgs
  BY <1>1 DEF TypeOK, Account, CallbackArgs
<1>3. CASE Answer(c, 401)
  BY <1>1, <1>2, <1>3, CookieType, ArriveAnswerType DEF Args, Status
<1>4. CASE StateMatches(cookie[b], state) /\ Wait(c, "exchange")
  <2>1. call[state] \in LoginArgs
    <3>1. call[state] \in Args
      BY <1>1 DEF TypeOK, FrameOK
    <3>2. QED
      BY <1>1, <3>1 DEF Args, LoginArgs, CallbackArgs, CookieArgs, UserArgs, PictureArgs
  <2>2. QED
    BY <1>1, <1>2, <1>4, <2>1, CookieType, ArriveWaitType
    DEF Args, Place, StateMatches
<1>5. QED
  BY <1>1, <1>3, <1>4

LEMMA RefreshType ==
  ASSUME TypeOK, NEW c \in Calls, Refresh(c), UNCHANGED administration
  PROVE  TypeOK'
<1>1. PICK b \in Browser :
        /\ Arrive(c, [op |-> "refresh", browser |-> b], cookie[b])
        /\ \/ CanRefresh(cookie[b]) /\ Wait(c, "renew")
           \/ ~CanRefresh(cookie[b]) /\ Answer(c, 401)
        /\ UNCHANGED <<browsers, account, granted>>
  BY DEF Refresh
<1>2. [op |-> "refresh", browser |-> b] \in CookieArgs
  BY DEF CookieArgs
<1>3. CASE Answer(c, 401)
  BY <1>1, <1>2, <1>3, CookieType, ArriveAnswerType DEF Args, Status
<1>4. CASE CanRefresh(cookie[b]) /\ Wait(c, "renew")
  BY <1>1, <1>2, <1>4, CookieType, ArriveWaitType DEF Args, Place
<1>5. QED
  BY <1>1, <1>3, <1>4

LEMMA LogoutType ==
  ASSUME TypeOK, NEW c \in Calls, Logout(c), UNCHANGED administration
  PROVE  TypeOK'
<1>1. PICK b \in Browser :
        /\ Arrive(c, [op |-> "logout", browser |-> b], Empty)
        /\ Answer(c, 200)
        /\ UNCHANGED <<browsers, account, granted>>
  BY DEF Logout, Destroyed
<1>2. [op |-> "logout", browser |-> b] \in Args
  BY DEF CookieArgs, Args
<1>3. QED
  BY <1>1, <1>2, EmptyType, ArriveAnswerType DEF Status

LEMMA AdministerType ==
  ASSUME TypeOK, NEW c \in Calls, Administer(c)
  PROVE  TypeOK'
<1>1. PICK args \in UserArgs :
        LET s == cookie[args.browser] IN
        /\ Arrive(c, args, s)
        /\ \/ IsAdminSession(s) /\ Wait(c, "cognito")
           \/ ~IsAdminSession(s) /\ Answer(c, IF s.user = Undefined THEN 401 ELSE 403)
           \/ s.user # Undefined /\ args.op \notin RoleOps /\ Answer(c, 400)
        /\ UNCHANGED <<browsers, account, granted, administration>>
  BY DEF Administer
<1> DEFINE s == cookie[args.browser]
<1>2. s \in SessionData /\ args \in Args
  BY CookieType DEF UserArgs, Args
<1>3. CASE \E status \in Status : Answer(c, status)
  BY <1>1, <1>2, <1>3, ArriveAnswerType
<1>4. CASE IsAdminSession(s) /\ Wait(c, "cognito")
  BY <1>1, <1>2, <1>4, ArriveWaitType DEF Place, IsAdminSession
<1>5. QED
  <2>1. 400 \in Status /\ (IF s.user = Undefined THEN 401 ELSE 403) \in Status
    BY DEF Status
  <2>2. QED
    BY <1>1, <1>3, <1>4, <2>1

LEMMA AskPictureType ==
  ASSUME TypeOK, NEW c \in Calls, AskPicture(c)
  PROVE  TypeOK'
<1>1. PICK args \in PictureArgs :
        LET s == cookie[args.browser] IN
        /\ Arrive(c, args, s)
        /\ \/ s.user # Undefined /\ Wait(c, FirstAwait(args.op))
           \/ s.user # Undefined /\ args.op = "getUploadUrl" /\ Answer(c, 400)
           \/ s.user = Undefined /\ Answer(c, 401)
        /\ UNCHANGED <<browsers, account, granted, administration>>
  BY DEF AskPicture
<1> DEFINE s == cookie[args.browser]
<1>2. s \in SessionData /\ args \in Args
  BY CookieType DEF PictureArgs, Args
<1>3. CASE Answer(c, 400) \/ Answer(c, 401)
  BY <1>1, <1>2, <1>3, ArriveAnswerType DEF Status
<1>4. CASE s.user # Undefined /\ Wait(c, FirstAwait(args.op))
  <2>1. FirstAwait(args.op) \in {"audit", "deleteObject"}
    BY DEF FirstAwait
  <2>2. QED
    BY <1>1, <1>2, <1>4, <2>1, ArriveWaitType DEF Place
<1>5. QED
  BY <1>1, <1>3, <1>4

(***************************************************************************)
(* Handlers that are done, or go on.                                       *)
(***************************************************************************)
LEMMA AnswerType ==
  ASSUME TypeOK, NEW c \in Calls, pc[c] # "unsent", NEW status \in Status,
         Answer(c, status), call' = call, session' = session, SharedOK'
  PROVE  TypeOK'
<1>1. OnlyOf(c)
  BY AnswerOnly, SameCalls DEF OnlyOf
<1>2. FrameOK(c) /\ call[c] \in Args
  BY DEF TypeOK, FrameOK
<1>3. FrameOK(c)'
  BY <1>2, AnswerOnly, SameCalls DEF FrameOK
<1>4. /\ pc'[c] \in Place /\ call'[c] \in Args /\ session'[c] \in SessionData
      /\ response'[c] \in Status /\ pc'[c] # "unsent" /\ call'[c] = call[c]
  BY <1>2, AnswerOnly, SameCalls DEF Place, TypeOK
<1>5. QED
  BY <1>1, <1>3, <1>4, TypeFrame

LEMMA AuditType ==
  ASSUME TypeOK, NEW c \in Calls, pc[c] \in {"cognito", "deleteObject"},
         call[c].op \notin RoleOps, Wait(c, "audit"), call' = call, session' = session, SharedOK'
  PROVE  TypeOK'
<1>1. OnlyOf(c)
  BY WaitOnly, SameCalls DEF OnlyOf
<1>2. /\ FrameOK(c) /\ call[c] \in UserArgs \cup PictureArgs
      /\ session[c].user # Undefined
  BY DEF TypeOK, FrameOK
<1>3. FrameOK(c)'
  BY <1>2, WaitOnly, SameCalls DEF FrameOK, Args
<1>4. /\ pc'[c] \in Place /\ call'[c] \in Args /\ session'[c] \in SessionData
      /\ response'[c] \in Status /\ pc'[c] # "unsent" /\ call'[c] = call[c]
  BY <1>2, WaitOnly, SameCalls DEF Place, TypeOK, Args, Status
<1>5. QED
  BY <1>1, <1>3, <1>4, TypeFrame

LEMMA ExchangeType ==
  ASSUME TypeOK, NEW c \in Calls, Exchange(c), UNCHANGED administration
  PROVE  TypeOK'
<1>1. /\ pc[c] = "exchange" /\ call[c] \in CallbackArgs
      /\ session[c] \in SessionData /\ session[c].oauth \in OAuth
      /\ FrameOK(c) /\ call[call[c].state] \in LoginArgs
  BY DEF Exchange, NoTokensForCode, TypeOK, FrameOK, SessionData
<1>2. call' = call /\ UNCHANGED <<browsers, account, administration>>
  BY DEF Exchange, NoTokensForCode
<1>3. CASE /\ AccountLives(call[c].username, call[c].sub)
           /\ session' = [session EXCEPT ![c] =
                [user |-> UserOf(c, session[c].oauth.origin),
                 tokens |-> call[c].sub, oauth |-> Undefined]]
           /\ granted' = granted \cup
                {[browser |-> call[call[c].state].browser,
                  user |-> UserOf(c, call[call[c].state].origin)]}
           /\ Answer(c, 302)
  <2>1. UserOf(c, session[c].oauth.origin) \in User
    BY <1>1, <1>3, UserOfType DEF OAuth
  <2>2. session'[c] \in SessionData
    BY <1>1, <1>3, <2>1 DEF TypeOK, SessionData, CallbackArgs
  <2>3. /\ call[call[c].state].browser \in Browser
        /\ call[call[c].state].origin \in System
    BY <1>1 DEF LoginArgs
  <2>4. UserOf(c, call[call[c].state].origin) \in User
    BY <1>1, <1>3, <2>3, UserOfType
  <2>5. SharedOK'
    <3>1. granted' \subseteq [browser : Browser, user : User]
      BY <1>3, <2>3, <2>4 DEF TypeOK
    <3>2. QED
      BY <1>2, <3>1, SharedTyped DEF SharedOK, browsers, administration
  <2>6. OnlyOf(c)
    BY <1>2, <1>3, AnswerOnly, SameCalls DEF OnlyOf, TypeOK
  <2>7. FrameOK(c)'
    BY <1>1, <1>2, <1>3, AnswerOnly, SameCalls DEF FrameOK
  <2>8. call[c] \in Args /\ pc'[c] \in Place
    BY <1>1, <1>3, AnswerOnly DEF Args, Place
  <2>9. QED
    BY <1>1, <1>2, <1>3, <2>2, <2>5, <2>6, <2>7, <2>8, AnswerOnly, SameCalls, TypeFrame
    DEF Status
<1>4. CASE /\ \E status \in {400, 401, 500} : Answer(c, status)
           /\ UNCHANGED <<session, granted>>
  BY <1>1, <1>2, <1>4, AnswerType, SharedSame DEF Status
<1>5. QED
  BY <1>3, <1>4 DEF Exchange, NoTokensForCode

LEMMA RenewType ==
  ASSUME TypeOK, NEW c \in Calls, Renew(c), UNCHANGED administration
  PROVE  TypeOK'
<1>1. /\ pc[c] = "renew" /\ session[c] \in SessionData
      /\ call' = call /\ UNCHANGED <<browsers, account, granted, administration>>
  BY DEF Renew, NoTokensOnRefresh, TypeOK
<1>2. session' = session
  BY <1>1, RenewedSame DEF Renew, NoTokensOnRefresh, TypeOK
<1>3. \E status \in Status : Answer(c, status)
  BY DEF Renew, NoTokensOnRefresh, Status
<1>4. QED
  BY <1>1, <1>2, <1>3, AnswerType, SharedSame

LEMMA DeliverType ==
  ASSUME TypeOK, NEW c \in Calls, Deliver(c), UNCHANGED administration
  PROVE  TypeOK'
<1>1. /\ pc[c] = "answered" /\ pc' = [pc EXCEPT ![c] = "delivered"]
      /\ call' = call /\ session' = session /\ response' = response
      /\ UNCHANGED <<account, granted, administration>>
  BY DEF Deliver
<1>2. pc'[c] = "delivered" /\ pc' = [pc EXCEPT ![c] = pc'[c]]
  BY <1>1 DEF TypeOK
<1>3. OnlyOf(c)
  BY <1>1, <1>2, SameCalls DEF OnlyOf
<1>4. FrameOK(c) /\ call[c] \in Args /\ call[c].browser \in Browser
  <2>1. FrameOK(c) /\ call[c] \in Args
    BY <1>1 DEF TypeOK, FrameOK
  <2>2. QED
    BY <2>1 DEF Args, LoginArgs, CallbackArgs, CookieArgs, UserArgs, PictureArgs
<1>5. FrameOK(c)'
  BY <1>1, <1>2, <1>4 DEF FrameOK
<1>6. SharedOK'
  <2>1. cookie' \in [Browser -> SessionData]
    BY <1>4 DEF TypeOK, Deliver
  <2>2. last' \in [Browser -> Calls \cup {Undefined}]
    BY <1>4 DEF TypeOK, Deliver
  <2>3. atLogout' \in [Browser ->
          [done : SUBSET Calls, open : SUBSET Calls] \cup {Undefined}]
    <3>1. \A d : [done |-> Done(d) \cup {c}, open |-> Open(d) \ {c}]
            \in [done : SUBSET Calls, open : SUBSET Calls]
      BY DEF Done, Open, CallsOf
    <3>2. QED
      BY <1>4, <3>1 DEF TypeOK, Deliver
  <2>4. QED
    BY <1>1, <2>1, <2>2, <2>3, SharedTyped DEF SharedOK, administration
<1>7. QED
  BY <1>1, <1>2, <1>3, <1>4, <1>5, <1>6, SameCalls, TypeFrame DEF Place, Status, TypeOK

LEMMA ChangeAccountType ==
  ASSUME TypeOK, NEW c \in Calls, ChangeAccount(c)
  PROVE  TypeOK'
<1>1. /\ pc[c] = "cognito" /\ call[c] \in UserArgs
      /\ UNCHANGED <<call, session, browsers, granted, log, picture>>
  BY DEF ChangeAccount, TypeOK, FrameOK
<1>2. SharedOK'
  <2>1. /\ account' \in [Username -> Account \cup {Undefined}]
        /\ changed' \subseteq Calls
    <3>1. CASE UNCHANGED <<account, changed>>
      BY <3>1 DEF TypeOK
    <3>2. CASE /\ account[call[c].username] = Undefined <=> call[c].op = "createUser"
               /\ account' = [account EXCEPT ![call[c].username] = NewAccount(c)]
               /\ changed' = changed \cup {c}
      BY <1>1, <3>2, NewAccountType DEF TypeOK
    <3>3. QED
      BY <3>1, <3>2 DEF ChangeAccount
  <2>2. QED
    BY <1>1, <2>1, SharedTyped DEF SharedOK, browsers
<1>3. \/ call[c].op \notin RoleOps /\ Wait(c, "audit")
      \/ \E status \in Status : Answer(c, status)
  BY DEF ChangeAccount, Status
<1>4. QED
  BY <1>1, <1>2, <1>3, AnswerType, AuditType

LEMMA KeyType ==
  ASSUME TypeOK, NEW c \in Calls, session[c].user # Undefined
  PROVE  session[c].user \in User /\ KeyFor(c) \in Username
<1>1. session[c].user \in User
  BY DEF TypeOK, SessionData
<1>2. QED
  BY <1>1 DEF KeyFor, User

LEMMA UploadType ==
  ASSUME TypeOK, NEW c \in Calls, Upload(c)
  PROVE  TypeOK'
<1>1. /\ picture' = [picture EXCEPT ![KeyFor(c)] = c]
      /\ UNCHANGED <<requests, browsers, account, granted, changed, log>>
  BY DEF Upload
<1>2. picture' \in [Username -> Calls \cup {Undefined}]
  BY <1>1 DEF TypeOK
<1>3. \A d \in Calls : FrameOK(d)'
  BY <1>1 DEF TypeOK, FrameOK, requests
<1>4. QED
  BY <1>1, <1>2, <1>3 DEF TypeOK, requests, browsers

LEMMA DeleteObjectType ==
  ASSUME TypeOK, NEW c \in Calls, DeleteObject(c)
  PROVE  TypeOK'
<1>1. /\ pc[c] = "deleteObject"
      /\ UNCHANGED <<call, session, browsers, account, granted, log>>
  BY DEF DeleteObject
<1>2. SharedOK'
  <2>1. /\ picture' \in [Username -> Calls \cup {Undefined}]
        /\ changed' \subseteq Calls
    BY DEF DeleteObject, TypeOK
  <2>2. QED
    BY <1>1, <2>1, SharedTyped DEF SharedOK, browsers
<1>3. /\ Wait(c, "audit") \/ Answer(c, 500)
      /\ call[c].op \notin RoleOps
  BY DEF DeleteObject, TypeOK, FrameOK, PictureArgs, RoleOps
<1>4. QED
  BY <1>1, <1>2, <1>3, AnswerType, AuditType DEF Status

LEMMA EntryType ==
  ASSUME TypeOK, NEW c \in Calls, pc[c] = "audit"
  PROVE  Entry(c) \in LogEntry
<1>1. /\ call[c] \in UserArgs \cup PictureArgs /\ session[c].user # Undefined
      /\ call[c].op \notin RoleOps
  BY DEF TypeOK, FrameOK
<1>2. /\ session[c].user.username \in Username /\ session[c].user.sub \in Sub
  BY <1>1, KeyType DEF User
<1>3. Subject(c) \in Username
  BY <1>1, <1>2 DEF Subject, UserArgs, PictureArgs
<1>4. QED
  BY <1>1, <1>2, <1>3 DEF Entry, LogEntry, UserArgs, PictureArgs, RoleOps

LEMMA WriteAuditType ==
  ASSUME TypeOK, NEW c \in Calls, WriteAudit(c)
  PROVE  TypeOK'
<1>1. /\ pc[c] = "audit"
      /\ UNCHANGED <<call, session, browsers, account, granted, changed, picture>>
  BY DEF WriteAudit
<1>2. SharedOK'
  <2>1. log' \subseteq LogEntry
    BY <1>1, EntryType DEF WriteAudit, TypeOK
  <2>2. QED
    BY <1>1, <2>1, SharedTyped DEF SharedOK, browsers
<1>3. Answer(c, 200) \/ Answer(c, 500)
  BY DEF WriteAudit
<1>4. QED
  BY <1>1, <1>2, <1>3, AnswerType DEF Status

LEMMA LapseType ==
  ASSUME TypeOK, NEW b \in Browser, Lapse(b), UNCHANGED administration
  PROVE  TypeOK'
<1>1. UNCHANGED <<requests, atLogout, account, granted, administration>>
  BY DEF Lapse
<1>2. /\ cookie' \in [Browser -> SessionData]
      /\ last' \in [Browser -> Calls \cup {Undefined}]
  BY EmptyType DEF Lapse, TypeOK
<1>3. \A d \in Calls : FrameOK(d)'
  BY <1>1 DEF TypeOK, FrameOK, requests
<1>4. QED
  BY <1>1, <1>2, <1>3 DEF TypeOK, requests, administration

LEMMA InitType == Init => TypeOK
<1> SUFFICES ASSUME Init PROVE TypeOK
  OBVIOUS
<1>1. \A b \in DOMAIN SignedIn :
        InitialUser(b) \in User /\ SignedIn[b].username \in Sub /\ b \in Browser
  BY SessionAssumption DEF InitialUser, User, Sub, System
<1>2. cookie \in [Browser -> SessionData]
  BY <1>1, EmptyType DEF Init, SessionInit, SessionData
<1>3. account \in [Username -> Account \cup {Undefined}]
  <2>1. \A u \in Username : InitialAccount(u) \in Account \cup {Undefined}
    BY SessionAssumption DEF InitialAccount, Account, Sub
  <2>2. QED
    BY <2>1 DEF Init, SessionInit
<1>4. granted \subseteq [browser : Browser, user : User]
  BY <1>1 DEF Init, SessionInit
<1>5. \A c \in Calls : FrameOK(c)
  BY DEF Init, SessionInit, FrameOK
<1>6. QED
  BY <1>2, <1>3, <1>4, <1>5, EmptyType DEF Init, SessionInit, TypeOK

(***************************************************************************)
(* TypeOK holds in every reachable state: the handlers of AuthController,  *)
(* UsersService and StorageService find what they waited with.             *)
(***************************************************************************)
THEOREM AccessTypeCorrect == Spec => []TypeOK
<1>1. TypeOK /\ [Next]_vars => TypeOK'
  <2> SUFFICES ASSUME TypeOK, [Next]_vars PROVE TypeOK'
    OBVIOUS
  <2>1. ASSUME NEW c \in Calls, SessionStep(c), UNCHANGED administration
        PROVE  TypeOK'
    BY <2>1, LoginType, CallbackType, ExchangeType, RefreshType, RenewType,
       LogoutType, DeliverType DEF SessionStep
  <2>2. ASSUME NEW c \in Calls, AccessStep(c) PROVE TypeOK'
    BY <2>2, AdministerType, ChangeAccountType, AskPictureType, UploadType,
       DeleteObjectType, WriteAuditType DEF AccessStep
  <2>3. ASSUME NEW b \in Browser, Lapse(b), UNCHANGED administration
        PROVE  TypeOK'
    BY <2>3, LapseType
  <2>4. ASSUME UNCHANGED vars PROVE TypeOK'
    <3>1. \A d \in Calls : FrameOK(d)'
      BY <2>4 DEF TypeOK, FrameOK, vars, requests
    <3>2. QED
      BY <2>4, <3>1 DEF TypeOK, vars, requests, browsers, administration
  <2>5. QED
    BY <2>1, <2>2, <2>3, <2>4 DEF Next, Terminating
<1>2. QED
  BY <1>1, InitType, PTL DEF Spec

-------------------------------------------------------------------------------
(* The inductive invariant.                                                *)

(***************************************************************************)
(* What never goes away.                                                   *)
(***************************************************************************)
Grows ==
  /\ granted \subseteq granted' /\ changed \subseteq changed' /\ log \subseteq log'
  /\ \A d \in Calls : pc[d] # "unsent" => pc'[d] # "unsent" /\ call'[d] = call[d]

LEMMA BelongsStays ==
  ASSUME Grows, NEW b \in Browser, NEW s \in SessionData, Belongs(b, s)
  PROVE  Belongs(b, s)'
<1>1. s.oauth # Undefined => s.oauth.state \in Calls
  BY DEF SessionData, OAuth
<1>2. QED
  BY <1>1 DEF Belongs, Grows, GrantedIn

LEMMA BrowserOf ==
  ASSUME TypeOK, NEW c \in Calls, pc[c] # "unsent"
  PROVE  call[c] \in Args /\ call[c].browser \in Browser
<1>1. call[c] \in Args
  BY DEF TypeOK, FrameOK
<1>2. QED
  BY <1>1 DEF Args, LoginArgs, CallbackArgs, CookieArgs, UserArgs, PictureArgs

(***************************************************************************)
(* The calls other than c are as they were.                                *)
(***************************************************************************)
LEMMA OthersStay ==
  ASSUME AccessInv, NEW c \in Calls, OnlyOf(c), Grows,
         changed' \subseteq changed \cup {c}, NEW d \in Calls, d # c
  PROVE  SessionInv(d)' /\ ChangeInv(d)' /\ UrlInv(d)'
<1>1. /\ pc'[d] = pc[d] /\ call'[d] = call[d] /\ session'[d] = session[d]
      /\ response'[d] = response[d] /\ session[d] \in SessionData
      /\ d \in changed' <=> d \in changed
      /\ Written(d) => Written(d)'
  BY DEF AccessInv, TypeOK, OnlyOf, Grows, Written
<1>2. SessionInv(d) /\ ChangeInv(d) /\ UrlInv(d) /\ TypeOK
  BY DEF AccessInv
<1>3. SessionInv(d)'
  <2> SUFFICES ASSUME pc[d] # "unsent" PROVE SessionInv(d)'
    BY <1>1 DEF SessionInv
  <2>1. Belongs(call[d].browser, session[d])'
    <3>1. Belongs(call[d].browser, session[d])
      BY <1>2 DEF SessionInv
    <3>2. QED
      BY <1>1, <1>2, <3>1, BrowserOf, BelongsStays DEF Belongs, GrantedIn
  <2>2. QED
    BY <1>1, <1>2, <2>1 DEF SessionInv, SetsCookie, StateMatches
<1>4. ChangeInv(d)'
  BY <1>1, <1>2 DEF ChangeInv, IsAdminSession
<1>5. UrlInv(d)'
  BY <1>1, <1>2 DEF UrlInv
<1>6. QED
  BY <1>3, <1>4, <1>5

(***************************************************************************)
(* The entries and pictures there are stay right when their calls do.      *)
(***************************************************************************)
LEMMA EntryStays ==
  ASSUME AccessInv, NEW c \in Calls, OnlyOf(c), Grows,
         NEW e \in log, e.by # c
  PROVE  EntryInv(e)'
<1>1. EntryInv(e) /\ e.by \in Calls
  BY DEF AccessInv, TypeOK, LogEntry
<1>2. /\ pc'[e.by] = pc[e.by] /\ call'[e.by] = call[e.by]
      /\ session'[e.by] = session[e.by]
  BY <1>1 DEF OnlyOf, AccessInv, TypeOK
<1>3. QED
  BY <1>1, <1>2 DEF EntryInv, Entry, Subject, Grows

LEMMA PictureStays ==
  ASSUME AccessInv, NEW c \in Calls, OnlyOf(c), NEW u \in Username,
         picture[u] # c, picture'[u] \in {picture[u], Undefined}
  PROVE  PictureInv(u)'
<1>1. CASE picture'[u] = Undefined
  BY <1>1 DEF PictureInv
<1>2. CASE picture'[u] = picture[u] /\ picture[u] # Undefined
  <2>1. PictureInv(u) /\ picture[u] \in Calls
    BY <1>2 DEF AccessInv, TypeOK
  <2>2. /\ pc'[picture[u]] = pc[picture[u]] /\ call'[picture[u]] = call[picture[u]]
        /\ session'[picture[u]] = session[picture[u]]
        /\ response'[picture[u]] = response[picture[u]]
    BY <2>1 DEF OnlyOf, AccessInv, TypeOK
  <2>3. QED
    BY <1>2, <2>1, <2>2 DEF PictureInv
<1>3. QED
  BY <1>1, <1>2

(***************************************************************************)
(* A browser that receives nothing.                                        *)
(***************************************************************************)
LEMMA CookieStays ==
  ASSUME AccessInv, Grows, NEW b \in Browser, cookie'[b] = cookie[b]
  PROVE  Belongs(b, cookie[b])'
<1>1. Belongs(b, cookie[b]) /\ cookie[b] \in SessionData
  BY DEF AccessInv, TypeOK
<1>2. QED
  BY <1>1, BelongsStays DEF Belongs, GrantedIn

LEMMA LastStays ==
  ASSUME AccessInv, NEW c \in Calls, OnlyOf(c), NEW b \in Browser,
         cookie'[b] = cookie[b], last'[b] = last[b], last[b] # c
  PROVE  LastInv(b)'
<1>1. CASE last[b] = Undefined
  BY <1>1 DEF LastInv
<1>2. CASE last[b] # Undefined
  <2>1. LastInv(b) /\ last[b] \in Calls
    BY <1>2 DEF AccessInv, TypeOK
  <2>2. pc'[last[b]] = pc[last[b]] /\ session'[last[b]] = session[last[b]]
    BY <2>1 DEF OnlyOf, AccessInv, TypeOK
  <2>3. QED
    BY <2>1, <2>2 DEF LastInv
<1>3. QED
  BY <1>1, <1>2

(***************************************************************************)
(* Calls that were delivered stay so.                                      *)
(***************************************************************************)
LEMMA DoneStays ==
  ASSUME TypeOK, Grows, NEW c \in Calls, OnlyOf(c), NEW b \in Browser,
         pc[c] = "delivered" => pc'[c] = "delivered"
  PROVE  /\ Done(b) \subseteq Done(b)'
         /\ atLogout'[b] = atLogout[b] /\ Back(b) => Back(b)'
<1>1. Done(b) \subseteq Done(b)'
  <2> SUFFICES ASSUME NEW d \in Done(b) PROVE d \in Done(b)'
    OBVIOUS
  <2>1. /\ d \in Calls /\ pc[d] = "delivered" /\ pc'[d] = "delivered"
        /\ call[d].browser = b /\ call'[d] = call[d]
    BY DEF Done, CallsOf, OnlyOf, TypeOK, Grows
  <2>2. QED
    BY <2>1 DEF Done, CallsOf
<1>2. ASSUME atLogout'[b] = atLogout[b], Back(b) PROVE Back(b)'
  <2>1. PICK d \in Done(b) \ atLogout[b].done :
          \/ call[d].op = "callback"
          \/ call[d].op = "refresh" /\ d \in atLogout[b].open
    BY <1>2 DEF Back
  <2>2. d \in Done(b)' /\ call'[d] = call[d]
    BY <1>1, <2>1 DEF Done, CallsOf, Grows
  <2>3. QED
    BY <1>2, <2>1, <2>2 DEF Back
<1>3. QED
  BY <1>1, <1>2

(***************************************************************************)
(* A refresh has a session that its browser had when it arrived.           *)
(***************************************************************************)
LEMMA LogoutStays ==
  ASSUME AccessInv, Grows, NEW c \in Calls, OnlyOf(c), NEW b \in Browser,
         pc[c] = "delivered" => pc'[c] = "delivered",
         cookie'[b] = cookie[b], atLogout'[b] = atLogout[b],
         pc[c] = "unsent" /\ call'[c].browser = b /\ call'[c].op = "refresh"
           => session'[c] = cookie[b],
         pc[c] # "unsent" /\ call[c].op = "refresh" => session'[c] = session[c]
  PROVE  LogoutInv(b)'
<1> SUFFICES ASSUME atLogout[b] # Undefined PROVE LogoutInv(b)'
  BY DEF LogoutInv
<1>1. LogoutInv(b) /\ TypeOK
  BY DEF AccessInv
<1>2. Done(b) \subseteq Done(b)' /\ (Back(b) => Back(b)')
  BY <1>1, DoneStays
<1>3. atLogout[b].done \subseteq Done(b)' /\ (cookie'[b].user # Undefined => Back(b)')
  BY <1>1, <1>2 DEF LogoutInv
<1>4. ASSUME NEW d \in CallsOf(b)' \ (atLogout[b].done \cup atLogout[b].open),
             call'[d].op = "refresh", session'[d].user # Undefined
      PROVE  Back(b)'
  <2>1. d \in Calls /\ pc'[d] # "unsent" /\ call'[d].browser = b
    BY <1>4 DEF CallsOf
  <2>2. CASE d = c /\ pc[c] = "unsent"
    BY <1>1, <1>2, <1>4, <2>1, <2>2 DEF LogoutInv
  <2>3. CASE d # c \/ pc[c] # "unsent"
    <3>1. /\ pc[d] # "unsent" /\ call'[d] = call[d] /\ session'[d] = session[d]
      BY <1>1, <1>4, <2>1, <2>3 DEF OnlyOf, TypeOK, Grows
    <3>2. d \in CallsOf(b) \ (atLogout[b].done \cup atLogout[b].open)
      BY <1>4, <2>1, <3>1 DEF CallsOf
    <3>3. QED
      BY <1>1, <1>2, <1>4, <3>1, <3>2 DEF LogoutInv
  <2>4. QED
    BY <2>2, <2>3
<1>5. QED
  BY <1>3, <1>4 DEF LogoutInv

(***************************************************************************)
(* The steps of handlers: they bring nothing to a browser.                 *)
(***************************************************************************)
LEMMA HandlerStep ==
  ASSUME AccessInv, TypeOK', Grows, NEW c \in Calls, OnlyOf(c), UNCHANGED browsers,
         pc[c] \notin {"answered", "delivered"},
         changed' \subseteq changed \cup {c},
         \A u \in Username : picture'[u] \in {picture[u], Undefined},
         pc[c] = "unsent" /\ call'[c].op = "refresh"
           => session'[c] = cookie[call'[c].browser],
         pc[c] # "unsent" /\ call[c].op = "refresh" => session'[c] = session[c],
         SessionInv(c)', ChangeInv(c)', UrlInv(c)',
         \A e \in log' \ log : EntryInv(e)'
  PROVE  AccessInv'
<1>1. \A b \in Browser :
        cookie'[b] = cookie[b] /\ last'[b] = last[b] /\ atLogout'[b] = atLogout[b]
  BY DEF browsers
<1>2. ASSUME NEW b \in Browser
      PROVE  Belongs(b, cookie[b])' /\ LastInv(b)' /\ LogoutInv(b)'
  <2>1. last[b] # c
    BY SessionSentinelAssumption DEF AccessInv, LastInv, Sub
  <2>2. QED
    BY <1>1, <2>1, CookieStays, LastStays, LogoutStays
<1>3. \A d \in Calls : SessionInv(d)' /\ ChangeInv(d)' /\ UrlInv(d)'
  BY OthersStay
<1>4. \A e \in log' : EntryInv(e)'
  <2>1. ASSUME NEW e \in log PROVE EntryInv(e)'
    <3>1. e.by # c
      BY DEF AccessInv, EntryInv
    <3>2. QED
      BY <3>1, EntryStays
  <2>2. QED
    BY <2>1
<1>5. ASSUME NEW u \in Username PROVE PictureInv(u)'
  <2>1. picture[u] # c
    BY SessionSentinelAssumption DEF AccessInv, PictureInv, Sub
  <2>2. QED
    BY <2>1, PictureStays
<1>6. QED
  BY <1>2, <1>3, <1>4, <1>5 DEF AccessInv

LEMMA BelongsCookie ==
  ASSUME AccessInv, NEW b \in Browser
  PROVE  Belongs(b, cookie[b]) /\ cookie[b] \in SessionData
  BY DEF AccessInv, TypeOK

LEMMA Unsent ==
  ASSUME AccessInv, NEW c \in Calls, pc[c] = "unsent"
  PROVE  c \notin changed /\ response[c] = Undefined
<1>1. ChangeInv(c) /\ FrameOK(c)
  BY DEF AccessInv, TypeOK
<1>2. QED
  BY <1>1 DEF ChangeInv, FrameOK

LEMMA ArriveInv ==
  ASSUME AccessInv, TypeOK', NEW c \in Calls, NEW args \in Args,
         NEW s \in SessionData, Arrive(c, args, s), OnlyOf(c),
         UNCHANGED <<browsers, account, granted, administration>>,
         \/ Belongs(args.browser, s) /\ args.op # "login"
         \/ /\ args = [op |-> "login", browser |-> args.browser, origin |-> args.origin]
            /\ s.user = Undefined /\ s.tokens = Undefined
            /\ s.oauth = [state |-> c, origin |-> args.origin]
            /\ s.oauth # Undefined,
         args.op = "logout" => s = Empty,
         args.op = "refresh" => s = cookie[args.browser],
         pc'[c] \notin {"unsent", "delivered"},
         pc'[c] = "exchange" => StateMatches(s, args.state),
         pc'[c] = "audit" =>
           args.op = "getUploadUrl" /\ args \in PictureArgs /\ s.user # Undefined,
         pc'[c] = "cognito" => IsAdminSession(s),
         pc'[c] = "answered" /\ args.op = "getUploadUrl" => response'[c] # 200
  PROVE  AccessInv'
<1>1. /\ pc[c] = "unsent" /\ call'[c] = args /\ session'[c] = s
      /\ changed' = changed /\ log' = log /\ granted' = granted /\ picture' = picture
  BY ArriveOnly DEF AccessInv, administration
<1>2. Grows
  BY <1>1 DEF Grows, OnlyOf, AccessInv, TypeOK
<1>3. SessionInv(c)'
  <2>1. Belongs(call[c].browser, session[c])'
    <3>1. CASE Belongs(args.browser, s) /\ args.op # "login"
      <4>1. args.browser \in Browser
        BY DEF Args, LoginArgs, CallbackArgs, CookieArgs, UserArgs, PictureArgs
      <4>2. QED
        BY <1>1, <1>2, <3>1, <4>1, BelongsStays DEF Belongs, GrantedIn
    <3>2. CASE /\ args = [op |-> "login", browser |-> args.browser,
                          origin |-> args.origin]
               /\ s.user = Undefined /\ s.tokens = Undefined
               /\ s.oauth = [state |-> c, origin |-> args.origin]
      BY <1>1, <3>2 DEF Belongs
    <3>3. QED
      BY <3>1, <3>2
  <2>2. args.op = "login" => StateMatches(s, c)
    BY DEF StateMatches
  <2>3. QED
    BY <1>1, <2>1, <2>2 DEF SessionInv, StateMatches
<1>4. ChangeInv(c)' /\ UrlInv(c)'
  <2>1. c \notin changed'
    BY <1>1, Unsent
  <2>2. ChangeInv(c)'
    BY <1>1, <2>1 DEF ChangeInv, IsAdminSession, PictureArgs, UserArgs
  <2>3. UrlInv(c)'
    BY <1>1 DEF UrlInv
  <2>4. QED
    BY <2>2, <2>3
<1>5. \A u \in Username : picture'[u] \in {picture[u], Undefined}
  BY <1>1
<1>6. QED
  BY <1>1, <1>2, <1>3, <1>4, <1>5, HandlerStep

LEMMA ArriveAnswerInv ==
  ASSUME AccessInv, NEW c \in Calls, NEW args \in Args, NEW s \in SessionData,
         NEW status \in Status, Arrive(c, args, s), Answer(c, status),
         UNCHANGED <<browsers, account, granted, administration>>,
         Belongs(args.browser, s), args.op # "login",
         args.op = "logout" => s = Empty,
         args.op = "refresh" => s = cookie[args.browser],
         args.op = "getUploadUrl" => status # 200
  PROVE  AccessInv'
<1>1. TypeOK /\ TypeOK'
  BY ArriveAnswerType DEF AccessInv
<1>2. OnlyOf(c) /\ pc'[c] = "answered" /\ response'[c] = status
  BY <1>1, ArriveOnly, AnswerOnly DEF OnlyOf
<1>3. QED
  BY <1>1, <1>2, ArriveInv

LEMMA ArriveWaitInv ==
  ASSUME AccessInv, TypeOK', NEW c \in Calls, NEW b \in Browser, NEW args \in Args,
         NEW await, Arrive(c, args, cookie[b]), Wait(c, await),
         UNCHANGED <<browsers, account, granted, administration>>,
         args.browser = b, args.op \notin {"login", "logout"},
         await \notin {"unsent", "answered", "delivered"},
         await = "exchange" => StateMatches(cookie[b], args.state),
         await = "audit" =>
           /\ args.op = "getUploadUrl" /\ args \in PictureArgs
           /\ cookie[b].user # Undefined,
         await = "cognito" => IsAdminSession(cookie[b])
  PROVE  AccessInv'
<1>1. OnlyOf(c) /\ pc'[c] = await
  BY ArriveOnly, WaitOnly, SameCalls DEF OnlyOf, AccessInv
<1>2. QED
  BY <1>1, BelongsCookie, ArriveInv

LEMMA EmptyBelongs ==
  ASSUME NEW b \in Browser
  PROVE  Belongs(b, Empty)
  BY DEF Belongs, Empty

LEMMA LoginInv ==
  ASSUME AccessInv, NEW c \in Calls, Login(c), UNCHANGED administration
  PROVE  AccessInv'
<1>1. PICK b \in Browser, origin \in System :
        /\ Arrive(c, [op |-> "login", browser |-> b, origin |-> origin],
                  Handshake(cookie[b], c, origin))
        /\ Answer(c, 302)
        /\ UNCHANGED <<browsers, account, granted>>
  BY DEF Login
<1> DEFINE args == [op |-> "login", browser |-> b, origin |-> origin]
           s == Handshake(cookie[b], c, origin)
<1>2. TypeOK /\ TypeOK'
  BY LoginType DEF AccessInv
<1>3. args \in Args /\ s \in SessionData
  BY <1>2, CookieType, HandshakeType DEF Args, LoginArgs
<1>4. /\ s.user = Undefined /\ s.tokens = Undefined
      /\ s.oauth = [state |-> c, origin |-> origin] /\ s.oauth # Undefined
  BY <1>2, CookieType, HandshakeType
<1>5. OnlyOf(c) /\ pc'[c] = "answered"
  BY <1>1, <1>2, ArriveOnly, AnswerOnly DEF OnlyOf
<1>6. /\ args = [op |-> "login", browser |-> args.browser, origin |-> args.origin]
      /\ args.op = "login" /\ args.origin = origin
      /\ Arrive(c, args, s)
  BY <1>1
<1> HIDE DEF args, s
<1>7. QED
  BY <1>1, <1>2, <1>3, <1>4, <1>5, <1>6, ArriveInv

LEMMA CallbackInv ==
  ASSUME AccessInv, NEW c \in Calls, Callback(c), UNCHANGED administration
  PROVE  AccessInv'
<1>1. PICK b \in Browser, state \in Calls, u \in Username :
        /\ account[u] # Undefined
        /\ Arrive(c, [op |-> "callback", browser |-> b, state |-> state,
                      username |-> u, sub |-> account[u].sub], cookie[b])
        /\ \/ StateMatches(cookie[b], state) /\ Wait(c, "exchange")
           \/ Answer(c, 401)
        /\ UNCHANGED <<browsers, account, granted>>
  BY DEF Callback
<1> DEFINE args == [op |-> "callback", browser |-> b, state |-> state,
                    username |-> u, sub |-> account[u].sub]
<1>2. TypeOK /\ TypeOK'
  BY CallbackType DEF AccessInv
<1>3. args \in Args
  BY <1>1, <1>2 DEF TypeOK, Account, CallbackArgs, Args
<1>4. args.op = "callback" /\ args.browser = b /\ args.state = state
  OBVIOUS
<1> HIDE DEF args
<1>5. CASE Answer(c, 401)
  BY <1>1, <1>3, <1>4, <1>5, BelongsCookie, ArriveAnswerInv DEF Status, args
<1>6. CASE StateMatches(cookie[b], state) /\ Wait(c, "exchange")
  BY <1>1, <1>2, <1>3, <1>4, <1>6, ArriveWaitInv DEF args
<1>7. QED
  BY <1>1, <1>5, <1>6

LEMMA RefreshInv ==
  ASSUME AccessInv, NEW c \in Calls, Refresh(c), UNCHANGED administration
  PROVE  AccessInv'
<1>1. PICK b \in Browser :
        /\ Arrive(c, [op |-> "refresh", browser |-> b], cookie[b])
        /\ \/ CanRefresh(cookie[b]) /\ Wait(c, "renew")
           \/ ~CanRefresh(cookie[b]) /\ Answer(c, 401)
        /\ UNCHANGED <<browsers, account, granted>>
  BY DEF Refresh
<1>2. TypeOK /\ TypeOK'
  BY RefreshType DEF AccessInv
<1> DEFINE args == [op |-> "refresh", browser |-> b]
<1>3. args \in Args /\ args.op = "refresh" /\ args.browser = b
  BY DEF CookieArgs, Args
<1>6. Arrive(c, args, cookie[b])
  BY <1>1
<1> HIDE DEF args
<1>4. CASE Answer(c, 401)
  BY <1>1, <1>3, <1>4, <1>6, BelongsCookie, ArriveAnswerInv DEF Status
<1>5. CASE CanRefresh(cookie[b]) /\ Wait(c, "renew")
  BY <1>1, <1>2, <1>3, <1>5, <1>6, ArriveWaitInv
<1>8. QED
  BY <1>1, <1>4, <1>5

LEMMA LogoutKeepsInv ==
  ASSUME AccessInv, NEW c \in Calls, Logout(c), UNCHANGED administration
  PROVE  AccessInv'
<1>1. PICK b \in Browser :
        /\ Arrive(c, [op |-> "logout", browser |-> b], Empty)
        /\ Answer(c, 200)
        /\ UNCHANGED <<browsers, account, granted>>
  BY DEF Logout, Destroyed
<1>2. [op |-> "logout", browser |-> b] \in Args
  BY DEF CookieArgs, Args
<1>3. QED
  BY <1>1, <1>2, EmptyType, EmptyBelongs, ArriveAnswerInv DEF Status

LEMMA AdministerInv ==
  ASSUME AccessInv, NEW c \in Calls, Administer(c)
  PROVE  AccessInv'
<1>1. PICK args \in UserArgs :
        LET s == cookie[args.browser] IN
        /\ Arrive(c, args, s)
        /\ \/ IsAdminSession(s) /\ Wait(c, "cognito")
           \/ ~IsAdminSession(s) /\ Answer(c, IF s.user = Undefined THEN 401 ELSE 403)
           \/ s.user # Undefined /\ args.op \notin RoleOps /\ Answer(c, 400)
        /\ UNCHANGED <<browsers, account, granted, administration>>
  BY DEF Administer
<1> DEFINE b == args.browser
<1>2. TypeOK /\ TypeOK'
  BY AdministerType DEF AccessInv
<1>3. /\ b \in Browser /\ args \in Args
      /\ args.op \notin {"login", "logout", "refresh", "getUploadUrl"}
  BY DEF UserArgs, Args
<1>4. CASE \E status \in Status : Answer(c, status)
  BY <1>1, <1>3, <1>4, BelongsCookie, ArriveAnswerInv
<1>5. CASE IsAdminSession(cookie[b]) /\ Wait(c, "cognito")
  BY <1>1, <1>2, <1>3, <1>5, ArriveWaitInv
<1>6. QED
  <2>1. 400 \in Status /\ (IF cookie[b].user = Undefined THEN 401 ELSE 403) \in Status
    BY DEF Status
  <2>2. QED
    BY <1>1, <1>4, <1>5, <2>1

LEMMA AskPictureInv ==
  ASSUME AccessInv, NEW c \in Calls, AskPicture(c)
  PROVE  AccessInv'
<1>1. PICK args \in PictureArgs :
        LET s == cookie[args.browser] IN
        /\ Arrive(c, args, s)
        /\ \/ s.user # Undefined /\ Wait(c, FirstAwait(args.op))
           \/ s.user # Undefined /\ args.op = "getUploadUrl" /\ Answer(c, 400)
           \/ s.user = Undefined /\ Answer(c, 401)
        /\ UNCHANGED <<browsers, account, granted, administration>>
  BY DEF AskPicture
<1> DEFINE b == args.browser
<1>2. TypeOK /\ TypeOK'
  BY AskPictureType DEF AccessInv
<1>3. /\ b \in Browser /\ args \in Args
      /\ args.op \in {"getUploadUrl", "deletePicture"}
  BY DEF PictureArgs, Args
<1>4. CASE Answer(c, 400) \/ Answer(c, 401)
  BY <1>1, <1>3, <1>4, BelongsCookie, ArriveAnswerInv DEF Status
<1>5. CASE cookie[b].user # Undefined /\ Wait(c, FirstAwait(args.op))
  <2>1. /\ FirstAwait(args.op) \in {"audit", "deleteObject"}
        /\ FirstAwait(args.op) = "audit" => args.op = "getUploadUrl"
    BY <1>3 DEF FirstAwait
  <2>2. QED
    BY <1>1, <1>2, <1>3, <1>5, <2>1, ArriveWaitInv
<1>6. QED
  BY <1>1, <1>4, <1>5

(***************************************************************************)
(* A handler that fails, or is done with nothing but an answer.            *)
(***************************************************************************)
LEMMA PlainAnswerInv ==
  ASSUME AccessInv, TypeOK', NEW c \in Calls, pc[c] \notin {"unsent", "answered", "delivered"},
         NEW status, Answer(c, status), call' = call, session' = session,
         UNCHANGED <<browsers, granted>>,
         \A u \in Username : picture'[u] \in {picture[u], Undefined},
         changed \subseteq changed', changed' \subseteq changed \cup {c}, log \subseteq log',
         c \in changed' =>
           /\ call[c] \in UserArgs \cup PictureArgs /\ session[c].user # Undefined
           /\ call[c] \in UserArgs => IsAdminSession(session[c])
           /\ \/ call[c].op \in RoleOps \/ status = 500
              \/ status = 200 /\ Written(c)',
         call[c].op = "getUploadUrl" => status # 200 \/ Written(c)',
         \A e \in log' \ log : EntryInv(e)'
  PROVE  AccessInv'
<1>1. /\ pc'[c] = "answered" /\ response'[c] = status
      /\ call'[c] = call[c] /\ session'[c] = session[c] /\ OnlyOf(c)
  BY AnswerOnly, SameCalls DEF OnlyOf, AccessInv
<1>2. Grows
  BY <1>1 DEF Grows, OnlyOf, AccessInv, TypeOK
<1>3. TypeOK /\ SessionInv(c)
  BY DEF AccessInv
<1>4. SessionInv(c)'
  <2>1. Belongs(call[c].browser, session[c])'
    <3>1. Belongs(call[c].browser, session[c]) /\ session[c] \in SessionData
      BY <1>3 DEF SessionInv, TypeOK
    <3>2. QED
      BY <1>1, <1>2, <1>3, <3>1, BrowserOf, BelongsStays DEF Belongs, GrantedIn
  <2>2. QED
    BY <1>1, <1>3, <2>1 DEF SessionInv, StateMatches
<1>5. ChangeInv(c)' /\ UrlInv(c)'
  BY <1>1 DEF ChangeInv, UrlInv, IsAdminSession
<1>6. QED
  BY <1>1, <1>2, <1>4, <1>5, HandlerStep

LEMMA ExchangeInv ==
  ASSUME AccessInv, NEW c \in Calls, Exchange(c), UNCHANGED administration
  PROVE  AccessInv'
<1>1. TypeOK /\ TypeOK'
  BY ExchangeType DEF AccessInv
<1>2. /\ pc[c] = "exchange" /\ call[c] \in CallbackArgs
      /\ session[c] \in SessionData
      /\ Belongs(call[c].browser, session[c]) /\ StateMatches(session[c], call[c].state)
      /\ SessionInv(c) /\ ChangeInv(c) /\ UrlInv(c)
      /\ call' = call /\ UNCHANGED <<browsers, account, administration>>
  BY DEF Exchange, NoTokensForCode, AccessInv, SessionInv, TypeOK, FrameOK
<1>3. c \notin changed /\ call[c].op = "callback"
  BY <1>2 DEF ChangeInv, CallbackArgs
<1>4. CASE /\ AccountLives(call[c].username, call[c].sub)
           /\ session' = [session EXCEPT ![c] =
                [user |-> UserOf(c, session[c].oauth.origin),
                 tokens |-> call[c].sub, oauth |-> Undefined]]
           /\ granted' = granted \cup
                {[browser |-> call[call[c].state].browser,
                  user |-> UserOf(c, call[call[c].state].origin)]}
           /\ Answer(c, 302)
  <2> DEFINE user == UserOf(c, session[c].oauth.origin)
  <2>1. /\ call[call[c].state].browser = call[c].browser
        /\ call[call[c].state].origin = session[c].oauth.origin
        /\ session[c].oauth \in OAuth
    BY <1>2 DEF Belongs, StateMatches, SessionData
  <2>2. user # Undefined /\ user.sub = call[c].sub /\ call[c].sub # Undefined
    BY <1>1, <1>2, <1>4, <2>1, UserOfType, SessionSentinelAssumption DEF OAuth, CallbackArgs
  <2>3. [browser |-> call[c].browser, user |-> user] \in granted'
    BY <1>4, <2>1
  <2>4. session'[c] = [user |-> user, tokens |-> call[c].sub, oauth |-> Undefined]
    BY <1>1, <1>4 DEF TypeOK
  <2> HIDE DEF user
  <2>5. /\ OnlyOf(c) /\ pc'[c] = "answered" /\ response'[c] = 302
        /\ call'[c] = call[c]
    BY <1>1, <1>2, <1>4, AnswerOnly, SameCalls DEF OnlyOf, TypeOK
  <2>6. Grows
    BY <1>1, <1>2, <1>4, <2>5 DEF Grows, OnlyOf, TypeOK, administration
  <2>7. SessionInv(c)'
    BY <1>3, <2>2, <2>3, <2>4, <2>5 DEF SessionInv, Belongs, GrantedIn, Empty
  <2>8. ChangeInv(c)' /\ UrlInv(c)'
    BY <1>2, <1>3, <2>5 DEF ChangeInv, UrlInv, administration
  <2>9. QED
    BY <1>1, <1>2, <1>3, <2>5, <2>6, <2>7, <2>8, HandlerStep DEF administration
<1>5. CASE /\ \E status \in {400, 401, 500} : Answer(c, status)
           /\ UNCHANGED <<session, granted>>
  BY <1>1, <1>2, <1>3, <1>5, PlainAnswerInv DEF administration
<1>6. QED
  BY <1>4, <1>5 DEF Exchange, NoTokensForCode

LEMMA RenewInv ==
  ASSUME AccessInv, NEW c \in Calls, Renew(c), UNCHANGED administration
  PROVE  AccessInv'
<1>1. TypeOK /\ TypeOK' /\ ChangeInv(c)
  BY RenewType DEF AccessInv
<1>2. /\ pc[c] = "renew" /\ session[c] \in SessionData /\ call[c] \in CookieArgs
      /\ call' = call /\ UNCHANGED <<browsers, account, granted, administration>>
  BY <1>1 DEF Renew, NoTokensOnRefresh, TypeOK, FrameOK
<1>3. session' = session
  BY <1>1, <1>2, RenewedSame DEF Renew, NoTokensOnRefresh, TypeOK
<1>4. PICK status : Answer(c, status)
  BY DEF Renew, NoTokensOnRefresh
<1>5. c \notin changed /\ call[c].op # "getUploadUrl"
  BY <1>1, <1>2 DEF ChangeInv, CookieArgs
<1>6. QED
  BY <1>1, <1>2, <1>3, <1>4, <1>5, PlainAnswerInv DEF administration

(***************************************************************************)
(* A handler that has done what it was asked goes on to log it.            *)
(***************************************************************************)
LEMMA AuditInv ==
  ASSUME AccessInv, TypeOK', NEW c \in Calls, pc[c] \in {"cognito", "deleteObject"},
         Wait(c, "audit"), call' = call, session' = session,
         UNCHANGED <<browsers, granted, log>>, changed' = changed \cup {c},
         \A u \in Username : picture'[u] \in {picture[u], Undefined}
  PROVE  AccessInv'
<1>1. /\ pc'[c] = "audit" /\ call'[c] = call[c] /\ session'[c] = session[c]
      /\ response'[c] = response[c] /\ OnlyOf(c)
  BY WaitOnly, SameCalls DEF OnlyOf, AccessInv
<1>2. Grows
  BY <1>1 DEF Grows, OnlyOf, AccessInv, TypeOK
<1>3. TypeOK /\ SessionInv(c) /\ ChangeInv(c) /\ FrameOK(c)
  BY DEF AccessInv, TypeOK
<1>4. SessionInv(c)'
  <2>1. Belongs(call[c].browser, session[c])'
    <3>1. Belongs(call[c].browser, session[c]) /\ session[c] \in SessionData
      BY <1>3 DEF SessionInv, TypeOK
    <3>2. QED
      BY <1>1, <1>2, <1>3, <3>1, BrowserOf, BelongsStays DEF Belongs, GrantedIn
  <2>2. QED
    BY <1>1, <1>3, <2>1 DEF SessionInv, StateMatches
<1>5. call[c] \in UserArgs => pc[c] = "cognito"
  BY <1>3 DEF FrameOK, UserArgs, PictureArgs
<1>6. ChangeInv(c)' /\ UrlInv(c)'
  <2>1. /\ call[c] \in UserArgs \cup PictureArgs /\ session[c].user # Undefined
        /\ call[c] \in UserArgs => IsAdminSession(session[c])
    BY <1>3, <1>5 DEF FrameOK, ChangeInv
  <2>2. QED
    BY <1>1, <2>1 DEF ChangeInv, UrlInv, IsAdminSession
<1>7. QED
  BY <1>1, <1>2, <1>4, <1>6, HandlerStep

LEMMA ChangeAccountInv ==
  ASSUME AccessInv, NEW c \in Calls, ChangeAccount(c)
  PROVE  AccessInv'
<1>1. TypeOK /\ TypeOK' /\ ChangeInv(c)
  BY ChangeAccountType DEF AccessInv
<1>2. /\ pc[c] = "cognito" /\ call[c] \in UserArgs /\ session[c].user # Undefined
      /\ UNCHANGED <<call, session, browsers, granted, log, picture>>
  BY <1>1 DEF ChangeAccount, TypeOK, FrameOK
<1>3. c \notin changed /\ IsAdminSession(session[c]) /\ call[c].op # "getUploadUrl"
  BY <1>1, <1>2 DEF ChangeInv, UserArgs
<1>4. CASE changed' = changed \cup {c} /\ Wait(c, "audit")
  BY <1>1, <1>2, <1>4, AuditInv
<1>5. CASE changed' = changed \cup {c} /\ call[c].op \in RoleOps /\ Answer(c, 204)
  BY <1>1, <1>2, <1>3, <1>5, PlainAnswerInv
<1>6. CASE changed' \in {changed, changed \cup {c}} /\ Answer(c, 500)
  BY <1>1, <1>2, <1>3, <1>6, PlainAnswerInv
<1>7. QED
  BY <1>4, <1>5, <1>6 DEF ChangeAccount

LEMMA DeleteObjectInv ==
  ASSUME AccessInv, NEW c \in Calls, DeleteObject(c)
  PROVE  AccessInv'
<1>1. TypeOK /\ TypeOK' /\ ChangeInv(c)
  BY DeleteObjectType DEF AccessInv
<1>2. /\ pc[c] = "deleteObject" /\ call[c] \in PictureArgs
      /\ session[c].user # Undefined
      /\ UNCHANGED <<call, session, browsers, account, granted, log>>
  BY <1>1 DEF DeleteObject, TypeOK, FrameOK
<1>3. \A u \in Username : picture'[u] \in {picture[u], Undefined}
  BY <1>1 DEF DeleteObject, TypeOK
<1>4. call[c] \notin UserArgs
  BY <1>2 DEF UserArgs, PictureArgs
<1>5. CASE changed' = changed \cup {c} /\ Wait(c, "audit")
  BY <1>1, <1>2, <1>3, <1>5, AuditInv
<1>6. CASE changed' \in {changed, changed \cup {c}} /\ Answer(c, 500)
  BY <1>1, <1>2, <1>3, <1>4, <1>6, PlainAnswerInv
<1>7. QED
  BY <1>5, <1>6 DEF DeleteObject

LEMMA WriteAuditInv ==
  ASSUME AccessInv, NEW c \in Calls, WriteAudit(c)
  PROVE  AccessInv'
<1>1. TypeOK /\ TypeOK' /\ ChangeInv(c)
  BY WriteAuditType DEF AccessInv
<1>2. /\ pc[c] = "audit" /\ call[c] \in UserArgs \cup PictureArgs
      /\ session[c].user # Undefined
      /\ UNCHANGED <<call, session, browsers, account, granted, changed, picture>>
  BY <1>1 DEF WriteAudit, TypeOK, FrameOK
<1>3. /\ c \in changed \/ call[c].op = "getUploadUrl"
      /\ call[c] \in UserArgs => IsAdminSession(session[c])
  BY <1>1, <1>2 DEF ChangeInv
<1>4. PICK status \in {200, 500} :
        /\ Answer(c, status)
        /\ \/ log' = log \cup {Entry(c)}
           \/ status = 500 /\ log' = log
  BY DEF WriteAudit
<1>5. pc'[c] = "answered" /\ call'[c] = call[c] /\ session'[c] = session[c]
  BY <1>1, <1>2, <1>4, AnswerOnly, SameCalls
<1>6. \A e \in log' \ log : EntryInv(e)'
  <2> SUFFICES ASSUME NEW e \in log' \ log PROVE EntryInv(e)'
    OBVIOUS
  <2>1. e = Entry(c)
    BY <1>4
  <2>2. /\ e.by = c /\ e.op = call[c].op /\ e = Entry(c)'
    BY <1>5, <2>1 DEF Entry, Subject
  <2>3. QED
    BY <1>2, <1>3, <1>5, <2>2 DEF EntryInv
<1>7. status = 200 => Written(c)'
  <2>1. Entry(c).by = c /\ (status = 200 => Entry(c) \in log')
    BY <1>4 DEF Entry
  <2>2. QED
    BY <2>1 DEF Written
<1>8. QED
  BY <1>1, <1>2, <1>3, <1>4, <1>6, <1>7, PlainAnswerInv

(***************************************************************************)
(* Steps that are no request's.                                            *)
(***************************************************************************)
LEMMA RequestsStay ==
  ASSUME AccessInv, UNCHANGED <<requests, granted, changed, log>>
  PROVE  /\ \A d \in Calls : SessionInv(d)' /\ ChangeInv(d)' /\ UrlInv(d)'
         /\ \A e \in log' : EntryInv(e)'
<1>1. ASSUME NEW d \in Calls PROVE SessionInv(d)' /\ ChangeInv(d)' /\ UrlInv(d)'
  <2>1. SessionInv(d) /\ ChangeInv(d) /\ UrlInv(d)
    BY DEF AccessInv
  <2>2. SessionInv(d)'
    BY <2>1
    DEF SessionInv, Belongs, GrantedIn, StateMatches, SetsCookie, requests
  <2>3. ChangeInv(d)' /\ UrlInv(d)'
    BY <2>1 DEF ChangeInv, UrlInv, Written, IsAdminSession, requests
  <2>4. QED
    BY <2>2, <2>3
<1>2. \A e \in log' : EntryInv(e)'
  BY DEF AccessInv, EntryInv, Entry, Subject, requests
<1>3. QED
  BY <1>1, <1>2

LEMMA BrowserStays ==
  ASSUME AccessInv, UNCHANGED <<requests, granted>>, NEW b \in Browser,
         cookie'[b] = cookie[b], last'[b] = last[b], atLogout'[b] = atLogout[b]
  PROVE  Belongs(b, cookie[b])' /\ LastInv(b)' /\ LogoutInv(b)'
<1>1. Belongs(b, cookie[b]) /\ LastInv(b) /\ LogoutInv(b)
  BY DEF AccessInv
<1>2. Belongs(b, cookie[b])' /\ LastInv(b)'
  BY <1>1 DEF Belongs, GrantedIn, LastInv, requests
<1>3. LogoutInv(b)'
  BY <1>1 DEF LogoutInv, Back, Done, CallsOf, requests
<1>4. QED
  BY <1>2, <1>3

(***************************************************************************)
(* The browser uses a URL: the call was answered 200, so it is logged.     *)
(***************************************************************************)
LEMMA UploadInv ==
  ASSUME AccessInv, NEW c \in Calls, Upload(c)
  PROVE  AccessInv'
<1>1. /\ TypeOK /\ TypeOK'
      /\ pc[c] = "answered" /\ call[c].op = "getUploadUrl" /\ response[c] = 200
      /\ picture' = [picture EXCEPT ![KeyFor(c)] = c]
      /\ UNCHANGED <<requests, browsers, account, granted, changed, log>>
  BY UploadType DEF AccessInv, Upload
<1>2. session[c].user # Undefined
  <2>1. PICK e \in log : e.by = c
    BY <1>1 DEF AccessInv, UrlInv, Written
  <2>2. QED
    BY <2>1 DEF AccessInv, EntryInv
<1>3. ASSUME NEW u \in Username PROVE PictureInv(u)'
  <2>1. CASE u = KeyFor(c)
    BY <1>1, <1>2, <2>1 DEF PictureInv, KeyFor, TypeOK, requests
  <2>2. CASE u # KeyFor(c)
    BY <1>1, <2>2 DEF PictureInv, AccessInv, TypeOK, requests
  <2>3. QED
    BY <2>1, <2>2
<1>4. \A b \in Browser : Belongs(b, cookie[b])' /\ LastInv(b)' /\ LogoutInv(b)'
  BY <1>1, BrowserStays DEF browsers
<1>5. QED
  BY <1>1, <1>3, <1>4, RequestsStay DEF AccessInv

(***************************************************************************)
(* Whose answers are delivered.                                            *)
(***************************************************************************)
LEMMA Delivered ==
  ASSUME AccessInv, NEW c \in Calls, Deliver(c), UNCHANGED administration
  PROVE  /\ pc[c] = "answered" /\ SetsCookie(c) /\ call[c].browser \in Browser
         /\ Belongs(call[c].browser, session[c]) /\ session[c] \in SessionData
         /\ cookie' = [cookie EXCEPT ![call[c].browser] = session[c]]
         /\ last' = [last EXCEPT ![call[c].browser] = c]
         /\ SessionInv(c) /\ c \notin changed /\ call[c] \notin UserArgs \cup PictureArgs
         /\ pc'[c] = "delivered" /\ OnlyOf(c) /\ Grows
         /\ UNCHANGED <<call, session, response, account, granted>>
<1>1. TypeOK /\ SessionInv(c) /\ ChangeInv(c)
  BY DEF AccessInv
<1>2. /\ pc[c] = "answered" /\ SetsCookie(c) /\ pc' = [pc EXCEPT ![c] = "delivered"]
      /\ UNCHANGED <<call, session, response, account, granted>>
  BY DEF Deliver
<1>3. /\ call[c].browser \in Browser /\ session[c] \in SessionData
      /\ Belongs(call[c].browser, session[c])
  BY <1>1, <1>2, BrowserOf DEF SessionInv, TypeOK
<1>4. Fits(session[c])
  BY <1>3 DEF Fits, Belongs
<1>5. call[c] \notin UserArgs \cup PictureArgs
  BY <1>2 DEF SetsCookie, UserArgs, PictureArgs
<1>6. c \notin changed
  BY <1>1, <1>5 DEF ChangeInv
<1>7. pc'[c] = "delivered" /\ OnlyOf(c)
  BY <1>1, <1>2, SameCalls DEF OnlyOf, TypeOK
<1>8. /\ cookie' = [cookie EXCEPT ![call[c].browser] = session[c]]
      /\ last' = [last EXCEPT ![call[c].browser] = c]
  BY <1>4 DEF Deliver
<1>9. Grows
  BY <1>1, <1>2, <1>7 DEF Grows, OnlyOf, TypeOK, administration
<1>10. QED
  BY <1>1, <1>2, <1>3, <1>5, <1>6, <1>7, <1>8, <1>9

(***************************************************************************)
(* The browser that it is delivered to: a refresh was open at the logout,  *)
(* or found the session back.                                              *)
(***************************************************************************)
LEMMA DeliverLogout ==
  ASSUME AccessInv, NEW c \in Calls, Deliver(c), UNCHANGED administration,
         NEW b \in Browser, b = call[c].browser
  PROVE  LogoutInv(b)'
<1>1. TypeOK /\ LogoutInv(b)
  BY DEF AccessInv
<1>2. cookie'[b] = session[c] /\ c \in CallsOf(b)
  BY <1>1, Delivered DEF TypeOK, CallsOf
<1>3. CASE call[c].op = "logout"
  <2>1. /\ atLogout' = [atLogout EXCEPT ![b] =
                          [done |-> Done(b) \cup {c}, open |-> Open(b) \ {c}]]
        /\ session[c] = Empty
    BY <1>3, Delivered DEF Deliver, SessionInv
  <2>2. atLogout'[b] = [done |-> Done(b) \cup {c}, open |-> Open(b) \ {c}]
    BY <1>1, <2>1 DEF TypeOK
  <2>3. Done(b)' = Done(b) \cup {c} /\ CallsOf(b)' = CallsOf(b)
    BY <1>1, <1>2, Delivered DEF Done, CallsOf, OnlyOf, TypeOK
  <2>4. CallsOf(b) \subseteq Done(b) \cup Open(b)
    BY DEF Done, Open
  <2>5. cookie'[b].user = Undefined
    BY <1>2, <2>1 DEF Empty
  <2>6. QED
    BY <2>2, <2>3, <2>4, <2>5 DEF LogoutInv
<1>4. CASE call[c].op # "logout" /\ atLogout[b] # Undefined
  <2>1. atLogout'[b] = atLogout[b]
    BY <1>4 DEF Deliver
  <2>2. Done(b) \subseteq Done(b)' /\ (Back(b) => Back(b)') /\ c \in Done(b)'
    <3>1. c \in Done(b)'
      BY <1>2, Delivered DEF Done, CallsOf
    <3>2. QED
      BY <1>1, <2>1, <3>1, Delivered, DoneStays
  <2>3. c \notin atLogout[b].done
    BY <1>1, <1>4, Delivered DEF LogoutInv, Done
  <2>4. CallsOf(b)' = CallsOf(b)
    BY <1>1, Delivered DEF CallsOf, OnlyOf, TypeOK
  <2>5. cookie'[b].user # Undefined => Back(b)'
    <3> SUFFICES ASSUME session[c].user # Undefined PROVE Back(b)'
      BY <1>2
    <3>1. call[c].op \in {"callback", "refresh"}
      BY <1>4, Delivered DEF SetsCookie, SessionInv, StateMatches, Belongs
    <3>2. CASE call[c].op = "callback" \/ c \in atLogout[b].open
      BY <2>1, <2>2, <2>3, <3>1, <3>2, Delivered DEF Back
    <3>3. CASE call[c].op = "refresh" /\ c \notin atLogout[b].open
      BY <1>1, <1>2, <1>4, <2>2, <2>3, <3>3 DEF LogoutInv
    <3>4. QED
      BY <3>1, <3>2, <3>3
  <2>6. \A d \in CallsOf(b)' \ (atLogout'[b].done \cup atLogout'[b].open) :
          call'[d].op = "refresh" /\ session'[d].user # Undefined => Back(b)'
    BY <1>1, <1>4, <2>1, <2>2, <2>4, Delivered DEF LogoutInv
  <2>7. QED
    BY <1>1, <1>4, <2>1, <2>2, <2>5, <2>6 DEF LogoutInv
<1>5. CASE call[c].op # "logout" /\ atLogout[b] = Undefined
  BY <1>5 DEF Deliver, LogoutInv
<1>6. QED
  BY <1>3, <1>4, <1>5

LEMMA DeliverInv ==
  ASSUME AccessInv, NEW c \in Calls, Deliver(c), UNCHANGED administration
  PROVE  AccessInv'
<1> DEFINE b == call[c].browser
<1>1. TypeOK /\ TypeOK'
  BY DeliverType DEF AccessInv
<1>2. ASSUME NEW d \in Browser
      PROVE  Belongs(d, cookie[d])' /\ LastInv(d)' /\ LogoutInv(d)'
  <2>1. CASE d = b
    <3>1. cookie'[d] = session[c] /\ last'[d] = c /\ session' = session
      BY <1>1, <2>1, Delivered DEF TypeOK
    <3>2. Belongs(d, cookie[d])'
      BY <2>1, <3>1, Delivered, BelongsStays DEF Belongs, GrantedIn
    <3>3. LastInv(d)'
      BY <3>1, Delivered DEF LastInv
    <3>4. QED
      BY <2>1, <3>2, <3>3, DeliverLogout
  <2>2. CASE d # b
    <3>1. /\ cookie'[d] = cookie[d] /\ last'[d] = last[d]
      BY <1>1, <2>2, Delivered DEF TypeOK
    <3>2. atLogout'[d] = atLogout[d]
      BY <1>1, <2>2 DEF Deliver, TypeOK
    <3>3. last[d] # c
      BY Delivered, SessionSentinelAssumption DEF AccessInv, LastInv, Sub
    <3>4. QED
      BY <3>1, <3>2, <3>3, Delivered, CookieStays, LastStays, LogoutStays
  <2>3. QED
    BY <2>1, <2>2
<1>3. SessionInv(c)'
  <2>1. Belongs(call[c].browser, session[c])'
    <3>1. /\ Belongs(call[c].browser, session[c]) /\ Grows
          /\ call[c].browser \in Browser /\ session[c] \in SessionData
          /\ call' = call /\ session' = session
      BY Delivered
    <3>2. QED
      BY <3>1, BelongsStays DEF Belongs, GrantedIn
  <2>2. QED
    BY <2>1, Delivered DEF SessionInv, StateMatches, SetsCookie
<1>4. ChangeInv(c)' /\ UrlInv(c)'
  BY Delivered DEF ChangeInv, UrlInv, administration
<1>5. \A d \in Calls : SessionInv(d)' /\ ChangeInv(d)' /\ UrlInv(d)'
  BY <1>3, <1>4, Delivered, OthersStay DEF administration
<1>6. ASSUME NEW e \in log PROVE EntryInv(e)'
  <2>1. e.by # c
    BY Delivered DEF AccessInv, EntryInv
  <2>2. QED
    BY <2>1, Delivered, EntryStays
<1>7. ASSUME NEW u \in Username PROVE PictureInv(u)'
  <2>1. picture[u] # c
    BY Delivered, SessionSentinelAssumption
    DEF AccessInv, PictureInv, Sub, SetsCookie
  <2>2. QED
    BY <2>1, Delivered, PictureStays DEF administration
<1>8. QED
  BY <1>1, <1>2, <1>5, <1>6, <1>7 DEF AccessInv, administration

LEMMA LapseInv ==
  ASSUME AccessInv, NEW b \in Browser, Lapse(b), UNCHANGED administration
  PROVE  AccessInv'
<1>1. /\ TypeOK /\ TypeOK'
      /\ cookie' = [cookie EXCEPT ![b] = Empty] /\ last' = [last EXCEPT ![b] = Undefined]
      /\ UNCHANGED <<requests, atLogout, account, granted, administration>>
  BY LapseType DEF AccessInv, Lapse
<1>2. ASSUME NEW d \in Browser
      PROVE  Belongs(d, cookie[d])' /\ LastInv(d)' /\ LogoutInv(d)'
  <2>1. CASE d # b
    <3>1. cookie'[d] = cookie[d] /\ last'[d] = last[d] /\ atLogout'[d] = atLogout[d]
      BY <1>1, <2>1 DEF TypeOK
    <3>2. QED
      BY <1>1, <3>1, BrowserStays
  <2>2. CASE d = b
    <3>1. cookie'[b] = Empty /\ last'[b] = Undefined /\ atLogout' = atLogout
      BY <1>1 DEF TypeOK
    <3>2. Belongs(b, cookie[b])' /\ LastInv(b)'
      BY <3>1 DEF Belongs, Empty, LastInv
    <3>3. LogoutInv(b)
      BY DEF AccessInv
    <3>4. LogoutInv(b)'
      BY <1>1, <3>1, <3>3 DEF LogoutInv, Back, Done, CallsOf, Empty, requests
    <3>5. QED
      BY <2>2, <3>2, <3>4
  <2>3. QED
    BY <2>1, <2>2
<1>3. \A u \in Username : PictureInv(u)'
  BY <1>1 DEF AccessInv, PictureInv, requests, administration
<1>4. QED
  BY <1>1, <1>2, <1>3, RequestsStay DEF AccessInv, administration

LEMMA InitInv == Init => AccessInv
<1> SUFFICES ASSUME Init PROVE AccessInv
  OBVIOUS
<1>1. TypeOK
  BY InitType
<1>2. ASSUME NEW b \in Browser
      PROVE  Belongs(b, cookie[b]) /\ LastInv(b) /\ LogoutInv(b)
  <2>1. CASE b \in DOMAIN SignedIn
    <3>1. /\ cookie[b] = [user |-> InitialUser(b), tokens |-> SignedIn[b].username,
                          oauth |-> Undefined]
          /\ [browser |-> b, user |-> InitialUser(b)] \in granted
      BY <2>1 DEF Init, SessionInit
    <3>2. /\ InitialUser(b) \in User /\ InitialUser(b).sub = SignedIn[b].username
          /\ SignedIn[b].username \in Sub
      BY <2>1, SessionAssumption DEF InitialUser, User, Sub, System
    <3>3. InitialUser(b) # Undefined /\ SignedIn[b].username # Undefined
      BY <3>2, SessionSentinelAssumption
    <3>4. Belongs(b, cookie[b])
      BY <3>1, <3>2, <3>3 DEF Belongs, GrantedIn
    <3>5. QED
      BY <3>4 DEF LastInv, LogoutInv, Init, SessionInit
  <2>2. CASE b \notin DOMAIN SignedIn
    <3>1. cookie[b] = Empty
      BY <2>2 DEF Init, SessionInit
    <3>2. QED
      BY <3>1, EmptyBelongs DEF LastInv, LogoutInv, Init, SessionInit
  <2>3. QED
    BY <2>1, <2>2
<1>3. \A c \in Calls : SessionInv(c) /\ ChangeInv(c) /\ UrlInv(c)
  BY DEF Init, SessionInit, SessionInv, ChangeInv, UrlInv
<1>4. \A u \in Username : PictureInv(u)
  BY DEF Init, PictureInv
<1>5. QED
  BY <1>1, <1>2, <1>3, <1>4 DEF AccessInv, Init

(***************************************************************************)
(* AccessInv holds in every reachable state: what sessions, handlers, the  *)
(* log and the pictures know of the logins they go back to.                *)
(***************************************************************************)
THEOREM AccessInvHolds == Spec => []AccessInv
<1>1. AccessInv /\ [Next]_vars => AccessInv'
  <2> SUFFICES ASSUME AccessInv, [Next]_vars PROVE AccessInv'
    OBVIOUS
  <2>1. ASSUME NEW c \in Calls, SessionStep(c), UNCHANGED administration
        PROVE  AccessInv'
    BY <2>1, LoginInv, CallbackInv, ExchangeInv, RefreshInv, RenewInv,
       LogoutKeepsInv, DeliverInv DEF SessionStep
  <2>2. ASSUME NEW c \in Calls, AccessStep(c) PROVE AccessInv'
    BY <2>2, AdministerInv, ChangeAccountInv, AskPictureInv, UploadInv,
       DeleteObjectInv, WriteAuditInv DEF AccessStep
  <2>3. ASSUME NEW b \in Browser, Lapse(b), UNCHANGED administration
        PROVE  AccessInv'
    BY <2>3, LapseInv
  <2>4. ASSUME UNCHANGED vars PROVE AccessInv'
    <3>1. TypeOK'
      <4>1. \A d \in Calls : FrameOK(d)'
        BY <2>4 DEF AccessInv, TypeOK, FrameOK, vars, requests
      <4>2. QED
        BY <2>4, <4>1
        DEF AccessInv, TypeOK, vars, requests, browsers, administration
    <3>2. \A b \in Browser : Belongs(b, cookie[b])' /\ LastInv(b)' /\ LogoutInv(b)'
      BY <2>4, BrowserStays DEF vars, browsers
    <3>3. \A u \in Username : PictureInv(u)'
      BY <2>4 DEF AccessInv, PictureInv, vars, requests, administration
    <3>4. QED
      BY <2>4, <3>1, <3>2, <3>3, RequestsStay DEF AccessInv, vars, administration
  <2>5. QED
    BY <2>1, <2>2, <2>3, <2>4 DEF Next, Terminating
<1>2. QED
  BY <1>1, InitInv, PTL DEF Spec

-------------------------------------------------------------------------------
(* The properties.                                                         *)

(***************************************************************************)
(* SessionsAreFromLogins: the session of a browser names the account, the  *)
(* groups and the system of a login in that browser, with the tokens of    *)
(* that account, whatever callbacks, refreshes and other logins overlap.   *)
(***************************************************************************)
THEOREM SessionsAreFromLoginsHolds == Spec => []SessionsAreFromLogins
<1>1. AccessInv => SessionsAreFromLogins
  <2> SUFFICES ASSUME AccessInv, NEW b \in Browser
               PROVE  LET s == cookie[b] IN
                      /\ s.user # Undefined =>
                           GrantedIn(b, s.user) /\ s.tokens = s.user.sub
                      /\ s.oauth # Undefined =>
                           /\ s.user = Undefined /\ s.tokens = Undefined
                           /\ call[s.oauth.state].op = "login"
                           /\ call[s.oauth.state].browser = b
    BY DEF SessionsAreFromLogins
  <2>1. Belongs(b, cookie[b])
    BY BelongsCookie
  <2>2. QED
    BY <2>1 DEF Belongs
<1>2. QED
  BY <1>1, AccessInvHolds, PTL

(***************************************************************************)
(* CookiesAreKept: no Set-Cookie is too large for the browser, and after   *)
(* the answer of a login its callback finds its state.                     *)
(***************************************************************************)
THEOREM CookiesAreKeptHolds == Spec => []CookiesAreKept
<1>1. AccessInv => CookiesAreKept
  <2> SUFFICES ASSUME AccessInv, NEW b \in Browser, last[b] # Undefined
               PROVE  /\ cookie[b] = session[last[b]]
                      /\ call[last[b]].op = "login" => StateMatches(cookie[b], last[b])
    BY DEF CookiesAreKept
  <2>1. last[b] \in Calls /\ LastInv(b)
    BY DEF AccessInv, TypeOK
  <2>2. SessionInv(last[b])
    BY <2>1 DEF AccessInv
  <2>3. QED
    BY <2>1, <2>2 DEF LastInv, SessionInv
<1>2. QED
  BY <1>1, AccessInvHolds, PTL

(***************************************************************************)
(* LogoutEndsSession: after a logout only a callback, or a refresh that    *)
(* was under way, brings a session back.                                   *)
(***************************************************************************)
THEOREM LogoutEndsSessionHolds == Spec => []LogoutEndsSession
<1>1. AccessInv => LogoutEndsSession
  BY DEF AccessInv, LogoutInv, LogoutEndsSession
<1>2. QED
  BY <1>1, AccessInvHolds, PTL

(***************************************************************************)
(* ChangesByAdmins: an account is changed only for a session whose login,  *)
(* in the browser of the request, was an administrator's.                  *)
(***************************************************************************)
THEOREM ChangesByAdminsHolds == Spec => []ChangesByAdmins
<1>1. AccessInv => ChangesByAdmins
  <2> SUFFICES ASSUME AccessInv, NEW c \in changed, call[c] \in UserArgs
               PROVE  \E g \in granted :
                        /\ g.browser = call[c].browser /\ g.user = session[c].user
                        /\ ADMINS \in g.user.groups
    BY DEF ChangesByAdmins
  <2>1. c \in Calls /\ ChangeInv(c) /\ SessionInv(c)
    BY DEF AccessInv, TypeOK
  <2>2. GrantedIn(call[c].browser, session[c].user) /\ IsAdminSession(session[c])
    BY <2>1 DEF ChangeInv, SessionInv, Belongs
  <2>3. [browser |-> call[c].browser, user |-> session[c].user] \in granted
    BY <2>2 DEF GrantedIn
  <2>4. QED
    BY <2>2, <2>3 DEF IsAdminSession
<1>2. QED
  BY <1>1, AccessInvHolds, PTL

(***************************************************************************)
(* What an entry of the log is about has been done, by somebody with a     *)
(* login.                                                                  *)
(***************************************************************************)
LEMMA EntryGranted ==
  ASSUME AccessInv, NEW e \in log
  PROVE  /\ e.by \in Calls /\ e = Entry(e.by)
         /\ session[e.by].user # Undefined /\ session[e.by].user \in User
         /\ GrantedIn(call[e.by].browser, session[e.by].user)
         /\ e.op = call[e.by].op /\ e.entityId = Subject(e.by)
         /\ e.userId = session[e.by].user.sub
<1>1. EntryInv(e) /\ e.by \in Calls /\ SessionInv(e.by)
  BY DEF AccessInv, TypeOK, LogEntry
<1>2. session[e.by].user \in User
  BY <1>1 DEF EntryInv, AccessInv, TypeOK, SessionData
<1>3. GrantedIn(call[e.by].browser, session[e.by].user)
  BY <1>1 DEF EntryInv, SessionInv, Belongs
<1>4. /\ Entry(e.by).op = call[e.by].op /\ Entry(e.by).entityId = Subject(e.by)
      /\ Entry(e.by).userId = session[e.by].user.sub
  BY DEF Entry
<1>5. QED
  BY <1>1, <1>2, <1>3, <1>4 DEF EntryInv

(***************************************************************************)
(* LogMatchesChanges: entries are of what was done, by whom they say, and  *)
(* what was done is logged, unless its caller was answered 500 or it was   *)
(* done through /roles.                                                    *)
(***************************************************************************)
THEOREM LogMatchesChangesHolds == Spec => []LogMatchesChanges
<1>1. AccessInv => LogMatchesChanges
  <2> SUFFICES ASSUME AccessInv PROVE LogMatchesChanges
    OBVIOUS
  <2>1. ASSUME NEW e \in log
        PROVE  /\ e.op = call[e.by].op /\ e.entityId = Subject(e.by)
               /\ e.op = "getUploadUrl" \/ e.by \in changed
               /\ \E g \in granted :
                    g.browser = call[e.by].browser /\ g.user.sub = e.userId
    <3>1. \E g \in granted :
            g.browser = call[e.by].browser /\ g.user.sub = e.userId
      <4>1. [browser |-> call[e.by].browser, user |-> session[e.by].user] \in granted
        BY EntryGranted DEF GrantedIn
      <4>2. QED
        BY <4>1, EntryGranted
    <3>2. QED
      BY <3>1, EntryGranted DEF AccessInv, EntryInv
  <2>2. ASSUME NEW c \in changed
        PROVE  \/ pc[c] = "audit" \/ call[c].op \in RoleOps \/ response[c] = 500
               \/ response[c] = 200 /\ \E e \in log : e.by = c
    <3>1. ChangeInv(c)
      BY DEF AccessInv, TypeOK
    <3>2. QED
      BY <3>1 DEF ChangeInv, Written
  <2>3. QED
    BY <2>1, <2>2 DEF LogMatchesChanges
<1>2. QED
  BY <1>1, AccessInvHolds, PTL

(***************************************************************************)
(* PicturesAnnounced: a picture in the bucket has an entry in the log for  *)
(* the user whose it is, by a login of his.                                *)
(***************************************************************************)
THEOREM PicturesAnnouncedHolds == Spec => []PicturesAnnounced
<1>1. AccessInv => PicturesAnnounced
  <2> SUFFICES ASSUME AccessInv, NEW u \in Username, picture[u] # Undefined
               PROVE  \E e \in log :
                        /\ e.by = picture[u] /\ e.op = "getUploadUrl"
                        /\ e.entityId = u
                        /\ \E g \in granted :
                             /\ g.browser = call[e.by].browser
                             /\ g.user.username = u /\ g.user.sub = e.userId
    BY DEF PicturesAnnounced
  <2>1. /\ picture[u] \in Calls /\ PictureInv(u) /\ UrlInv(picture[u])
    BY DEF AccessInv, TypeOK
  <2>2. PICK e \in log : e.by = picture[u]
    BY <2>1 DEF PictureInv, UrlInv, Written
  <2>3. e.op = "getUploadUrl" /\ e.entityId = u /\ session[e.by].user.username = u
    BY <2>1, <2>2, EntryGranted DEF PictureInv, Subject
  <2>4. [browser |-> call[e.by].browser, user |-> session[e.by].user] \in granted
    BY EntryGranted DEF GrantedIn
  <2>5. QED
    BY <2>2, <2>3, <2>4, EntryGranted
<1>2. QED
  BY <1>1, AccessInvHolds, PTL
===============================================================================
