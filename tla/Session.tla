--------------------------------- MODULE Session ---------------------------------
(***************************************************************************)
(* Sessions: AuthController and AuthService between the browsers and       *)
(* Cognito.                                                                *)
(*                                                                         *)
(* A request is a call.  It takes the cookie of its browser along when it  *)
(* leaves, its handler works on that copy, and the Set-Cookie of the       *)
(* answer replaces the cookie when it arrives, in any order with the       *)
(* answers to other requests of the browser, or never.  The account of a   *)
(* user created by call c has c as its sub.  Access adds the operations    *)
(* that sessions are for.                                                  *)
(***************************************************************************)
EXTENDS Naturals, FiniteSets

CONSTANTS
  Calls,           \* the requests
  Browser,         \* the browsers they come from
  Username,        \* user names in the Cognito pool
  Group,           \* its groups
  ADMINS,          \* the one called Admins
  Directory,       \* the groups of each account there is initially
  SignedIn,        \* browsers with a session initially: whose, and from which system
  MaxInFlight,     \* how many handlers may be running at once
  Undefined        \* no account, no part of a session

System == {"A", "B"}

Sub == Calls \cup Username

User == [sub : Sub, username : Username, groups : SUBSET Group, loginOrigin : System]

Account == [sub : Sub, groups : SUBSET Group]

OAuth == [state : Calls, origin : System]

SessionData ==
  [user : User \cup {Undefined}, tokens : Sub \cup {Undefined},
   oauth : OAuth \cup {Undefined}]

ASSUME SessionAssumption ==
  /\ ADMINS \in Group /\ MaxInFlight \in Nat
  /\ Calls \cap Username = {}
  /\ DOMAIN Directory \subseteq Username
  /\ Directory \in [DOMAIN Directory -> SUBSET Group]
  /\ DOMAIN SignedIn \subseteq Browser
  /\ SignedIn \in [DOMAIN SignedIn -> [username : DOMAIN Directory, origin : System]]

ASSUME SessionSentinelAssumption ==
  /\ Undefined \notin User /\ Undefined \notin Account /\ Undefined \notin OAuth
  /\ Undefined \notin Sub

VARIABLES
  pc,         \* pc[c]: where the request c is
  call,       \* call[c]: what it asks
  session,    \* session[c]: req.session of its handler
  response,   \* response[c]: the HTTP status it was answered with
  cookie,     \* cookie[b]: the session data in the cookie of browser b
  last,       \* last[b]: the call whose Set-Cookie browser b received last
  atLogout,   \* atLogout[b]: the calls of b done and open when its logout took effect
  account,    \* account[u]: the account of u in Cognito
  granted     \* the sessions that logins were entitled to, by browser

requests == <<pc, call, session, response>>
browsers == <<cookie, last, atLogout>>

-------------------------------------------------------------------------------
(* Requests.                                                               *)

InFlight == {c \in Calls : pc[c] \notin {"unsent", "answered", "delivered"}}

HasRoom == Cardinality(InFlight) < MaxInFlight

(***************************************************************************)
(* The middleware gives the handler the session s in the cookie sent along.*)
(***************************************************************************)
Arrive(c, args, s) ==
  /\ pc[c] = "unsent"
  /\ call' = [call EXCEPT ![c] = args]
  /\ session' = [session EXCEPT ![c] = s]

\* Mutant: answered without awaiting.
WaitAnswered(c, await) ==
  /\ pc' = [pc EXCEPT ![c] = await]
  /\ response' = [response EXCEPT ![c] = 200]

Wait(c, await) ==
  /\ pc' = [pc EXCEPT ![c] = await]
  /\ UNCHANGED response

Answer(c, status) ==
  /\ pc' = [pc EXCEPT ![c] = "answered"]
  /\ response' = [response EXCEPT ![c] = status]

Empty == [user |-> Undefined, tokens |-> Undefined, oauth |-> Undefined]

(***************************************************************************)
(* Which answers carry the session back: save and destroy set the cookie.  *)
(***************************************************************************)
SetsCookie(c) ==
  /\ call[c].op \in {"login", "callback", "refresh", "logout"}
  /\ response[c] \in {200, 302}

(***************************************************************************)
(* A cookie with the tokens and a handshake is over the limit and dropped. *)
(***************************************************************************)
Fits(s) == s.tokens = Undefined \/ s.oauth = Undefined

CallsOf(b) == {c \in Calls : pc[c] # "unsent" /\ call[c].browser = b}

Done(b) == {c \in CallsOf(b) : pc[c] = "delivered"}

Open(b) == {c \in CallsOf(b) : pc[c] # "delivered"}

Deliver(c) ==
  LET b == call[c].browser IN
  /\ pc[c] = "answered" /\ SetsCookie(c)
  /\ pc' = [pc EXCEPT ![c] = "delivered"]
  /\ cookie' = [cookie EXCEPT ![b] = IF Fits(session[c]) THEN session[c] ELSE @]
  /\ last' = [last EXCEPT ![b] = c]
  /\ \/ /\ call[c].op = "logout"
        /\ atLogout' = [atLogout EXCEPT ![b] =
                          [done |-> Done(b) \cup {c}, open |-> Open(b) \ {c}]]
     \/ call[c].op # "logout" /\ UNCHANGED atLogout
  /\ UNCHANGED <<call, session, response, account, granted>>

(***************************************************************************)
(* The cookie reaches its maxAge.                                          *)
(***************************************************************************)
Lapse(b) ==
  /\ cookie[b] # Empty
  /\ cookie' = [cookie EXCEPT ![b] = Empty]
  /\ last' = [last EXCEPT ![b] = Undefined]
  /\ UNCHANGED <<requests, atLogout, account, granted>>

-------------------------------------------------------------------------------
(* login and callback.                                                     *)

\* Mutant: the session there was is carried along.
HandshakeAdded(s, c, origin) ==
  [s EXCEPT !.oauth = [state |-> c, origin |-> origin]]

Handshake(s, c, origin) ==
  [s EXCEPT !.user = Undefined, !.tokens = Undefined,
            !.oauth = [state |-> c, origin |-> origin]]

Login(c) ==
  /\ HasRoom
  /\ \E b \in Browser, origin \in System :
       /\ Arrive(c, [op |-> "login", browser |-> b, origin |-> origin],
                 Handshake(cookie[b], c, origin))
       /\ Answer(c, 302)
       /\ UNCHANGED <<browsers, account, granted>>

\* Mutant: any login that is under way will do.
AnyState(s, state) == s.oauth # Undefined

StateMatches(s, state) == s.oauth # Undefined /\ s.oauth.state = state

(***************************************************************************)
(* Somebody has signed in at the page a login led to, and the URL that     *)
(* Cognito redirects to is opened, in whichever browser.  Refused with 401 *)
(* where it brings an error or no code, or the state is not the cookie's.  *)
(***************************************************************************)
Callback(c) ==
  /\ HasRoom
  /\ \E b \in Browser, state \in Calls, u \in Username :
       /\ pc[state] = "delivered" /\ call[state].op = "login"
       /\ account[u] # Undefined
       /\ Arrive(c, [op |-> "callback", browser |-> b, state |-> state,
                     username |-> u, sub |-> account[u].sub], cookie[b])
       /\ \/ StateMatches(cookie[b], state) /\ Wait(c, "exchange")
          \/ Answer(c, 401)
       /\ UNCHANGED <<browsers, account, granted>>

(***************************************************************************)
(* The claims of the id_token that Cognito gives for the code of call c.   *)
(***************************************************************************)
UserOf(c, origin) ==
  LET u == call[c].username IN
  [sub |-> account[u].sub, username |-> u, groups |-> account[u].groups,
   loginOrigin |-> origin]

AccountLives(u, sub) == account[u] # Undefined /\ account[u].sub = sub

(***************************************************************************)
(* No tokens for the code: Cognito refuses it or is not to be reached, or  *)
(* what it sends is no id_token.                                           *)
(***************************************************************************)
NoTokensForCode(c) == \E status \in {400, 401, 500} : Answer(c, status)

(***************************************************************************)
(* Cognito takes the code once, while the account it is for exists.        *)
(***************************************************************************)
Exchange(c) ==
  /\ pc[c] = "exchange"
  /\ \/ /\ AccountLives(call[c].username, call[c].sub)
        /\ session' = [session EXCEPT ![c] =
             [user |-> UserOf(c, session[c].oauth.origin), tokens |-> call[c].sub,
              oauth |-> Undefined]]
        /\ granted' = granted \cup
             {[browser |-> call[call[c].state].browser,
               user |-> UserOf(c, call[call[c].state].origin)]}
        /\ Answer(c, 302)
     \/ /\ NoTokensForCode(c)
        /\ UNCHANGED <<session, granted>>
  /\ UNCHANGED <<call, browsers, account>>

-------------------------------------------------------------------------------
(* refresh and logout.                                                     *)

CanRefresh(s) == s.user # Undefined /\ s.tokens # Undefined

Refresh(c) ==
  /\ HasRoom
  /\ \E b \in Browser :
       /\ Arrive(c, [op |-> "refresh", browser |-> b], cookie[b])
       /\ \/ CanRefresh(cookie[b]) /\ Wait(c, "renew")
          \/ ~CanRefresh(cookie[b]) /\ Answer(c, 401)
       /\ UNCHANGED <<browsers, account, granted>>

(***************************************************************************)
(* New tokens for the same account; the user in the session stays.         *)
(***************************************************************************)
Renewed(c) == [session[c] EXCEPT !.tokens = session[c].tokens]

(***************************************************************************)
(* Cognito refuses the refresh token, sends no tokens, or fails.           *)
(***************************************************************************)
NoTokensOnRefresh(c) == \E status \in {401, 500} : Answer(c, status)

Renew(c) ==
  /\ pc[c] = "renew"
  /\ \/ /\ AccountLives(session[c].user.username, session[c].tokens)
        /\ session' = [session EXCEPT ![c] = Renewed(c)]
        /\ Answer(c, 200)
     \/ /\ NoTokensOnRefresh(c)
        /\ UNCHANGED session
  /\ UNCHANGED <<call, browsers, account, granted>>

\* Mutant: only the tokens go.
TokensDropped(s) == [s EXCEPT !.tokens = Undefined]

Destroyed(s) == Empty

Logout(c) ==
  /\ HasRoom
  /\ \E b \in Browser :
       /\ Arrive(c, [op |-> "logout", browser |-> b], Destroyed(cookie[b]))
       /\ Answer(c, 200)
       /\ UNCHANGED <<browsers, account, granted>>

-------------------------------------------------------------------------------
(* Initial sessions and accounts.                                          *)

InitialAccount(u) ==
  IF u \in DOMAIN Directory THEN [sub |-> u, groups |-> Directory[u]] ELSE Undefined

InitialUser(b) ==
  LET u == SignedIn[b].username IN
  [sub |-> u, username |-> u, groups |-> Directory[u],
   loginOrigin |-> SignedIn[b].origin]

SessionInit ==
  /\ pc = [c \in Calls |-> "unsent"]
  /\ call = [c \in Calls |-> Undefined]
  /\ session = [c \in Calls |-> Empty]
  /\ response = [c \in Calls |-> Undefined]
  /\ cookie = [b \in Browser |->
                 IF b \in DOMAIN SignedIn
                 THEN [user |-> InitialUser(b), tokens |-> SignedIn[b].username,
                       oauth |-> Undefined]
                 ELSE Empty]
  /\ last = [b \in Browser |-> Undefined]
  /\ atLogout = [b \in Browser |-> Undefined]
  /\ account = [u \in Username |-> InitialAccount(u)]
  /\ granted = {[browser |-> b, user |-> InitialUser(b)] : b \in DOMAIN SignedIn}

SessionStep(c) ==
  Login(c) \/ Callback(c) \/ Exchange(c) \/ Refresh(c) \/ Renew(c) \/ Logout(c)
    \/ Deliver(c)

-------------------------------------------------------------------------------
(* Properties of sessions.                                                 *)

(***************************************************************************)
(* Whoever a browser has a session of signed in there: the session names   *)
(* the account, the groups Cognito knew then and the system the login came *)
(* from, as the login in that browser gave them, and the tokens are of the *)
(* same account.                                                           *)
(***************************************************************************)
GrantedIn(b, user) == [browser |-> b, user |-> user] \in granted

SessionsAreFromLogins ==
  \A b \in Browser :
    LET s == cookie[b] IN
    /\ s.user # Undefined => GrantedIn(b, s.user) /\ s.tokens = s.user.sub
    /\ s.oauth # Undefined => s.user = Undefined /\ s.tokens = Undefined
         /\ call[s.oauth.state].op = "login" /\ call[s.oauth.state].browser = b

(***************************************************************************)
(* No Set-Cookie is dropped: the cookie is what the answer that came last  *)
(* carried, so a login that came last is the one its callback will find.   *)
(***************************************************************************)
CookiesAreKept ==
  \A b \in Browser : last[b] # Undefined =>
    /\ cookie[b] = session[last[b]]
    /\ call[last[b]].op = "login" => StateMatches(cookie[b], last[b])

(***************************************************************************)
(* The session of browser b is back after its logout.                      *)
(***************************************************************************)
Back(b) ==
  \E c \in Done(b) \ atLogout[b].done :
    \/ call[c].op = "callback"
    \/ call[c].op = "refresh" /\ c \in atLogout[b].open

(***************************************************************************)
(* After a logout took effect in a browser there is a session again only   *)
(* by a callback, or by a refresh that was under way when the logout took  *)
(* effect and whose answer came after it.                                  *)
(***************************************************************************)
LogoutEndsSession ==
  \A b \in Browser :
    atLogout[b] # Undefined /\ cookie[b].user # Undefined => Back(b)
===============================================================================
