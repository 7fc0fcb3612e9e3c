----------------------------- MODULE OAuthLogin -----------------------------
(***************************************************************************)
(* Logging in and staying logged in: the OAuth endpoint of                 *)
(* asfquart/generics.py, the cookie session of asfquart/session.py and the *)
(* requirements of asfquart/auth.py, seen from one browser that has        *)
(* several requests under way.  The session lives in the browser's cookie: *)
(* a request works on the copy it arrived with, and its answer carries a   *)
(* cookie only if the handler changed the session.  The OAuth service is   *)
(* external: it is asked for a token and answers or fails.                 *)
(***************************************************************************)
EXTENDS Integers, Sequences

CONSTANTS
  States,    \* the state tokens that oauth_endpoint draws
  Slots,     \* requests that can be under way at once
  Roles,     \* what auth.Requirements asks of a session
  RolesOf,   \* RolesOf[s]: the roles the OAuth service reports for login s
  Needs,     \* the requirements of the routes: records [all, any]
  Timeout,   \* workflow_timeout
  Expiry,    \* expiry_time of a session
  MaxClock,  \* bound on the clock
  NoState

ASSUME LoginConstants ==
  /\ NoState \notin States
  /\ RolesOf \in [States -> SUBSET Roles]
  /\ Needs \subseteq [all : SUBSET Roles, any : SUBSET Roles]
  /\ Timeout \in Nat /\ Expiry \in Nat /\ MaxClock \in Nat

VARIABLES
  clock,
  secret,     \* which secret key the process signs cookies with
  issued,     \* issued[s]: when state s was drawn, or -1
  pending,    \* the states in pending_states
  exchanges,  \* the token requests sent: records [state, at]
  request,    \* request[r]: what slot r is doing
  cookie      \* the session cookie of the browser

loginVars == <<clock, secret, issued, pending, exchanges, request, cookie>>

NoSession == [login |-> NoState, key |-> 0, uts |-> 0]
Sessions == [login : States \cup {NoState}, key : Nat, uts : 0..MaxClock]

Idle == [op |-> "idle", state |-> NoState, session |-> NoSession]
Requests == [op : {"idle", "token", "page"}, state : States \cup {NoState}, session : Sessions]

LoginTypeOK ==
  /\ clock \in 0..MaxClock
  /\ secret \in Nat
  /\ issued \in [States -> -1..MaxClock]
  /\ pending \in SUBSET States
  /\ exchanges \in Seq([state : States, at : 0..MaxClock])
  /\ request \in [Slots -> Requests]
  /\ cookie \in Sessions

LoginInit ==
  /\ clock = 0
  /\ secret = 0
  /\ issued = [s \in States |-> -1]
  /\ pending = {}
  /\ exchanges = <<>>
  /\ request = [r \in Slots |-> Idle]
  /\ cookie = NoSession

-----------------------------------------------------------------------------
(* The OAuth endpoint *)

\* /auth?login: a fresh state, remembered with the time.
BeginLogin ==
  \E s \in States :
    /\ issued[s] = -1
    /\ issued' = [issued EXCEPT ![s] = clock]
    /\ pending' = pending \cup {s}
    /\ UNCHANGED <<clock, secret, exchanges, request, cookie>>

Known(s) == s \in pending /\ ~(issued[s] < clock - Timeout)

\* Mutant of Callback: the state is popped when the token has arrived.
CallbackKeepingState(r, s) ==
  /\ request[r] = Idle
  /\ issued[s] # -1
  /\ IF Known(s)
     THEN /\ exchanges' = Append(exchanges, [state |-> s, at |-> clock])
          /\ request' = [request EXCEPT ![r] = [op |-> "token", state |-> s, session |-> NoSession]]
     ELSE UNCHANGED <<exchanges, request>>
  /\ UNCHANGED <<clock, secret, issued, pending, cookie>>

\* The browser comes back with state s, possibly again.  A state that is unknown or
\* too old is dropped and refused; any other is dropped before the token is asked
\* for, which is where the handler gives way to other requests.
Callback(r, s) ==
  /\ request[r] = Idle
  /\ issued[s] # -1
  /\ pending' = pending \ {s}
  /\ IF Known(s)
     THEN /\ exchanges' = Append(exchanges, [state |-> s, at |-> clock])
          /\ request' = [request EXCEPT ![r] = [op |-> "token", state |-> s, session |-> NoSession]]
     ELSE UNCHANGED <<exchanges, request>>
  /\ UNCHANGED <<clock, secret, issued, cookie>>

End(r) == request' = [request EXCEPT ![r] = Idle]

\* The token arrives: session.write.
TokenArrives(r) ==
  /\ request[r].op = "token"
  /\ cookie' = [login |-> request[r].state, key |-> secret, uts |-> clock]
  /\ End(r)
  /\ UNCHANGED <<clock, secret, issued, pending, exchanges>>

\* The service answers with an error or not at all: the request fails, and its
\* state is gone.
TokenFails(r) ==
  /\ request[r].op = "token"
  /\ End(r)
  /\ UNCHANGED <<clock, secret, issued, pending, exchanges, cookie>>

\* /auth?logout: session.clear.
Logout ==
  /\ cookie # NoSession
  /\ cookie' = NoSession
  /\ UNCHANGED <<clock, secret, issued, pending, exchanges, request>>

-----------------------------------------------------------------------------
(* Sessions and requirements *)

\* A cookie signed with another key counts as none.
Signed(c) == c.login # NoState /\ c.key = secret

Expired(c) == c.uts < clock - Expiry

\* auth.require: all of need.all, and one of need.any unless that is empty.
Fulfils(roles, need) ==
  /\ need.all \subseteq roles
  /\ need.any = {} \/ need.any \cap roles # {}

\* A page is asked for without a session: enforce_login sends the browser to
\* /auth?login.  session.read removes an expired session, and the answer says so.
Redirect ==
  /\ ~Signed(cookie) \/ Expired(cookie)
  /\ cookie' = IF Signed(cookie) THEN NoSession ELSE cookie
  /\ UNCHANGED <<clock, secret, issued, pending, exchanges, request>>

\* A page is asked for with a session that fulfils its requirements (one that does
\* not is answered with 403 and changes nothing).  read sets the time of the last
\* access in the request's copy of the session.
BeginPage(r) ==
  /\ request[r] = Idle
  /\ Signed(cookie)
  /\ ~Expired(cookie)
  /\ \E need \in Needs : Fulfils(RolesOf[cookie.login], need)
  /\ request' = [request EXCEPT ![r] = [op |-> "page", state |-> NoState,
                                          session |-> [cookie EXCEPT !.uts = clock]]]
  /\ UNCHANGED <<clock, secret, issued, pending, exchanges, cookie>>

\* The handler returns.  The time of access is inside a nested dictionary, so the
\* session counts as changed, and is sent, only if the handler flashed a message.
EndPage(r, flashed) ==
  /\ request[r].op = "page"
  /\ cookie' = IF flashed THEN request[r].session ELSE cookie
  /\ End(r)
  /\ UNCHANGED <<clock, secret, issued, pending, exchanges>>

\* Something the handler awaits fails.  app_route_performance_measure steps the
\* handler by hand and raises the error itself: the handler is not resumed.
PageFails(r) ==
  /\ request[r].op = "page"
  /\ End(r)
  /\ UNCHANGED <<clock, secret, issued, pending, exchanges, cookie>>

Tick ==
  /\ clock < MaxClock
  /\ clock' = clock + 1
  /\ UNCHANGED <<secret, issued, pending, exchanges, request, cookie>>

\* The process is gone, with its requests and pending_states.
Lose ==
  /\ pending' = {}
  /\ request' = [r \in Slots |-> Idle]
  /\ UNCHANGED <<clock, issued, exchanges, cookie>>

EndpointStep ==
  \/ BeginLogin
  \/ \E r \in Slots, s \in States : Callback(r, s)
  \/ \E r \in Slots : TokenArrives(r) \/ TokenFails(r)
  \/ Logout

-----------------------------------------------------------------------------
Exchanged == {exchanges[i].state : i \in 1..Len(exchanges)}

\* A login state buys at most one token, within the workflow timeout, however often
\* and however concurrently the browser comes back with it, across restarts; and no
\* session exists, in the browser or in a request under way, that was not bought
\* with a state.
StatesUsedOnce ==
  /\ \A i, j \in 1..Len(exchanges) : exchanges[i].state = exchanges[j].state => i = j
  /\ \A i \in 1..Len(exchanges) :
       exchanges[i].at - issued[exchanges[i].state] \in 0..Timeout
  /\ cookie.login \in Exchanged \cup {NoState}
  /\ \A r \in Slots : request[r].session.login \in Exchanged \cup {NoState}
=============================================================================
