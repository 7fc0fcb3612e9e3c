--------------------------- MODULE AppServerProofs ---------------------------
(***************************************************************************)
(* What holds of AppServer for every number of login states, requests,     *)
(* starts, records and clock ticks: the types, that a login state buys one *)
(* token in time, that services follow the phase of the server, and that   *)
(* the log is in order, without repetition.                                *)
(***************************************************************************)
EXTENDS AppServer, TLAPS

-----------------------------------------------------------------------------
(* Types *)

LEMMA AppendType ==
  ASSUME NEW S, NEW s \in Seq(S), NEW e \in S
  PROVE  Append(s, e) \in Seq(S)
OBVIOUS

LEMMA ElementType ==
  ASSUME NEW S, NEW s \in Seq(S)
  PROVE  \A i \in 1..Len(s) : s[i] \in S
OBVIOUS

LEMMA LoginTypeInit == LoginInit => LoginTypeOK
BY LoginConstants DEF LoginInit, LoginTypeOK, NoSession, Sessions, Idle, Requests

\* The steps of the endpoint keep the types of the login's variables.
LEMMA EndpointTypes ==
  ASSUME LoginTypeOK, EndpointStep
  PROVE  LoginTypeOK'
<1> USE LoginConstants DEF LoginTypeOK, NoSession, Sessions, Idle, Requests
<1>1. CASE BeginLogin
  BY <1>1 DEF BeginLogin
<1>2. ASSUME NEW r \in Slots, NEW s \in States, Callback(r, s)
      PROVE  LoginTypeOK'
  <2>1. CASE Known(s)
    <3>1. exchanges' \in Seq([state : States, at : 0..MaxClock])
      <4>1. [state |-> s, at |-> clock] \in [state : States, at : 0..MaxClock]
        OBVIOUS
      <4> HIDE DEF LoginTypeOK
      <4>2. exchanges \in Seq([state : States, at : 0..MaxClock])
        BY DEF LoginTypeOK
      <4>3. exchanges' = Append(exchanges, [state |-> s, at |-> clock])
        BY <1>2, <2>1 DEF Callback
      <4> QED BY <4>1, <4>2, <4>3, AppendType, Zenon
    <3>2. request' \in [Slots -> Requests]
      <4>1. [op |-> "token", state |-> s, session |-> NoSession] \in Requests
        OBVIOUS
      <4>2. request' = [request EXCEPT ![r] = [op |-> "token", state |-> s, session |-> NoSession]]
        BY <1>2, <2>1 DEF Callback
      <4> HIDE DEF Requests, Idle
      <4> QED BY <4>1, <4>2
    <3> QED BY <1>2, <3>1, <3>2 DEF Callback
  <2>2. CASE ~Known(s)
    BY <1>2, <2>2 DEF Callback
  <2> QED BY <2>1, <2>2
<1>3. ASSUME NEW r \in Slots, TokenArrives(r)
      PROVE  LoginTypeOK'
  <2>1. cookie' \in Sessions
    BY <1>3 DEF TokenArrives
  <2>2. request' \in [Slots -> Requests]
    BY <1>3 DEF TokenArrives, End
  <2> QED BY <1>3, <2>1, <2>2 DEF TokenArrives
<1>4. ASSUME NEW r \in Slots, TokenFails(r)
      PROVE  LoginTypeOK'
  <2>1. request' \in [Slots -> Requests]
    BY <1>4 DEF TokenFails, End
  <2> QED BY <1>4, <2>1 DEF TokenFails
<1>5. CASE Logout
  BY <1>5 DEF Logout
<1> QED BY <1>1, <1>2, <1>3, <1>4, <1>5 DEF EndpointStep

\* So do the steps of pages.
LEMMA PageTypes ==
  ASSUME LoginTypeOK, NEW r \in Slots, NEW flashed \in BOOLEAN,
         BeginPage(r) \/ EndPage(r, flashed) \/ PageFails(r)
  PROVE  LoginTypeOK'
<1> USE LoginConstants DEF LoginTypeOK, Sessions, Requests
<1>1. CASE BeginPage(r)
  <2>1. [cookie EXCEPT !.uts = clock] \in Sessions
    OBVIOUS
  <2>2. request' \in [Slots -> Requests]
    BY <1>1, <2>1 DEF BeginPage
  <2> QED BY <1>1, <2>2 DEF BeginPage
<1>2. CASE EndPage(r, flashed)
  BY <1>2 DEF EndPage, End, Idle, NoSession
<1>3. CASE PageFails(r)
  BY <1>3 DEF PageFails, End, Idle, NoSession
<1> QED BY <1>1, <1>2, <1>3

\* What requests do to the login's variables, and to the log's.
RequestStep ==
  \/ EndpointStep
  \/ Redirect
  \/ \E r \in Slots : BeginPage(r) \/ PageFails(r) \/ \E flashed \in BOOLEAN : EndPage(r, flashed)

LEMMA ServeIsRequest ==
  ASSUME Serve
  PROVE  RequestStep /\ (UNCHANGED logVars \/ Emit)
BY DEF Serve, RequestStep, EndPageLogged, EndpointStep

LEMMA RequestTypes ==
  ASSUME LoginTypeOK, RequestStep
  PROVE  LoginTypeOK'
<1>1. CASE Redirect
  BY <1>1, LoginConstants DEF Redirect, NoSession, LoginTypeOK, Sessions
<1> QED BY <1>1, EndpointTypes, PageTypes DEF RequestStep

\* Records keep their numbers when another one is emitted.
LEMMA LongerSeq ==
  ASSUME NEW n \in Nat, NEW s \in Seq(1..n)
  PROVE  s \in Seq(1..n + 1)
<1>1. \A i \in 1..Len(s) : s[i] \in 1..n + 1
  OBVIOUS
<1> QED BY <1>1

\* The writer holds a record just while it writes.
LogTypeInv == LogTypeOK /\ (writer = "writing" <=> held # 0)

LEMMA LogTypes ==
  ASSUME LogTypeInv, Emit \/ LogStep \/ Forget
  PROVE  LogTypeInv'
<1> USE DEF LogTypeInv, LogTypeOK
<1>1. CASE Emit
  <2>1. emitted' \in Nat /\ emitted' = emitted + 1
    BY <1>1 DEF Emit
  <2>2. queue \in Seq(1..emitted')
    BY <2>1, LongerSeq
  <2>3. queue' \in Seq(1..emitted')
    BY <1>1, <2>1, <2>2, AppendType DEF Emit
  <2> QED BY <1>1, <2>1, <2>3 DEF Emit, Ensured
<1>2. CASE Open
  BY <1>2 DEF Open
<1>3. CASE OpenFails
  BY <1>3 DEF OpenFails
<1>4. CASE Take
  <2>1. Head(queue) \in 1..emitted /\ Tail(queue) \in Seq(1..emitted)
    BY <1>4 DEF Take
  <2> QED BY <1>4, <2>1 DEF Take
<1>5. CASE Write
  <2>1. Append(file, held) \in Seq(Nat)
    BY AppendType
  <2> QED BY <1>5, <2>1 DEF Write
<1>6. CASE WriteFails
  <2>1. Append(file, held) \in Seq(Nat)
    BY AppendType
  <2>2. held \in 1..emitted
    BY <1>6 DEF WriteFails
  <2> QED BY <1>6, <2>1, <2>2 DEF WriteFails
<1>7. CASE Forget
  BY <1>7 DEF Forget
<1> QED BY <1>1, <1>2, <1>3, <1>4, <1>5, <1>6, <1>7 DEF LogStep

TypeInv == TypeOK /\ LogTypeInv

LEMMA TypeInit == Init => TypeInv
<1> SUFFICES ASSUME Init
             PROVE  TypeInv
  OBVIOUS
<1>1. LoginTypeOK
  BY LoginTypeInit DEF Init
<1>2. LogTypeInv
  BY DEF Init, LogInit, LogTypeInv, LogTypeOK
<1> QED BY <1>1, <1>2 DEF Init, TypeInv, TypeOK, LogTypeInv

LEMMA IdleType == Idle \in Requests
BY LoginConstants DEF Idle, Requests, NoSession, Sessions

\* A new process, or none: requests are gone, and so is the log's queue.
LEMMA LoseTypes ==
  ASSUME LoginTypeOK, Lose, secret' \in Nat
  PROVE  LoginTypeOK'
BY IdleType DEF LoginTypeOK, Lose

LEMMA LaunchTypes ==
  ASSUME TypeInv, Launch, unclean' \in BOOLEAN
  PROVE  TypeInv'
<1>1. starts' \in Nat /\ saved' \in Nat /\ secret' \in Nat
  BY DEF TypeInv, TypeOK, Launch, ChooseSecret
<1>2. LoginTypeOK'
  BY <1>1, LoseTypes DEF TypeInv, TypeOK, Launch
<1>3. LogTypeInv'
  BY LogTypes DEF TypeInv, Launch
<1> QED BY <1>1, <1>2, <1>3 DEF TypeInv, TypeOK, LogTypeInv, Launch, Starting

LEMMA ExitTypes ==
  ASSUME TypeInv, Exit, unclean' \in BOOLEAN
  PROVE  TypeInv'
<1>1. LoginTypeOK'
  BY LoseTypes DEF TypeInv, TypeOK, Exit, LoginTypeOK
<1>2. LogTypeInv'
  BY LogTypes DEF TypeInv, Exit
<1> QED BY <1>1, <1>2 DEF TypeInv, TypeOK, LogTypeInv, Exit

LEMMA TypeStep == TypeInv /\ [Next]_vars => TypeInv'
<1> SUFFICES ASSUME TypeInv, [Next]_vars
             PROVE  TypeInv'
  OBVIOUS
<1>0. LoginTypeOK /\ LogTypeInv
  BY DEF TypeInv, TypeOK
<1>1. CASE Start
  BY <1>1, LaunchTypes DEF Start, TypeInv, TypeOK
<1>2. CASE StartNext
  <2>1. LoginTypeOK' /\ LogTypeInv'
    BY <1>0, <1>2 DEF StartNext, loginVars, logVars, LoginTypeOK, LogTypeInv, LogTypeOK
  <2> QED BY <1>2, <2>1 DEF StartNext, StartsNext, Starting, TypeInv, TypeOK, LogTypeInv
<1>3. CASE StartFails
  BY <1>3, ExitTypes DEF StartFails
<1>4. ASSUME NEW t \in Triggers, Trip(t)
      PROVE  TypeInv'
  <2>1. LoginTypeOK' /\ LogTypeInv'
    BY <1>0, <1>4 DEF Trip, loginVars, logVars, LoginTypeOK, LogTypeInv, LogTypeOK
  <2> QED BY <1>4, <2>1 DEF Trip, Closing, TypeInv, TypeOK, LogTypeInv
<1>5. CASE Drain
  <2>1. LoginTypeOK' /\ LogTypeInv'
    BY <1>0, <1>5, IdleType DEF Drain, logVars, LoginTypeOK, LogTypeInv, LogTypeOK
  <2> QED BY <1>5, <2>1 DEF Drain, Closing, TypeInv, TypeOK, LogTypeInv
<1>6. CASE StopNext
  <2>1. LoginTypeOK' /\ LogTypeInv'
    BY <1>0, <1>6 DEF StopNext, loginVars, logVars, LoginTypeOK, LogTypeInv, LogTypeOK
  <2> QED BY <1>6, <2>1 DEF StopNext, Closing, TypeInv, TypeOK, LogTypeInv
<1>7. CASE Finish
  BY <1>7, LaunchTypes, ExitTypes DEF Finish, TypeInv, TypeOK
<1>8. CASE Crash
  BY <1>8, ExitTypes DEF Crash
<1>9. CASE Serve
  <2>1. LoginTypeOK'
    BY <1>0, <1>9, ServeIsRequest, RequestTypes
  <2>2. LogTypeInv'
    BY <1>0, <1>9, ServeIsRequest, LogTypes DEF logVars, LogTypeInv, LogTypeOK
  <2> QED BY <1>9, <2>1, <2>2 DEF Serve, serverVars, TypeInv, TypeOK, LogTypeInv
<1>10. CASE WriteLog
  <2>1. LoginTypeOK' /\ LogTypeInv'
    BY <1>0, <1>10, LogTypes DEF WriteLog, loginVars, LoginTypeOK
  <2> QED BY <1>10, <2>1 DEF WriteLog, serverVars, TypeInv, TypeOK, LogTypeInv
<1>11. CASE PassTime
  <2>1. LoginTypeOK' /\ LogTypeInv'
    BY <1>0, <1>11, LoginConstants DEF PassTime, Tick, logVars, LoginTypeOK, LogTypeInv, LogTypeOK
  <2> QED BY <1>11, <2>1 DEF PassTime, serverVars, TypeInv, TypeOK, LogTypeInv
<1>12. CASE UNCHANGED vars
  BY <1>0, <1>12 DEF vars, serverVars, loginVars, logVars, TypeInv, TypeOK, LoginTypeOK, LogTypeInv, LogTypeOK
<1> QED BY <1>1, <1>2, <1>3, <1>4, <1>5, <1>6, <1>7, <1>8, <1>9, <1>10, <1>11, <1>12 DEF Next

\* AppServer: every variable keeps its type, and the writer of the log holds a
\* record just while it writes it.
THEOREM TypeCorrect == Spec => []TypeInv
BY TypeInit, TypeStep, PTL DEF Spec

-----------------------------------------------------------------------------
(* Logins *)

\* A state for which a token was asked has left pending_states and is never drawn
\* again; a request that waits for a token has asked for it.
StatesAreSpent ==
  /\ \A s \in pending : issued[s] # -1 /\ s \notin Exchanged
  /\ \A s \in Exchanged : issued[s] # -1
  /\ \A s \in States : issued[s] <= clock
  /\ \A r \in Slots : request[r].op = "token" => request[r].state \in Exchanged

LoginInv == StatesAreSpent /\ StatesUsedOnce

LEMMA LoginInvInit == LoginInit => LoginInv
BY DEF LoginInit, LoginInv, StatesAreSpent, StatesUsedOnce, Exchanged, Idle, NoSession

\* What a session is bought with stays bought.
LEMMA CallbackKeeps ==
  ASSUME LoginTypeOK, LoginInv, NEW r \in Slots, NEW s \in States, Callback(r, s)
  PROVE  LoginInv'
<1>1. CASE Known(s)
  <2> DEFINE e == [state |-> s, at |-> clock]
  <2>1. /\ exchanges' = Append(exchanges, e)
        /\ exchanges \in Seq([state : States, at : 0..MaxClock])
    BY <1>1 DEF Callback, LoginTypeOK
  <2> HIDE DEF e
  <2>2. /\ Len(exchanges) \in Nat
        /\ Len(exchanges') = Len(exchanges) + 1
        /\ \A i \in 1..Len(exchanges) : exchanges'[i] = exchanges[i] /\ exchanges[i].state \in States
        /\ exchanges'[Len(exchanges) + 1] = e
    <3>1. \A i \in 1..Len(exchanges) : exchanges[i] \in [state : States, at : 0..MaxClock]
      BY <2>1, ElementType, Zenon
    <3> QED BY <2>1, <3>1
  <2>3. Exchanged' = Exchanged \cup {s}
    BY <2>2 DEF Exchanged, e
  <2>4. s \in pending /\ s \notin Exchanged /\ issued[s] # -1 /\ clock - issued[s] \in 0..Timeout
    <3>1. issued[s] \in -1..MaxClock /\ clock \in Nat /\ issued[s] <= clock
      BY DEF LoginTypeOK, LoginInv, StatesAreSpent
    <3> QED BY <1>1, <3>1, LoginConstants DEF Known, LoginInv, StatesAreSpent
  <2>5. \A q \in Slots : \/ request'[q] = request[q]
                         \/ request'[q] = [op |-> "token", state |-> s, session |-> NoSession]
    BY <1>1 DEF Callback, LoginTypeOK
  <2>6. UNCHANGED <<clock, issued, cookie>> /\ pending' = pending \ {s}
    BY DEF Callback
  <2>7. StatesAreSpent'
    BY <2>3, <2>4, <2>5, <2>6 DEF LoginInv, StatesAreSpent
  <2>8. \A i, j \in 1..Len(exchanges') : exchanges'[i].state = exchanges'[j].state => i = j
    <3>1. \A i \in 1..Len(exchanges) : exchanges[i].state # s
      BY <2>4 DEF Exchanged
    <3>2. \A i, j \in 1..Len(exchanges) : exchanges[i].state = exchanges[j].state => i = j
      BY DEF LoginInv, StatesUsedOnce
    <3>3. e.state = s
      BY DEF e
    <3> QED BY <2>2, <3>1, <3>2, <3>3
  <2>9. \A i \in 1..Len(exchanges') : exchanges'[i].at - issued'[exchanges'[i].state] \in 0..Timeout
    <3>1. \A i \in 1..Len(exchanges) : exchanges[i].at - issued[exchanges[i].state] \in 0..Timeout
      BY DEF LoginInv, StatesUsedOnce
    <3>2. e.state = s /\ e.at = clock
      BY DEF e
    <3> QED BY <2>2, <2>4, <2>6, <3>1, <3>2
  <2>10. /\ cookie'.login \in Exchanged' \cup {NoState}
         /\ \A q \in Slots : request'[q].session.login \in Exchanged' \cup {NoState}
    BY <2>3, <2>5, <2>6 DEF LoginInv, StatesUsedOnce, NoSession
  <2> QED BY <2>7, <2>8, <2>9, <2>10 DEF LoginInv, StatesUsedOnce
<1>2. CASE ~Known(s)
  <2>1. UNCHANGED <<clock, issued, exchanges, request, cookie>> /\ pending' \subseteq pending
    BY <1>2 DEF Callback
  <2> QED BY <2>1 DEF LoginInv, StatesAreSpent, StatesUsedOnce, Exchanged
<1> QED BY <1>1, <1>2

LEMMA EndedIsIdle ==
  ASSUME LoginTypeOK, NEW r \in Slots, End(r)
  PROVE  \A q \in Slots : \/ request'[q] = request[q]
                          \/ request'[q].op = "idle" /\ request'[q].session.login = NoState
<1>1. Idle.op = "idle" /\ Idle.session.login = NoState
  BY DEF Idle, NoSession
<1>2. \A q \in Slots : request'[q] = request[q] \/ request'[q] = Idle
  BY DEF End, LoginTypeOK
<1> QED BY <1>1, <1>2

\* Requests that end, and a session that was bought or is none, leave it alone.
LEMMA EndingKeeps ==
  ASSUME LoginInv,
         \A q \in Slots : request'[q] = request[q]
                          \/ (request'[q].op = "idle" /\ request'[q].session.login = NoState),
         UNCHANGED <<clock, issued, exchanges>>, pending' \subseteq pending,
         cookie'.login \in Exchanged \cup {NoState}
  PROVE  LoginInv'
<1>1. Exchanged' = Exchanged
  BY DEF Exchanged
<1>2. StatesAreSpent'
  BY <1>1 DEF LoginInv, StatesAreSpent
<1>3. \A q \in Slots : request'[q].session.login \in Exchanged' \cup {NoState}
  BY <1>1 DEF LoginInv, StatesUsedOnce
<1>4. StatesUsedOnce'
  BY <1>1, <1>3 DEF LoginInv, StatesUsedOnce
<1> QED BY <1>2, <1>4 DEF LoginInv

\* Every other step of a request leaves the tokens that were asked for alone.
LEMMA RequestKeeps ==
  ASSUME LoginTypeOK, LoginInv, RequestStep
  PROVE  LoginInv'
<1> USE DEF LoginInv, StatesAreSpent, StatesUsedOnce, Exchanged
<1>1. CASE BeginLogin
  <2>1. PICK s \in States : issued[s] = -1 /\ issued' = [issued EXCEPT ![s] = clock] /\ pending' = pending \cup {s}
    BY <1>1 DEF BeginLogin
  <2>2. s \notin Exchanged /\ clock # -1 /\ clock <= clock
    BY <2>1, LoginConstants DEF LoginTypeOK
  <2>3. issued'[s] = clock /\ \A q \in States : q # s => issued'[q] = issued[q]
    BY <2>1 DEF LoginTypeOK
  <2>4. UNCHANGED <<clock, exchanges, request, cookie>>
    BY <1>1 DEF BeginLogin
  <2>5. pending \subseteq States /\ Exchanged \subseteq States
    <3>1. \A i \in 1..Len(exchanges) : exchanges[i] \in [state : States, at : 0..MaxClock]
      BY ElementType, Zenon DEF LoginTypeOK
    <3>2. \A i \in 1..Len(exchanges) : exchanges[i].state \in States
      BY <3>1
    <3> QED BY <3>2 DEF LoginTypeOK
  <2> QED BY <2>1, <2>2, <2>3, <2>4, <2>5
<1>2. ASSUME NEW r \in Slots, NEW s \in States, Callback(r, s)
      PROVE  LoginInv'
  BY <1>2, CallbackKeeps
<1>3. ASSUME NEW r \in Slots, TokenArrives(r) \/ TokenFails(r)
      PROVE  LoginInv'
  <2>1. \A q \in Slots : \/ request'[q] = request[q]
                         \/ request'[q].op = "idle" /\ request'[q].session.login = NoState
    <3>1. End(r)
      BY <1>3 DEF TokenArrives, TokenFails
    <3> QED BY <3>1, EndedIsIdle, Zenon
  <2>2. UNCHANGED <<clock, issued, pending, exchanges>>
    BY <1>3 DEF TokenArrives, TokenFails
  <2>3. cookie'.login \in Exchanged \cup {NoState}
    BY <1>3 DEF TokenArrives, TokenFails
  <2> QED BY <2>1, <2>2, <2>3, EndingKeeps
<1>4. CASE Logout
  BY <1>4 DEF Logout, NoSession
<1>5. CASE Redirect
  BY <1>5 DEF Redirect, NoSession
<1>6. ASSUME NEW r \in Slots, BeginPage(r)
      PROVE  LoginInv'
  BY <1>6 DEF BeginPage, LoginTypeOK, Sessions
<1>7. ASSUME NEW r \in Slots, NEW flashed \in BOOLEAN, PageFails(r) \/ EndPage(r, flashed)
      PROVE  LoginInv'
  <2>1. \A q \in Slots : \/ request'[q] = request[q]
                         \/ request'[q].op = "idle" /\ request'[q].session.login = NoState
    <3>1. End(r)
      BY <1>7 DEF PageFails, EndPage
    <3> QED BY <3>1, EndedIsIdle, Zenon
  <2>2. UNCHANGED <<clock, issued, pending, exchanges>>
    BY <1>7 DEF PageFails, EndPage
  <2>3. cookie'.login \in Exchanged \cup {NoState}
    BY <1>7 DEF PageFails, EndPage
  <2> QED BY <2>1, <2>2, <2>3, EndingKeeps
<1> QED BY <1>1, <1>2, <1>3, <1>4, <1>5, <1>6, <1>7 DEF RequestStep, EndpointStep

\* Nor does the end of the requests, of the process or of a tick.
LEMMA EndKeeps ==
  ASSUME LoginTypeOK, LoginInv,
         \/ Lose
         \/ request' = [r \in Slots |-> Idle] /\ UNCHANGED <<clock, issued, pending, exchanges, cookie>>
         \/ Tick
         \/ UNCHANGED <<clock, issued, pending, exchanges, request, cookie>>
  PROVE  LoginInv'
<1> USE DEF LoginInv, StatesAreSpent, StatesUsedOnce, Exchanged
<1>1. CASE Tick
  <2>1. \A s \in States : issued[s] <= clock'
    BY <1>1 DEF Tick, LoginTypeOK
  <2> QED BY <1>1, <2>1 DEF Tick
<1>2. CASE \/ Lose
           \/ request' = [r \in Slots |-> Idle] /\ UNCHANGED <<clock, issued, pending, exchanges, cookie>>
  <2>1. /\ request' = [r \in Slots |-> Idle]
        /\ pending' \subseteq pending
        /\ UNCHANGED <<clock, issued, exchanges, cookie>>
    BY <1>2 DEF Lose
  <2>2. \A r \in Slots : request'[r].op = "idle" /\ request'[r].session.login = NoState
    BY <2>1 DEF Idle, NoSession
  <2> QED BY <2>1, <2>2
<1> QED BY <1>1, <1>2

LEMMA LoginStep == TypeInv /\ LoginInv /\ [Next]_vars => LoginInv'
<1> SUFFICES ASSUME TypeInv, LoginInv, [Next]_vars
             PROVE  LoginInv'
  OBVIOUS
<1>1. LoginTypeOK
  BY DEF TypeInv, TypeOK
<1>2. CASE Serve
  BY <1>1, <1>2, ServeIsRequest, RequestKeeps
<1>3. CASE Next /\ ~Serve
  BY <1>1, <1>3, EndKeeps
     DEF Next, Start, StartNext, StartFails, Trip, Drain, StopNext, Finish, Crash, WriteLog,
         PassTime, Launch, Exit, loginVars
<1>4. CASE UNCHANGED vars
  BY <1>1, <1>4, EndKeeps DEF vars, loginVars
<1> QED BY <1>2, <1>3, <1>4

\* A login state buys at most one token, in time, across restarts, and no session
\* exists without one (StatesUsedOnce), whatever the numbers of states and requests.
THEOREM TokensAreBoughtOnce == Spec => []StatesUsedOnce
<1>1. Init => LoginInv
  BY LoginInvInit DEF Init
<1>2. LoginInv => StatesUsedOnce
  BY DEF LoginInv
<1> QED BY <1>1, <1>2, LoginStep, TypeInit, TypeStep, PTL DEF Spec

-----------------------------------------------------------------------------
(* Services *)

\* What runs in each phase, and that requests are under way only while serving.
ServicesOf ==
  CASE phase \in {"down", "database", "workers"} -> {}
    [] phase = "ssh" -> {"workers"}
    [] phase = "runners" -> {"workers", "ssh"}
    [] phase \in {"serving", "draining", "stopWorkers"} -> {"workers", "ssh", "runners"}
    [] phase = "stopSsh" -> {"ssh", "runners"}
    [] phase = "stopRunners" -> {"runners"}

PhaseInv ==
  /\ services = ServicesOf
  /\ left # {} => unclean
  /\ phase \notin {"serving", "draining"} => \A r \in Slots : request[r] = Idle

LEMMA PhaseStep == TypeInv /\ PhaseInv /\ [Next]_vars => PhaseInv'
<1> SUFFICES ASSUME TypeInv, PhaseInv, [Next]_vars
             PROVE  PhaseInv'
  OBVIOUS
<1>0. phase \in {"down", "serving"} \cup Starting \cup Closing
  BY DEF TypeInv, TypeOK
<1> USE DEF PhaseInv, ServicesOf
<1>1. CASE Start \/ Finish
  BY <1>1 DEF Start, Finish, Launch, Exit, Lose
<1>2. CASE StartNext
  BY <1>2 DEF StartNext, StartsNext, Starting, loginVars
<1>3. CASE StartFails \/ Crash
  BY <1>3 DEF StartFails, Crash, Exit, Lose
<1>4. ASSUME NEW t \in Triggers, Trip(t)
      PROVE  PhaseInv'
  BY <1>4 DEF Trip, loginVars
<1>5. CASE Drain
  BY <1>5 DEF Drain
<1>6. CASE StopNext
  BY <1>6 DEF StopNext, loginVars
<1>7. CASE Serve
  BY <1>7 DEF Serve, serverVars, Working
<1>8. CASE WriteLog \/ PassTime \/ UNCHANGED vars
  BY <1>8 DEF WriteLog, PassTime, Tick, vars, serverVars, loginVars
<1> QED BY <1>1, <1>2, <1>3, <1>4, <1>5, <1>6, <1>7, <1>8 DEF Next

\* Requests are under way only while every service runs, and worker processes
\* outlive their server only after a crash or a failed start (ServicesFollow).
THEOREM ServicesAreStopped == Spec => []ServicesFollow
<1>1. Init => PhaseInv
  BY DEF Init, LoginInit, PhaseInv, ServicesOf
<1>2. PhaseInv => ServicesFollow
  BY DEF PhaseInv, ServicesOf, ServicesFollow
<1> QED BY <1>1, <1>2, PhaseStep, TypeInit, TypeStep, PTL DEF Spec

-----------------------------------------------------------------------------
(* The log *)

LEMMA AppendedLast ==
  ASSUME NEW s \in Seq(Nat), NEW e \in Nat
  PROVE  /\ ToSet(Append(s, e)) = ToSet(s) \cup {e}
         /\ Increasing(s) /\ (\A x \in ToSet(s) : x < e) => Increasing(Append(s, e))
<1> DEFINE t == Append(s, e)
<1>1. /\ Len(s) \in Nat /\ DOMAIN s = 1..Len(s) /\ DOMAIN t = 1..Len(s) + 1 /\ Len(t) = Len(s) + 1
      /\ t[Len(s) + 1] = e
      /\ \A i \in 1..Len(s) : t[i] = s[i]
  OBVIOUS
<1> HIDE DEF t
<1>2. ToSet(t) = ToSet(s) \cup {e}
  BY <1>1 DEF ToSet
<1>3. ASSUME Increasing(s), \A x \in ToSet(s) : x < e
      PROVE  Increasing(t)
  <2>1. \A i \in 1..Len(s) : s[i] < e
    BY <1>1, <1>3 DEF ToSet
  <2> QED BY <1>1, <1>3, <2>1 DEF Increasing
<1> QED BY <1>2, <1>3 DEF t

LEMMA FirstTaken ==
  ASSUME NEW s \in Seq(Nat), s # <<>>
  PROVE  /\ ToSet(s) = {Head(s)} \cup ToSet(Tail(s))
         /\ Increasing(s) => Increasing(Tail(s)) /\ \A x \in ToSet(Tail(s)) : Head(s) < x
<1> DEFINE t == Tail(s)
<1>1. /\ Len(s) \in Nat \ {0} /\ DOMAIN s = 1..Len(s) /\ DOMAIN t = 1..Len(s) - 1 /\ Len(t) = Len(s) - 1
      /\ Head(s) = s[1]
      /\ \A i \in 1..Len(s) - 1 : t[i] = s[i + 1]
  OBVIOUS
<1> HIDE DEF t
<1>2. ToSet(s) = {Head(s)} \cup ToSet(t)
  <2>1. \A i \in 1..Len(s) : i = 1 \/ (i - 1 \in 1..Len(s) - 1 /\ s[i] = t[i - 1])
    <3> SUFFICES ASSUME NEW i \in 1..Len(s), i # 1
                 PROVE  i - 1 \in 1..Len(s) - 1 /\ s[i] = t[i - 1]
      OBVIOUS
    <3>1. i - 1 \in 1..Len(s) - 1 /\ (i - 1) + 1 = i
      BY <1>1
    <3> QED BY <1>1, <3>1
  <2>2. ToSet(s) \subseteq {Head(s)} \cup ToSet(t)
    <3> SUFFICES ASSUME NEW x \in ToSet(s), x # s[1]
                 PROVE  x \in ToSet(t)
      BY <1>1
    <3>1. PICK i \in 1..Len(s) : x = s[i]
      BY <1>1 DEF ToSet
    <3>2. PICK k \in 1..Len(s) - 1 : x = t[k]
      BY <2>1, <3>1
    <3> QED BY <1>1, <3>2 DEF ToSet
  <2>3. Head(s) \in ToSet(s) /\ ToSet(t) \subseteq ToSet(s)
    <3>1. 1 \in 1..Len(s) /\ \A i \in 1..Len(s) - 1 : i + 1 \in 1..Len(s)
      BY <1>1
    <3> QED BY <1>1, <3>1 DEF ToSet
  <2> QED BY <2>2, <2>3
<1>3. ASSUME Increasing(s)
      PROVE  Increasing(t) /\ \A x \in ToSet(t) : Head(s) < x
  <2>1. \A i \in 1..Len(s) - 1 : s[1] < t[i]
    BY <1>1, <1>3 DEF Increasing
  <2> QED BY <1>1, <1>3, <2>1 DEF Increasing, ToSet
<1> QED BY <1>2, <1>3 DEF t

LEMMA Joined ==
  ASSUME NEW a \in Seq(Nat), NEW b \in Seq(Nat), Increasing(a), Increasing(b),
         \A x \in ToSet(a), y \in ToSet(b) : x < y
  PROVE  Increasing(a \o b) /\ ToSet(a \o b) = ToSet(a) \cup ToSet(b) /\ a \o b \in Seq(Nat)
<1> DEFINE t == a \o b
<1>1. /\ Len(a) \in Nat /\ Len(b) \in Nat /\ Len(t) = Len(a) + Len(b)
      /\ DOMAIN a = 1..Len(a) /\ DOMAIN b = 1..Len(b) /\ DOMAIN t = 1..Len(t)
      /\ \A i \in 1..Len(a) : t[i] = a[i]
      /\ \A i \in Len(a) + 1..Len(t) : t[i] = b[i - Len(a)] /\ i - Len(a) \in 1..Len(b)
      /\ t \in Seq(Nat)
  OBVIOUS
<1> HIDE DEF t
<1>2. ASSUME NEW j \in 1..Len(b)
      PROVE  t[Len(a) + j] = b[j] /\ Len(a) + j \in 1..Len(t)
  <2> DEFINE k == Len(a) + j
  <2>1. k \in Len(a) + 1..Len(t) /\ k - Len(a) = j /\ k \in 1..Len(t)
    BY <1>1
  <2> HIDE DEF k
  <2>2. t[k] = b[k - Len(a)]
    BY <1>1, <2>1
  <2>3. t[k] = b[j]
    BY <2>1, <2>2
  <2> QED BY <2>1, <2>3 DEF k
<1>3. ToSet(t) = ToSet(a) \cup ToSet(b)
  <2>1. \A i \in 1..Len(t) : i \in 1..Len(a) \/ i \in Len(a) + 1..Len(t)
    BY <1>1
  <2>2. ToSet(t) \subseteq ToSet(a) \cup ToSet(b)
    BY <1>1, <2>1 DEF ToSet
  <2>3. \A i \in 1..Len(a) : i \in 1..Len(t)
    BY <1>1
  <2>4. ToSet(a) \subseteq ToSet(t)
    BY <1>1, <2>3 DEF ToSet
  <2>5. ASSUME NEW y \in ToSet(b)
        PROVE  y \in ToSet(t)
    <3>1. PICK j \in 1..Len(b) : y = b[j]
      BY <1>1, <2>5 DEF ToSet
    <3>2. PICK k \in 1..Len(t) : t[k] = y
      BY <1>2, <3>1
    <3> QED BY <1>1, <3>2 DEF ToSet
  <2> QED BY <2>2, <2>4, <2>5
<1>4. \A i \in 1..Len(a), j \in 1..Len(b) : a[i] < b[j]
  BY <1>1 DEF ToSet
<1>5. Increasing(t)
  <2> SUFFICES ASSUME NEW i \in 1..Len(t), NEW j \in 1..Len(t), i < j
               PROVE  t[i] < t[j]
    BY DEF Increasing
  <2>1. CASE j \in 1..Len(a)
    <3>1. i \in 1..Len(a)
      BY <1>1, <2>1
    <3>2. a[i] < a[j]
      BY <2>1, <3>1 DEF Increasing
    <3> QED BY <1>1, <2>1, <3>1, <3>2
  <2>2. CASE i \in 1..Len(a) /\ j \in Len(a) + 1..Len(t)
    BY <1>1, <1>4, <2>2
  <2>3. CASE i \in Len(a) + 1..Len(t)
    <3>1. i - Len(a) < j - Len(a) /\ j \in Len(a) + 1..Len(t)
      BY <1>1, <2>3
    <3>2. i - Len(a) \in 1..Len(b) /\ j - Len(a) \in 1..Len(b)
      BY <1>1, <2>3, <3>1
    <3>3. b[i - Len(a)] < b[j - Len(a)]
      BY <3>1, <3>2 DEF Increasing
    <3> QED BY <1>1, <2>3, <3>1, <3>3
  <2> QED BY <1>1, <2>1, <2>2, <2>3
<1> QED BY <1>1, <1>3, <1>5 DEF t

\* LogIsInOrder by the parts of the log, so that a step moves a record from one to
\* the next.
LogInv ==
  /\ Increasing(Mine) /\ Increasing(queue)
  /\ \A m \in ToSet(Mine) : m \in 1..emitted /\ (held # 0 => m < held)
  /\ \A q \in ToSet(queue) : q \in 1..emitted /\ held < q
  /\ \A m \in ToSet(Mine), q \in ToSet(queue) : m < q
  /\ 1..emitted \ skipped \subseteq ToSet(Mine) \cup {held} \cup ToSet(queue)

LEMMA ShortSeq ==
  ASSUME NEW s \in Seq(Nat)
  PROVE  /\ Len(s) = 0 => ToSet(s) = {} /\ Increasing(s)
         /\ Len(s) = 1 => ToSet(s) = {s[1]} /\ Increasing(s)
<1>1. DOMAIN s = 1..Len(s) /\ 1..0 = {} /\ 1..1 = {1}
  OBVIOUS
<1>2. ASSUME Len(s) = 0
      PROVE  ToSet(s) = {} /\ Increasing(s)
  BY <1>1, <1>2 DEF ToSet, Increasing
<1>3. ASSUME Len(s) = 1
      PROVE  ToSet(s) = {s[1]} /\ Increasing(s)
  <2>1. ToSet(s) = {s[1]}
    BY <1>1, <1>3 DEF ToSet
  <2> QED BY <1>3, <2>1 DEF Increasing
<1> QED BY <1>2, <1>3

LEMMA EmptyParts ==
  ASSUME NEW s, s = <<>>
  PROVE  ToSet(s) = {} /\ Increasing(s) /\ s \in Seq(Nat)
<1>1. Len(s) = 0 /\ s \in Seq(Nat)
  OBVIOUS
<1>2. ToSet(s) = {} /\ Increasing(s)
  BY <1>1, ShortSeq
<1>3. QED BY <1>1, <1>2

LEMMA LogParts ==
  ASSUME LogTypeInv
  PROVE  Mine \in Seq(Nat) /\ queue \in Seq(Nat) /\ emitted \in Nat /\ held \in Nat
<1>1. \A i \in 1..Len(queue) : queue[i] \in 1..emitted
  BY ElementType, Zenon DEF LogTypeInv, LogTypeOK
<1>2. emitted \in Nat
  BY DEF LogTypeInv, LogTypeOK
<1>3. queue \in Seq(Nat)
  <2>1. \A i \in 1..Len(queue) : queue[i] \in Nat
    BY <1>1, <1>2
  <2> QED BY <2>1 DEF LogTypeInv, LogTypeOK
<1> QED BY <1>2, <1>3 DEF LogTypeInv, LogTypeOK, Mine

LEMMA LogStepKeeps ==
  ASSUME LogTypeInv, LogInv, Emit \/ LogStep \/ Forget
  PROVE  LogInv'
<1>0. Mine \in Seq(Nat) /\ queue \in Seq(Nat) /\ emitted \in Nat /\ held \in Nat
  BY LogParts
<1>1. CASE Emit
  <2>1. emitted' = emitted + 1 /\ queue' = Append(queue, emitted + 1) /\ held' = held /\ skipped' = skipped
    BY <1>1 DEF Emit
  <2>2. Mine' = Mine
    BY <1>1 DEF Emit, Ensured, Mine
  <2>3. ToSet(queue') = ToSet(queue) \cup {emitted + 1}
    BY <1>0, <2>1, AppendedLast
  <2>4. Increasing(queue')
    <3>1. \A q \in ToSet(queue) : q < emitted + 1
      BY <1>0 DEF LogInv
    <3> QED BY <1>0, <2>1, <3>1, AppendedLast DEF LogInv
  <2>5. held < emitted + 1
    BY <1>0 DEF LogTypeInv, LogTypeOK
  <2> QED BY <1>0, <2>1, <2>2, <2>3, <2>4, <2>5 DEF LogInv
<1>2. CASE Open \/ OpenFails
  <2>1. Mine = <<>> /\ Mine' = <<>> /\ UNCHANGED <<emitted, queue, held, skipped>>
    BY <1>2 DEF Open, OpenFails, Mine
  <2> QED BY <2>1 DEF LogInv
<1>3. CASE Take
  <2>1. /\ queue # <<>> /\ held = 0 /\ held' = Head(queue) /\ queue' = Tail(queue)
        /\ UNCHANGED <<emitted, skipped>> /\ Mine' = Mine
    BY <1>3 DEF Take, Mine, LogTypeInv
  <2>2. /\ ToSet(queue) = {held'} \cup ToSet(queue')
        /\ Increasing(queue') /\ \A q \in ToSet(queue') : held' < q
    BY <1>0, <2>1, FirstTaken DEF LogInv
  <2> QED BY <1>0, <2>1, <2>2 DEF LogInv
<1>4. CASE Write \/ WriteFails
  <2>1. held # 0 /\ held' = 0 /\ UNCHANGED <<emitted, queue>>
    BY <1>4 DEF Write, WriteFails, LogTypeInv
  <2>2. \/ Mine' = Append(Mine, held) /\ skipped \subseteq skipped'
        \/ Mine' = Mine /\ skipped' = skipped \cup {held}
    BY <1>4 DEF Write, WriteFails, Mine
  <2>3. CASE Mine' = Append(Mine, held) /\ skipped \subseteq skipped'
    <3>1. ToSet(Mine') = ToSet(Mine) \cup {held} /\ Increasing(Mine')
      BY <1>0, <2>1, <2>3, AppendedLast DEF LogInv
    <3>2. held \in 1..emitted
      BY <2>1 DEF LogTypeInv, LogTypeOK
    <3> QED BY <1>0, <2>1, <2>3, <3>1, <3>2 DEF LogInv
  <2>4. CASE Mine' = Mine /\ skipped' = skipped \cup {held}
    BY <1>0, <2>1, <2>4 DEF LogInv
  <2> QED BY <2>2, <2>3, <2>4
<1>5. CASE Forget
  <2>1. Mine' = <<>> /\ queue' = <<>> /\ emitted' = 0
    BY <1>5 DEF Forget, Mine
  <2>2. ToSet(Mine') = {} /\ ToSet(queue') = {} /\ Increasing(Mine') /\ Increasing(queue')
    BY <2>1, EmptyParts
  <2>3. 1..emitted' = {}
    BY <2>1
  <2> QED BY <2>2, <2>3 DEF LogInv
<1> QED BY <1>1, <1>2, <1>3, <1>4, <1>5 DEF LogStep

LEMMA LogNext == TypeInv /\ LogInv /\ [Next]_vars => LogInv'
<1> SUFFICES ASSUME TypeInv, LogInv, [Next]_vars
             PROVE  LogInv'
  OBVIOUS
<1>1. UNCHANGED logVars \/ Emit \/ LogStep \/ Forget
  BY ServeIsRequest
     DEF Next, Start, StartNext, StartFails, Trip, Drain, StopNext, Finish, Crash, WriteLog,
         PassTime, Launch, Exit, vars
<1>2. CASE UNCHANGED logVars
  BY <1>2 DEF logVars, LogInv, Mine
<1> QED BY <1>1, <1>2, LogStepKeeps DEF TypeInv

LEMMA OrderFromParts ==
  ASSUME LogTypeInv, LogInv
  PROVE  LogIsInOrder
<1>0. Mine \in Seq(Nat) /\ queue \in Seq(Nat) /\ emitted \in Nat /\ held \in Nat
  BY LogParts
<1>1. Passing \in Seq(Nat) /\ ToSet(Passing) = (IF held = 0 THEN {} ELSE {held}) /\ Increasing(Passing)
  <2>1. CASE held = 0
    <3>1. Passing = <<>>
      BY <2>1 DEF Passing
    <3> QED BY <2>1, <3>1, EmptyParts
  <2>2. CASE held # 0
    <3>1. <<held>> \in Seq(Nat) /\ Len(<<held>>) = 1 /\ <<held>>[1] = held
      BY <1>0
    <3>2. ToSet(<<held>>) = {held} /\ Increasing(<<held>>)
      BY <3>1, ShortSeq, Zenon
    <3>3. Passing = <<held>>
      BY <2>2 DEF Passing
    <3> QED BY <2>2, <3>1, <3>2, <3>3
  <2> QED BY <2>1, <2>2
<1>2. /\ Increasing(Mine \o Passing) /\ Mine \o Passing \in Seq(Nat)
      /\ ToSet(Mine \o Passing) = ToSet(Mine) \cup ToSet(Passing)
  BY <1>0, <1>1, Joined DEF LogInv
<1>3. \A x \in ToSet(Mine \o Passing), y \in ToSet(queue) : x < y
  BY <1>1, <1>2 DEF LogInv
<1>4. /\ Increasing((Mine \o Passing) \o queue)
      /\ ToSet((Mine \o Passing) \o queue) = ToSet(Mine) \cup ToSet(Passing) \cup ToSet(queue)
  BY <1>0, <1>2, <1>3, Joined DEF LogInv
<1>5. held # 0 => held \in 1..emitted
  BY DEF LogTypeInv, LogTypeOK
<1> QED BY <1>0, <1>1, <1>4, <1>5 DEF LogInv, LogIsInOrder

\* No record is dropped, written twice or overtaken, except those whose write failed
\* (LogIsInOrder), for any number of records and however writer and requests
\* interleave; whether the writer gets to it is another matter.
THEOREM RecordsKeepTheirOrder == Spec => []LogIsInOrder
<1>1. Init => LogInv
  <2> SUFFICES ASSUME Init
               PROVE  LogInv
    OBVIOUS
  <2>1. Mine = <<>> /\ queue = <<>> /\ emitted = 0
    BY DEF Init, LogInit, Mine
  <2>2. ToSet(Mine) = {} /\ ToSet(queue) = {} /\ Increasing(Mine) /\ Increasing(queue)
    BY <2>1, EmptyParts
  <2>3. 1..emitted = {}
    BY <2>1
  <2> QED BY <2>2, <2>3 DEF LogInv
<1>2. TypeInv /\ LogInv => LogIsInOrder
  BY OrderFromParts DEF TypeInv
<1> QED BY <1>1, <1>2, LogNext, TypeInit, TypeStep, PTL DEF Spec
=============================================================================
