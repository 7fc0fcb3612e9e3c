------------------------------ MODULE AppServer ------------------------------
(***************************************************************************)
(* The server process from start to end: what app_setup_lifecycle of       *)
(* atr/server.py starts and stops, the triggers of QuartApp.runx that end  *)
(* or reload it, the secret key it signs cookies with, and in between the  *)
(* requests of OAuthLogin and the log of RequestLog, which die with it.    *)
(***************************************************************************)
EXTENDS OAuthLogin, RequestLog

CONSTANTS
  SecretWritable,  \* can apptoken.txt be created
  MaxStarts,       \* bound on the starts of the process
  MaxRecords       \* bound on the records emitted by one process

ASSUME ServerConstants ==
  SecretWritable \in BOOLEAN /\ MaxStarts \in Nat /\ MaxRecords \in Nat

VARIABLES
  phase,     \* where start-up or shutdown is
  services,  \* what this process has started and not stopped
  left,      \* services of earlier processes that nobody will stop
  reload,    \* what the first trigger to run decided
  unclean,   \* a process ended other than by its shutdown
  starts,
  saved      \* the secret in apptoken.txt, or 0

serverVars == <<phase, services, left, reload, unclean, starts, saved>>
vars == <<serverVars, loginVars, logVars>>

Starting == {"database", "workers", "ssh", "runners"}
Closing == {"draining", "stopWorkers", "stopSsh", "stopRunners"}
Triggers == {"shutdown", "restart", "change"}

TypeOK ==
  /\ phase \in {"down", "serving"} \cup Starting \cup Closing
  /\ services \subseteq {"workers", "ssh", "runners"}
  /\ left \subseteq {"workers"}
  /\ reload \in BOOLEAN
  /\ unclean \in BOOLEAN
  /\ starts \in Nat
  /\ saved \in Nat
  /\ LoginTypeOK
  /\ LogTypeOK

Init ==
  /\ phase = "down"
  /\ services = {}
  /\ left = {}
  /\ reload = FALSE
  /\ unclean = FALSE
  /\ starts = 0
  /\ saved = 0
  /\ LoginInit
  /\ LogInit

-----------------------------------------------------------------------------
(* Start *)

\* QuartApp.__init__: the saved secret, or a new one, which is saved if it can be.
ChooseSecret ==
  /\ secret' = IF saved # 0 THEN saved ELSE starts'
  /\ saved' = IF saved = 0 /\ SecretWritable THEN starts' ELSE saved

\* A new process image: modules are loaded, the application is constructed.  Of
\* what the last one ran only worker processes survive it.
Launch ==
  /\ starts < MaxStarts
  /\ starts' = starts + 1
  /\ phase' = "database"
  /\ left' = left \cup (services \cap {"workers"})
  /\ services' = {}
  /\ reload' = FALSE
  /\ ChooseSecret
  /\ Lose
  /\ Forget

Start ==
  /\ phase = "down"
  /\ Launch
  /\ UNCHANGED unclean

StartsNext == CASE phase = "database" -> "workers"
                [] phase = "workers" -> "ssh"
                [] phase = "ssh" -> "runners"
                [] phase = "runners" -> "serving"

\* The before_serving and while_serving functions in the order of their
\* registration: create_database, the manager, the SSH server, the runners.
StartNext ==
  /\ phase \in Starting
  /\ phase' = StartsNext
  /\ services' = IF phase = "database" THEN services ELSE services \cup {phase}
  /\ UNCHANGED <<left, reload, unclean, starts, saved, loginVars, logVars>>

Exit ==
  /\ phase' = "down"
  /\ services' = {}
  /\ left' = left \cup (services \cap {"workers"})
  /\ reload' = FALSE
  /\ Lose
  /\ Forget
  /\ UNCHANGED <<starts, saved, secret>>

\* One of them raises (a migration, a port in use): the process ends, and what was
\* started before is not stopped.
StartFails ==
  /\ phase \in Starting
  /\ unclean' = TRUE
  /\ Exit

-----------------------------------------------------------------------------
(* End *)

\* A trigger task runs: SIGTERM or SIGINT was received, SIGUSR2 was, or a file has
\* changed, now or since the start.  The first one to run ends serving and decides
\* whether to reload; the others are cancelled or not looked at again.
Trip(t) ==
  /\ phase = "serving"
  /\ reload' = (t # "shutdown")
  /\ phase' = "draining"
  /\ UNCHANGED <<services, left, unclean, starts, saved, loginVars, logVars>>

\* hypercorn gives the requests under way some time, and then cancels them.
Drain ==
  /\ phase = "draining"
  /\ phase' = "stopWorkers"
  /\ request' = [r \in Slots |-> Idle]
  /\ UNCHANGED <<services, left, reload, unclean, starts, saved, clock, secret, issued,
                 pending, exchanges, cookie, logVars>>

\* after_serving: the manager, then the SSH server; then the runners are cancelled.
StopNext ==
  /\ phase \in {"stopWorkers", "stopSsh"}
  /\ IF phase = "stopWorkers"
     THEN phase' = "stopSsh" /\ services' = services \ {"workers"}
     ELSE phase' = "stopRunners" /\ services' = services \ {"ssh"}
  /\ UNCHANGED <<left, reload, unclean, starts, saved, loginVars, logVars>>

\* Mutant of Finish: a reload does not wait for after_serving.
FinishAtOnce ==
  /\ phase \in Closing
  /\ IF reload THEN Launch ELSE Exit
  /\ UNCHANGED unclean

\* run_forever cancels what is left of the tasks, among them the writer of the log,
\* and execs the program again if it is to reload.
Finish ==
  /\ phase = "stopRunners"
  /\ IF reload THEN Launch ELSE Exit
  /\ UNCHANGED unclean

\* The process is killed.
Crash ==
  /\ phase # "down"
  /\ unclean' = TRUE
  /\ Exit

-----------------------------------------------------------------------------
(* Requests *)

Working == phase \in {"serving", "draining"}

EndPageLogged(r) ==
  /\ emitted < MaxRecords
  /\ \E flashed \in BOOLEAN : EndPage(r, flashed)
  /\ Emit

\* Pages and the endpoint: only pages are measured, and only when they return.
Serve ==
  /\ \/ phase = "serving" /\ (EndpointStep \/ Redirect \/ \E r \in Slots : BeginPage(r)) /\ UNCHANGED logVars
     \/ phase = "draining" /\ (\E r \in Slots : TokenArrives(r) \/ TokenFails(r)) /\ UNCHANGED logVars
     \/ Working /\ (\E r \in Slots : PageFails(r)) /\ UNCHANGED logVars
     \/ Working /\ \E r \in Slots : EndPageLogged(r)
  /\ UNCHANGED serverVars

WriteLog == phase # "down" /\ LogStep /\ UNCHANGED <<serverVars, loginVars>>

PassTime == Tick /\ UNCHANGED <<serverVars, logVars>>

Next ==
  \/ Start \/ StartNext \/ StartFails
  \/ \E t \in Triggers : Trip(t)
  \/ Drain \/ StopNext \/ Finish \/ Crash
  \/ Serve \/ WriteLog \/ PassTime

Spec == Init /\ [][Next]_vars

-----------------------------------------------------------------------------
(* Properties *)

\* Requests are under way only while every service runs, and worker processes outlive
\* the server that started them only if it crashed or failed to start: neither a
\* shutdown nor a reload loses one.
ServicesFollow ==
  /\ phase = "serving" => services = {"workers", "ssh", "runners"}
  /\ phase = "down" => services = {}
  /\ left # {} => unclean
  /\ (\E r \in Slots : request[r] # Idle) => services = {"workers", "ssh", "runners"}
=============================================================================
