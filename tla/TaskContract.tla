----------------------------- MODULE TaskContract -----------------------------
(***************************************************************************)
(* What the task queue promises, without saying how it keeps track of the  *)
(* workers: a task is executed by one worker at a time, it goes back to    *)
(* the queue only when nobody executes it any more, its outcome is         *)
(* recorded once, by the worker that executes it or by a supervisor that   *)
(* has stopped that worker, and an outcome is final.                       *)
(***************************************************************************)
CONSTANTS Tasks, Pids, NoPid, NoTask

VARIABLES
  status,   \* status[t]: the life cycle of db/models.py, TaskStatus
  holder,   \* holder[t]: who has taken t last
  running   \* running[w]: the task that w executes

vars == <<status, holder, running>>

Init ==
  /\ status = [t \in Tasks |-> "ABSENT"]
  /\ holder = [t \in Tasks |-> NoPid]
  /\ running = [w \in Pids |-> NoTask]

Add(t) ==
  /\ status[t] = "ABSENT"
  /\ status' = [status EXCEPT ![t] = "QUEUED"]
  /\ UNCHANGED <<holder, running>>

Take(w, t) ==
  /\ running[w] = NoTask
  /\ status[t] = "QUEUED"
  /\ status' = [status EXCEPT ![t] = "ACTIVE"]
  /\ holder' = [holder EXCEPT ![t] = w]
  /\ running' = [running EXCEPT ![w] = t]

\* The worker that holds the task records its outcome.
Settle(w, t) ==
  /\ running[w] = t
  /\ status[t] = "ACTIVE"
  /\ holder[t] = w
  /\ \E s \in {"COMPLETED", "FAILED"} : status' = [status EXCEPT ![t] = s]
  /\ running' = [running EXCEPT ![w] = NoTask]
  /\ UNCHANGED holder

\* Some workers stop: they crash, they are stopped, or they lose their task.
Drop(W) ==
  /\ running' = [w \in Pids |-> IF w \in W THEN NoTask ELSE running[w]]
  /\ UNCHANGED <<status, holder>>

\* The supervisor gives t up and stops worker w; nobody else executes t.
Expire(w, t) ==
  /\ status[t] = "ACTIVE"
  /\ \A v \in Pids : running[v] = t => v = w
  /\ status' = [status EXCEPT ![t] = "FAILED"]
  /\ running' = [running EXCEPT ![w] = NoTask]
  /\ UNCHANGED holder

\* Tasks that nobody executes any more return to the queue.
Return(T) ==
  /\ \A t \in T : status[t] = "ACTIVE" /\ \A w \in Pids : running[w] # t
  /\ status' = [t \in Tasks |-> IF t \in T THEN "QUEUED" ELSE status[t]]
  /\ holder' = [t \in Tasks |-> IF t \in T THEN NoPid ELSE holder[t]]
  /\ UNCHANGED running

Next ==
  \/ \E t \in Tasks : Add(t)
  \/ \E w \in Pids, t \in Tasks : Take(w, t) \/ Settle(w, t) \/ Expire(w, t)
  \/ \E W \in SUBSET Pids : Drop(W)
  \/ \E T \in SUBSET Tasks : Return(T)

Spec == Init /\ [][Next]_vars
=============================================================================
