------------------------------ MODULE TaskQueue ------------------------------
(***************************************************************************)
(* The background task queue of ATR: the web server enqueues rows of the   *)
(* task table, worker processes (worker.py) claim and execute them, and    *)
(* the manager inside the server (manager.py, WorkerManager) keeps the     *)
(* pool of workers at its size, stops overdue work and returns to the      *)
(* queue what a dead worker left behind.                                   *)
(*                                                                         *)
(* A step is what runs between two points at which another process can     *)
(* change the table, the process list or the manager's fields: one         *)
(* database transaction, one signal, one decision.  A worker that gets     *)
(* SIGTERM dies at once: its handler raises SystemExit and the transaction *)
(* it may have open is rolled back.  A spawn or a claim that raises leaves *)
(* everything as it was and is retried, so it is a stuttering step.        *)
(***************************************************************************)
EXTENDS TaskTable, FiniteSets

CONSTANTS NoTask,      \* a worker executes nothing; the manager judges nothing
          MinWorkers,  \* WorkerManager.min_workers
          MaxWorkers,  \* WorkerManager.max_workers
          MaxFaults,   \* bound on each kind of fault
          PidReuse     \* may the system give a new worker a pid that an ACTIVE
                       \* row still carries (pids start over with the container)?

Fault == {"crash",      \* a worker dies: out of memory, SIGKILL, ...
          "workerDb",   \* a worker's transaction raises (database is locked)
          "managerDb",  \* a transaction of the manager raises
          "outage"}     \* the server stops, or crashes

ASSUME NoTaskIsNull == NoTask \notin Tasks
ASSUME PoolSizes == MinWorkers \in Nat \ {0} /\ MaxWorkers \in Nat /\ MinWorkers <= MaxWorkers
ASSUME FaultBounds == MaxFaults \in [Fault -> Nat]
ASSUME ReuseIsFlag == PidReuse \in BOOLEAN

VARIABLES
  row,      \* the task table
  pc,       \* pc[p]: where the worker process p is; "none" if there is no such process
  job,      \* job[p]: the task that p has claimed and executes
  mpc,      \* where the manager is
  workers,  \* WorkerManager.workers: the pids it supervises
  todo,     \* check_workers: the workers of this pass not yet looked at
  exited,   \* check_workers: exited_workers
  subject,  \* check_task_duration: the worker whose task is being judged
  victim,   \* terminate_long_running_task: the task found overdue
  faults    \* how many faults of each kind have happened

workerVars == <<pc, job>>
passVars == <<todo, exited, subject, victim>>
vars == <<row, pc, job, mpc, workers, todo, exited, subject, victim, faults>>

WorkerPc == {"none", "loop", "run", "error"}
ManagerPc == {"down", "start", "idle", "check", "duration", "terminate", "spawn", "reset"}

TypeOK ==
  /\ row \in [Tasks -> Row]
  /\ pc \in [Pids -> WorkerPc]
  /\ job \in [Pids -> Tasks \cup {NoTask}]
  /\ mpc \in ManagerPc
  /\ workers \subseteq Pids
  /\ todo \subseteq Pids
  /\ exited \subseteq Pids
  /\ subject \in Pids \cup {NoPid}
  /\ victim \in Tasks \cup {NoTask}
  /\ faults \in [Fault -> Nat]

Init ==
  /\ row = [t \in Tasks |-> NoRow]
  /\ pc = [p \in Pids |-> "none"]
  /\ job = [p \in Pids |-> NoTask]
  /\ mpc = "down"
  /\ workers = {}
  /\ todo = {}
  /\ exited = {}
  /\ subject = NoPid
  /\ victim = NoTask
  /\ faults = [k \in Fault |-> 0]

Happens(k) ==
  /\ faults[k] < MaxFaults[k]
  /\ faults' = [faults EXCEPT ![k] = @ + 1]

Alive(p) == pc[p] # "none"
\* Mutant of Active: the query does not ask for the pid.
ActiveOfAnyone(p) == {t \in Tasks : row[t].status = "ACTIVE"}

Active(p) == {t \in Tasks : row[t].status = "ACTIVE" /\ row[t].pid = p}

-----------------------------------------------------------------------------
(* The web server and the clock *)

\* A handler of the server commits a new task; its id is one more than the largest.
Enqueue(t) ==
  /\ mpc \notin {"down", "start"}
  /\ row[t].status = "ABSENT"
  /\ \A u \in Tasks : u < t <=> row[u].status # "ABSENT"
  /\ row' = [row EXCEPT ![t] = Inserted]
  /\ UNCHANGED <<workerVars, mpc, workers, passVars, faults>>

\* max_task_seconds have passed since t was started.
BecomesOverdue(t) ==
  /\ row[t].status = "ACTIVE"
  /\ row[t].started = "recent"
  /\ row' = [row EXCEPT ![t].started = "overdue"]
  /\ UNCHANGED <<workerVars, mpc, workers, passVars, faults>>

-----------------------------------------------------------------------------
(* A worker process *)

\* _task_next_claim: one UPDATE takes the oldest QUEUED row.
Claim(p) ==
  /\ pc[p] = "loop"
  /\ \E t \in Tasks :
       /\ Oldest(row, t)
       /\ row' = [row EXCEPT ![t] = Claimed(@, p)]
       /\ job' = [job EXCEPT ![p] = t]
  /\ pc' = [pc EXCEPT ![p] = "run"]
  /\ UNCHANGED <<mpc, workers, passVars, faults>>

Dies(p) ==
  /\ pc' = [pc EXCEPT ![p] = "none"]
  /\ job' = [job EXCEPT ![p] = NoTask]

\* The handler returns and _task_result_process commits what it returned; the
\* worker leaves its loop and exits.
StoreResult(p) ==
  /\ pc[p] = "run"
  /\ \E outcome \in Outcome :
       /\ Valid(Stored(row[job[p]], outcome))
       /\ row' = [row EXCEPT ![job[p]] = Stored(@, outcome)]
  /\ Dies(p)
  /\ UNCHANGED <<mpc, workers, passVars, faults>>

\* The handler raises, its result is not JSON, or the table's constraint refuses
\* it: _task_process goes on in its except clause.
HandlerRaises(p) ==
  /\ pc[p] = "run"
  /\ pc' = [pc EXCEPT ![p] = "error"]
  /\ UNCHANGED <<row, job, mpc, workers, passVars, faults>>

\* The same when the transaction that stores the result raises.
StoreFails(p) ==
  /\ pc[p] = "run"
  /\ Happens("workerDb")
  /\ pc' = [pc EXCEPT ![p] = "error"]
  /\ UNCHANGED <<row, job, mpc, workers, passVars>>

\* _task_error_handle commits; the worker leaves its loop and exits.
RecordError(p) ==
  /\ pc[p] = "error"
  /\ \E withResult \in BOOLEAN :
       row' = [row EXCEPT ![job[p]] = Errored(@, withResult)]
  /\ Dies(p)
  /\ UNCHANGED <<mpc, workers, passVars, faults>>

\* _task_error_handle itself raises: _worker_loop_run logs it and loops again,
\* the row still ACTIVE under this worker's pid.
RecordErrorFails(p) ==
  /\ pc[p] = "error"
  /\ Happens("workerDb")
  /\ pc' = [pc EXCEPT ![p] = "loop"]
  /\ job' = [job EXCEPT ![p] = NoTask]
  /\ UNCHANGED <<row, mpc, workers, passVars>>

WorkerCrash(p) ==
  /\ Alive(p)
  /\ Happens("crash")
  /\ Dies(p)
  /\ UNCHANGED <<row, mpc, workers, passVars>>

-----------------------------------------------------------------------------
(* The manager *)

\* start: the pool is filled (Spawn), then the monitor begins.
Start ==
  /\ mpc = "down"
  /\ mpc' = "start"
  /\ UNCHANGED <<row, workerVars, workers, passVars, faults>>

\* The loop in start tries min_workers times, whatever becomes of each try.
Started ==
  /\ mpc = "start"
  /\ mpc' = "idle"
  /\ UNCHANGED <<row, workerVars, workers, passVars, faults>>

\* A pid the operating system may give to a new process.
Free(p) ==
  /\ ~Alive(p)
  /\ p \notin workers \cup exited
  /\ PidReuse \/ Active(p) = {}

\* spawn_worker, called from start and from maintain_worker_pool.
Spawn(p) ==
  /\ mpc \in {"start", "spawn"}
  /\ Cardinality(workers) < MinWorkers
  /\ Cardinality(workers) < MaxWorkers
  /\ Free(p)
  /\ pc' = [pc EXCEPT ![p] = "loop"]
  /\ workers' = workers \cup {p}
  /\ UNCHANGED <<row, job, mpc, passVars, faults>>

\* monitor_workers wakes up and calls check_workers.
BeginPass ==
  /\ mpc = "idle"
  /\ mpc' = "check"
  /\ todo' = workers
  /\ UNCHANGED <<row, workerVars, workers, exited, subject, victim, faults>>

\* Mutant of CheckRunning: a dead worker is passed over.
CheckRunningOnly(p) ==
  /\ mpc = "check"
  /\ p \in todo
  /\ todo' = todo \ {p}
  /\ IF Alive(p) THEN mpc' = "duration" /\ subject' = p ELSE UNCHANGED <<mpc, subject>>
  /\ UNCHANGED <<row, workerVars, workers, exited, victim, faults>>

\* The is_running test of the loop in check_workers.
CheckRunning(p) ==
  /\ mpc = "check"
  /\ p \in todo
  /\ todo' = todo \ {p}
  /\ IF Alive(p)
     THEN mpc' = "duration" /\ subject' = p /\ UNCHANGED exited
     ELSE exited' = exited \cup {p} /\ UNCHANGED <<mpc, subject>>
  /\ UNCHANGED <<row, workerVars, workers, victim, faults>>

\* The manager goes on with the next worker; `gone` says whether it counts the
\* one it has just judged among exited_workers.
NextWorker(gone) ==
  /\ mpc' = "check"
  /\ exited' = IF gone THEN exited \cup {subject} ELSE exited
  /\ subject' = NoPid
  /\ victim' = NoTask

\* Mutant of DurationFine: the answer of check_task_duration is inverted.
DurationFineInverted ==
  /\ mpc = "duration"
  /\ \/ Active(subject) = {}
     \/ \E t \in Active(subject) : row[t].started = "recent"
  /\ NextWorker(TRUE)
  /\ UNCHANGED <<row, workerVars, workers, todo, faults>>

\* check_task_duration reads one ACTIVE row of the subject, if it has any, and
\* finds that it is not overdue.
DurationFine ==
  /\ mpc = "duration"
  /\ \/ Active(subject) = {}
     \/ \E t \in Active(subject) : row[t].started = "recent"
  /\ NextWorker(FALSE)
  /\ UNCHANGED <<row, workerVars, workers, todo, faults>>

DurationExceeded ==
  /\ mpc = "duration"
  /\ \E t \in Active(subject) :
       /\ row[t].started = "overdue"
       /\ victim' = t
  /\ mpc' = "terminate"
  /\ UNCHANGED <<row, workerVars, workers, todo, exited, subject, faults>>

\* The query raises: check_task_duration returns True.
DurationFails ==
  /\ mpc = "duration"
  /\ Happens("managerDb")
  /\ NextWorker(TRUE)
  /\ UNCHANGED <<row, workerVars, workers, todo>>

\* terminate_long_running_task: UPDATE, SIGTERM, and the commit at the end of
\* the transaction that check_task_duration has opened.
Terminate ==
  /\ mpc = "terminate"
  /\ row' = [row EXCEPT ![victim] = TimedOut(@)]
  /\ Dies(subject)
  /\ NextWorker(TRUE)
  /\ UNCHANGED <<workers, todo, faults>>

\* The UPDATE raises before the signal is sent; the exception is swallowed.
TerminateFails ==
  /\ mpc = "terminate"
  /\ Happens("managerDb")
  /\ NextWorker(TRUE)
  /\ UNCHANGED <<row, workerVars, workers, todo>>

\* The commit raises after the signal was sent.
TerminateNotCommitted ==
  /\ mpc = "terminate"
  /\ Happens("managerDb")
  /\ Dies(subject)
  /\ NextWorker(TRUE)
  /\ UNCHANGED <<row, workers, todo>>

\* Mutant of PopExited: the list of exited workers is cleared when they are popped.
PopExitedAndForget ==
  /\ mpc = "check"
  /\ todo = {}
  /\ mpc' = "spawn"
  /\ workers' = workers \ exited
  /\ exited' = {}
  /\ UNCHANGED <<row, workerVars, todo, subject, victim, faults>>

\* The loop is over: the exited workers leave the pool, maintain_worker_pool begins.
PopExited ==
  /\ mpc = "check"
  /\ todo = {}
  /\ mpc' = "spawn"
  /\ workers' = workers \ exited
  /\ UNCHANGED <<row, workerVars, passVars, faults>>

\* Mutant of PoolFull: the loop stops one worker short.
PoolAlmostFull ==
  /\ mpc = "spawn"
  /\ Cardinality(workers) >= MinWorkers - 1
  /\ mpc' = IF exited = {} THEN "idle" ELSE "reset"
  /\ UNCHANGED <<row, workerVars, workers, passVars, faults>>

\* maintain_worker_pool returns once the pool is full.
PoolFull ==
  /\ mpc = "spawn"
  /\ Cardinality(workers) >= MinWorkers
  /\ mpc' = IF exited = {} THEN "idle" ELSE "reset"
  /\ UNCHANGED <<row, workerVars, workers, passVars, faults>>

\* reset_broken_tasks(exited_workers)
ResetBroken ==
  /\ mpc = "reset"
  /\ row' = Requeued(row, exited)
  /\ mpc' = "idle"
  /\ exited' = {}
  /\ UNCHANGED <<workerVars, workers, todo, subject, victim, faults>>

\* The UPDATE raises: the error is logged and the list of pids is forgotten.
ResetFails ==
  /\ mpc = "reset"
  /\ Happens("managerDb")
  /\ mpc' = "idle"
  /\ exited' = {}
  /\ UNCHANGED <<row, workerVars, workers, todo, subject, victim>>

\* What the manager forgets when its process ends; no row is touched.
Forget ==
  /\ mpc' = "down"
  /\ workers' = {}
  /\ todo' = {}
  /\ exited' = {}
  /\ subject' = NoPid
  /\ victim' = NoTask
  /\ UNCHANGED row

Kill(pids) ==
  /\ pc' = [p \in Pids |-> IF p \in pids THEN "none" ELSE pc[p]]
  /\ job' = [p \in Pids |-> IF p \in pids THEN NoTask ELSE job[p]]

\* stop: the monitor is cancelled at whatever await it is, every worker of the
\* pool gets SIGTERM, the pool is cleared.
Stop ==
  /\ mpc \notin {"down", "start"}
  /\ Happens("outage")
  /\ Kill(workers)
  /\ Forget

\* The server process dies: the workers, in sessions of their own (setsid), go on.
ServerCrash ==
  /\ mpc # "down"
  /\ Happens("outage")
  /\ Forget
  /\ UNCHANGED workerVars

\* The container dies with everything in it.
HostCrash ==
  /\ mpc # "down"
  /\ Happens("outage")
  /\ Kill(Pids)
  /\ Forget

-----------------------------------------------------------------------------
WorkerStep(p) ==
  \/ Claim(p) \/ StoreResult(p) \/ HandlerRaises(p) \/ StoreFails(p)
  \/ RecordError(p) \/ RecordErrorFails(p) \/ WorkerCrash(p)

ManagerStep ==
  \/ Start \/ Started \/ BeginPass \/ DurationFine \/ DurationExceeded
  \/ DurationFails \/ Terminate \/ TerminateFails \/ TerminateNotCommitted
  \/ PopExited \/ PoolFull \/ ResetBroken \/ ResetFails
  \/ Stop \/ ServerCrash \/ HostCrash
  \/ \E p \in Pids : Spawn(p) \/ CheckRunning(p)

Next ==
  \/ \E t \in Tasks : Enqueue(t) \/ BecomesOverdue(t)
  \/ \E p \in Pids : WorkerStep(p)
  \/ ManagerStep

Spec == Init /\ [][Next]_vars

\* The monitor task of the server is scheduled again and again, a worker in its
\* loop keeps polling, and time passes.  Nothing is assumed of a handler that a
\* worker executes, of the users, or of the faults.
Supervision ==
  \/ Start \/ Started \/ BeginPass \/ DurationFine \/ DurationExceeded
  \/ Terminate \/ PopExited \/ PoolFull \/ ResetBroken
  \/ \E p \in Pids : Spawn(p) \/ CheckRunning(p)

Fairness ==
  /\ WF_vars(Supervision)
  /\ \A p \in Pids : WF_vars(Claim(p))
  /\ \A t \in Tasks : WF_vars(BecomesOverdue(t))

FairSpec == Spec /\ Fairness

-----------------------------------------------------------------------------
(* Properties *)

Running(p) == pc[p] \in {"run", "error"}

\* A worker that executes a task is the one the task's row names, and the row is
\* ACTIVE; so no task is ever executed by two workers.  Holds whatever crashes,
\* and whatever the server's life, as long as no transaction of the manager
\* fails (check_task_duration, reset_broken_tasks).
HoldsItsTask ==
  faults["managerDb"] = 0 =>
    \A p \in Pids : Running(p) =>
      /\ job[p] \in Tasks
      /\ row[job[p]].status = "ACTIVE"
      /\ row[job[p]].pid = p

\* A task that is ACTIVE will be noticed if its worker dies: the pid in its row is
\* one the manager supervises or one it is about to reset (check_workers pops the
\* pid, spawns, and only then resets).
Recoverable ==
  faults["managerDb"] = 0 /\ faults["outage"] = 0 =>
    \A t \in Tasks : row[t].status = "ACTIVE" => row[t].pid \in workers \cup exited

\* Every living worker is in the manager's pool and so counts against its size;
\* check_workers drops from the pool only processes that have ended.
Supervised ==
  faults["managerDb"] = 0 /\ faults["outage"] = 0 =>
    /\ {p \in Pids : Alive(p)} \subseteq workers
    /\ Cardinality(workers) <= MinWorkers

\* check_task_duration answers True when its own query fails, and the worker it was
\* asked about leaves the pool alive.  Each failed transaction of the manager lets
\* at most one worker escape, so the living processes never exceed the pool by more.
EscapesAreCounted ==
  faults["outage"] = 0 =>
    Cardinality({p \in Pids : Alive(p)} \ workers) <= faults["managerDb"]

\* The worker that terminate_long_running_task signals executes the task that was
\* found overdue, if it still executes anything.
KillsTheOverdue ==
  faults["workerDb"] = 0 /\ ~PidReuse =>
    (mpc = "terminate" /\ Running(subject) => job[subject] = victim)

\* "COMPLETED and FAILED are terminal states" (db/models.py): a settled row is
\* not written again, although the UPDATEs of the workers do not look at the
\* status and the manager decides on a row it has read earlier.
TerminalIsFinal ==
  [][faults'["managerDb"] = 0 =>
       \A t \in Tasks : row[t].status \in Terminal => row'[t] = row[t]]_vars

\* The queue keeps the promise of TaskContract.
Contract == INSTANCE TaskContract WITH
  status <- [t \in Tasks |-> row[t].status],
  holder <- [t \in Tasks |-> row[t].pid],
  running <- job

ContractSpec == Contract!Spec

\* Every queued task is settled at last, whether its handler returns, raises,
\* hangs or takes its worker down (boundedly often).
EveryTaskSettles ==
  \A t \in Tasks : row[t].status = "QUEUED" ~> row[t].status \in Terminal

\* Once the work is done the pool is back to min_workers living workers for good.
PoolRecovers ==
  <>[](Cardinality({p \in workers : Alive(p)}) = MinWorkers)

-----------------------------------------------------------------------------
(* What a comment of the code says, and the code does not keep when a        *)
(* transaction fails                                                         *)

\* db/models.py: "COMPLETED and FAILED are terminal states".
SettledForGood ==
  [][\A t \in Tasks : row[t].status \in Terminal => row'[t].status = row[t].status]_vars
=============================================================================
