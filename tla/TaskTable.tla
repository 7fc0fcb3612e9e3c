------------------------------ MODULE TaskTable ------------------------------
(***************************************************************************)
(* The `task` table of the SQLite database (db/models.py, class Task): the *)
(* columns the queue depends on, and the SQL statements that the workers   *)
(* (worker.py), the manager (manager.py) and the web handlers execute on   *)
(* one row.  Each statement is an operator from a row to a row; the        *)
(* modules that use them say when it runs and what else happens.           *)
(*                                                                         *)
(* A time stamp is kept only as far as the code looks at it: `started` is  *)
(* NULL, less than max_task_seconds ago, or more; `completed` is set or    *)
(* not, as are `result` and `error`.                                       *)
(***************************************************************************)
EXTENDS Integers

CONSTANTS Tasks,   \* row ids; ids are given in the order of the `added` column
          Pids,    \* process ids a worker can have
          NoPid    \* the NULL of the pid column

ASSUME TaskIds == Tasks \subseteq Nat
ASSUME NoPidIsNull == NoPid \notin Pids

Status == {"ABSENT", "QUEUED", "ACTIVE", "COMPLETED", "FAILED"}
Terminal == {"COMPLETED", "FAILED"}

Row == [status    : Status,                 \* "ABSENT": no such row
        pid       : Pids \cup {NoPid},
        started   : {"null", "recent", "overdue"},
        completed : BOOLEAN,
        result    : BOOLEAN,
        error     : BOOLEAN]

NoRow == [status |-> "ABSENT", pid |-> NoPid, started |-> "null",
          completed |-> FALSE, result |-> FALSE, error |-> FALSE]

\* CheckConstraint "valid_task_status_transitions": SQLite refuses a statement
\* that would leave a row outside it.
Valid(r) ==
  \/ r.status \in {"ABSENT", "QUEUED"}
  \/ r.status = "ACTIVE"    /\ r.started # "null" /\ r.pid # NoPid
  \/ r.status = "COMPLETED" /\ r.completed /\ r.result
  \/ r.status = "FAILED"    /\ r.completed /\ r.error

-----------------------------------------------------------------------------
\* Mutant of Inserted: the value of the enum where SQLAlchemy stores its name.
InsertedByValue == [NoRow EXCEPT !.status = "queued"]

\* INSERT with the defaults of the columns.
Inserted == [NoRow EXCEPT !.status = "QUEUED"]

\* The subquery of _task_next_claim: the oldest QUEUED row.
Oldest(table, t) ==
  /\ table[t].status = "QUEUED"
  /\ \A u \in Tasks : table[u].status = "QUEUED" => t <= u

Claimed(r, p) == [r EXCEPT !.status = "ACTIVE", !.pid = p, !.started = "recent"]

\* What a handler returns: COMPLETED, FAILED with an error text, or FAILED with
\* an empty one, for which _task_result_process leaves the error column alone.
Outcome == {"completed", "failed", "failed_silently"}

Stored(r, outcome) ==
  [r EXCEPT !.status = IF outcome = "completed" THEN "COMPLETED" ELSE "FAILED",
            !.completed = TRUE,
            !.result = TRUE,
            !.error = @ \/ outcome = "failed"]

\* Mutant of Errored: the value of the enum where SQLAlchemy stores its name.
ErroredByValue(r, withResult) ==
  [r EXCEPT !.status = "failed", !.completed = TRUE, !.error = TRUE,
            !.result = @ \/ withResult]

\* _task_error_handle; only a task.Error brings a result.
Errored(r, withResult) ==
  [r EXCEPT !.status = "FAILED", !.completed = TRUE, !.error = TRUE,
            !.result = @ \/ withResult]

\* Mutant of TimedOut: the UPDATE does not ask for the status.
TimedOutAnyway(r) == [r EXCEPT !.status = "FAILED", !.completed = TRUE, !.error = TRUE]

\* terminate_long_running_task: WHERE id = :task_id AND status = 'ACTIVE'.
TimedOut(r) ==
  IF r.status = "ACTIVE"
  THEN [r EXCEPT !.status = "FAILED", !.completed = TRUE, !.error = TRUE]
  ELSE r

\* Mutant of Requeued: the UPDATE does not ask for the pid.
RequeuedAll(table, pids) ==
  [t \in Tasks |->
     IF table[t].status = "ACTIVE" /\ pids # {}
     THEN [table[t] EXCEPT !.status = "QUEUED", !.started = "null", !.pid = NoPid]
     ELSE table[t]]

\* reset_broken_tasks, on the rows WHERE status = 'ACTIVE' AND pid IN pids.
Requeued(table, pids) ==
  [t \in Tasks |->
     IF table[t].status = "ACTIVE" /\ table[t].pid \in pids
     THEN [table[t] EXCEPT !.status = "QUEUED", !.started = "null", !.pid = NoPid]
     ELSE table[t]]
=============================================================================
