---------------------------- MODULE PackageChecks ----------------------------
(***************************************************************************)
(* The checks of a package (routes/package.py): a committer starts the     *)
(* verification tasks of a package, restarts them once they have settled,  *)
(* or deletes the package with its tasks, while workers execute the tasks. *)
(*                                                                         *)
(* A handler reads, decides, and commits in one transaction at its end.    *)
(* SQLite takes its lock at the first write, and the reads before it take  *)
(* none: another handler or a worker may commit between what a handler     *)
(* reads and what it commits.  Row ids come from SQLite's rowid allocation *)
(* (no AUTOINCREMENT): one more than the largest id now in the table, so   *)
(* the ids of deleted rows are given again.  PRAGMA foreign_keys is        *)
(* executed on one connection of the pool only: whether a handler's commit *)
(* is checked depends on the connection it got.                            *)
(*                                                                         *)
(* The workers are those of TaskQueue, as TaskContract describes them.     *)
(***************************************************************************)
EXTENDS TaskTable, FiniteSets

CONSTANTS Packages,   \* artifact_sha3 values
          Signed,     \* the packages that have a signature_sha3
          Kinds,      \* 1..n: the verification tasks of a package, in their order
          Requests,   \* handlers that can be in progress at once
          Ops,        \* which handlers are used: "check", "restart", "delete", "bulk"
          Returns,    \* what the tasks' handlers return, of Outcome
          NoPackage, NoTask, NoCheck,
          MaxLost     \* bound on the workers that die

ASSUME PackagesAreNamed == Signed \subseteq Packages /\ NoPackage \notin Packages
ASSUME KindsAreNumbered == IsFiniteSet(Kinds) /\ Kinds # {} /\ Kinds = 1..Cardinality(Kinds)
ASSUME OpsAreHandlers == Ops \subseteq {"check", "restart", "delete", "bulk"}
ASSUME ReturnsAreOutcomes == Returns \subseteq {"completed", "failed"} /\ Returns # {}
ASSUME NullsAreDistinct == NoTask \notin Tasks /\ NoCheck \notin Packages \X Kinds
ASSUME LostIsNat == MaxLost \in Nat

VARIABLES
  store,    \* the packages that have a row
  row,      \* the task table
  about,    \* about[t]: the package and kind (package_sha3, task_type) of row t;
            \* NoCheck for a task that is not about a package
  job,      \* job[w]: the task id that worker w has claimed
  args,     \* args[w]: the package and kind it was given with the claim
  earned,   \* earned[t]: the package and kind that the outcome in row t is about
  rpc,      \* rpc[r]: where handler r is
  target,   \* target[r]: the package it is about
  seen,     \* seen[r]: the tasks it has read
  lost      \* how many workers have died

requestVars == <<rpc, target, seen>>
workerVars == <<job, args, earned, lost>>
vars == <<store, row, about, job, args, earned, rpc, target, seen, lost>>

Check == Packages \X Kinds

TypeOK ==
  /\ store \subseteq Packages
  /\ row \in [Tasks -> Row]
  /\ about \in [Tasks -> Check \cup {NoCheck}]
  /\ job \in [Pids -> Tasks \cup {NoTask}]
  /\ args \in [Pids -> Check \cup {NoCheck}]
  /\ earned \in [Tasks -> Check \cup {NoCheck}]
  /\ rpc \in [Requests -> {"idle"} \cup (Ops \ {"bulk"}) \cup {"create", "recreate", "remove"}]
  /\ target \in [Requests -> Packages \cup {NoPackage}]
  /\ seen \in [Requests -> SUBSET Tasks]
  /\ lost \in 0..MaxLost

Init ==
  /\ store = {}
  /\ row = [t \in Tasks |-> NoRow]
  /\ about = [t \in Tasks |-> NoCheck]
  /\ job = [w \in Pids |-> NoTask]
  /\ args = [w \in Pids |-> NoCheck]
  /\ earned = [t \in Tasks |-> NoCheck]
  /\ rpc = [r \in Requests |-> "idle"]
  /\ target = [r \in Requests |-> NoPackage]
  /\ seen = [r \in Requests |-> {}]
  /\ lost = 0

Present == {t \in Tasks : row[t].status # "ABSENT"}
TasksOf(p) == {t \in Present : about[t] # NoCheck /\ about[t][1] = p}
\* The largest id in the table.
Base == CHOOSE n \in Tasks \cup {0} :
          (n = 0 \/ n \in Present) /\ \A t \in Present : t <= n

Unfinished(t) == row[t].status \in {"QUEUED", "ACTIVE"}

-----------------------------------------------------------------------------
(* Handlers *)

\* The package's row is committed (package_add_single_post; the files are the
\* subject of UploadStore).
Upload(p) ==
  /\ p \notin store
  /\ store' = store \cup {p}
  /\ UNCHANGED <<row, about, workerVars, requestVars>>

\* package_add_bulk_post: a task without a package.
Bulk ==
  /\ "bulk" \in Ops
  /\ Base + 1 \in Tasks
  /\ row' = [row EXCEPT ![Base + 1] = Inserted]
  /\ UNCHANGED <<store, about, workerVars, requestVars>>

\* A handler finds the package (package_data_get) and begins.
Begin(r, op, p) ==
  /\ rpc[r] = "idle"
  /\ op # "bulk"
  /\ p \in store
  /\ rpc' = [rpc EXCEPT ![r] = op]
  /\ target' = [target EXCEPT ![r] = p]
  /\ UNCHANGED <<store, row, about, workerVars, seen>>

Done(r) ==
  /\ rpc' = [rpc EXCEPT ![r] = "idle"]
  /\ target' = [target EXCEPT ![r] = NoPackage]
  /\ seen' = [seen EXCEPT ![r] = {}]

\* Mutant of ReadStatus: only an ACTIVE task counts as in progress.
ReadStatusActiveOnly(r) ==
  /\ rpc[r] \in {"check", "restart"}
  /\ LET tasks == TasksOf(target[r]) IN
       IF (\E t \in tasks : row[t].status = "ACTIVE") \/ target[r] \notin Signed
       THEN Done(r)
       ELSE /\ rpc' = [rpc EXCEPT ![r] = IF @ = "check" THEN "create" ELSE "recreate"]
            /\ seen' = [seen EXCEPT ![r] = tasks]
            /\ UNCHANGED target
  /\ UNCHANGED <<store, row, about, workerVars>>

\* task_package_status_get, and task_verification_create up to its objects: the
\* request goes on only if no task of the package is QUEUED or ACTIVE and the
\* package has a signature (without one it never had tasks to delete either).
ReadStatus(r) ==
  /\ rpc[r] \in {"check", "restart"}
  /\ LET tasks == TasksOf(target[r]) IN
       IF (\E t \in tasks : Unfinished(t)) \/ target[r] \notin Signed
       THEN Done(r)
       ELSE /\ rpc' = [rpc EXCEPT ![r] = IF @ = "check" THEN "create" ELSE "recreate"]
            /\ seen' = [seen EXCEPT ![r] = tasks]
            /\ UNCHANGED target
  /\ UNCHANGED <<store, row, about, workerVars>>

\* The table after a batch of tasks for p is inserted and the rows `gone` are
\* deleted; the unit of work sends its INSERTs before its DELETEs.
Batch == {Base + k : k \in Kinds}

Replace(p, gone) ==
  /\ row' = [t \in Tasks |-> CASE t \in gone -> NoRow
                               [] t \in Batch \ gone -> Inserted
                               [] OTHER -> row[t]]
  /\ about' = [t \in Tasks |-> CASE t \in gone -> NoCheck
                                 [] t \in Batch \ gone -> <<p, t - Base>>
                                 [] OTHER -> about[t]]
  /\ earned' = [t \in Tasks |-> IF t \in gone \cup Batch THEN NoCheck ELSE earned[t]]

\* A commit raises: the database stays locked for longer than the timeout of the
\* connection, or the connection enforces the foreign key and the commit breaks it.
\* The transaction is rolled back.
CommitFails(r) ==
  /\ rpc[r] \in {"create", "recreate", "remove"}
  /\ Done(r)
  /\ UNCHANGED <<store, row, about, workerVars>>

\* root_package_check or root_package_check_restart commits, be the package still
\* there or not.  The set of ids bounds the number of batches.
CommitBatch(r) ==
  /\ rpc[r] \in {"create", "recreate"}
  /\ Batch \subseteq Tasks
  /\ Replace(target[r], IF rpc[r] = "create" THEN {} ELSE seen[r])
  /\ Done(r)
  /\ UNCHANGED <<store, job, args, lost>>

\* Mutant of Cascade: Package.tasks has no delete cascade.
CascadeNothing(r) ==
  /\ rpc[r] = "delete"
  /\ rpc' = [rpc EXCEPT ![r] = "remove"]
  /\ UNCHANGED <<store, row, about, workerVars, target, seen>>

\* Mutant of Cascade: only the settled tasks are deleted with their package.
CascadeSettled(r) ==
  /\ rpc[r] = "delete"
  /\ seen' = [seen EXCEPT ![r] = {t \in TasksOf(target[r]) : ~Unfinished(t)}]
  /\ rpc' = [rpc EXCEPT ![r] = "remove"]
  /\ UNCHANGED <<store, row, about, workerVars, target>>

\* root_package_delete: data.delete loads the tasks that the cascade will delete.
Cascade(r) ==
  /\ rpc[r] = "delete"
  /\ seen' = [seen EXCEPT ![r] = TasksOf(target[r])]
  /\ rpc' = [rpc EXCEPT ![r] = "remove"]
  /\ UNCHANGED <<store, row, about, workerVars, target>>

\* It commits: the loaded tasks and the package go, tasks added meanwhile stay.
CommitDelete(r) ==
  /\ rpc[r] = "remove"
  /\ store' = store \ {target[r]}
  /\ row' = [t \in Tasks |-> IF t \in seen[r] THEN NoRow ELSE row[t]]
  /\ about' = [t \in Tasks |-> IF t \in seen[r] THEN NoCheck ELSE about[t]]
  /\ earned' = [t \in Tasks |-> IF t \in seen[r] THEN NoCheck ELSE earned[t]]
  /\ Done(r)
  /\ UNCHANGED <<job, args, lost>>

-----------------------------------------------------------------------------
(* Workers *)

Claim(w) ==
  /\ job[w] = NoTask
  /\ \E t \in Tasks :
       /\ Oldest(row, t)
       /\ row' = [row EXCEPT ![t] = Claimed(@, w)]
       /\ job' = [job EXCEPT ![w] = t]
       /\ args' = [args EXCEPT ![w] = about[t]]
  /\ UNCHANGED <<store, about, earned, lost, requestVars>>

\* Mutant of Finish: the UPDATE takes the first ACTIVE row, not the claimed one.
FinishFirstActive(w) ==
  /\ job[w] # NoTask
  /\ \E t \in Tasks :
       /\ row[t].status = "ACTIVE"
       /\ \A u \in Tasks : row[u].status = "ACTIVE" => t <= u
       /\ row' = [row EXCEPT ![t] = Stored(@, "completed")]
       /\ earned' = [earned EXCEPT ![t] = args[w]]
  /\ job' = [job EXCEPT ![w] = NoTask]
  /\ args' = [args EXCEPT ![w] = NoCheck]
  /\ UNCHANGED <<store, about, lost, requestVars>>

\* The outcome goes to the row with the id that was claimed, if there is one.
Finish(w) ==
  /\ job[w] # NoTask
  /\ IF job[w] \in Present
     THEN /\ \E outcome \in Returns :
               row' = [row EXCEPT ![job[w]] = Stored(@, outcome)]
          /\ earned' = [earned EXCEPT ![job[w]] = args[w]]
     ELSE UNCHANGED <<row, earned>>
  /\ job' = [job EXCEPT ![w] = NoTask]
  /\ args' = [args EXCEPT ![w] = NoCheck]
  /\ UNCHANGED <<store, about, lost, requestVars>>

\* Mutant of Lose: the manager gives up a worker that is still alive.
LoseLiving(w) ==
  /\ job[w] # NoTask
  /\ lost < MaxLost
  /\ lost' = lost + 1
  /\ row' = Requeued(row, {w})
  /\ UNCHANGED <<job, args, store, about, earned, requestVars>>

\* Mutant of Lose: nobody resets the dead worker's task.
LoseTheTask(w) ==
  /\ job[w] # NoTask
  /\ lost < MaxLost
  /\ lost' = lost + 1
  /\ job' = [job EXCEPT ![w] = NoTask]
  /\ args' = [args EXCEPT ![w] = NoCheck]
  /\ UNCHANGED <<store, row, about, earned, requestVars>>

\* A worker dies and the manager returns its task to the queue.
Lose(w) ==
  /\ job[w] # NoTask
  /\ lost < MaxLost
  /\ lost' = lost + 1
  /\ row' = Requeued(row, {w})
  /\ job' = [job EXCEPT ![w] = NoTask]
  /\ args' = [args EXCEPT ![w] = NoCheck]
  /\ UNCHANGED <<store, about, earned, requestVars>>

-----------------------------------------------------------------------------
Next ==
  \/ \E p \in Packages : Upload(p)
  \/ Bulk
  \/ \E r \in Requests : \/ \E op \in Ops, p \in Packages : Begin(r, op, p)
                         \/ ReadStatus(r) \/ CommitBatch(r) \/ CommitFails(r)
                         \/ Cascade(r) \/ CommitDelete(r)
  \/ \E w \in Pids : Claim(w) \/ Finish(w) \/ Lose(w)

Spec == Init /\ [][Next]_vars

\* Workers go on; that a claimed task settles is what TaskQueue shows
\* (EveryTaskSettles).  Users need not come back.
FairSpec == Spec /\ \A w \in Pids : WF_vars(Claim(w)) /\ WF_vars(Finish(w))

-----------------------------------------------------------------------------
(* Properties *)

\* The outcome shown for a task is about the package and kind of that task: the
\* worker stores it by id alone (_task_result_process), whatever was deleted and
\* inserted in the table meanwhile.
OutcomeIsItsOwn ==
  \A t \in Tasks : row[t].status \in Terminal => earned[t] = about[t]

\* A task that waits or is being executed is not deleted by a restart, although the
\* restart deletes what it read some time ago (root_package_check_restart).
UnfinishedIsKept ==
  [][\A t \in Tasks : Unfinished(t) => row'[t].status # "ABSENT"]_vars

\* The tasks of a package come and go as whole batches: it has as many tasks of one
\* kind as of any other, whichever handlers interleave.
WholeBatches ==
  \A p \in Packages, k1, k2 \in Kinds :
    Cardinality({t \in Present : about[t] = <<p, k1>>})
      = Cardinality({t \in Present : about[t] = <<p, k2>>})

\* A check that is in progress is not started a second time ("Package verification
\* is already in progress"): no package has two unfinished tasks of a kind.
OneBatchInProgress ==
  \A t, u \in Present :
    t # u /\ Unfinished(t) /\ Unfinished(u) /\ about[t] # NoCheck => about[t] # about[u]

\* Every task belongs to a package that exists (the foreign key of package_sha3).
TasksHavePackages ==
  \A t \in Present : about[t] # NoCheck => about[t][1] \in store

\* db/models.py, "QUEUED can transition to ACTIVE": nothing else becomes of a queued
\* row, as long as it exists.
QueuedIsClaimedFirst ==
  [][\A t \in Tasks : row[t].status = "QUEUED"
       => row'[t].status \in {"QUEUED", "ACTIVE", "ABSENT"}]_vars

\* Checks that were started come to an end, so they can be restarted.
ChecksComeToAnEnd ==
  \A p \in Packages :
    (\E t \in TasksOf(p) : Unfinished(t)) ~> (\A t \in TasksOf(p) : ~Unfinished(t))
=============================================================================
