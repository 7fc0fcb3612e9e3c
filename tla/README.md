# A TLA+ verification of ATR

TLA+ models of the Apache Trusted Release experiments (the Python program in
`src/atr` and the web framework in `src/asfquart`), the TLC runs that check
them, and proofs checked by TLAPS. `PROJECT.json` lists the runs, the source
lines each definition translates, the hazards and the theorems.

## The system

ATR is one Quart server process and a pool of worker processes that share one
SQLite file and one storage directory.

| Component | Source | State | Operations | What makes it correct |
|---|---|---|---|---|
| Task table | `db/models.py` | a row per task: status, pid, started, completed, result, error | the SQL of workers, manager and handlers | a settled row is final; the CHECK constraint |
| Worker | `worker.py` | the task it executes | claim, execute, store result, store error, loop after an error, SIGTERM | one worker per task; every claim is settled or given back |
| Manager | `manager.py` | the pool (`workers`), the list of exited workers of a pass | start, stop, spawn, look at each worker, terminate overdue work, pop, refill, reset | no ACTIVE task is lost sight of; pool size; the right worker is killed |
| Package checks | `routes/package.py` | package rows and their tasks | check, restart, delete | one batch in progress; unfinished work kept; outcomes in their own rows |
| Package storage | `routes/package.py`, `routes/__init__.py` | files named by content hash | upload, refuse a duplicate, delete | every package has its files; nothing is left behind |
| Bulk download | `tasks/bulk.py` | crawl queue, seen set, progress, cached task id | crawl, report, download | each page once, by depth; progress monotone, in a row of this worker |
| Verification tasks | `tasks/{archive,license,rat,sbom,signature}.py` | none; they read files | one handler per type | a task completes only for what it asks of the archive; limits kept; nothing left behind |
| Votes and mail | `tasks/vote.py`, `mail.py` | none | resolve, sign, send to the first host that accepts | every recipient once |
| Candidates, releases, projects, vote policies | `routes/{candidate,release,projects,vote_policy}.py` | rows | add, review, delete | no duplicates; cascades |
| Signing keys | `routes/keys.py` | key rows, links to committees | add, delete | a key once, linked to the right committees |
| Committee data | `blueprints/admin/admin.py`, `datasources/apache.py` | committee and project rows | update | repeated updates converge |
| OAuth and sessions | `asfquart/{generics,session,auth}.py` | pending login states, session cookies | login, callback, logout, read with idle limit | a state is used once and in time |
| Application | `asfquart/base.py`, `server.py` | shutdown triggers, background tasks | start, reload, stop | stops once |
| Logging | `routes/__init__.py` (`AsyncFileHandler`) | a queue and its writer | emit, write, close | order kept, nothing written twice |
| SSH | `ssh.py` | none | validate an rsync command line | only allowed command lines pass |

How they interact: a handler commits a `task` row; a worker polls, claims it with
one UPDATE and executes it; the manager learns of a worker's end from the process
and of its task from the table. Workers and manager never talk to each other
except by rows and signals. Handlers interleave with each other at every `await`,
and with the workers at every transaction.

The hard behaviours are: the interleaving of three kinds of actor over one table;
worker death at any point; failures of single transactions (SQLite locks), which
each actor swallows in its own way; server stop, crash and restart, after which
the table holds rows of processes that are gone; ids, pids and file names that
are used again; handlers that decide on what they read before an `await`.

## Modules

| Module | Models | Composes |
|---|---|---|
| `TaskTable` | rows and the SQL statements on one row | |
| `TaskQueue` | server, workers and manager over the table | extends `TaskTable` |
| `TaskContract` | what the queue promises (abstract) | |
| `PackageChecks` | handlers that add and delete a package's tasks, against workers | extends `TaskTable` |
| `UploadStore` | upload and deletion of files and package rows | |
| `Joining` | sequences joined one after another, by a recursive function | |
| `LicenseHeaders` | the comment stripper and the search for the license header | extends `Joining` |
| `ArchiveTasks` | the verification tasks that read an archive | extends `LicenseHeaders` |
| `MailTask` | the mail test and the delivery over the MX records | |
| `BulkCrawl` | the bulk download: crawl, progress, downloads | extends `TaskTable`, `Joining` |
| `WorkerTasks` | one worker process with all its handlers | extends `ArchiveTasks`, `MailTask`, `BulkCrawl` |
| `ReleaseRows` | the handlers that write committees, projects, releases and keys | |
| `OAuthLogin` | the OAuth endpoint, the cookie session, the requirements of routes | |
| `RequestLog` | the queue and the writer of the performance log | |
| `AppServer` | the server's life cycle around logins, pages and the log | extends `OAuthLogin`, `RequestLog` |
| `TaskQueueProofs`, `PackageChecksProofs`, `UploadStoreProofs`, `WorkerTasksProofs`, `ReleaseRowsProofs`, `AppServerProofs` | the proofs | each extends the module it is about |
| `TaskTableProofs` | lemmas on the SQL statements of one row | extends `TaskTable` |
| `Recursions` | induction, and functions defined by recursion on a number | |
| `MCTaskQueue`, `MCPackageChecks`, `MCUploadStore`, `MCWorkerTasks`, `MCReleaseRows`, `MCAppServer` | model values, inputs and symmetry for TLC | each extends the module it is about |

An operator whose comment begins with "Mutant of" is a plausible mistake in the
code, used in place of the operator it varies to see that a property notices.

### TaskTable and TaskQueue

A step of `TaskQueue` is what runs between two points where another process can
interfere: a transaction, a signal, or a decision of the manager.

* `row[t]` is the row with id t; time stamps keep only what the code asks of
  them (`started` is null, recent or past `max_task_seconds`). Ids stand for the
  `added` order in which tasks are claimed.
* `pc[p]`, `job[p]` are a worker process: in its polling loop, executing, or in
  the `except` clause of `_task_process`. StoreResult, HandlerRaises, StoreFails,
  RecordError, RecordErrorFails are the ways out of `_task_process`; the last one
  goes back to the loop as `_worker_loop_run` does. A worker leaves its loop
  after one task, so storing is also its end.
* `mpc`, `workers`, `todo`, `exited`, `subject`, `victim` are the manager inside
  `check_workers`: CheckRunning and the Duration actions judge one worker each,
  Terminate is `terminate_long_running_task` up to the commit of the transaction
  around it, then PopExited, Spawn, PoolFull, ResetBroken follow in the code's
  order. Every transaction has an action for its failure, with what the code's
  `except` clause then does.
* Stop, ServerCrash and HostCrash end the server: workers are killed, survive
  in their own session, or die with the container. No row is touched by any, and
  Start does not look at rows.

Abstracted: what the handlers compute (any outcome of `Outcome`, or an
exception); polling intervals; the progress that a bulk download writes to the
`result` column of its ACTIVE row; a failed spawn or claim, which changes nothing
and is tried again. Dies and the row's UPDATE in Terminate are one step because
the transaction holds SQLite's write lock from the UPDATE to its commit.

`TaskContract` knows status, holder and running only: Add, Take, Settle by the
holder, Expire by a supervisor while nobody else executes, Return of what nobody
executes, Drop. `TaskQueue` implements it under the obvious mapping (status and
pid of each row, `job`).

### PackageChecks

A handler of `routes/package.py` reads (ReadStatus, Cascade) and later commits
(CommitBatch, CommitDelete); its reads take no lock, so anything may be committed
in between. `rpc`, `target`, `seen` are the handler's place, package and the
tasks it has read. `about[t]` is the package and type of a row. Base gives new
rows their ids as SQLite does for a table without AUTOINCREMENT: one more than
the largest present, so ids of deleted rows come back. CommitFails is any commit
that raises (the lock's timeout, or a foreign key where it is enforced). The
workers are `TaskQueue`'s, reduced to Claim, Finish and Lose (death and reset in
one step, as TaskContract's Drop and Return allow). `earned[t]` is a history
variable: what the outcome in row t is about.

### UploadStore

`files` is the storage directory, `packages` and `signature` the rows. Each
`await` between file system calls ends a step: Find and Place are the existence
test and the rename in `file_hash_save`, Query and Drop the duplicate test and
what it does, Digest the second reading of the file, Look and Remove the calls of
`package_files_delete`. `dropped` is a history variable, and so is `abandoned`: what
an upload had saved when an error ended it, which nobody removes. Temporary files have
random names and are part of a handler's place; an artifact is assumed never to
be the same bytes as a signature (`ContentsDiffer`). The duplicate test by file
name and the form's validation only refuse uploads before anything happens, and
are left out.

SaveFails is an error of something a handler awaits. `app_route` wraps every
handler in a measuring wrapper that steps the handler's coroutine by hand
(`routes/__init__.py:41`, `:225`) and raises such an error itself: the handler is
not resumed, so its own `except` and `finally` clauses do not run, and a temporary
file stays.

### LicenseHeaders, ArchiveTasks, MailTask, BulkCrawl and WorkerTasks

`WorkerTasks` is the other half of `TaskQueue`: one worker with what its handlers
do. It has the ways out of `_task_process` again (StoreResult, HandlerRaises,
StoreFails, RecordError, RecordErrorFails), the only one of which that leads to a
second task is an error that could not be recorded; SIGTERM at the deadline
(Stopped), which unwinds the handler; and SIGKILL (Killed), which does not. `load`
names the handler of each task; "elsewhere" is a row that another worker holds.
`Result` is what the handler has come to. `signature.check` and `vote.initiate`
ask for a synchronous session for which no engine is ever created
(`db/__init__.py`), so the one raises and the other returns FAILED.

* `LicenseHeaders`: a line is a sequence of tokens (comment markers, a line of the
  header, other text). StripLine is one round of `_headers_strip_comments`, with
  its state `in_multiline`; Validates is the search for the header as a substring.
  CarriesHeader and UsualHeaders are the reference definitions.
* `ArchiveTasks`: `apc` is the handler's place, `archive` the sequence of members
  behind the path, `present` whether the file is still there (the server may
  delete the package at any time, and an archive is opened up to three times). The
  extraction goes member by member and chunk by chunk (`next`, `total`, `part`):
  ExtractDirectory and BeginFile make the directories a name needs (`folders`) and
  the file (`disk`), and end in FAILED where a file is in the place of a directory
  or the other way around (Blocked). A member whose name is absolute or begins with
  `..` is joined to the temporary directory's name like any other and is written
  elsewhere (`outside`), where it stays. ExtractionFails is any other exception on
  the way, which `rat.py:217` and `sbom.py:111` turn into FAILED. RAT changes the
  working directory (`cwd`) and may fail, time out or report anything in `Reports`;
  both tools are given the root directory below the temporary one. `check_integrity` returns a coroutine that nobody
  awaits, which cannot be stored.
* `MailTask`: the attempts of `_send_many`, each of which may fail before or after
  the relay has read or accepted the message; `reader` is the position in the
  buffer of the signed message.
* `BulkCrawl`: a URL is a sequence of pieces, so that "starts with" is a prefix.
  `queue`, `level`, `nextLevel`, `seen` are the crawl's variables; a page may
  answer or not. `shown` is the progress in the rows, `cachedId` the task id that
  the process keeps in a global. Within is the reference definition of what lies
  within the depth.

### ReleaseRows

The handlers of `routes/keys.py`, `routes/candidate.py` and `admin.py` that write
rows, any of them at once. A request is its reads, each a step, and then one step
for all it writes: SQLite takes its lock with the first statement that writes and
holds it to the commit. That step may always fail (Fail), and a flush fails when
a row it inserts is there already. `request[h]` holds what the handler has read.
Deleting a key goes through three steps, because SQLAlchemy loads the key's links
before it deletes them and then deletes the key by its fingerprint. The update of
the committees fetches its three sources one after another (Publish changes them
in between), looks at committees without writing as long as nothing is to change
(Look), and is then alone (CommitUpdate); Changed is the UPDATE of only those
columns that differ from what was read. `latest` is a history variable, and so is `stray`:
the links that a deletion leaves because its key was deleted and added again, with
other links, after it had read it. Whether a connection enforces foreign keys is open in CommitDelete.

### OAuthLogin, RequestLog and AppServer

`OAuthLogin` is `oauth_endpoint` seen from one browser with several requests
under way: BeginLogin draws a state, Callback pops it and asks for the token,
TokenArrives writes the session, TokenFails loses the state. The session is the
cookie: a request works on the copy it came with, and answers with a cookie only
if it changed the session (BeginPage, EndPage). `exchanges` is a history of the
token requests. `RequestLog` is `AsyncFileHandler`: an unbounded queue and one
writer task, created with the first record and never replaced; its `close` is called
as the interpreter exits, when no event loop reads the end mark it queues, and is part
of Forget. `AppServer` puts
both into the process of `runx` (`asfquart/base.py`) with ATR's life-cycle
functions (`server.py`): start-up step by step, with a failure at each; the
triggers of which the first decides between stop and reload; draining; stopping;
exec or exit; and a crash anywhere. `services` is what the process runs, `left`
what outlived it. ATR's own entry point serves the application with hypercorn;
`runx` is how `asfquart` runs it with reload, with the same life-cycle functions.

## Runs

| Run | Instance | Shows |
|---|---|---|
| `TQSupervised` | 2 tasks, 5 pids, pool of 2, a worker crash, a failing transaction of a worker and one of the manager | types, ownership, recoverability, supervision, the right victim, finality, escapes bounded by the manager's failures |
| `TQOutage` | 2 tasks, pool of 1, 2 outages, pids reused | refinement of `TaskContract` through stop, crash and restart |
| `TQLive` | fair, pool of 2, a crash and a worker's failing transaction | every task settles; the pool recovers |
| `PCRestart` | fair workers, 2 handlers, 1 package, 2 task types, 6 ids, a lost worker | outcomes in their own rows, unfinished work kept, QUEUED rows only claimed, checks come to an end |
| `PCSerial` | 1 handler at a time, 2 packages, deletion, bulk tasks, ids reused | one batch, whole batches, no task without package |
| `USUploads` | 3 concurrent uploads, 2 artifacts, a fault | packages keep artifact and signature |
| `USSerial` | 1 handler at a time, uploads and deletions, 2 faults (saves, commits, crashes) | no file without a row, but what an upload had saved when an error ended it |
| `WTHandlers` | fair, 3 rows of which the worker takes up to two, 2 transactions that raise, 1 stop or kill; every handler with every input within the bounds below | the extraction's limit, tools see the archive, nothing is left behind, COMPLETED is deserved, usual headers pass, copies are whole, the crawl is exact, progress in the row of the task or of one left ACTIVE, every task ends |
| `RRows` | 2 handlers, 2 users, 4 names, a key added twice, 2 candidates, 2 states of the remote data | links have ends, keys are their owners', committees have their projects, an undisturbed update is whole |
| `APP` | 2 states, 2 requests, 2 starts, 2 log records, a clock of 2 ticks | a login state is used once and in time, the log is in order, services follow the phase |

Two runs have a violation as their expected result: each shows that the code does
not do what one of its comments says (`findings`).

| Run | The code | The counterexample |
|---|---|---|
| `TQTerminalDoc` | `models.py:251` terminal states | a query or UPDATE of the manager fails and it gives up a living worker; its task is executed twice and settled twice |
| `USDropDoc` | `package.py:105` the saved file is not used | upload the same file twice: the package loses its file |

Other places where the code and its words part, met while modelling and part of
the models, without a run of their own:

* `package.py:418` tests for active tasks before it adds a batch, but two requests
  can both test before either commits; OneBatchInProgress is therefore stated for
  one handler at a time.
* `models.py:249` lists QUEUED to ACTIVE as the first transition. Ids are used
  again, so a worker whose rows were deleted with their package can settle a new
  QUEUED row; QueuedIsClaimedFirst is checked without deletion.
* `package.py:71` calls the race over an existing file okay; with a deletion between
  the test and the end of the upload the copy is discarded and the file gone.
* `license.py:172` says that LICENSE and NOTICE exist and are valid, `license.py:193`
  that they are placed and formatted correctly. The task completes if either is at
  the root, whatever is in it: `license_ok` and `notice_ok` are reported and do not
  count (`license.py:175`). CompletedIsDeserved states what the code asks for.
* `bulk.py:169` "Get current task ID": the id is kept for the life of the process.
  If the worker could not record the error of a task and goes on with another, the
  progress of the second is written to the row of the first, which is still ACTIVE;
  also the first lookup, by the pid with LIMIT 1, may find that row. ProgressIsOurs
  names this row (LeftActive) beside that of the task executed.
* `sbom.py:37` "Safely extract an archive": a name that is absolute or begins with
  `..` leads out of the temporary directory, and what is written there is neither
  seen by the tools nor removed. ToolSeesTheArchive and NothingLeftBehind are about
  the members below the directory, and say of the others that they are only those.
* A key deleted and added again between the reads and the commit of a deletion is
  deleted as well, by its fingerprint (`keys.py:234`), although the row may be
  another user's by then, and links it did not have before are left behind.
  LinksHaveEnds (`stray`) and OnlyOwnersDelete name this case.
* An upload that an error ends after a file was saved leaves the file without a row
  (`package.py:79` removes the temporary file only). NoOrphans names these
  (`abandoned`).
* A block comment that opens and closes on one line leaves the stripper inside it
  (`license.py:440`): what follows is lost up to the next end of a comment.
  UsualHeaderPasses excludes it (CommentsClose).
* `session.py:57`: reading a session is said to update the time of the last access;
  the change is inside a nested dictionary and is sent only if something else
  changed the session too.
* `admin.py:199` "Skip non-PMC committees" compares with `None` a field that is
  `False` then: nothing is skipped.
* TasksHavePackages and WholeBatches hold for one handler at a time and fail for
  two: `PRAGMA foreign_keys` reaches one connection of the pool
  (`db/__init__.py:417`), so a check may commit during a deletion, and a restart
  deletes by ids it has read earlier, which a deletion frees for other tasks.

**Bounds.** Two tasks are needed for a worker to hold the row of another or to take a
second task. Five pids are as many as a pool of two can occupy: two exited, two
spawned and one escaped. Faults are bounded per kind so that each run has the
kinds its question is about, alone and together. `MaxFaults` bounds in the guards
(Happens, Fails), `MaxLost` and the set of ids in `PackageChecks` do the same; a
batch that does not fit the ids cannot commit, and its handler ends by
CommitFails. Two task types stand for the seven of `task_verification_create`:
whole and broken batches differ already at two. Symmetry is used over pids,
handlers, slots and packages in runs without liveness, and over packages only
where all of them have signatures.

In `WTHandlers`, archives have up to three members of sizes 0 to 3 under a limit of
4 with chunks of 2: a limit is met exactly, exceeded by one, exceeded only by the
sum, a name may occur twice, lead out of the temporary directory, or be that of a
file where a directory of the name is needed, before or after it. Source files are all files of two lines from the
fifteen kinds of line, and every usual header below one or two lines, for each
style of comment; the header has two lines (a first and a last one, with nothing
between that could be told from them). Sites are three levels deep with links back,
sideways and out of scope, for depths 1 to 3. Two MX records are the first attempt and a
second one. `MaxStoreFaults` of 2 allows an outcome and its error to be lost once,
which is what makes a second task. `Loads` gives one handler all its inputs at a
time, since handlers share no data but the worker's directory and its cached id;
two loads pair handlers over those. In `RRows`, one key is enough for requests to
meet, and two additions for a row to be replaced by another (`MaxAdds`); two candidates are as many as can compete for a name (`MaxReleases`); the remote
data change a podling into a PMC and add a podling that a user's project may have
the name of. `APP`'s `Timeout` and `Expiry` of 1 with `MaxClock` 2 let a state and a
session be in time and too late; the secret cannot be saved, which is the case in
which a restart changes it. `MaxStarts` and `MaxRecords` bound in guards.

**Fairness.** `TaskQueue`'s Supervision is weakly fair: the monitor is a loop in
the server's event loop which catches every exception. Claim is weakly fair per
worker (a polling loop), and time passes (BecomesOverdue). Nothing is assumed of
a handler: one that hangs is settled by the manager's deadline. In
`PackageChecks` the workers are fair, which EveryTaskSettles justifies; the
users' requests are not. Faults are never fair, and they are finite in number: a
task that kills every worker that takes it is queued again for ever, which the
code accepts (`manager.py:340`). In `WorkerTasks` the handler's own steps are fair,
because every wait in them has a limit (300 s for RAT and syft, the timeouts of the
HTTP and SMTP clients), but for `java -version` (`rat.py:111`, `:121`), which the
manager's deadline ends, and the process does nothing else; so is recording. Loss,
stops, deletions and an extraction that fails (ExtractionFails) are not.

Deadlock is checked in every run but three. `WTHandlers` stops when its worker has
ended, `RRows` when its bounds are used up and a request can only fail, and `APP`
after the last start; in the others the system does not stop: the server can
always make another pass, and handlers can always be called.

## Proofs

Each proof module proves its theorems for arbitrary constants (any finite or
infinite sets, sizes and bounds) from the named ASSUMEs of the modules, which TLC
evaluates in the runs. An argument is an inductive invariant: initial states
satisfy it, every action preserves it (a lemma or a step per action), and it
implies the property. Every invariant and every action property that a run checks
is also a theorem; three groups of theorems have a hypothesis, given below with
the reason for it.

**Induction.** The library states induction with an operator for a parameter, which
the provers here cannot instantiate. `Recursions` takes sets instead: a set of
numbers has a least member (from `WellFoundedInduction`), hence a set with 0 that
is closed under successor holds every number (Induction), a step function on
numbers and values has a function that follows it (UpToExists, Recursion), and
sequences can be joined (JoinExists, JoinHas, JoinIncreases, JoinGrows). A function
that a module defines by recursion (Within, Sizes, Joined, AfterVisits, `inside` of
StripComments) is unfolded once from the existence of such a function, after which
it is reasoned about by Induction. `TaskTableProofs` says once what every UPDATE
does to a row's status and pid.

`TaskQueueProofs`, for any tasks, pids, pool size and number of faults:

* `TypeCorrect`: `[](TypeOK /\ Judging)`, where Judging ties `subject` and
  `victim` to the manager's place.
* `WorkersHoldTheirTasks`, `SettledRowsAreFinal` and `ImplementsContract` from
  the invariant Ownership. HoldsItsTask alone is not inductive: ResetBroken
  preserves it only because everyone in `exited` is dead, Terminate only because
  the victim is the subject's row, and Claim because a worker in its loop holds
  nothing. Ownership conjoins these.
* `ActiveTasksAreRecoverable` from the invariant Recovery, on top of Ownership:
  the pid of an ACTIVE row is in `workers` or `exited` at every point of a pass.
* `WorkersAreSupervised`: cardinalities of the pool under Spawn and PopExited
  (with `FiniteSetTheorems`).
* `EscapesAreFailures` from EscapeInv, which counts as escaped also the workers that
  live in `exited` and will be popped: only CheckRunning after a failed query adds
  one, and that failure is counted.
* `OnlyTheOverdueAreKilled` from NamedByOneRow: while pids are not used again and no
  transaction of a worker fails, a living worker that a row names executes that
  row, so between the check of the duration and the signal the subject can only
  have ended, not have begun another task.

`ImplementsContract` is stated for `MaxFaults["managerDb"] = 0`; with such faults
the contract is broken (`TQTerminalDoc`).

`PackageChecksProofs`, for any packages, kinds, ids, workers and losses, on top of
TableInv (types, no row about nothing, and a largest id, on which Base and so the
ids of new rows rest):

* Without deletions, for any number of interleaved handlers: `OutcomesAreTheirOwn`,
  `RestartsKeepTheUnfinished` and `QueuedAreClaimedFirst` from RestartInv. Its part
  ReadersAgree is the argument: what a restart has read was settled, so it is
  settled or deleted when it commits, and its id is below Base, which does not
  fall, because a restart adds its batch in the transaction in which it deletes
  one. `RestartsKeepBatchesWhole` from Together: the tasks of a batch have
  consecutive ids and are in the table, and in what a handler has read, together or
  not at all. `RestartsKeepPackages` from AtHome.
* With every handler in use, one at a time: `OneBatchAtATime`,
  `TasksKeepTheirPackages` and `BatchesStayWhole` from SerialInv, of which UpToDate
  says that what the handler has read is still so when it commits, although the
  workers go on.

The hypotheses (`"delete"` not in `Ops`, or one handler) are those of the runs
`PCRestart` and `PCSerial`. With both two handlers and deletions, TLC finds
OutcomeIsItsOwn, WholeBatches and TasksHavePackages violated (see the list under
Runs).

`UploadStoreProofs`, for any handlers, contents and faults: `TypeCorrect` (with
Working: a handler past its start has an artifact, and a signature where it
handles one), and, while nothing is deleted, `UploadsKeepArtifacts` and
`UploadsKeepSignatures` from UploadInv: a handler past `compute_sha512` has its file
or a refused duplicate has removed it, and one past the second `file_hash_save` has
its signature. `NothingIsOrphaned` is about one handler at a time, as `USSerial` is,
with any number of faults; its invariant SoloInv says that what the handler has found
of a file or a row is still so when it uses it, and lemma AbandonedIsSaved that an
error abandons only what was saved.

`WorkerTasksProofs`, for any archives, sites, headers, limit, chunk size, loads and
faults:

* `ExtractionIsLimited` from SizeInv: while a file is written its declared size
  still fits (the check before it), and what is written never exceeds that size.
  The second check of `archive_extract_safe` is thereby shown to be redundant.
* `ToolsSeeTheFiles` from DiskInv, which says of each member read so far whose name
  does not lead out of the directory that its file is there, with its size unless a
  later member, or the one being written, has the same name; and from TreeInv, that
  files and directories have different names.
* `HandlersCleanUp` from PlaceInv: outside its handler a worker has no directory,
  and is elsewhere only while RAT runs; and from TreeInv, that what was written
  elsewhere are members whose names lead there.
* `CrawlsAreExact` from CrawlInv. Its part Wave describes the crawl in the middle of
  a depth: what fewer links lead to has been seen; what as many lead to has been
  seen or is among the first `level` members of the queue; and what one more leads
  to is seen, among those, or behind them. That a crawl which has found nothing new
  is complete is lemma WithinEnds. An artifact is counted once because `seen` is
  tested when a URL is taken, not only when it is queued.
* `CopiesAreNeverCut` from MailInv: the text is read from its beginning at every
  attempt.
* `TypeCorrect` from TypeInv, the conjunction of the above with the types of all
  variables; among them that the progress is a percentage (lemma Percentage, on
  integer division).
* `ProgressIsNotLost` from OursInv: while there is a worker, the cached task id is that
  of an ACTIVE row with its pid, which is its task's or one it left, and while the
  crawl runs no row shows more than its depth accounts for, so the next message shows
  more.
* `VerdictsAreDeserved` from VerdictInv, which says at each place of the handler what
  it has found out so far (one root directory, the sum of the sizes of the members
  read: lemma SizesAre), and CompletedInv, which ties COMPLETED rows to the
  handler's answer. For headers it rests on PassesCarry: if the header is found in
  what the stripper leaves, the header's lines stand in the file, in order
  (LinesAreLeft: a line that is left is part of a line of the file, and the order
  of the lines is kept).
* `UsualHeadersPass`, the converse for headers written in a usual way, is a fact on
  every archive's files. NotInside counts the markers above: where block comments
  close, the stripper is not inside one. From there each line of the header is
  stripped to itself (UsualLines), the stripper stays where it is from line to line
  (PassesBelow), and nothing is left between these lines (PassesThere). It needs
  HeaderHasNoMarkers: a line of the header that had a marker would be cut.

`ReleaseRowsProofs`, for any handlers, users, names, keys and remote data:

* `KeyLinksHaveEnds`, `CommitteesHaveTheirProjects` and the action property
  `KeysAreTheirOwners` from RowsInv. Its main part is Knows, what a handler that has
  read something may rely on although others run: the keys it read were its user's,
  they were added no later than the last one added (so that a row added since is
  another), and if a key is still the one it read, every link to it was read too.
* `ProjectsAreNotTakenOver`, of every step: a project is there to stay, with its
  committee, whoever else adds one of its name (two candidates, or a candidate and an
  update, of which only one can insert the row).
* `TypeCorrect` from RowTypes, which adds to the tables what each request holds.
* `UpdatesAreWhole` from UpdateInv. Its part Seen says of an update beside which
  there is no other that the rows it has visited are what they should be, and that
  what it holds of the row it is about to change is the row. Lemma AfterIs, by
  induction on the visits, then shows that although only columns that differ from
  what was read are written, the last visit decides the row.

`AppServerProofs`, for any states, requests, clock and number of starts:
`TypeCorrect`; `TokensAreBoughtOnce` from StatesAreSpent (a state is either pending
or, once exchanged, never again, and was issued before); `ServicesAreStopped` from
PhaseInv (the services of each phase); `RecordsKeepTheirOrder` from LogInv (file,
record in hand and queue are segments of the emitted numbers).

**Assumptions.** Those on the constants that are more than types: the kinds of tasks
are numbered without gaps, as the list in `task_verification_create` is
(KindsAreNumbered); a page's links are a sequence (SitesHaveLinks); the header has a
first and a last line, no line twice (HeaderIsLong), and none of its lines has a
comment marker (HeaderHasNoMarkers, true of `_APACHE_LICENSE_HEADER`); an archive is
a sequence of members with sizes, its source files consist of lines, and a file of one
component is not named like the root or the directory above (ArchivesHaveMembers); `Loads` gives a handler to each task (LoadsGiveHandlers); the
remote lists name each committee once and not the Tooling committee, which the code
adds itself (RemoteLists).

**Only model-checked:** liveness (EveryTaskSettles, PoolRecovers, ChecksComeToAnEnd,
TasksEnd). It rests on fairness, and so on ENABLED, which is outside the prover's
reach.

## Not modelled

* Templates, static files, typestubs, migrations, bootstrap and scripts carry no
  state. `config.py`, `util.py`, `preload.py`, the API blueprint and the read-only
  pages read and render. The LDAP and HTTP data sources are input.
* `ssh.py`: the validation of an rsync command line is a pure predicate on its
  words, and the transfer is input and output; only its start and stop are in
  `AppServer`.
* The building of SQL queries in `db/__init__.py`; what a query returns is written
  where it is used.
* What DKIM signing computes; RAT, syft, GnuPG and the HTTP servers, which answer
  anything they can.
* Vote policies: `projects.py:67` adds a row that nothing refers to and no handler reads
  or changes; `routes/vote_policy.py` edits nothing yet. Deleting a release fails before it
  changes anything: `release.py:72` loads a relationship lazily in an asynchronous
  session.
* Bearer tokens, LDAP lookups, form decoding and template watching of `asfquart`:
  not configured by ATR, or presentation.

## Plan

Done: `TaskTable`, `TaskQueue`, `TaskContract`; `PackageChecks`; `UploadStore`;
`LicenseHeaders`, `ArchiveTasks`, `MailTask`, `BulkCrawl`, `WorkerTasks`;
`ReleaseRows`; `OAuthLogin`, `RequestLog`, `AppServer`; and the proofs of every
safety property that the runs check.

Worth doing next: state what holds of `PackageChecks` with two handlers and deletions
when foreign keys are enforced on every connection; what survives of
`TaskContract` when the manager's transactions fail (each failure can break it for
the tasks of one worker); a type invariant of `AppServer` among the properties of
its run.
