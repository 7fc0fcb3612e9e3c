---------------------------- MODULE WorkerTasks -----------------------------
(***************************************************************************)
(* One worker process (worker.py) with the handlers of its tasks: the      *)
(* verification of archives, the mail test, the bulk download, and the two *)
(* that can only fail (signature.check and vote.initiate open a            *)
(* synchronous session, for which no engine is ever created).  TaskQueue   *)
(* has the other processes and leaves out what the handlers do.            *)
(*                                                                         *)
(* The worker takes another task only after an error that it could not     *)
(* record; a load gives the handler of each task in the table, no two of   *)
(* the same, and what the tasks are about.                                 *)
(***************************************************************************)
EXTENDS ArchiveTasks, MailTask, BulkCrawl

CONSTANTS Loads,          \* the loads: handlers, check, archive, recipient, site, depth
          Other,          \* the pid of another worker, which executes the task 1
          MaxStoreFaults, \* bound on the worker's transactions that raise
          MaxStops        \* bound on the worker being stopped or killed

Handlers == {"archive", "mail", "bulk", "signature", "vote", "elsewhere"}
ASSUME OtherIsPid == Other \in Pids \ {Self}
ASSUME LoadsGiveHandlers == \A l \in Loads : l.handlers \in [Tasks -> Handlers]

VARIABLES
  load,    \* the handler of each task
  wpc,     \* where the worker is
  job,     \* the task it executes, or 0
  faults,  \* how many transactions have raised
  stops,   \* how often the worker was stopped
  left     \* was it killed while it had a temporary directory?

workerVars == <<load, wpc, job, faults, stops, left>>
vars == <<archiveVars, mailVars, bulkVars, row, workerVars>>

TypeOK ==
  /\ ArchiveTypeOK
  /\ MailTypeOK
  /\ CrawlTypeOK
  /\ row \in [Tasks -> Row]
  /\ load \in [Tasks -> Handlers]
  /\ wpc \in {"loop", "run", "error", "gone"}
  /\ job \in Tasks \cup {0}

Init ==
  /\ \E l \in Loads :
       /\ load = l.handlers
       /\ check = l.check /\ archive = l.archive
       /\ recipient = l.recipient
       /\ site = l.site /\ maxDepth = l.depth
  /\ row = [t \in Tasks |-> IF load[t] = "elsewhere" THEN Claimed(Inserted, Other) ELSE Inserted]
  /\ wpc = "loop"
  /\ job = 0
  /\ faults = 0 /\ stops = 0 /\ left = FALSE
  /\ ArchiveInit /\ MailInit /\ CrawlInit

-----------------------------------------------------------------------------
\* _task_next_claim
Claim ==
  /\ wpc = "loop"
  /\ \E t \in Tasks :
       /\ Oldest(row, t)
       /\ row' = [row EXCEPT ![t] = Claimed(@, Self)]
       /\ job' = t
  /\ wpc' = "run"
  /\ UNCHANGED <<archiveVars, mailVars, bulkVars, load, faults, stops, left>>

Executes(handler) == wpc = "run" /\ load[job] = handler

RunArchive ==
  /\ Executes("archive")
  /\ ArchiveNext
  /\ UNCHANGED <<mailVars, bulkVars, row, workerVars>>

RunMail ==
  /\ Executes("mail")
  /\ MailNext
  /\ UNCHANGED <<archiveVars, bulkVars, row, workerVars>>

RunBulk ==
  /\ Executes("bulk")
  /\ CrawlNext
  /\ UNCHANGED <<archiveVars, mailVars, workerVars>>

DeletePackage ==
  /\ Delete
  /\ UNCHANGED <<mailVars, bulkVars, row, workerVars>>

\* What the handler has come to; the session that signature.check asks for raises,
\* and vote.initiate returns FAILED with that error's text, which is empty.
Result ==
  CASE load[job] = "archive" -> answer
    [] load[job] = "mail" -> mailAnswer
    [] load[job] = "bulk" -> IF cpc = "returned" THEN "completed" ELSE "none"
    [] load[job] = "signature" -> "raises"
    [] load[job] = "vote" -> "failed_silently"

Finishes(r) == row' = r /\ wpc' = "gone" /\ job' = 0

\* _task_result_process commits.
StoreResult ==
  /\ wpc = "run"
  /\ Result \in Outcome
  /\ Valid(Stored(row[job], Result))
  /\ Finishes([row EXCEPT ![job] = Stored(@, Result)])
  /\ UNCHANGED <<archiveVars, mailVars, bulkVars, load, faults, stops, left>>

\* The handler raised, its result is not JSON, or the table refuses it.
HandlerRaises ==
  /\ wpc = "run"
  /\ \/ Result \in {"raises", "coroutine"}
     \/ Result \in Outcome /\ ~Valid(Stored(row[job], Result))
  /\ wpc' = "error"
  /\ UNCHANGED <<archiveVars, mailVars, bulkVars, row, load, job, faults, stops, left>>

StoreFails ==
  /\ wpc = "run"
  /\ Result \in Outcome
  /\ faults < MaxStoreFaults
  /\ faults' = faults + 1
  /\ wpc' = "error"
  /\ UNCHANGED <<archiveVars, mailVars, bulkVars, row, load, job, stops, left>>

\* _task_error_handle; with a result if the error is a task.Error.
RecordError ==
  /\ wpc = "error"
  /\ \E withResult \in BOOLEAN : Finishes([row EXCEPT ![job] = Errored(@, withResult)])
  /\ UNCHANGED <<archiveVars, mailVars, bulkVars, load, faults, stops, left>>

RecordErrorFails ==
  /\ wpc = "error"
  /\ faults < MaxStoreFaults
  /\ faults' = faults + 1
  /\ wpc' = "loop"
  /\ job' = 0
  /\ UNCHANGED <<archiveVars, mailVars, bulkVars, row, load, stops, left>>

\* SIGTERM at the time limit: SystemExit unwinds the handler, whose context
\* managers remove the temporary directory; the manager settles the row.
Stopped ==
  /\ wpc \in {"run", "error"}
  /\ stops < MaxStops
  /\ stops' = stops + 1
  /\ tempDir' = FALSE
  /\ Finishes([row EXCEPT ![job] = TimedOut(@)])
  /\ UNCHANGED <<check, archive, present, apc, extractVars, cwd, report, answer,
                 mailVars, bulkVars, load, faults, left>>

\* SIGKILL, or out of memory: nothing is unwound.
Killed ==
  /\ wpc \in {"run", "error"}
  /\ stops < MaxStops
  /\ stops' = stops + 1
  /\ left' = tempDir
  /\ Finishes(row)
  /\ UNCHANGED <<archiveVars, mailVars, bulkVars, load, faults>>

Executing == RunArchive \/ RunMail \/ RunBulk
Settling == StoreResult \/ HandlerRaises \/ StoreFails \/ RecordError \/ RecordErrorFails
Next == Claim \/ Executing \/ DeletePackage \/ Settling \/ Stopped \/ Killed

Spec == Init /\ [][Next]_vars

\* What a handler does unless an extraction fails, which nothing makes it do.
GoingOn ==
  \/ Executes("archive") /\ ArchiveSteps /\ UNCHANGED <<mailVars, bulkVars, row, workerVars>>
  \/ RunMail \/ RunBulk

\* The handlers go on: every wait in them but that for `java -version` has a limit of
\* its own, and the manager's deadline ends that one; the worker does nothing else
\* meanwhile.
FairSpec == Spec /\ WF_vars(GoingOn) /\ WF_vars(StoreResult \/ HandlerRaises \/ RecordError)

-----------------------------------------------------------------------------
(* Properties *)

\* What is extracted never takes more than MAX_EXTRACT_SIZE, not even while a file
\* is written (archive_extract_safe checks before and during each file).
DiskWithinLimit == total + part <= MaxExtract

\* RAT and syft run when the temporary directory holds exactly the archive's files
\* whose names do not lead out of it, each with the content of its last occurrence,
\* and none of them took the place of a directory, or a directory theirs.
Files == {i \in DOMAIN archive : archive[i].kind = "file"}
LastOf(name) == Max({i \in Files : Name(archive[i]) = name})
ToolSeesTheArchive ==
  apc = "tool" =>
    /\ disk = [name \in {Name(archive[i]) : i \in {j \in Files : Below(archive[j])}} |-> archive[LastOf(name)].size]
    /\ folders \cap DOMAIN disk = {}

\* Whatever way a handler ends, the worker is back in its directory, where the
\* relative paths of the database and the JAR are right, and its temporary directory
\* is removed unless SIGKILL left it behind; what it wrote elsewhere, which stays,
\* are members whose names lead out of the temporary directory.
NothingLeftBehind ==
  /\ apc \in {"idle", "returned"} \/ wpc = "gone" => ~tempDir \/ left
  /\ (\A i \in DOMAIN archive : Below(archive[i])) => outside = {}
  /\ wpc = "loop" \/ apc = "returned" => cwd = "state"

\* A verification is COMPLETED only if the archive has what the code asks for: its
\* one root has the expected name; LICENSE or NOTICE is at its root, one of them,
\* whatever is in it; each checked source file carries the header; RAT has no
\* objection and the files fit the limit.
Sizes[n \in Nat] == IF n = 0 THEN 0 ELSE Sizes[n - 1] + (IF n \in Files THEN archive[n].size ELSE 0)
UnderOneRoot(r) == r # "" /\ \E i \in NamedTops : \A j \in DOMAIN archive : archive[j].top = IF j < i THEN "" ELSE r
Deserved ==
  /\ \E i \in DOMAIN archive : UnderOneRoot(archive[i].top)
  /\ check = "verify_archive_structure" => UnderOneRoot(Expected)
  /\ check = "verify_license_files" =>
       \E i \in DOMAIN archive : UnderOneRoot(archive[i].top) /\ archive[i].base \in {"LICENSE", "NOTICE"}
  /\ check = "verify_license_headers" => \A i \in Checked : CarriesHeader(archive[i].text)
  /\ check \in Tools => Sizes[Len(archive)] <= MaxExtract
  /\ \A r \in report : r.approved \/ r.family = "Unknown license"
CompletedIsDeserved ==
  \A t \in Tasks : load[t] = "archive" /\ row[t].status = "COMPLETED" => Deserved

\* A source file whose header is written in one of the usual ways passes, whatever
\* stands above it, if each block comment there ends, on a later line than it begins.
UsualHeaderPasses ==
  \A i \in Checked :
    HeadedBelow(archive[i].text, LAMBDA lines : CommentsClose(archive[i].text.style, lines))
      => Validates(archive[i].text)

\* Every copy that the relay accepts is whole, also on a second attempt (dkim_reader
\* is set back), and there are no more copies than attempts.
CopiesAreWhole == Range(inbox) \subseteq {"whole"} /\ Len(inbox) <= tried

\* Progress is only ever shown in the row of the task that is executed or, if the
\* worker could not record the error of an earlier task, in the row that this left
\* ACTIVE under its pid (the query has LIMIT 1); and while it crawls the progress
\* does not go back.
LeftActive == {t \in Tasks \ {job} : row[t].status = "ACTIVE" /\ row[t].pid = Self}
ProgressIsOurs ==
  [][\A t \in Tasks : shown'[t] # shown[t] =>
       t \in {job} \cup LeftActive /\ (cpc = "crawl" => shown'[t] > shown[t])]_vars

\* Every task that the worker takes comes to an end for it.
TasksEnd == wpc \in {"run", "error"} ~> wpc \notin {"run", "error"}
=============================================================================
