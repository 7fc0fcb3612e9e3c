----------------------------- MODULE RequestLog -----------------------------
(***************************************************************************)
(* The log of route performance (AsyncFileHandler of                       *)
(* atr/routes/__init__.py).  A request puts its record into an unbounded   *)
(* queue; one writer task of the event loop, created with the first        *)
(* record, truncates the file and moves the records into it.  A record is  *)
(* the number of its emission in this process.                             *)
(***************************************************************************)
EXTENDS Integers, Sequences, SequencesExt

VARIABLES
  emitted,  \* records emitted by this process
  queue,    \* AsyncFileHandler.queue
  writer,   \* our_worker_task: "none", "new", "idle", "writing", "dead"
  held,     \* the record the writer took from the queue, or 0
  skipped,  \* records whose write or flush failed
  file      \* the records in the file

logVars == <<emitted, queue, writer, held, skipped, file>>

LogTypeOK ==
  /\ emitted \in Nat
  /\ queue \in Seq(1..emitted)
  /\ writer \in {"none", "new", "idle", "writing", "dead"}
  /\ held \in 0..emitted
  /\ skipped \subseteq 1..emitted
  /\ file \in Seq(Nat)

LogInit ==
  /\ emitted = 0
  /\ queue = <<>>
  /\ writer = "none"
  /\ held = 0
  /\ skipped = {}
  /\ file = <<>>

\* Mutant of Ensured: a new writer, which truncates the file, for every record.
EnsuredAnew(w) == "new"

\* our_worker_task_ensure: only a task that was never created is created; one that
\* ended is not replaced.
Ensured(w) == IF w = "none" THEN "new" ELSE w

Emit ==
  /\ emitted' = emitted + 1
  /\ queue' = Append(queue, emitted')
  /\ writer' = Ensured(writer)
  /\ UNCHANGED <<held, skipped, file>>

\* our_worker opens the file with "wb+".
Open ==
  /\ writer = "new"
  /\ writer' = "idle"
  /\ file' = <<>>
  /\ UNCHANGED <<emitted, queue, held, skipped>>

\* The file cannot be opened: the task ends with the error, which nobody retrieves.
OpenFails ==
  /\ writer = "new"
  /\ writer' = "dead"
  /\ UNCHANGED <<emitted, queue, held, skipped, file>>

Take ==
  /\ writer = "idle"
  /\ queue # <<>>
  /\ held' = Head(queue)
  /\ queue' = Tail(queue)
  /\ writer' = "writing"
  /\ UNCHANGED <<emitted, skipped, file>>

Write ==
  /\ writer = "writing"
  /\ file' = Append(file, held)
  /\ held' = 0
  /\ writer' = "idle"
  /\ UNCHANGED <<emitted, queue, skipped>>

\* Writing or flushing fails: handleError, and on to the next record.  What was
\* written but not flushed may reach the file after all.
WriteFails ==
  /\ writer = "writing"
  /\ \E landed \in BOOLEAN : file' = IF landed THEN Append(file, held) ELSE file
  /\ skipped' = skipped \cup {held}
  /\ held' = 0
  /\ writer' = "idle"
  /\ UNCHANGED <<emitted, queue>>

\* The process is gone, with the queue and the writer; the file stays until the
\* writer of the next process opens it.  close, which logging calls as the
\* interpreter exits, only queues an end mark that no event loop is there to read.
Forget ==
  /\ emitted' = 0
  /\ queue' = <<>>
  /\ writer' = "none"
  /\ held' = 0
  /\ skipped' = {}
  /\ UNCHANGED file

LogStep == Open \/ OpenFails \/ Take \/ Write \/ WriteFails

-----------------------------------------------------------------------------
Increasing(s) == \A i, j \in 1..Len(s) : i < j => s[i] < s[j]

\* Until the writer has opened the file, the file is that of an earlier process.
Mine == IF writer \in {"idle", "writing"} THEN file ELSE <<>>

Passing == IF held = 0 THEN <<>> ELSE <<held>>

\* The file, the record being written and the queue hold, in this order, every
\* record emitted by the process in the order of its emission, except those whose
\* write failed: none is dropped, written twice or overtaken.  If the writer could
\* not open the file, they stay in the queue for ever.
LogIsInOrder ==
  LET all == Mine \o Passing \o queue
  IN /\ Increasing(all)
     /\ 1..emitted \ skipped \subseteq ToSet(all)
     /\ ToSet(all) \subseteq 1..emitted
=============================================================================
