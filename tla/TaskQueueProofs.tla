--------------------------- MODULE TaskQueueProofs ---------------------------
(***************************************************************************)
(* Proofs about TaskQueue, for every set of tasks and pids, every pool     *)
(* size and every bound on the faults.                                     *)
(***************************************************************************)
EXTENDS TaskQueue, TaskTableProofs, FiniteSetTheorems

\* The manager judges a worker only while it is at one of two places.
Judging ==
  /\ mpc \in {"duration", "terminate"} => subject \in Pids
  /\ mpc = "terminate" => victim \in Tasks

LEMMA TypeStep ==
  ASSUME TypeOK, Judging, [Next]_vars
  PROVE  (TypeOK /\ Judging)'
<1> USE DEF TypeOK, Judging
<1>1. ASSUME NEW t \in Tasks, Enqueue(t) \/ BecomesOverdue(t)
      PROVE  (TypeOK /\ Judging)'
  BY <1>1, RowStatements DEF Enqueue, BecomesOverdue, workerVars, passVars
<1>2. ASSUME NEW p \in Pids, WorkerStep(p)
      PROVE  (TypeOK /\ Judging)'
  <2> USE DEF WorkerPc, workerVars, passVars
  <2>1. CASE Claim(p)
    <3>1. row' \in [Tasks -> Row]
      <4>1. PICK t \in Tasks : row' = [row EXCEPT ![t] = Claimed(row[t], p)]
        BY <2>1 DEF Claim
      <4>2. Claimed(row[t], p) \in Row
        BY RowStatements
      <4>3. QED
        BY <4>1, <4>2
    <3>2. pc' \in [Pids -> WorkerPc] /\ job' \in [Pids -> Tasks \cup {NoTask}]
      BY <2>1 DEF Claim
    <3>3. QED
      BY <2>1, <3>1, <3>2 DEF Claim
  <2>2. CASE StoreResult(p)
    <3>1. row' \in [Tasks -> Row]
      <4>1. PICK o \in Outcome : row' = [row EXCEPT ![job[p]] = Stored(row[job[p]], o)]
        BY <2>2 DEF StoreResult
      <4>2. job[p] \in Tasks => Stored(row[job[p]], o) \in Row
        BY RowStatements
      <4>3. QED
        BY <4>1, <4>2
    <3>2. pc' \in [Pids -> WorkerPc] /\ job' \in [Pids -> Tasks \cup {NoTask}]
      BY <2>2 DEF StoreResult, Dies
    <3>3. QED
      BY <2>2, <3>1, <3>2 DEF StoreResult
  <2>3. CASE HandlerRaises(p)
    BY <2>3 DEF HandlerRaises
  <2>4. CASE StoreFails(p)
    BY <2>4 DEF StoreFails, Happens, Fault
  <2>5. CASE RecordError(p)
    <3>1. row' \in [Tasks -> Row]
      <4>1. PICK b \in BOOLEAN : row' = [row EXCEPT ![job[p]] = Errored(row[job[p]], b)]
        BY <2>5 DEF RecordError
      <4>2. job[p] \in Tasks => Errored(row[job[p]], b) \in Row
        BY RowStatements
      <4>3. QED
        BY <4>1, <4>2
    <3>2. pc' \in [Pids -> WorkerPc] /\ job' \in [Pids -> Tasks \cup {NoTask}]
      BY <2>5 DEF RecordError, Dies
    <3>3. QED
      BY <2>5, <3>1, <3>2 DEF RecordError
  <2>6. CASE RecordErrorFails(p)
    BY <2>6 DEF RecordErrorFails, Happens, Fault
  <2>7. CASE WorkerCrash(p)
    BY <2>7 DEF WorkerCrash, Dies, Happens, Fault
  <2>8. QED
    BY <1>2, <2>1, <2>2, <2>3, <2>4, <2>5, <2>6, <2>7 DEF WorkerStep
<1>3. ASSUME ManagerStep
      PROVE  (TypeOK /\ Judging)'
  <2> USE DEF ManagerPc, WorkerPc, workerVars, passVars
  <2>1. CASE Start \/ Started \/ BeginPass \/ PopExited \/ PoolFull
    BY <2>1 DEF Start, Started, BeginPass, PopExited, PoolFull
  <2>2. CASE DurationFine \/ DurationExceeded
    BY <2>2 DEF DurationFine, DurationExceeded, NextWorker, Active
  <2>3. CASE DurationFails \/ TerminateFails
    BY <2>3 DEF DurationFails, TerminateFails, NextWorker, Happens, Fault
  <2>4. CASE Terminate
    BY <2>4, RowStatements DEF Terminate, NextWorker, Dies
  <2>5. CASE TerminateNotCommitted
    BY <2>5 DEF TerminateNotCommitted, NextWorker, Dies, Happens, Fault
  <2>6. CASE ResetBroken \/ ResetFails
    BY <2>6, RequeuedRows DEF ResetBroken, ResetFails, Happens, Fault
  <2>7. CASE Stop \/ ServerCrash \/ HostCrash
    BY <2>7 DEF Stop, ServerCrash, HostCrash, Kill, Forget, Happens, Fault
  <2>8. CASE \E p \in Pids : Spawn(p) \/ CheckRunning(p)
    BY <2>8 DEF Spawn, CheckRunning
  <2>9. QED
    BY <1>3, <2>1, <2>2, <2>3, <2>4, <2>5, <2>6, <2>7, <2>8 DEF ManagerStep
<1>4. CASE UNCHANGED vars
  BY <1>4 DEF vars
<1>5. QED
  BY <1>1, <1>2, <1>3, <1>4 DEF Next

\* Type correctness, with what the manager's local variables hold where they are used.
THEOREM TypeCorrect == Spec => [](TypeOK /\ Judging)
<1>1. Init => TypeOK /\ Judging
  BY DEF Init, TypeOK, Judging, Row, Status, NoRow, WorkerPc, ManagerPc
<1>2. TypeOK /\ Judging /\ [Next]_vars => (TypeOK /\ Judging)'
  BY TypeStep
<1>3. QED
  BY <1>1, <1>2, PTL DEF Spec

-----------------------------------------------------------------------------
(* Who executes what *)

\* No step takes a fault back.
LEMMA FaultsStay ==
  ASSUME TypeOK, [Next]_vars
  PROVE  \A k \in Fault : faults'[k] = 0 => faults[k] = 0
<1>1. ASSUME NEW k \in Fault, Happens(k)
      PROVE  \A l \in Fault : faults'[l] = 0 => faults[l] = 0
  BY <1>1 DEF TypeOK, Happens
<1>2. CASE UNCHANGED faults
  BY <1>2
<1>3. QED
  BY <1>1, <1>2 DEF Next, vars, WorkerStep, ManagerStep, Fault, Enqueue, BecomesOverdue,
       Claim, StoreResult, HandlerRaises, StoreFails, RecordError, RecordErrorFails,
       WorkerCrash, Start, Started, Spawn, BeginPass, CheckRunning, DurationFine,
       DurationExceeded, DurationFails, Terminate, TerminateFails,
       TerminateNotCommitted, PopExited, PoolFull, ResetBroken, ResetFails, Stop,
       ServerCrash, HostCrash

\* The task the manager is about to fail was, when it was read, the subject's.
VictimIsSubjects ==
  mpc = "terminate" =>
    /\ row[victim].status \in {"ACTIVE"} \cup Terminal
    /\ row[victim].status = "ACTIVE" => row[victim].pid = subject

\* The manager takes for exited only processes that have ended, unless a
\* transaction of its own has failed.
ExitedAreDead ==
  faults["managerDb"] = 0 => \A p \in exited : ~Alive(p)

\* A process that does not execute a task remembers none.
IdleHasNoTask ==
  \A p \in Pids : ~Running(p) => job[p] = NoTask

\* The inductive invariant behind HoldsItsTask.
Ownership == HoldsItsTask /\ VictimIsSubjects /\ ExitedAreDead /\ IdleHasNoTask

LEMMA OwnershipInit == Init => Ownership
  BY DEF Init, Ownership, HoldsItsTask, VictimIsSubjects, ExitedAreDead,
         IdleHasNoTask, Running, Alive

LEMMA OwnershipStep ==
  ASSUME TypeOK, Judging, Ownership, [Next]_vars
  PROVE  Ownership'
<1> USE DEF TypeOK, Judging, Ownership, HoldsItsTask, VictimIsSubjects, ExitedAreDead,
            IdleHasNoTask, Running, Alive, WorkerPc, workerVars, passVars, Terminal
<1>0. faults'["managerDb"] = 0 => faults["managerDb"] = 0
  BY FaultsStay DEF Fault
<1>1. ASSUME NEW t \in Tasks, Enqueue(t) \/ BecomesOverdue(t)
      PROVE  Ownership'
  BY <1>1 DEF Enqueue, BecomesOverdue, Row, Status
<1>2. ASSUME NEW p \in Pids, WorkerStep(p)
      PROVE  Ownership'
  <2>1. CASE Claim(p)
    BY <2>1, NoTaskIsNull DEF Claim, Oldest, Claimed, Row
  <2>2. CASE StoreResult(p)
    BY <2>2 DEF StoreResult, Dies, Stored, Row
  <2>3. CASE HandlerRaises(p)
    BY <2>3 DEF HandlerRaises
  <2>4. CASE StoreFails(p)
    BY <1>0, <2>4 DEF StoreFails
  <2>5. CASE RecordError(p)
    BY <2>5 DEF RecordError, Dies, Errored, Row
  <2>6. CASE RecordErrorFails(p)
    BY <1>0, <2>6 DEF RecordErrorFails
  <2>7. CASE WorkerCrash(p)
    BY <1>0, <2>7 DEF WorkerCrash, Dies
  <2>8. QED
    BY <1>2, <2>1, <2>2, <2>3, <2>4, <2>5, <2>6, <2>7 DEF WorkerStep
<1>3. ASSUME ManagerStep
      PROVE  Ownership'
  <2>1. CASE Start \/ Started \/ BeginPass \/ PopExited \/ PoolFull
    BY <2>1 DEF Start, Started, BeginPass, PopExited, PoolFull
  <2>2. CASE DurationFine \/ DurationExceeded
    BY <2>2 DEF DurationFine, DurationExceeded, NextWorker, Active
  <2>3. CASE DurationFails \/ TerminateFails \/ TerminateNotCommitted
    <3>1. faults'["managerDb"] # 0
      <4>1. Happens("managerDb")
        BY <2>3 DEF DurationFails, TerminateFails, TerminateNotCommitted
      <4>2. faults["managerDb"] \in Nat
        BY DEF Fault
      <4>3. QED
        BY <4>1, <4>2 DEF Happens, Fault
    <3>2. mpc' = "check" /\ IdleHasNoTask'
      BY <2>3 DEF DurationFails, TerminateFails, TerminateNotCommitted, NextWorker, Dies
    <3>3. QED
      BY <3>1, <3>2
  <2>4. CASE Terminate
    BY <2>4 DEF Terminate, NextWorker, Dies, TimedOut, Row
  <2>5. CASE ResetBroken \/ ResetFails
    <3>1. mpc' # "terminate" /\ exited' = {} /\ UNCHANGED <<pc, job>>
      BY <2>5 DEF ResetBroken, ResetFails
    <3>2. ASSUME NEW p \in Pids, Running(p)', faults'["managerDb"] = 0
          PROVE  row'[job[p]] = row[job[p]] /\ job[p] \in Tasks
      <4>1. CASE ResetFails
        BY <1>0, <3>1, <3>2, <4>1 DEF ResetFails
      <4>2. CASE ResetBroken
        BY <1>0, <3>1, <3>2, <4>2 DEF ResetBroken, Requeued
      <4>3. QED
        BY <2>5, <4>1, <4>2
    <3>3. QED
      BY <1>0, <3>1, <3>2
  <2>6. CASE Stop \/ ServerCrash \/ HostCrash
    BY <1>0, <2>6 DEF Stop, ServerCrash, HostCrash, Kill, Forget
  <2>7. CASE \E p \in Pids : Spawn(p) \/ CheckRunning(p)
    BY <2>7 DEF Spawn, CheckRunning, Free
  <2>8. QED
    BY <1>3, <2>1, <2>2, <2>3, <2>4, <2>5, <2>6, <2>7 DEF ManagerStep
<1>4. CASE UNCHANGED vars
  BY <1>4 DEF vars
<1>5. QED
  BY <1>1, <1>2, <1>3, <1>4 DEF Next

\* A worker executes only the ACTIVE task whose row carries its pid, as long as no
\* transaction of the manager fails.
THEOREM WorkersHoldTheirTasks == Spec => []HoldsItsTask
<1>1. TypeOK /\ Judging /\ Ownership /\ [Next]_vars => Ownership'
  BY OwnershipStep
<1>2. Ownership => HoldsItsTask
  BY DEF Ownership
<1>3. QED
  BY <1>1, <1>2, OwnershipInit, TypeCorrect, PTL DEF Spec

-----------------------------------------------------------------------------
(* Settled tasks stay settled *)

\* As long as no transaction of the manager fails, a row that is COMPLETED or
\* FAILED is never written again.
THEOREM SettledRowsAreFinal == Spec => TerminalIsFinal
<1> DEFINE Final == faults'["managerDb"] = 0 =>
             \A t \in Tasks : row[t].status \in Terminal => row'[t] = row[t]
<1>1. TypeOK /\ Judging /\ Ownership /\ [Next]_vars => Final
  <2> SUFFICES ASSUME TypeOK, Judging, Ownership, [Next]_vars, faults'["managerDb"] = 0,
                      NEW t \in Tasks, row[t].status \in Terminal
               PROVE  row'[t] = row[t]
    OBVIOUS
  <2> USE DEF TypeOK, Judging, Ownership, HoldsItsTask, Running, Terminal
  <2>0. faults["managerDb"] = 0
    BY FaultsStay DEF Fault
  <2>1. CASE \E u \in Tasks : Enqueue(u) \/ BecomesOverdue(u)
    BY <2>1 DEF Enqueue, BecomesOverdue
  <2>2. ASSUME NEW p \in Pids, WorkerStep(p)
        PROVE  row'[t] = row[t]
    BY <2>0, <2>2 DEF WorkerStep, Claim, Oldest, StoreResult, HandlerRaises, StoreFails,
          RecordError, RecordErrorFails, WorkerCrash
  <2>3. CASE Terminate
    BY <2>3 DEF Terminate, TimedOut
  <2>4. CASE ResetBroken
    BY <2>4 DEF ResetBroken, Requeued
  <2>5. CASE UNCHANGED row
    BY <2>5
  <2>6. QED
    BY <2>1, <2>2, <2>3, <2>4, <2>5 DEF Next, ManagerStep, vars, Start, Started, Spawn,
       BeginPass, CheckRunning, DurationFine, DurationExceeded, DurationFails,
       TerminateFails, TerminateNotCommitted, PopExited, PoolFull, ResetFails, Stop,
       ServerCrash, HostCrash, Forget
<1>2. TypeOK /\ Judging /\ Ownership /\ [Next]_vars => Ownership'
  BY OwnershipStep
<1>3. QED
  BY <1>1, <1>2, OwnershipInit, TypeCorrect, PTL DEF Spec, TerminalIsFinal

-----------------------------------------------------------------------------
(* The pool, and what the manager will recover *)

\* The pool never exceeds min_workers.
PoolBounded == IsFiniteSet(workers) /\ Cardinality(workers) <= MinWorkers

\* With neither a failed transaction of the manager nor an outage of the server,
\* every living worker is in the pool.
LivingAreManaged ==
  faults["managerDb"] = 0 /\ faults["outage"] = 0 =>
    \A p \in Pids : Alive(p) => p \in workers

LEMMA PoolInit == Init => PoolBounded
  BY FS_EmptySet, PoolSizes DEF Init, PoolBounded

LEMMA PoolStep ==
  ASSUME TypeOK, PoolBounded, [Next]_vars
  PROVE  PoolBounded'
<1> USE DEF PoolBounded
<1>1. CASE UNCHANGED workers
  BY <1>1
<1>2. CASE workers' = {}
  BY <1>2, FS_EmptySet, PoolSizes
<1>3. CASE PopExited
  <2>1. workers' \subseteq workers
    BY <1>3 DEF PopExited
  <2>2. IsFiniteSet(workers') /\ Cardinality(workers') <= Cardinality(workers)
    BY <2>1, FS_Subset
  <2>3. Cardinality(workers) \in Nat /\ Cardinality(workers') \in Nat
    BY <2>2, FS_CardinalityType
  <2>4. QED
    BY <2>2, <2>3, PoolSizes
<1>4. ASSUME NEW p \in Pids, Spawn(p)
      PROVE  PoolBounded'
  <2>1. workers' = workers \cup {p} /\ p \notin workers /\ Cardinality(workers) < MinWorkers
    BY <1>4 DEF Spawn, Free
  <2>2. IsFiniteSet(workers') /\ Cardinality(workers') = Cardinality(workers) + 1
    BY <2>1, FS_AddElement
  <2>3. Cardinality(workers) \in Nat
    BY FS_CardinalityType
  <2>4. QED
    BY <2>1, <2>2, <2>3, PoolSizes
<1>5. QED
  BY <1>1, <1>2, <1>3, <1>4 DEF Next, vars, WorkerStep, ManagerStep, Enqueue, BecomesOverdue,
     Claim, StoreResult, HandlerRaises, StoreFails, RecordError, RecordErrorFails,
     WorkerCrash, Start, Started, BeginPass, CheckRunning, DurationFine,
     DurationExceeded, DurationFails, Terminate, TerminateFails,
     TerminateNotCommitted, PoolFull, ResetBroken, ResetFails, Stop,
     ServerCrash, HostCrash, Forget

\* Both facts about the pool and the rows that depend on it.
Recovery == Recoverable /\ LivingAreManaged

LEMMA RecoveryInit == Init => Recovery
  BY DEF Init, Recovery, Recoverable, LivingAreManaged, Alive, NoRow

LEMMA RecoveryStep ==
  ASSUME TypeOK, Judging, Ownership, Recovery, [Next]_vars
  PROVE  Recovery'
<1> DEFINE Covered(t) == row[t].status = "ACTIVE" => row[t].pid \in workers \cup exited
           Managed(p) == Alive(p) => p \in workers
<1> SUFFICES ASSUME faults'["managerDb"] = 0, faults'["outage"] = 0
             PROVE  (\A t \in Tasks : Covered(t)') /\ (\A p \in Pids : Managed(p)')
  BY DEF Recovery, Recoverable, LivingAreManaged
<1>0. /\ faults["managerDb"] = 0
      /\ \A t \in Tasks : Covered(t)
      /\ \A p \in Pids : Managed(p)
      /\ \A p \in exited : ~Alive(p)
  <2>1. faults["managerDb"] = 0 /\ faults["outage"] = 0
    BY FaultsStay DEF Fault
  <2>2. QED
    BY <2>1 DEF Recovery, Recoverable, LivingAreManaged, Ownership, ExitedAreDead
<1> USE <1>0 DEF TypeOK, Alive, workerVars, passVars
<1> DEFINE Goal == (\A t \in Tasks : Covered(t)') /\ (\A p \in Pids : Managed(p)')
<1>1. ASSUME NEW t \in Tasks, Enqueue(t) \/ BecomesOverdue(t)
      PROVE  Goal
  BY <1>1 DEF Enqueue, BecomesOverdue, Inserted, NoRow, Row
<1>2. ASSUME NEW p \in Pids, WorkerStep(p)
      PROVE  Goal
  <2> USE DEF Ownership, HoldsItsTask, Running, WorkerPc
  <2>1. CASE Claim(p)
    BY <2>1 DEF Claim, Claimed, Row
  <2>2. CASE StoreResult(p)
    BY <2>2 DEF StoreResult, Dies, Stored, Row
  <2>3. CASE HandlerRaises(p) \/ StoreFails(p) \/ RecordErrorFails(p) \/ WorkerCrash(p)
    BY <2>3 DEF HandlerRaises, StoreFails, RecordErrorFails, WorkerCrash, Dies
  <2>4. CASE RecordError(p)
    BY <2>4 DEF RecordError, Dies, Errored, Row
  <2>5. QED
    BY <1>2, <2>1, <2>2, <2>3, <2>4 DEF WorkerStep
<1>3. ASSUME ManagerStep
      PROVE  Goal
  <2>1. CASE Start \/ Started \/ BeginPass \/ PoolFull \/ DurationExceeded
    BY <2>1 DEF Start, Started, BeginPass, PoolFull, DurationExceeded
  <2>2. CASE PopExited
    BY <2>2 DEF PopExited
  <2>3. CASE DurationFine
    BY <2>3 DEF DurationFine, NextWorker
  <2>4. CASE Terminate
    BY <2>4 DEF Terminate, NextWorker, Dies, TimedOut, Row, Judging
  <2>5. CASE ResetBroken
    BY <2>5 DEF ResetBroken, Requeued, Row
  <2>6. CASE DurationFails \/ TerminateFails \/ TerminateNotCommitted \/ ResetFails
    <3>1. Happens("managerDb")
      BY <2>6 DEF DurationFails, TerminateFails, TerminateNotCommitted, ResetFails
    <3>2. QED
      BY <3>1 DEF Happens, Fault
  <2>7. CASE Stop \/ ServerCrash \/ HostCrash
    <3>1. Happens("outage") /\ faults["outage"] \in Nat
      BY <2>7 DEF Stop, ServerCrash, HostCrash, Fault
    <3>2. QED
      BY <3>1 DEF Happens, Fault
  <2>8. CASE \E p \in Pids : Spawn(p) \/ CheckRunning(p)
    BY <2>8 DEF Spawn, CheckRunning
  <2>9. QED
    BY <1>3, <2>1, <2>2, <2>3, <2>4, <2>5, <2>6, <2>7, <2>8 DEF ManagerStep
<1>4. CASE UNCHANGED vars
  BY <1>4 DEF vars
<1>5. QED
  BY <1>1, <1>2, <1>3, <1>4 DEF Next

\* With neither a failed transaction of the manager nor an outage, every ACTIVE task
\* belongs to a worker in the pool or to one whose tasks are about to be reset.
THEOREM ActiveTasksAreRecoverable == Spec => []Recoverable
<1>1. TypeOK /\ Judging /\ Ownership /\ [Next]_vars => Ownership'
  BY OwnershipStep
<1>2. TypeOK /\ Judging /\ Ownership /\ Recovery /\ [Next]_vars => Recovery'
  BY RecoveryStep
<1>3. Recovery => Recoverable
  BY DEF Recovery
<1>4. QED
  BY <1>1, <1>2, <1>3, OwnershipInit, RecoveryInit, TypeCorrect, PTL DEF Spec

\* Under the same conditions no worker lives outside the pool, and the pool never
\* exceeds its size.
THEOREM WorkersAreSupervised == Spec => []Supervised
<1>1. TypeOK /\ Judging /\ Ownership /\ [Next]_vars => Ownership'
  BY OwnershipStep
<1>2. TypeOK /\ Judging /\ Ownership /\ Recovery /\ [Next]_vars => Recovery'
  BY RecoveryStep
<1>3. TypeOK /\ PoolBounded /\ [Next]_vars => PoolBounded'
  BY PoolStep
<1>4. Recovery /\ PoolBounded => Supervised
  BY DEF Recovery, LivingAreManaged, PoolBounded, Supervised
<1>5. QED
  BY <1>1, <1>2, <1>3, <1>4, OwnershipInit, RecoveryInit, PoolInit, TypeCorrect, PTL DEF Spec

-----------------------------------------------------------------------------
(* The workers that escape *)

\* The living workers that the manager does not supervise, or is about to drop.
Escaped == {p \in Pids : Alive(p) /\ (p \notin workers \/ p \in exited)}

\* As long as the server lives, no worker escapes but the one whose judgement fails.
LEMMA OneEscapesAtMost ==
  ASSUME TypeOK, Judging, [Next]_vars, faults'["outage"] = 0
  PROVE  \/ Escaped' \subseteq Escaped /\ faults'["managerDb"] >= faults["managerDb"]
         \/ /\ \E p \in Pids : Escaped' \subseteq Escaped \cup {p}
            /\ faults'["managerDb"] = faults["managerDb"] + 1
<1> DEFINE None == Escaped' \subseteq Escaped /\ faults'["managerDb"] >= faults["managerDb"]
<1> USE DEF TypeOK, Judging, Escaped, Alive, workerVars, passVars, WorkerPc
<1>0. faults["managerDb"] \in Nat
  BY DEF Fault
<1>1. CASE \E t \in Tasks : Enqueue(t) \/ BecomesOverdue(t)
  BY <1>0, <1>1 DEF Enqueue, BecomesOverdue
<1>2. ASSUME NEW p \in Pids, WorkerStep(p)
      PROVE  None
  <2>1. faults'["managerDb"] = faults["managerDb"]
    BY <1>2 DEF WorkerStep, Claim, StoreResult, HandlerRaises, StoreFails, RecordError,
       RecordErrorFails, WorkerCrash, Happens, Fault
  <2>2. UNCHANGED <<workers, exited>>
    BY <1>2 DEF WorkerStep, Claim, StoreResult, HandlerRaises, StoreFails, RecordError,
       RecordErrorFails, WorkerCrash
  <2>3. \A q \in Pids : Alive(q)' => Alive(q)
    BY <1>2 DEF WorkerStep, Claim, StoreResult, HandlerRaises, StoreFails, RecordError,
       RecordErrorFails, WorkerCrash, Dies
  <2>4. QED
    BY <1>0, <2>1, <2>2, <2>3
<1>3. CASE Start \/ Started \/ BeginPass \/ PoolFull \/ PopExited \/ ResetBroken
  BY <1>0, <1>3 DEF Start, Started, BeginPass, PoolFull, PopExited, ResetBroken
<1>4. CASE DurationFine \/ DurationExceeded
  BY <1>0, <1>4 DEF DurationFine, DurationExceeded, NextWorker
<1>5. CASE Terminate
  BY <1>0, <1>5 DEF Terminate, NextWorker, Dies
<1>6. ASSUME Happens("managerDb")
      PROVE  faults'["managerDb"] = faults["managerDb"] + 1
  BY <1>6 DEF Happens, Fault
<1>7. CASE DurationFails \/ TerminateFails
  <2>1. subject \in Pids /\ UNCHANGED <<pc, workers>> /\ exited' = exited \cup {subject}
    BY <1>7 DEF DurationFails, TerminateFails, NextWorker
  <2>2. Escaped' \subseteq Escaped \cup {subject}
    BY <2>1
  <2>3. QED
    BY <1>6, <1>7, <2>1, <2>2 DEF DurationFails, TerminateFails
<1>8. CASE TerminateNotCommitted
  BY <1>0, <1>6, <1>8 DEF TerminateNotCommitted, NextWorker, Dies
<1>9. CASE ResetFails
  BY <1>0, <1>6, <1>9 DEF ResetFails
<1>10. CASE Stop \/ ServerCrash \/ HostCrash
  <2>1. Happens("outage") /\ faults["outage"] \in Nat
    BY <1>10 DEF Stop, ServerCrash, HostCrash, Fault
  <2>2. QED
    BY <2>1 DEF Happens, Fault
<1>11. CASE \E p \in Pids : Spawn(p) \/ CheckRunning(p)
  BY <1>0, <1>11 DEF Spawn, CheckRunning, Free
<1>12. CASE UNCHANGED vars
  BY <1>0, <1>12 DEF vars
<1>13. QED
  BY <1>1, <1>2, <1>3, <1>4, <1>5, <1>7, <1>8, <1>9, <1>10, <1>11, <1>12 DEF Next, ManagerStep

\* The inductive invariant behind EscapesAreCounted: it also counts the workers that
\* check_workers has still to pop.
EscapeInv ==
  faults["outage"] = 0 =>
    IsFiniteSet(Escaped) /\ Cardinality(Escaped) <= faults["managerDb"]

LEMMA EscapeStep ==
  ASSUME TypeOK, Judging, EscapeInv, [Next]_vars
  PROVE  EscapeInv'
<1> SUFFICES ASSUME faults'["outage"] = 0
             PROVE  IsFiniteSet(Escaped') /\ Cardinality(Escaped') <= faults'["managerDb"]
  BY DEF EscapeInv
<1>1. IsFiniteSet(Escaped) /\ Cardinality(Escaped) <= faults["managerDb"]
  BY FaultsStay DEF EscapeInv, Fault
<1>2. faults["managerDb"] \in Nat /\ Cardinality(Escaped) \in Nat
  BY <1>1, FS_CardinalityType DEF TypeOK, Fault
<1>3. CASE Escaped' \subseteq Escaped /\ faults'["managerDb"] >= faults["managerDb"]
  <2>1. IsFiniteSet(Escaped') /\ Cardinality(Escaped') <= Cardinality(Escaped)
    BY <1>1, <1>3, FS_Subset
  <2>2. Cardinality(Escaped') \in Nat /\ faults'["managerDb"] \in Nat
    <3>1. (TypeOK /\ Judging)'
      BY TypeStep
    <3>2. QED
      BY <2>1, <3>1, FS_CardinalityType DEF TypeOK, Fault
  <2>3. QED
    BY <1>1, <1>2, <1>3, <2>1, <2>2
<1>4. ASSUME NEW p \in Pids, Escaped' \subseteq Escaped \cup {p},
             faults'["managerDb"] = faults["managerDb"] + 1
      PROVE  IsFiniteSet(Escaped') /\ Cardinality(Escaped') <= faults'["managerDb"]
  <2>1. /\ IsFiniteSet(Escaped \cup {p})
        /\ Cardinality(Escaped \cup {p}) \in {Cardinality(Escaped), Cardinality(Escaped) + 1}
    BY <1>1, FS_AddElement
  <2>2. IsFiniteSet(Escaped') /\ Cardinality(Escaped') <= Cardinality(Escaped \cup {p})
    BY <1>4, <2>1, FS_Subset
  <2>3. Cardinality(Escaped') \in Nat
    BY <2>2, FS_CardinalityType
  <2>4. QED
    BY <1>1, <1>2, <1>4, <2>1, <2>2, <2>3
<1>5. QED
  BY <1>3, <1>4, OneEscapesAtMost

\* As long as the server lives, the workers that live outside the pool are not more
\* than the transactions of the manager that have failed, for every pool and every
\* number of faults.
THEOREM EscapesAreFailures == Spec => []EscapesAreCounted
<1>1. Init => EscapeInv
  <2>1. Init => Escaped = {}
    BY DEF Init, Escaped, Alive
  <2>2. QED
    BY <2>1, FS_EmptySet DEF Init, EscapeInv, Fault
<1>2. TypeOK /\ Judging /\ EscapeInv /\ [Next]_vars => EscapeInv'
  BY EscapeStep
<1>3. TypeOK /\ EscapeInv => EscapesAreCounted
  <2> SUFFICES ASSUME TypeOK, EscapeInv, faults["outage"] = 0
               PROVE  Cardinality({p \in Pids : Alive(p)} \ workers) <= faults["managerDb"]
    BY DEF EscapesAreCounted
  <2> DEFINE Outside == {p \in Pids : Alive(p)} \ workers
  <2>1. IsFiniteSet(Escaped) /\ Cardinality(Escaped) <= faults["managerDb"]
    BY DEF EscapeInv
  <2>2. Outside \subseteq Escaped
    BY DEF Escaped
  <2> HIDE DEF Outside
  <2>3. IsFiniteSet(Outside) /\ Cardinality(Outside) <= Cardinality(Escaped)
    BY <2>1, <2>2, FS_Subset
  <2>4. /\ Cardinality(Outside) \in Nat /\ Cardinality(Escaped) \in Nat
        /\ faults["managerDb"] \in Nat
    BY <2>1, <2>3, FS_CardinalityType DEF TypeOK, Fault
  <2>5. Cardinality(Outside) <= faults["managerDb"]
    BY <2>1, <2>3, <2>4
  <2>6. QED
    BY <2>5 DEF Outside
<1>4. QED
  BY <1>1, <1>2, <1>3, TypeCorrect, PTL DEF Spec

-----------------------------------------------------------------------------
(* Whom the manager kills *)

\* Without reused pids, and as long as no transaction of a worker fails: a living
\* worker that a row names executes that row's task, and the worker that is about
\* to be signalled, if it lives, still executes the task found overdue.
NamedByOneRow ==
  faults["workerDb"] = 0 /\ ~PidReuse =>
    /\ \A p \in Pids : Alive(p) => \A t \in Active(p) : Running(p) /\ job[p] = t
    /\ mpc = "terminate" /\ Alive(subject) => Running(subject) /\ job[subject] = victim

LEMMA NamedStep ==
  ASSUME TypeOK, Judging, NamedByOneRow, [Next]_vars
  PROVE  NamedByOneRow'
<1> DEFINE Names == \A p \in Pids : Alive(p) => \A t \in Active(p) : Running(p) /\ job[p] = t
           Aims == mpc = "terminate" /\ Alive(subject) => Running(subject) /\ job[subject] = victim
<1> SUFFICES ASSUME faults'["workerDb"] = 0, ~PidReuse
             PROVE  Names' /\ Aims'
  BY DEF NamedByOneRow
<1>0. Names /\ Aims
  BY FaultsStay DEF NamedByOneRow, Fault
<1> USE <1>0 DEF TypeOK, Judging, Active, Alive, Running, workerVars, passVars, WorkerPc
<1>1. ASSUME NEW t \in Tasks, Enqueue(t) \/ BecomesOverdue(t)
      PROVE  Names' /\ Aims'
  BY <1>1 DEF Enqueue, BecomesOverdue, Inserted, NoRow, Row
<1>2. ASSUME NEW p \in Pids, WorkerStep(p)
      PROVE  Names' /\ Aims'
  <2>1. CASE Claim(p)
    BY <2>1 DEF Claim, Claimed, Row
  <2>2. CASE StoreResult(p)
    BY <2>2 DEF StoreResult, Dies, Stored, Row
  <2>3. CASE HandlerRaises(p)
    BY <2>3 DEF HandlerRaises
  <2>4. CASE StoreFails(p) \/ RecordErrorFails(p)
    <3>1. Happens("workerDb") /\ faults["workerDb"] \in Nat
      BY <2>4 DEF StoreFails, RecordErrorFails, Fault
    <3>2. QED
      BY <3>1 DEF Happens, Fault
  <2>5. CASE RecordError(p)
    BY <2>5 DEF RecordError, Dies, Errored, Row
  <2>6. CASE WorkerCrash(p)
    BY <2>6 DEF WorkerCrash, Dies
  <2>7. QED
    BY <1>2, <2>1, <2>2, <2>3, <2>4, <2>5, <2>6 DEF WorkerStep
<1>3. ASSUME ManagerStep
      PROVE  Names' /\ Aims'
  <2>1. CASE Start \/ Started \/ BeginPass \/ PoolFull \/ PopExited \/ ResetFails
    BY <2>1 DEF Start, Started, BeginPass, PoolFull, PopExited, ResetFails
  <2>2. CASE DurationFine \/ DurationExceeded
    BY <2>2 DEF DurationFine, DurationExceeded, NextWorker
  <2>3. CASE DurationFails \/ TerminateFails
    BY <2>3 DEF DurationFails, TerminateFails, NextWorker
  <2>4. CASE Terminate
    BY <2>4 DEF Terminate, NextWorker, Dies, TimedOut, Row
  <2>5. CASE TerminateNotCommitted
    BY <2>5 DEF TerminateNotCommitted, NextWorker, Dies
  <2>6. CASE ResetBroken
    <3>1. \A t \in Tasks : row'[t].status = "ACTIVE" => row'[t] = row[t]
      BY <2>6, RequeuedStatus DEF ResetBroken
    <3>2. mpc' = "idle" /\ UNCHANGED <<pc, job>>
      BY <2>6 DEF ResetBroken
    <3>3. QED
      BY <3>1, <3>2
  <2>7. CASE Stop \/ ServerCrash \/ HostCrash
    BY <2>7 DEF Stop, ServerCrash, HostCrash, Kill, Forget
  <2>8. CASE \E p \in Pids : Spawn(p) \/ CheckRunning(p)
    BY <2>8 DEF Spawn, CheckRunning, Free
  <2>9. QED
    BY <1>3, <2>1, <2>2, <2>3, <2>4, <2>5, <2>6, <2>7, <2>8 DEF ManagerStep
<1>4. CASE UNCHANGED vars
  BY <1>4 DEF vars
<1>5. QED
  BY <1>1, <1>2, <1>3, <1>4 DEF Next

\* Without reused pids, and as long as no transaction of a worker fails, the worker
\* that terminate_long_running_task signals executes the overdue task or nothing,
\* also when transactions of the manager fail and the server stops.
THEOREM OnlyTheOverdueAreKilled == Spec => []KillsTheOverdue
<1>1. Init => NamedByOneRow
  BY DEF Init, NamedByOneRow, Active, Alive, NoRow
<1>2. TypeOK /\ Judging /\ NamedByOneRow /\ [Next]_vars => NamedByOneRow'
  BY NamedStep
<1>3. NamedByOneRow /\ Judging => KillsTheOverdue
  BY DEF NamedByOneRow, KillsTheOverdue, Judging, Alive, Running
<1>4. QED
  BY <1>1, <1>2, <1>3, TypeCorrect, PTL DEF Spec

-----------------------------------------------------------------------------
(* The contract *)

\* A manager whose transactions never fail.
ManagerDbSound == faults["managerDb"] = 0

\* An id that is not used yet has no holder.
AbsentAreUnheld == \A t \in Tasks : row[t].status = "ABSENT" => row[t].pid = NoPid

LEMMA AbsentStep ==
  ASSUME TypeOK, Judging, Ownership, ManagerDbSound, AbsentAreUnheld, [Next]_vars
  PROVE  AbsentAreUnheld'
<1> USE DEF TypeOK, Judging, AbsentAreUnheld
<1>1. CASE \E t \in Tasks : Enqueue(t) \/ BecomesOverdue(t)
  BY <1>1 DEF Enqueue, BecomesOverdue, Inserted, NoRow, Row
<1>2. ASSUME NEW p \in Pids, Claim(p)
      PROVE  AbsentAreUnheld'
  BY <1>2 DEF Claim, Claimed, Row
<1>3. ASSUME NEW p \in Pids, StoreResult(p)
      PROVE  AbsentAreUnheld'
  BY <1>3 DEF StoreResult, Stored, Row
<1>4. ASSUME NEW p \in Pids, RecordError(p)
      PROVE  AbsentAreUnheld'
  BY <1>4 DEF RecordError, Errored, Row
<1>5. CASE Terminate
  BY <1>5 DEF Terminate, TimedOut, Row
<1>6. CASE ResetBroken
  BY <1>6 DEF ResetBroken, Requeued, Row
<1>7. CASE UNCHANGED row
  BY <1>7
<1>8. QED
  BY <1>1, <1>2, <1>3, <1>4, <1>5, <1>6, <1>7
  DEF Next, vars, WorkerStep, ManagerStep, HandlerRaises, StoreFails, RecordErrorFails,
      WorkerCrash, Start, Started, Spawn, BeginPass, CheckRunning, DurationFine,
      DurationExceeded, DurationFails, TerminateFails, TerminateNotCommitted, PopExited,
      PoolFull, ResetFails, Stop, ServerCrash, HostCrash, Forget

LEMMA SoundStep ==
  ASSUME MaxFaults["managerDb"] = 0, TypeOK, ManagerDbSound, [Next]_vars
  PROVE  ManagerDbSound'
<1> USE DEF ManagerDbSound
<1>1. ASSUME NEW k \in Fault, Happens(k)
      PROVE  ManagerDbSound'
  BY <1>1, FaultBounds DEF TypeOK, Happens, Fault
<1>2. CASE UNCHANGED faults
  BY <1>2
<1>3. QED
  BY <1>1, <1>2 DEF Next, vars, WorkerStep, ManagerStep, Fault, Enqueue, BecomesOverdue,
       Claim, StoreResult, HandlerRaises, StoreFails, RecordError, RecordErrorFails,
       WorkerCrash, Start, Started, Spawn, BeginPass, CheckRunning, DurationFine,
       DurationExceeded, DurationFails, Terminate, TerminateFails,
       TerminateNotCommitted, PopExited, PoolFull, ResetBroken, ResetFails, Stop,
       ServerCrash, HostCrash

LEMMA ContractStep ==
  ASSUME MaxFaults["managerDb"] = 0, TypeOK, Judging, Ownership, ManagerDbSound,
         AbsentAreUnheld, [Next]_vars
  PROVE  [Contract!Next]_Contract!vars
<1> DEFINE status == [t \in Tasks |-> row[t].status]
           holder == [t \in Tasks |-> row[t].pid]
<1> USE DEF TypeOK, Contract!vars, workerVars, passVars
<1>1. CASE UNCHANGED <<row, job>>
  BY <1>1
<1>2. \A W \in SUBSET Pids :
        UNCHANGED row /\ job' = [p \in Pids |-> IF p \in W THEN NoTask ELSE job[p]]
          => Contract!Next
  <2>1. ASSUME NEW W \in SUBSET Pids, UNCHANGED row,
               job' = [p \in Pids |-> IF p \in W THEN NoTask ELSE job[p]]
        PROVE  Contract!Next
    BY <2>1 DEF Contract!Next, Contract!Drop
  <2>2. QED
    BY <2>1
<1>3. ASSUME NEW t \in Tasks, Enqueue(t)
      PROVE  Contract!Next
  <2>1. Contract!Add(t)
    BY <1>3 DEF Enqueue, Inserted, NoRow, Row, AbsentAreUnheld, Contract!Add
  <2>2. QED
    BY <2>1 DEF Contract!Next
<1>4. ASSUME NEW t \in Tasks, BecomesOverdue(t)
      PROVE  UNCHANGED Contract!vars
  BY <1>4 DEF BecomesOverdue, Row
<1>5. ASSUME NEW p \in Pids, Claim(p)
      PROVE  Contract!Next
  <2>1. PICK t \in Tasks : /\ Oldest(row, t)
                            /\ row' = [row EXCEPT ![t] = Claimed(@, p)]
                            /\ job' = [job EXCEPT ![p] = t]
    BY <1>5 DEF Claim
  <2>2. job[p] = NoTask
    BY <1>5 DEF Claim, Ownership, IdleHasNoTask, Running
  <2>3. Contract!Take(p, t)
    BY <2>1, <2>2 DEF Oldest, Claimed, Row, Contract!Take
  <2>4. QED
    BY <2>3 DEF Contract!Next
<1>6. ASSUME NEW p \in Pids, StoreResult(p) \/ RecordError(p)
      PROVE  Contract!Next
  <2>1. PICK t \in Tasks : t = job[p] /\ row[t].status = "ACTIVE" /\ row[t].pid = p
    BY <1>6 DEF StoreResult, RecordError, Ownership, HoldsItsTask, Running, ManagerDbSound
  <2>2. PICK r \in Row : /\ row' = [row EXCEPT ![t] = r]
                          /\ r.status \in {"COMPLETED", "FAILED"}
                          /\ r.pid = p
    <3>1. CASE StoreResult(p)
      <4>1. PICK o \in Outcome : row' = [row EXCEPT ![t] = Stored(row[t], o)]
        BY <2>1, <3>1 DEF StoreResult
      <4>2. Stored(row[t], o) \in Row
        BY RowStatements
      <4>3. /\ Stored(row[t], o).status \in {"COMPLETED", "FAILED"}
            /\ Stored(row[t], o).pid = p
        BY <2>1 DEF Stored, Row
      <4>4. QED
        BY <4>1, <4>2, <4>3
    <3>2. CASE RecordError(p)
      <4>1. PICK b \in BOOLEAN : row' = [row EXCEPT ![t] = Errored(row[t], b)]
        BY <2>1, <3>2 DEF RecordError
      <4>2. Errored(row[t], b) \in Row
        BY RowStatements
      <4>3. /\ Errored(row[t], b).status \in {"COMPLETED", "FAILED"}
            /\ Errored(row[t], b).pid = p
        BY <2>1 DEF Errored, Row
      <4>4. QED
        BY <4>1, <4>2, <4>3
    <3>3. QED
      BY <1>6, <3>1, <3>2
  <2>3. job' = [job EXCEPT ![p] = NoTask]
    BY <1>6 DEF StoreResult, RecordError, Dies
  <2>4. Contract!Settle(p, t)
    BY <2>1, <2>2, <2>3 DEF Contract!Settle
  <2>5. QED
    BY <2>4 DEF Contract!Next
<1>7. ASSUME NEW p \in Pids, RecordErrorFails(p) \/ WorkerCrash(p)
      PROVE  Contract!Next
  <2>1. PICK W \in SUBSET Pids : W = {p}
    OBVIOUS
  <2>2. UNCHANGED row /\ job' = [q \in Pids |-> IF q \in W THEN NoTask ELSE job[q]]
    BY <1>7, <2>1 DEF RecordErrorFails, WorkerCrash, Dies
  <2>3. QED
    BY <1>2, <2>2
<1>8. CASE Terminate
  <2>1. PICK s \in Pids, v \in Tasks :
          s = subject /\ v = victim /\ job' = [job EXCEPT ![s] = NoTask]
    BY <1>8 DEF Terminate, Dies, Judging
  <2>2. CASE row[v].status = "ACTIVE"
    <3>1. row[v].pid = s
      BY <1>8, <2>1, <2>2 DEF Terminate, Ownership, VictimIsSubjects
    <3>2. \A p \in Pids : job[p] = v => p = s
      BY <3>1, NoTaskIsNull DEF Ownership, HoldsItsTask, IdleHasNoTask, ManagerDbSound
    <3>3. Contract!Expire(s, v)
      BY <1>8, <2>1, <2>2, <3>2 DEF Terminate, TimedOut, Row, Contract!Expire
    <3>4. QED
      BY <3>3 DEF Contract!Next
  <2>3. CASE row[v].status # "ACTIVE"
    <3>1. PICK W \in SUBSET Pids : W = {s}
      OBVIOUS
    <3>2. UNCHANGED row /\ job' = [p \in Pids |-> IF p \in W THEN NoTask ELSE job[p]]
      BY <1>8, <2>1, <2>3, <3>1 DEF Terminate, TimedOut
    <3>3. QED
      BY <1>2, <3>2
  <2>4. QED
    BY <2>2, <2>3
<1>9. CASE ResetBroken
  <2>0. PICK T \in SUBSET Tasks :
          T = {t \in Tasks : row[t].status = "ACTIVE" /\ row[t].pid \in exited}
    OBVIOUS
  <2>1. \A t \in T : \A w \in Pids : job[w] # t
    BY <2>0, NoTaskIsNull DEF Ownership, HoldsItsTask, IdleHasNoTask, ExitedAreDead, Running,
       Alive, ManagerDbSound
  <2>2. UNCHANGED job /\ row' = Requeued(row, exited)
    BY <1>9 DEF ResetBroken
  <2>3. \A t \in T : row'[t].status = "QUEUED" /\ row'[t].pid = NoPid
    BY <2>0, <2>2 DEF Requeued, Row
  <2>4. \A t \in Tasks \ T : row'[t] = row[t]
    BY <2>0, <2>2 DEF Requeued
  <2>5. Contract!Return(T)
    BY <2>0, <2>1, <2>2, <2>3, <2>4 DEF Contract!Return
  <2>6. QED
    BY <2>5 DEF Contract!Next
<1>10. CASE DurationFails \/ TerminateFails \/ TerminateNotCommitted \/ ResetFails
  BY <1>10, FaultBounds DEF DurationFails, TerminateFails, TerminateNotCommitted, ResetFails,
     Happens, ManagerDbSound
<1>11. CASE Stop
  BY <1>2, <1>11 DEF Stop, Kill, Forget
<1>12. CASE HostCrash
  BY <1>2, <1>12 DEF HostCrash, Kill, Forget
<1>13. QED
  BY <1>1, <1>3, <1>4, <1>5, <1>6, <1>7, <1>8, <1>9, <1>10, <1>11, <1>12
  DEF Next, vars, WorkerStep, ManagerStep, HandlerRaises, StoreFails, Start, Started, Spawn,
      BeginPass, CheckRunning, DurationFine, DurationExceeded, PopExited, PoolFull,
      ServerCrash, Forget

\* The queue keeps the promise of TaskContract if no transaction of the manager can
\* fail, whatever crashes and however often the server stops.
THEOREM ImplementsContract ==
  ASSUME MaxFaults["managerDb"] = 0
  PROVE  Spec => ContractSpec
<1>1. Init => Contract!Init
  BY DEF Init, Contract!Init, NoRow
<1>2. Init => ManagerDbSound /\ AbsentAreUnheld
  BY DEF Init, ManagerDbSound, AbsentAreUnheld, Fault, NoRow
<1>3. TypeOK /\ Judging /\ Ownership /\ [Next]_vars => Ownership'
  BY OwnershipStep
<1>4. TypeOK /\ ManagerDbSound /\ [Next]_vars => ManagerDbSound'
  BY SoundStep
<1>5. TypeOK /\ Judging /\ Ownership /\ ManagerDbSound /\ AbsentAreUnheld /\ [Next]_vars
        => AbsentAreUnheld' /\ [Contract!Next]_Contract!vars
  BY AbsentStep, ContractStep
<1>6. QED
  BY <1>1, <1>2, <1>3, <1>4, <1>5, OwnershipInit, TypeCorrect, PTL
  DEF Spec, ContractSpec, Contract!Spec
=============================================================================
