----------------------------- MODULE MCTaskQueue -----------------------------
(* Small instances of TaskQueue. *)
EXTENDS TaskQueue, TLC

CONSTANTS p1, p2, p3, p4, p5, Crashes, WorkerDbErrors, ManagerDbErrors, Outages

MCTasks2 == 1..2
MCTasks3 == 1..3
MCFaults == [k \in Fault |->
  CASE k = "crash"     -> Crashes
    [] k = "workerDb"  -> WorkerDbErrors
    [] k = "managerDb" -> ManagerDbErrors
    [] k = "outage"    -> Outages]

Symmetry == Permutations(Pids)
=============================================================================
