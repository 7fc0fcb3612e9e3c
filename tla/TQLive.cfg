SPECIFICATION FairSpec
CONSTANTS
  p1 = p1
  p2 = p2
  p3 = p3
  p4 = p4
  p5 = p5
  Pids = {p1, p2, p3, p4}
  NoPid = NoPid
  NoTask = NoTask
  Tasks <- MCTasks2
  MinWorkers = 2
  MaxWorkers = 2
  Crashes = 1
  WorkerDbErrors = 1
  ManagerDbErrors = 0
  Outages = 0
  MaxFaults <- MCFaults
  PidReuse = FALSE
PROPERTIES EveryTaskSettles PoolRecovers
