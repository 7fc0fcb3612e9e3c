SPECIFICATION Spec
CONSTANTS
  p1 = p1
  p2 = p2
  p3 = p3
  p4 = p4
  p5 = p5
  Pids = {p1, p2, p3, p4}
  NoPid = NoPid
  NoTask = NoTask
  Tasks <- MCTasks2
  MinWorkers = 1
  MaxWorkers = 2
  Crashes = 0
  WorkerDbErrors = 0
  ManagerDbErrors = 1
  Outages = 0
  MaxFaults <- MCFaults
  PidReuse = FALSE
PROPERTIES SettledForGood
