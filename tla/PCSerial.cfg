SPECIFICATION Spec
CONSTANTS
  w1 = w1
  w2 = w2
  a = a
  b = b
  r1 = r1
  r2 = r2
  Pids = {w1, w2}
  NoPid = NoPid
  Packages = {a, b}
  Signed = {a, b}
  NoPackage = NoPackage
  NoTask = NoTask
  NoCheck = NoCheck
  MaxKind = 2
  Kinds <- MCKinds
  MaxId = 4
  Tasks <- MCTasks
  Requests = {r1}
  Ops = {"check", "restart", "delete", "bulk"}
  Returns = {"completed"}
  MaxLost = 1
SYMMETRY Symmetry
INVARIANTS OneBatchInProgress TasksHavePackages WholeBatches
