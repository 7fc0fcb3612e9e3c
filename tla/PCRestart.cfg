SPECIFICATION FairSpec
CONSTANTS
  w1 = w1
  w2 = w2
  a = a
  b = b
  r1 = r1
  r2 = r2
  Pids = {w1, w2}
  NoPid = NoPid
  Packages = {a}
  Signed = {a}
  NoPackage = NoPackage
  NoTask = NoTask
  NoCheck = NoCheck
  MaxKind = 2
  Kinds <- MCKinds
  MaxId = 6
  Tasks <- MCTasks
  Requests = {r1, r2}
  Ops = {"check", "restart"}
  Returns = {"completed"}
  MaxLost = 1
INVARIANTS TypeOK OutcomeIsItsOwn
PROPERTIES UnfinishedIsKept QueuedIsClaimedFirst ChecksComeToAnEnd
