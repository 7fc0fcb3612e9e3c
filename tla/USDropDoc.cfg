SPECIFICATION Spec
CONSTANTS
  r1 = r1
  r2 = r2
  r3 = r3
  a1 = a1
  a2 = a2
  s1 = s1
  s2 = s2
  NoFile = NoFile
  Requests = {r1}
  Artifacts = {a1}
  Signatures = {s1}
  Ops = {"upload"}
  MaxFaults = 0
PROPERTIES OnlyUnusedIsDropped
