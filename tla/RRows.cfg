SPECIFICATION Spec
CONSTANTS
  h1 = h1
  h2 = h2
  u = u
  w = w
  Handlers = {h1, h2}
  Users = {u, w}
  Names = {"a", "b", "c", "tooling"}
  Tooling = "tooling"
  SessionOf <- MCSessionOf
  Fingerprints = {"f"}
  Remote <- MCRemote
  MaxAdds = 2
  MaxReleases = 2
SYMMETRY HandlerSymmetry
INVARIANTS TypeOK LinksHaveEnds CoreProjects UpdateIsWhole
PROPERTY OnlyOwnersDelete
CHECK_DEADLOCK FALSE
