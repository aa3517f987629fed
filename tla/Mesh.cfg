SPECIFICATION MeshSpec
CONSTANTS
  Peers = {p1, p2}
  Objects = {o1, o2, o3, o4}
  Handlers = {h1, h2}
  Endpoints = {e1, e2}
  None = None
  Nil = Nil
  Closed = Closed
SYMMETRY Symmetry
VIEW View
CHECK_DEADLOCK FALSE
INVARIANTS
  TunnelsLearnEndpoints
  ProbedStillKnown
