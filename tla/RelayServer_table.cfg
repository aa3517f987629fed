SPECIFICATION Spec
CONSTANTS
  None = None
  Closer = Closer
  c1 = c1
  c2 = c2
  p1 = p1
  p2 = p2
  Conns = {c1, c2}
  Peers = {p1}
  Inbound <- HandshakesOnly
  QueueCap = 1
  Shutdown = {"cancel", "close"}
SYMMETRY ConnSymmetry
CHECK_DEADLOCK FALSE
INVARIANTS
  
  
  CloseRunsOnce

  
