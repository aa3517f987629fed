SPECIFICATION Spec
CONSTANTS
  None = None
  Puller = Puller
  Stopper = Stopper
  Servers = {s1, s2}
  Clients = {c1, c2}
  Adders = {a}
  Lists <- AnyList
  EventCap = 1
CHECK_DEADLOCK FALSE
INVARIANTS
  ListedServed

  
SYMMETRY Symmetry
VIEW View
CONSTRAINT Running
