SPECIFICATION FairSpec
CONSTANTS
  None = None
  Puller = Puller
  Stopper = Stopper
  Servers = {s1}
  Clients = {c1, c2}
  Adders = {a}
  Lists <- AnyList
  EventCap = 1
CHECK_DEADLOCK FALSE
PROPERTIES
  ShutdownKills
  PullerStops
