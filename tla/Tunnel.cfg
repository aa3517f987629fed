SPECIFICATION Spec
CONSTANTS
  a1 = a1
  a2 = a2
  Addrs = {a1, a2}
  Announced <- MCAnnounced
  Endpoints = {e1, e2, e3}
  Calls = {s1, s2}
  ChCap = 2
  None = None
INVARIANT OneDiscovery
PROPERTY AnnouncementUsed
CHECK_DEADLOCK FALSE
