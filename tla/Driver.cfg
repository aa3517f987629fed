SPECIFICATION Spec
CONSTANTS
  Addrs = {a1, a2}
  Pushers = {p1}
  DevCap = 1
  EventCap = 1
  NoAddr = NoAddr
INVARIANTS
  DeviceReleased
  AddressNotLost
PROPERTIES
  
  AddressAnnounced
  DeliveryGoesOn
CHECK_DEADLOCK FALSE
