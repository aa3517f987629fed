SPECIFICATION IndependentSpec
CONSTANTS
  Users = {u1, u2}
  Networks = {n1}
  Invitations = {i1, i2}
  Handlers = {h1, h2}
  MaxRows = 2
  None = None
  Gone = Gone
  NULL = NULL
  MaxCalls = 2
  HeaderSize = 2
  MaxMessageSize = 4
  BufferSize = 7
  Sizes = {2, 3, 5}
  MaxPackets = 3
SYMMETRY Symmetry
CHECK_DEADLOCK FALSE
INVARIANTS
  OwnerIsCreator
  AdminInvitedByCreator
  GoneLeavesNothing
  GeneratedIsCurrent
  
  DecodedInOrder
  NothingHeldBack
PROPERTIES
  FiltersOnlyNarrow
