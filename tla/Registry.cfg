SPECIFICATION Spec
CONSTANTS
  Relays = {r1, r2}
  Keys = {k1, k2}
  Machines = {m1, m2}
  Keepalives = {h1, h2}
  Preflights = {q1, q2}
  MaxOwnDevice = 2
  MaxRows = 3
  None = None
SYMMETRY Symmetry
INVARIANTS
  RegisteredIsKnown
  AssignedRelayExists
