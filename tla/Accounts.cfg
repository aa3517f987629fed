CONSTANTS
  Accounts = {a1}
  Machines = {m1, m2, m3}
  Keys = {k1}
  Tokens = {t1, t2}
  Handlers = {h1, h2}
  None = None
  Nobody = Nobody
  Gone = Gone
SPECIFICATION Spec
SYMMETRY Symmetry
INVARIANTS PairOrNothing  KeyTokensOwned
 
