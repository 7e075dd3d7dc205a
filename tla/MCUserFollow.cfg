CONSTANTS
  Users = {u1, u2}
  Handlers = {h1, h2, h3}
  None = None
SPECIFICATION Spec
SYMMETRY Symmetry
INVARIANTS
  TypeOK
  CountsNeverExceed
  BothIsMutual
