CONSTANTS
  Users = {u1, u2}
  Topics = {t1}
  Comments = {c1}
  Handlers = {h1, h2}
  BountySettings = {TRUE}
  MaxScore = 1
  MaxRows = 1
  None = None
SPECIFICATION Spec
SYMMETRY Symmetry
PROPERTY RefundOnlyUnaccepted
