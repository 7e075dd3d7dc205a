CONSTANTS
  Wizards = {w1, w2}
  Handlers = {h1, h2}
  Databases = {d1, d2}
  MaxCrashes = 1
  None = None
SPECIFICATION Spec
SYMMETRY Symmetry
INVARIANTS
  PopulatedOnce
  InstalledIsComplete
  CompleteShown
