\* No symmetry: one of the properties is a liveness property.
CONSTANTS
  Users = {u1, u2}
  Handlers = {h1, h2}
  OptionIds = {o1, o2, o3}
  OwnIds = {o1, o2}
  MaxIds = 2
  MaxTime = 2
  None = None
SPECIFICATION FairSpec
INVARIANTS
  CountsMatchRecords
  OneBallotPerUser
  BallotsLegal
PROPERTIES
  CastIsAtomic
  EveryCastAnswered
