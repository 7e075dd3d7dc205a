\* Publishers stop for good once MaxRevisions is reached: the end is no deadlock.
CONSTANTS
  Publishers = {p1, p2}
  Instances = {i1, i2}
  Requests = {r1, r2}
  Contents = {c1, c2}
  MaxAttempts = 2
  MaxTries = 2
  MaxRevisions = 1
  None = None
SPECIFICATION FairSpec
CHECK_DEADLOCK FALSE
INVARIANTS
  TypeOK
  NoRepeatedVersion
  FailsOnlyUnderContention
PROPERTIES
  KeepsHistory
  RequestsEnd
