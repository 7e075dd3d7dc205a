\* Nothing happens once MaxEvents were handled: the end is no deadlock.
CONSTANTS
  Handlers = {h1, h2}
  NTasks = 2
  Days = {1}
  Lifetime <- MCLifetime
  EventCount <- MCEventCount
  MaxFinish <- MCMaxFinish
  ScoreTasks = {2}
  ExpTasks = {1, 2}
  BadgeTasks = {1, 2}
  NeedExp <- MCNeedExp
  MySQL = FALSE
  MaxEvents = 4
  None = None
SPECIFICATION Spec
SYMMETRY Symmetry
CHECK_DEADLOCK FALSE
INVARIANTS
  DuplicateLogSkipped
