\* Nothing happens once MaxRequests were answered: the end is no deadlock.
CONSTANTS
  Callers = {c1, c2}
  Workers = {w1, w2}
  Users = {u1}
  Authors = {"author"}
  NTopics = 2
  Author <- MCAuthor
  MaxBlocking = 2
  MaxFollows = 1
  MaxRequests = 3
  MaxLevelUps = 2
  MaxFailures = 1
SPECIFICATION FairSpec
CHECK_DEADLOCK FALSE
INVARIANTS
  TypeOK
  FeedComplete
PROPERTIES
  SendersGoOn
