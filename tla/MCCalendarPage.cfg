CONSTANTS
  Dates <- MCDates
  All = All
  Kinds = {All, ipo}
  Versions = {0, 1}
  Listings <- MCListings
  PageSize = 1
  MaxEvents = 3
  Null = Null
  Bare = Bare
SPECIFICATION PageSpec
INVARIANTS
  PageTypeOK
  OneListing
  DetailIsSelected
  SettledShowsChoice
PROPERTIES
  Settles
CHECK_DEADLOCK FALSE
