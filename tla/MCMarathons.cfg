SPECIFICATION MarathonsSpec
CONSTANTS
  Users = {u1, u2}
  AccountCount = 2
  InitialAccounts = {1, 2}
  Workers = {w1, w2}
  MaxRequests = 3
  Dates <- Moved
  GivenStatuses = {"CANCELED"}
  MaxPlayers = 2
  MaxTime = 2
  NoRow = NoRow
  Checks = {k1}
  Points <- Courses
  RuleSets <- Drawdowns
  Start = 2
  End = 2
  PointsPerDay = 2
  Horizon = 3
  MaxTrades = 1
  MaxFailures = 1
INVARIANT OnlyLostWritesMiscount
INVARIANT OnlyTornLinksDiffer
PROPERTY OnlyAnEditRevives
PROPERTY TheJobsCatchUp
INVARIANT ReasonsAreFacts
PROPERTY FallsAreJudged
CHECK_DEADLOCK FALSE
