SPECIFICATION FairFeedSpec
CONSTANTS
  a = a
  balance = balance
  equity = equity
  Logins = {a}
  Fields = {balance, equity}
  Messages <- Sent
  Handlers = {w1}
  MaxRetries = 1
  MaxLength = 1
  MaxFaults = 1
INVARIANT MyLiveCatchesUp
PROPERTY EveryMessageIsSettled
CHECK_DEADLOCK FALSE
