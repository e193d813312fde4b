SPECIFICATION FairWithdrawalsSpec
CONSTANTS
  Users = {u1, u2}
  Requests = {r1, r2, r3}
  RawAmounts <- MCRawAmounts
  Refs = {}
  NoRef = NoRef
  NoWallet = NoWallet
  NoCall = NoCall
  Nobody = Nobody
  MaxBalance = 3
  PoolSize = 3
  Opening = 3
  LastDay = 2
  Switches <- MCSwitches
INVARIANT WithdrawalsTypeOK
INVARIANT EveryDebitIsOneWithdrawal
INVARIANT NumbersCountTheDay
PROPERTY OnlyPoolExhaustionHangs
CHECK_DEADLOCK FALSE
