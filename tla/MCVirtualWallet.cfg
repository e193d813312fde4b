SPECIFICATION FairWalletSpec
CONSTANTS
  Users = {u1}
  Requests = {r1, r2, r3}
  RawAmounts <- MCRawAmounts
  Refs = {x}
  NoRef = NoRef
  NoWallet = NoWallet
  NoCall = NoCall
  Nobody = Nobody
  MaxBalance = 3
INVARIANT TypeOK
INVARIANT LedgerExplainsBalance
INVARIANT OneEntryPerReference
PROPERTY NoPostingWhileFrozen
PROPERTY ImplementsAccounts
PROPERTY RequestsEnd
CHECK_DEADLOCK FALSE
