SPECIFICATION PaymentsSpec
CONSTANTS
  Users = {u1}
  Workers = {w1, w2, w3, w4}
  Rows = {p1, p2, p3}
  Accounts = {}
  MaxPlayers = 1
  NoUser = NoUser
  NoRow = NoRow
  NoAccount = NoAccount
  Nobody = Nobody
  MaxPayments = 2
  ChargeAmounts <- MCChargeAmounts
  MaxProfile = 2000
SYMMETRY Symmetry
CHECK_DEADLOCK FALSE
INVARIANT ProcessedOnce
