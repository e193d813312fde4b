SPECIFICATION FairMembershipSpec
CONSTANTS
  Users = {u1, u2}
  Workers = {w1, w2, w3}
  Rows = {p1, p2, p3}
  Accounts = {a1}
  MaxPlayers = 1
  NoUser = NoUser
  NoRow = NoRow
  NoAccount = NoAccount
  Nobody = Nobody
CHECK_DEADLOCK FALSE
INVARIANT CapacityIsRespected
