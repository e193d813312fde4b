SPECIFICATION RecordsSpec
CONSTANTS
  Emails = {e1, e2}
  Visitors = {w1, w2}
  CodeLife = 1
  ResetLife = 1
  LastMoment = 2
  MaxRequests = 6
  Users = {u}
  Ids = {s1, s2}
  Workers = {h1, h2}
  Life = 1
  RefreshLife = 2
  MaxTime = 3
  NoSession = NoSession
  Inherited <- Databases
  Releases = {8, 13, 17}
  MaxReverts = 5
  Importers = {i1, i2}
  Trades <- Closing
  MaxImports = 3
  None = None
  NoSymbol = NoSymbol
  Entrants = {1, 2, 3}
  Enrolled <- Seats
  Marathons <- TwoMarathons
  Strategies <- Splits
  TradeKinds <- Deals
  BalancePoints <- Balances
  EquityPoints <- Equities
  Reports <- Performances
  LiveSnapshots <- Lives
  Queries <- Asked
  TopSymbols = 1
  TradeCap = 2
  MaxRecords = 3
  Runs = {x1, x2}
  MaxRuns = 3
  MaxCopies = 5
SYMMETRY Alike
INVARIANT OnlyOverwritingSavesUndo
INVARIANT SecretsWorkOnce
INVARIANT NewestTokenAdmits
PROPERTY ImplementsRegistry
INVARIANT StartsArrive
PROPERTY StartsKeepData
INVARIANT ItemsAreStoredOnce
PROPERTY SnapshotGoesForward
INVARIANT AnswersShowTheRecords
 
INVARIANT MetricsTellTheRuns
CHECK_DEADLOCK FALSE
