SPECIFICATION FairSpec
CONSTANTS
  Loops = {l1}
  Requests = {}
  Monitor = mon
  CloseRequests = {a1}
  Symbols = {btc}
  NoSymbol = NoSymbol
  MaxOpen = 2
  DbFaults = TRUE
  RedisFaults = FALSE
  RiskRaises = FALSE
  MaxFills = 2
  MaxStops = 2
  MaxRestarts = 1
INVARIANTS
  ClosedTradeFlat
  PositionAccounted
  EveryExitCounted
PROPERTIES
  LedgerKept
  HitTradeIsClosed
