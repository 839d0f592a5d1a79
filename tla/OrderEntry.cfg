SPECIFICATION Spec
CONSTANTS
  Loops = {l1}
  Requests = {r1}
  Monitor = mon
  CloseRequests = {}
  Symbols = {btc, xau}
  NoSymbol = NoSymbol
  MaxOpen = 1
  DbFaults = FALSE
  RedisFaults = TRUE
  RiskRaises = FALSE
  MaxFills = 2
  MaxStops = 1
  MaxRestarts = 0
SYMMETRY TaskSymmetry
INVARIANTS
  TypeOK
  ExposureBound
PROPERTIES
  OrderUnderStop
