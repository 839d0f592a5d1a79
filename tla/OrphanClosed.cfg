SPECIFICATION Spec
CONSTANTS
  binance = binance
  mt5 = mt5
  Brokers = {binance, mt5}
  Unsigned = {binance}
  NoBroker = NoBroker
  Attempts <- MCAttempts
  Orders = {o1}
  Closers = {k1, k2}
  MaxFills = 2
  MaxTrouble = 2
PROPERTIES
  ClosesOrphansOnly
CHECK_DEADLOCK FALSE
