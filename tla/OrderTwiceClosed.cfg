SPECIFICATION Spec
CONSTANTS
  binance = binance
  mt5 = mt5
  Brokers = {mt5}
  Unsigned = {}
  NoBroker = NoBroker
  Attempts <- MCAttempts
  Orders = {o1}
  Closers = {k1, k2}
  MaxFills = 1
  MaxTrouble = 0
PROPERTIES
  ClosesOpenTradesOnly
CHECK_DEADLOCK FALSE
