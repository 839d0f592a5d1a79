SPECIFICATION Spec
CONSTANTS
  Prices = {9, 10, 11}
  Candles = 5
  Deposit = 100
  Fee = 1
  RiskPct = 3
  DrawdownPct = 8
  DailyPct = 5
  MaxLosses = 3
INVARIANTS
  LimitsPauseFirst
  ReportCoversLoss
PROPERTIES
  EntryWithinLimits
  ExitInCandle
  LossWithinRisk
CHECK_DEADLOCK FALSE
