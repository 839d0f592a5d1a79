--------------------------- MODULE MCLiveTrading ---------------------------
EXTENDS LiveTrading

CONSTANTS binance, mt5

\* _retryable sends an order at most twice; the MT5 adapter sends it once.
MCAttempts == [b \in Brokers |-> IF b = binance THEN 2 ELSE 1]
=============================================================================
