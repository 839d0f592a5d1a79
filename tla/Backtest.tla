------------------------------ MODULE Backtest ------------------------------
(***************************************************************************)
(* One simulation of BacktestingEngine.run (backend/app/backtesting/       *)
(* engine.py): the loop over the candles with its reversals, entries,      *)
(* stops and targets, the account and the risk state it keeps, the close   *)
(* of what is left at the end and the metrics of the report.               *)
(*                                                                         *)
(* Prices, quantities and money are integers; a quantity is rounded down   *)
(* to whole units.  Commission, slippage and spread of both sides are one  *)
(* fee per unit.  The strategy is arbitrary: it may give any signal on any *)
(* candle.  MANDATORY_STOP_LOSS is on, the default of the settings: a      *)
(* signal without a stop does not enter, and the size of a position        *)
(* without one (a share of the balance over the price) is left out.        *)
(***************************************************************************)
EXTENDS Integers

CONSTANTS
  Prices,       \* prices candles and levels are made of
  Candles,      \* candles after min_periods
  Deposit,      \* initial_balance
  Fee,          \* costs of a unit, entry and exit together
  RiskPct,      \* risk_per_trade_pct
  DrawdownPct,  \* max_drawdown_pct, which a request may set to 100 at most
  DailyPct,     \* max_daily_loss_pct
  MaxLosses     \* max_consecutive_losses

ASSUME BacktestConstants ==
  /\ Prices \subseteq Nat \ {0}
  /\ Candles \in Nat
  /\ Deposit \in Nat \ {0}
  /\ Fee \in Nat
  /\ RiskPct \in Nat
  /\ DailyPct \in Nat \ {0} /\ DrawdownPct \in 1..100
  /\ MaxLosses \in Nat \ {0}

VARIABLES
  pc,          \* where the loop is
  i,           \* candles processed
  candle,      \* the candle of this iteration
  signal,      \* what the strategy said about the candles before it
  position,    \* the open position
  balance,     \* RiskState.balance
  peak,        \* peak_equity
  drawdown,    \* current_drawdown, in hundredths of a percent
  losses,      \* consecutive_losses
  daily,       \* daily_pnl: the losses of the day
  dayStart,    \* daily_start_balance
  locked,      \* daily_locked
  paused,      \* trading_paused
  top,         \* the highest point of equity_curve ...
  fall,        \* ... and the deepest fall from it, in hundredths of a percent
  profit,      \* net results of the winning trades in the list
  loss,        \* and of the others
  today,       \* history: losses of the trades closed on the day of this candle
  streak       \* history: losing trades at the end of the list

accountVars ==
  <<balance, peak, drawdown, losses, daily, locked, paused, profit, loss, today, streak>>
curveVars == <<top, fall>>
vars == <<pc, i, candle, signal, position, accountVars, dayStart, curveVars>>

None == 0
NoSignal == [side |-> "none", stop |-> None, target |-> None]
Flat == [side |-> "none", entry |-> None, qty |-> 0, stop |-> None, target |-> None, risk |-> 0]
Sides == {"buy", "sell"}

Signals == {NoSignal} \cup [side : Sides, stop : Prices \cup {None}, target : Prices \cup {None}]

\* validate_ohlcv_frame lets no other candle through.
Bars == {b \in [open : Prices, high : Prices, low : Prices, close : Prices] :
           b.low <= b.open /\ b.open <= b.high /\ b.low <= b.close /\ b.close <= b.high}

TypeOK ==
  /\ pc \in {"candle", "reverse", "enter", "levels", "mark", "end", "done"}
  /\ i \in 0..Candles
  /\ candle \in Bars
  /\ signal \in Signals
  /\ position \in [side : Sides \cup {"none"}, entry : Prices \cup {None}, qty : Nat,
                   stop : Prices \cup {None}, target : Prices \cup {None}, risk : Int]
  /\ balance \in Int /\ peak \in Nat \ {0} /\ dayStart \in Int /\ top \in Nat /\ fall \in Nat
  /\ drawdown \in Int
  /\ losses \in Nat /\ daily \in Nat /\ today \in Nat /\ streak \in Nat
  /\ locked \in BOOLEAN /\ paused \in BOOLEAN
  /\ profit \in Nat /\ loss \in Nat

Holding == position.side # "none"

Init ==
  /\ pc = IF Candles = 0 THEN "end" ELSE "candle"
  /\ i = 0
  /\ candle \in {b \in Bars : b.open = b.high /\ b.high = b.low /\ b.low = b.close}
  /\ signal = NoSignal
  /\ position = Flat
  /\ balance = Deposit
  /\ peak = Deposit
  /\ drawdown = 0
  /\ losses = 0
  /\ daily = 0
  /\ dayStart = Deposit
  /\ locked = FALSE
  /\ paused = FALSE
  /\ top = Deposit
  /\ fall = 0
  /\ profit = 0
  /\ loss = 0
  /\ today = 0
  /\ streak = 0

(***************************************************************************)
(* A trade is closed: its result, the trade list and the risk state.       *)
(***************************************************************************)
\* _close_position, at reference prices less all costs.
Result(p, price) ==
  (IF p.side = "buy" THEN price - p.entry ELSE p.entry - price) * p.qty - Fee * p.qty

\* A percentage in hundredths, rounded.
Hundredths(part, whole) == IF whole > 0 THEN (20000 * part + whole) \div (2 * whole) ELSE 0

\* Mutant: a limit must be exceeded before trading is paused.
UpdateRiskStateLenient(pnl) ==
  LET newBalance == balance + pnl
      newPeak == IF newBalance > peak THEN newBalance ELSE peak
      newDrawdown == Hundredths(newPeak - newBalance, newPeak)
      newLosses == IF pnl < 0 THEN losses + 1 ELSE 0
      newDaily == IF pnl < 0 THEN daily - pnl ELSE daily IN
  /\ balance' = newBalance
  /\ peak' = newPeak
  /\ drawdown' = newDrawdown
  /\ losses' = newLosses
  /\ daily' = newDaily
  /\ paused' = (paused \/ newDrawdown > 100 * DrawdownPct \/ newLosses > MaxLosses)
  /\ locked' = (locked \/ (dayStart > 0 /\ 100 * newDaily >= DailyPct * dayStart))

\* Mutant: the loss of the day is compared before the trade is added to it.
UpdateRiskStateLate(pnl) ==
  LET newBalance == balance + pnl
      newPeak == IF newBalance > peak THEN newBalance ELSE peak
      newDrawdown == Hundredths(newPeak - newBalance, newPeak)
      newLosses == IF pnl < 0 THEN losses + 1 ELSE 0
      newDaily == IF pnl < 0 THEN daily - pnl ELSE daily IN
  /\ balance' = newBalance
  /\ peak' = newPeak
  /\ drawdown' = newDrawdown
  /\ losses' = newLosses
  /\ daily' = newDaily
  /\ paused' = (paused \/ newDrawdown >= 100 * DrawdownPct \/ newLosses >= MaxLosses)
  /\ locked' = (locked \/ (dayStart > 0 /\ 100 * daily >= DailyPct * dayStart))

\* The balance and _update_risk_state.
UpdateRiskState(pnl) ==
  LET newBalance == balance + pnl
      newPeak == IF newBalance > peak THEN newBalance ELSE peak
      newDrawdown == Hundredths(newPeak - newBalance, newPeak)
      newLosses == IF pnl < 0 THEN losses + 1 ELSE 0
      newDaily == IF pnl < 0 THEN daily - pnl ELSE daily IN
  /\ balance' = newBalance
  /\ peak' = newPeak
  /\ drawdown' = newDrawdown
  /\ losses' = newLosses
  /\ daily' = newDaily
  /\ paused' = (paused \/ newDrawdown >= 100 * DrawdownPct \/ newLosses >= MaxLosses)
  /\ locked' = (locked \/ (dayStart > 0 /\ 100 * newDaily >= DailyPct * dayStart))

\* Mutant: the list keeps results before costs.
AppendGross(net) ==
  LET gross == net + Fee * position.qty IN
  /\ profit' = IF gross > 0 THEN profit + gross ELSE profit
  /\ loss' = IF gross > 0 THEN loss ELSE loss - gross
  /\ today' = IF net < 0 THEN today - net ELSE today
  /\ streak' = IF net < 0 THEN streak + 1 ELSE 0

\* The trade is appended to the list.
Append(net) ==
  /\ profit' = IF net > 0 THEN profit + net ELSE profit
  /\ loss' = IF net > 0 THEN loss ELSE loss - net
  /\ today' = IF net < 0 THEN today - net ELSE today
  /\ streak' = IF net < 0 THEN streak + 1 ELSE 0

Close(price) ==
  /\ Append(Result(position, price))
  /\ UpdateRiskState(Result(position, price))
  /\ position' = Flat

(***************************************************************************)
(* The loop.                                                               *)
(***************************************************************************)
\* _roll_risk_day on a candle of a new day, and the signal on the candles before it.
NextCandle ==
  /\ pc = "candle"
  /\ pc' = "reverse"
  /\ i' = i + 1
  /\ candle' \in Bars
  /\ signal' \in Signals
  /\ \/ UNCHANGED <<daily, dayStart, locked, today>>
     \/ /\ dayStart' = balance
        /\ daily' = 0
        /\ locked' = FALSE
        /\ today' = 0
  /\ UNCHANGED <<position, balance, peak, drawdown, losses, paused, curveVars, profit, loss, streak>>

Opposite == Holding /\ signal.side \in Sides /\ signal.side # position.side

\* A signal against the position closes it at the open.
Reverse ==
  /\ pc = "reverse"
  /\ \/ /\ Opposite
        /\ Close(candle.open)
        /\ pc' = IF paused' THEN "end" ELSE "enter"
     \/ /\ ~Opposite
        /\ pc' = "enter"
        /\ UNCHANGED <<position, accountVars>>
  /\ UNCHANGED <<i, candle, signal, dayStart, curveVars>>

\* Mutant: the size is rounded up.
QuantityRoundedUp(open, stop) ==
  LET distance == IF stop < open THEN open - stop ELSE stop - open IN
  IF balance <= 0 THEN 0 ELSE (balance * RiskPct) \div (100 * distance) + 1

\* _calculate_position_size, for a stop on the right side of the price.
Quantity(open, stop) ==
  LET distance == IF stop < open THEN open - stop ELSE stop - open IN
  IF balance <= 0 THEN 0 ELSE (balance * RiskPct) \div (100 * distance)

\* A stop is mandatory, and an opening gap may have made it void.
StopValid(s, open) ==
  /\ s.stop # None
  /\ IF s.side = "buy" THEN s.stop < open ELSE s.stop > open

\* No position, the day is not locked, and fewer losses in a row than allowed.
EntryAllowed == signal.side \in Sides /\ ~Holding /\ ~locked /\ losses < MaxLosses

DrawdownReached == drawdown >= 100 * DrawdownPct

\* A signal that may enter ends the run when the drawdown has reached its limit.
Enter ==
  /\ pc = "enter"
  /\ paused' = (paused \/ (EntryAllowed /\ signal.stop # None /\ DrawdownReached))
  /\ pc' = IF EntryAllowed /\ signal.stop # None /\ DrawdownReached THEN "end" ELSE "levels"
  /\ position' =
       IF /\ EntryAllowed /\ StopValid(signal, candle.open) /\ ~DrawdownReached
          /\ Quantity(candle.open, signal.stop) > 0
       THEN [side |-> signal.side, entry |-> candle.open, stop |-> signal.stop,
             target |-> signal.target, qty |-> Quantity(candle.open, signal.stop),
             risk |-> balance * RiskPct]
       ELSE position
  /\ UNCHANGED <<i, candle, signal, balance, peak, drawdown, losses, daily, dayStart, locked,
                 curveVars, profit, loss, today, streak>>

(***************************************************************************)
(* _check_sl_tp: the open against the levels first, then the stop before   *)
(* the target.  A level is reached from its own side.                      *)
(***************************************************************************)
StopReached(price) ==
  /\ position.stop # None
  /\ IF position.side = "buy" THEN price <= position.stop ELSE price >= position.stop

TargetReached(price) ==
  /\ position.target # None
  /\ IF position.side = "buy" THEN price >= position.target ELSE price <= position.target

Worst == IF position.side = "buy" THEN candle.low ELSE candle.high
Best == IF position.side = "buy" THEN candle.high ELSE candle.low

\* Mutant: the open is not looked at.
ExitPriceNoGap ==
  IF StopReached(Worst) THEN position.stop
  ELSE IF TargetReached(Best) THEN position.target
  ELSE None

\* None when no level is reached.
ExitPrice ==
  IF StopReached(candle.open) \/ TargetReached(candle.open) THEN candle.open
  ELSE IF StopReached(Worst) THEN position.stop
  ELSE IF TargetReached(Best) THEN position.target
  ELSE None

Levels ==
  /\ pc = "levels"
  /\ \/ /\ Holding /\ ExitPrice # None
        /\ Close(ExitPrice)
        /\ pc' = IF paused' THEN "end" ELSE "mark"
     \/ /\ ~(Holding /\ ExitPrice # None)
        /\ pc' = "mark"
        /\ UNCHANGED <<position, accountVars>>
  /\ UNCHANGED <<i, candle, signal, dayStart, curveVars>>

\* The position at the close; its entry price contains the costs of the entry, here
\* half of the fee.
Unrealised ==
  IF Holding
  THEN (IF position.side = "buy" THEN candle.close - position.entry
                                 ELSE position.entry - candle.close) * position.qty
       - (Fee \div 2) * position.qty
  ELSE 0

\* What a point of equity_curve adds to max_drawdown_pct.
CurvePoint(equity) ==
  /\ top' = IF equity > top THEN equity ELSE top
  /\ fall' = LET f == Hundredths(top' - equity, top') IN IF f > fall THEN f ELSE fall

\* The point of the equity curve and the peak.
Mark ==
  /\ pc = "mark"
  /\ CurvePoint(balance + Unrealised)
  /\ peak' = IF balance + Unrealised > peak THEN balance + Unrealised ELSE peak
  /\ pc' = IF i = Candles THEN "end" ELSE "candle"
  /\ signal' = NoSignal
  /\ UNCHANGED <<i, candle, position, balance, drawdown, losses, daily, dayStart, locked,
                 paused, profit, loss, today, streak>>

\* What is left is closed at the last close.
End ==
  /\ pc = "end"
  /\ pc' = "done"
  /\ \/ /\ Holding
        /\ Close(candle.close)
        /\ CurvePoint(balance')
     \/ /\ ~Holding
        /\ UNCHANGED <<position, accountVars, curveVars>>
  /\ UNCHANGED <<i, candle, signal, dayStart>>

\* The metrics of the report.
Metrics == [gross_profit |-> profit, gross_loss |-> loss, net_pnl |-> balance - Deposit,
            max_drawdown_pct |-> fall]

Next == NextCandle \/ Reverse \/ Enter \/ Levels \/ Mark \/ End

Spec == Init /\ [][Next]_vars

(***************************************************************************)
(* Properties.                                                             *)
(***************************************************************************)
\* The lock, the pause and the loss counter, kept by three different paths through
\* the loop, never let a position be opened on a day whose trades lost their limit,
\* nor after so many losing trades.
EntryWithinLimits ==
  [][(~Holding /\ Holding') =>
       /\ dayStart > 0 => 100 * today < DailyPct * dayStart
       /\ streak < MaxLosses
       /\ ~paused]_vars

\* The pause comes first: when an entry is considered, neither the drawdown nor the
\* losses in a row have reached their limit, and the comparisons that follow there
\* never bind.
LimitsPauseFirst ==
  pc = "enter" => ~DrawdownReached /\ losses < MaxLosses

\* Every trade is closed at a price its candle has traded at: levels are no better
\* than the market, also over a gap.
ExitInCandle ==
  [][(Holding /\ ~Holding') =>
       \E price \in candle.low..candle.high : (profit' - profit) - (loss' - loss) = Result(position, price)]_vars

\* Unless the market opens beyond the stop, a trade loses no more than the risk it
\* was sized for and its costs.
LossWithinRisk ==
  [][(Holding /\ ~Holding' /\ ~StopReached(candle.open)) =>
       100 * (loss' - loss - Fee * position.qty) <= position.risk]_vars

\* A run ends flat, its net result is what its trades won and lost, and a net loss is
\* not hidden from the drawdown it reports, unless the run was paused.
ReportCoversLoss ==
  pc = "done" =>
    /\ ~Holding
    /\ Metrics.net_pnl = Metrics.gross_profit - Metrics.gross_loss
    /\ paused \/ Metrics.max_drawdown_pct >= Hundredths(-Metrics.net_pnl, Deposit)
=============================================================================
