---------------------------- MODULE BacktestProofs ----------------------------
(***************************************************************************)
(* Proofs about Backtest, for any prices, any number of candles and any    *)
(* limits: type correctness, the limits that hold where an entry is        *)
(* considered and where it is made, the price of every exit, the loss of   *)
(* every trade that is not carried over a gap, and the drawdown of the     *)
(* report; and, in the last part, about Qualification, which builds on     *)
(* such reports: the test periods, and the admission of live trading.      *)
(***************************************************************************)
EXTENDS Backtest, Qualification, TLAPS

(***************************************************************************)
(* Type correctness.                                                       *)
(***************************************************************************)
\* A percentage is an integer, and one of a part that is not negative is natural.
LEMMA HundredthsTyped ==
  ASSUME NEW part \in Int, NEW whole \in Int
  PROVE  Hundredths(part, whole) \in Int
<1>1. CASE whole > 0
  <2>1. (20000 * part + whole) \in Int /\ (2 * whole) \in Int /\ 2 * whole > 0
    BY <1>1
  <2> QED
    BY <1>1, <2>1 DEF Hundredths
<1>2. CASE ~(whole > 0)
  BY <1>2 DEF Hundredths
<1> QED
  BY <1>1, <1>2

\* The prices and levels of a position and of a candle are natural numbers.
LEMMA PositionTyped ==
  ASSUME TypeOK
  PROVE  /\ position.entry \in Nat /\ position.stop \in Nat /\ position.target \in Nat
         /\ position.qty \in Nat /\ position.risk \in Int
         /\ position.side \in Sides \cup {"none"}
<1>1. Prices \cup {None} \subseteq Nat
  BY BacktestConstants DEF BacktestConstants, None
<1>2. position \in [side : Sides \cup {"none"}, entry : Prices \cup {None}, qty : Nat,
                   stop : Prices \cup {None}, target : Prices \cup {None}, risk : Int]
  BY DEF TypeOK
<1> QED
  BY <1>1, <1>2

\* A candle's prices are natural numbers, and its open and close lie within it.
LEMMA CandleTyped ==
  ASSUME TypeOK
  PROVE  /\ candle.open \in Nat \ {0} /\ candle.high \in Nat /\ candle.low \in Nat
         /\ candle.close \in Nat
         /\ candle.low <= candle.open /\ candle.open <= candle.high
         /\ candle.low <= candle.close /\ candle.close <= candle.high
<1>1. candle \in [open : Prices, high : Prices, low : Prices, close : Prices]
      /\ candle.low <= candle.open /\ candle.open <= candle.high
      /\ candle.low <= candle.close /\ candle.close <= candle.high
  BY DEF TypeOK, Bars
<1> QED
  BY <1>1, BacktestConstants DEF BacktestConstants

\* The result of a trade is an integer.
LEMMA ResultTyped ==
  ASSUME TypeOK, NEW price \in Nat
  PROVE  Result(position, price) \in Int
<1>1. position.entry \in Nat /\ position.qty \in Nat /\ Fee \in Nat
  BY PositionTyped, BacktestConstants DEF BacktestConstants
<1>2. \A a \in Int, q \in Nat : a * q \in Int
  OBVIOUS
<1>3. (price - position.entry) \in Int /\ (position.entry - price) \in Int
  BY <1>1
<1> QED
  BY <1>1, <1>2, <1>3 DEF Result

\* The account, which a close changes as a whole.
AccountOK ==
  /\ balance \in Int /\ peak \in Nat \ {0} /\ drawdown \in Int
  /\ losses \in Nat /\ daily \in Nat /\ today \in Nat /\ streak \in Nat
  /\ locked \in BOOLEAN /\ paused \in BOOLEAN
  /\ profit \in Nat /\ loss \in Nat

\* A result is added to the trade list and to the risk state.
LEMMA CloseTyped ==
  ASSUME TypeOK, NEW price \in Nat, Close(price)
  PROVE  AccountOK' /\ position' = Flat
<1> DEFINE r == Result(position, price)
<1>1. r \in Int
  BY ResultTyped
<1>2. AccountOK
  BY DEF TypeOK, AccountOK
<1>3. Append(r) /\ UpdateRiskState(r) /\ position' = Flat
  BY DEF Close
<1> HIDE DEF r
<1>4. profit' \in Nat /\ loss' \in Nat /\ today' \in Nat /\ streak' \in Nat
  BY <1>1, <1>2, <1>3 DEF Append, AccountOK
<1>5. balance' \in Int /\ losses' \in Nat /\ daily' \in Nat
  BY <1>1, <1>2, <1>3 DEF UpdateRiskState, AccountOK
<1>6. peak' \in Nat \ {0}
  BY <1>1, <1>2, <1>3 DEF UpdateRiskState, AccountOK
<1>7. drawdown' \in Int
  <2>1. drawdown' = Hundredths(peak' - balance', peak')
    BY <1>3 DEF UpdateRiskState
  <2> QED
    BY <2>1, <1>5, <1>6, HundredthsTyped
<1>8. locked' \in BOOLEAN /\ paused' \in BOOLEAN
  BY <1>3, Zenon DEF UpdateRiskState
<1> QED
  BY <1>3, <1>4, <1>5, <1>6, <1>7, <1>8 DEF AccountOK

\* Every price a trade is closed at is a natural number.
LEMMA ExitPriceTyped ==
  ASSUME TypeOK
  PROVE  ExitPrice \in Nat
BY CandleTyped, PositionTyped DEF ExitPrice, None

\* The size of an entry with a valid stop is an integer.
LEMMA QuantityTyped ==
  ASSUME TypeOK, NEW open \in Nat, NEW stop \in Nat, stop # open
  PROVE  Quantity(open, stop) \in Int
<1> DEFINE distance == IF stop < open THEN open - stop ELSE stop - open
<1>1. distance \in Nat \ {0}
  OBVIOUS
<1>2. balance * RiskPct \in Int
  BY BacktestConstants DEF BacktestConstants, TypeOK
<1>3. 100 * distance \in Nat \ {0}
  BY <1>1
<1>4. Quantity(open, stop) = IF balance <= 0 THEN 0 ELSE (balance * RiskPct) \div (100 * distance)
  BY DEF Quantity
<1> HIDE DEF distance
<1> QED
  BY <1>2, <1>3, <1>4

\* A point of the equity curve keeps the types of its extremes.
LEMMA CurveTyped ==
  ASSUME TypeOK, NEW equity \in Int, CurvePoint(equity)
  PROVE  top' \in Nat /\ fall' \in Nat
<1>1. top \in Nat /\ fall \in Nat
  BY DEF TypeOK
<1>2. top' \in Nat /\ top' >= equity
  BY <1>1 DEF CurvePoint
<1>3. Hundredths(top' - equity, top') \in Int
  BY <1>2, HundredthsTyped
<1>4. fall' = IF Hundredths(top' - equity, top') > fall THEN Hundredths(top' - equity, top') ELSE fall
  BY DEF CurvePoint
<1> QED
  BY <1>1, <1>2, <1>3, <1>4

\* What an open position is worth is an integer.
LEMMA UnrealisedTyped ==
  ASSUME TypeOK
  PROVE  Unrealised \in Int
<1>1. position.entry \in Nat /\ position.qty \in Nat /\ candle.close \in Nat
  BY PositionTyped, CandleTyped
<1>2. Fee \div 2 \in Int
  BY BacktestConstants DEF BacktestConstants
<1>3. \A a \in Int, q \in Nat : a * q \in Int
  OBVIOUS
<1>4. (candle.close - position.entry) * position.qty \in Int
      /\ (position.entry - candle.close) * position.qty \in Int
      /\ (Fee \div 2) * position.qty \in Int
  BY <1>1, <1>2, <1>3
<1> QED
  BY <1>4 DEF Unrealised

\* Flat and the signals have the types of their variables.
LEMMA NullsTyped ==
  /\ NoSignal \in Signals
  /\ Flat \in [side : Sides \cup {"none"}, entry : Prices \cup {None}, qty : Nat,
               stop : Prices \cup {None}, target : Prices \cup {None}, risk : Int]
BY DEF NoSignal, Signals, Flat, Sides, None

\* The loop begins no iteration after the last candle: without it, TypeOK is not
\* inductive.
LoopInv == pc = "candle" => i # Candles

LEMMA LoopStep ==
  ASSUME LoopInv, [Next]_vars
  PROVE  LoopInv'
BY DEF LoopInv, Next, vars, NextCandle, Reverse, Enter, Levels, Mark, End

\* Every step keeps the types.
LEMMA TypeStep ==
  ASSUME TypeOK, LoopInv, [Next]_vars
  PROVE  TypeOK'
<1>0. TypeOK
  OBVIOUS
<1>1. CASE NextCandle
  <2>1. i' \in 0..Candles
    BY <1>0, <1>1, BacktestConstants DEF BacktestConstants, NextCandle, LoopInv, TypeOK
  <2>2. dayStart' \in Int /\ daily' \in Nat /\ locked' \in BOOLEAN /\ today' \in Nat
    <3>1. CASE UNCHANGED <<daily, dayStart, locked, today>>
      BY <1>0, <3>1 DEF TypeOK
    <3>2. CASE dayStart' = balance /\ daily' = 0 /\ locked' = FALSE /\ today' = 0
      BY <1>0, <3>2 DEF TypeOK
    <3> QED
      BY <1>1, <3>1, <3>2 DEF NextCandle
  <2>3. pc' = "reverse" /\ candle' \in Bars /\ signal' \in Signals
    BY <1>1 DEF NextCandle
  <2>4. UNCHANGED <<position, balance, peak, drawdown, losses, paused, top, fall, profit, loss, streak>>
    BY <1>1 DEF NextCandle, curveVars
  <2> QED
    BY <1>0, <2>1, <2>2, <2>3, <2>4 DEF TypeOK
<1>2. CASE Reverse
  <2>1. CASE Opposite /\ Close(candle.open) /\ pc' = IF paused' THEN "end" ELSE "enter"
    <3>1. AccountOK' /\ position' = Flat
      BY <2>1, CandleTyped, CloseTyped
    <3>2. UNCHANGED <<i, candle, signal, dayStart, curveVars>> /\ pc' \in {"end", "enter"}
      BY <1>2, <2>1 DEF Reverse
    <3> QED
      BY <1>0, <3>1, <3>2, NullsTyped DEF TypeOK, AccountOK, curveVars
  <2>2. CASE pc' = "enter" /\ UNCHANGED <<position, accountVars>>
    BY <1>0, <1>2, <2>2 DEF Reverse, TypeOK, accountVars, curveVars
  <2> QED
    BY <1>2, <2>1, <2>2 DEF Reverse
<1>3. CASE Enter
  <2>1. position' \in [side : Sides \cup {"none"}, entry : Prices \cup {None}, qty : Nat,
                      stop : Prices \cup {None}, target : Prices \cup {None}, risk : Int]
    <3>1. CASE position' = position
      BY <1>0, <3>1 DEF TypeOK
    <3>2. CASE position' # position
      <4>1. /\ EntryAllowed /\ StopValid(signal, candle.open) /\ Quantity(candle.open, signal.stop) > 0
            /\ position' = [side |-> signal.side, entry |-> candle.open, stop |-> signal.stop,
                            target |-> signal.target, qty |-> Quantity(candle.open, signal.stop),
                            risk |-> balance * RiskPct]
        BY <1>3, <3>2 DEF Enter
      <4>2. signal \in [side : Sides, stop : Prices \cup {None}, target : Prices \cup {None}]
        BY <1>0, <4>1 DEF TypeOK, Signals, EntryAllowed, NoSignal, Sides
      <4>3. candle.open \in Prices
        BY <1>0 DEF TypeOK, Bars
      <4>4. signal.stop \in Nat /\ candle.open \in Nat /\ signal.stop # candle.open
        <5>1. Prices \cup {None} \subseteq Nat
          BY BacktestConstants DEF BacktestConstants, None
        <5>2. signal.stop \in Nat /\ candle.open \in Nat
          BY <4>2, <4>3, <5>1
        <5> QED
          BY <4>1, <5>2 DEF StopValid
      <4>5. Quantity(candle.open, signal.stop) \in Nat
        BY <4>1, <4>4, QuantityTyped
      <4>6. balance * RiskPct \in Int
        BY <1>0, BacktestConstants DEF BacktestConstants, TypeOK
      <4> HIDE DEF Quantity
      <4> QED
        BY <4>1, <4>2, <4>3, <4>5, <4>6
    <3> QED
      BY <3>1, <3>2
  <2>2. paused' \in BOOLEAN
    BY <1>3, Zenon DEF Enter
  <2>3. pc' \in {"end", "levels"}
    BY <1>3 DEF Enter
  <2> QED
    BY <1>0, <1>3, <2>1, <2>2, <2>3 DEF Enter, TypeOK, curveVars
<1>4. CASE Levels
  <2>1. CASE Close(ExitPrice) /\ pc' = IF paused' THEN "end" ELSE "mark"
    <3>1. AccountOK' /\ position' = Flat
      BY <2>1, ExitPriceTyped, CloseTyped
    <3>2. UNCHANGED <<i, candle, signal, dayStart, curveVars>> /\ pc' \in {"end", "mark"}
      BY <1>4, <2>1 DEF Levels
    <3> QED
      BY <1>0, <3>1, <3>2, NullsTyped DEF TypeOK, AccountOK, curveVars
  <2>2. CASE pc' = "mark" /\ UNCHANGED <<position, accountVars>>
    BY <1>0, <1>4, <2>2 DEF Levels, TypeOK, accountVars, curveVars
  <2> QED
    BY <1>4, <2>1, <2>2 DEF Levels
<1>5. CASE Mark
  <2>1. balance + Unrealised \in Int
    BY <1>0, UnrealisedTyped DEF TypeOK
  <2>2. top' \in Nat /\ fall' \in Nat
    BY <1>5, <2>1, CurveTyped DEF Mark
  <2>3. peak' \in Nat \ {0}
    BY <1>0, <1>5, <2>1 DEF Mark, TypeOK
  <2>4. pc' \in {"end", "candle"} /\ signal' \in Signals
    BY <1>5, NullsTyped DEF Mark
  <2> QED
    BY <1>0, <1>5, <2>2, <2>3, <2>4 DEF Mark, TypeOK
<1>6. CASE End
  <2>1. CASE Close(candle.close) /\ CurvePoint(balance')
    <3>1. AccountOK' /\ position' = Flat
      BY <2>1, CandleTyped, CloseTyped
    <3>2. top' \in Nat /\ fall' \in Nat
      BY <2>1, <3>1, CurveTyped DEF AccountOK
    <3>3. UNCHANGED <<i, candle, signal, dayStart>> /\ pc' = "done"
      BY <1>6 DEF End
    <3> QED
      BY <1>0, <3>1, <3>2, <3>3, NullsTyped DEF TypeOK, AccountOK
  <2>2. CASE UNCHANGED <<position, accountVars, curveVars>>
    BY <1>0, <1>6, <2>2 DEF End, TypeOK, accountVars, curveVars
  <2> QED
    BY <1>6, <2>1, <2>2 DEF End
<1>7. CASE UNCHANGED vars
  BY <1>0, <1>7 DEF vars, TypeOK, accountVars, curveVars
<1> QED
  BY <1>1, <1>2, <1>3, <1>4, <1>5, <1>6, <1>7 DEF Next

\* The loop, the account and the position keep their types.
THEOREM TypeCorrect == Spec => []TypeOK
<1>1. Init => TypeOK /\ LoopInv
  <2> SUFFICES ASSUME Init PROVE TypeOK /\ LoopInv
    OBVIOUS
  <2>1. candle \in Bars /\ signal \in Signals /\ i \in 0..Candles
    BY NullsTyped, BacktestConstants DEF BacktestConstants, Init
  <2>2. /\ balance \in Int /\ peak \in Nat \ {0} /\ dayStart \in Int /\ top \in Nat /\ fall \in Nat
        /\ drawdown \in Int
        /\ losses \in Nat /\ daily \in Nat /\ today \in Nat /\ streak \in Nat
        /\ profit \in Nat /\ loss \in Nat
    BY BacktestConstants DEF BacktestConstants, Init
  <2>3. /\ pc \in {"candle", "reverse", "enter", "levels", "mark", "end", "done"}
        /\ locked \in BOOLEAN /\ paused \in BOOLEAN
    BY DEF Init
  <2>4. position \in [side : Sides \cup {"none"}, entry : Prices \cup {None}, qty : Nat,
                     stop : Prices \cup {None}, target : Prices \cup {None}, risk : Int]
    BY NullsTyped DEF Init
  <2>5. LoopInv
    BY DEF Init, LoopInv
  <2> QED
    BY <2>1, <2>2, <2>3, <2>4, <2>5 DEF TypeOK
<1>2. TypeOK /\ LoopInv /\ [Next]_vars => TypeOK' /\ LoopInv'
  BY TypeStep, LoopStep
<1> QED
  BY <1>1, <1>2, PTL DEF Spec

(***************************************************************************)
(* The limits.                                                             *)
(***************************************************************************)
\* The loop runs on only while no limit is reached; the counters of the risk state
\* are those of the trade list; a day that has lost its limit is locked.
Unpaused == pc \notin {"end", "done"} =>
  ~paused /\ drawdown < 100 * DrawdownPct /\ losses < MaxLosses
Counted == today = daily /\ streak = losses
DayLocked == dayStart > 0 /\ 100 * today >= DailyPct * dayStart => locked
LimitInv == Unpaused /\ Counted /\ DayLocked

\* After a close the counters agree again, and what was not paused is within limits.
LEMMA CloseCounts ==
  ASSUME TypeOK, LimitInv, NEW price \in Nat, Close(price), dayStart' = dayStart
  PROVE  /\ Counted' /\ DayLocked'
         /\ ~paused' => drawdown' < 100 * DrawdownPct /\ losses' < MaxLosses
<1> DEFINE r == Result(position, price)
<1>1. r \in Int
  BY ResultTyped
<1>2. Append(r) /\ UpdateRiskState(r)
  BY DEF Close
<1> HIDE DEF r
<1>3. Counted'
  BY <1>1, <1>2 DEF Append, UpdateRiskState, LimitInv, Counted
<1>4. AccountOK'
  BY CloseTyped
<1>5. DayLocked'
  <2>1. locked' <=> locked \/ (dayStart > 0 /\ 100 * daily' >= DailyPct * dayStart)
    BY <1>2, Zenon DEF UpdateRiskState
  <2> QED
    BY <2>1, <1>3 DEF DayLocked, Counted
<1>6. ASSUME ~paused' PROVE drawdown' < 100 * DrawdownPct /\ losses' < MaxLosses
  <2>1. ~(drawdown' >= 100 * DrawdownPct) /\ ~(losses' >= MaxLosses)
    BY <1>2, <1>6, Zenon DEF UpdateRiskState
  <2> QED
    BY <2>1, <1>4, BacktestConstants DEF BacktestConstants, AccountOK
<1> QED
  BY <1>3, <1>5, <1>6

\* Every step keeps the limits.
LEMMA LimitStep ==
  ASSUME TypeOK, LimitInv, [Next]_vars
  PROVE  LimitInv'
<1>0. Unpaused /\ Counted /\ DayLocked
  BY DEF LimitInv
<1>1. CASE NextCandle
  <2>1. Unpaused' /\ Counted'
    BY <1>0, <1>1 DEF NextCandle, Unpaused, Counted
  <2>2. DayLocked'
    <3>1. CASE UNCHANGED <<daily, dayStart, locked, today>>
      BY <1>0, <3>1 DEF DayLocked
    <3>2. CASE dayStart' = balance /\ today' = 0
      <4>1. balance \in Int /\ DailyPct \in Nat \ {0}
        BY BacktestConstants DEF BacktestConstants, TypeOK
      <4>2. \A b \in Nat \ {0}, d \in Nat \ {0} : d * b > 0
        OBVIOUS
      <4>3. balance > 0 => DailyPct * balance > 0
        BY <4>1, <4>2
      <4> QED
        BY <3>2, <4>1, <4>3 DEF DayLocked
    <3> QED
      BY <1>1, <3>1, <3>2 DEF NextCandle
  <2> QED
    BY <2>1, <2>2 DEF LimitInv
<1>2. CASE Reverse
  <2>1. CASE Close(candle.open) /\ pc' = IF paused' THEN "end" ELSE "enter"
    <3>1. dayStart' = dayStart
      BY <1>2 DEF Reverse
    <3> QED
      BY <2>1, <3>1, CandleTyped, CloseCounts DEF LimitInv, Unpaused
  <2>2. CASE pc' = "enter" /\ UNCHANGED <<position, accountVars>>
    BY <1>0, <1>2, <2>2 DEF Reverse, LimitInv, Unpaused, Counted, DayLocked, accountVars
  <2> QED
    BY <1>2, <2>1, <2>2 DEF Reverse
<1>3. CASE Enter
  <2>1. UNCHANGED <<drawdown, losses, daily, dayStart, locked, today, streak>>
    BY <1>3 DEF Enter
  <2>2. pc' # "end" => ~paused' /\ pc = "enter"
    BY <1>0, <1>3 DEF Enter, Unpaused
  <2> QED
    BY <1>0, <2>1, <2>2 DEF LimitInv, Unpaused, Counted, DayLocked
<1>4. CASE Levels
  <2>1. CASE Close(ExitPrice) /\ pc' = IF paused' THEN "end" ELSE "mark"
    <3>1. dayStart' = dayStart
      BY <1>4 DEF Levels
    <3> QED
      BY <2>1, <3>1, ExitPriceTyped, CloseCounts DEF LimitInv, Unpaused
  <2>2. CASE pc' = "mark" /\ UNCHANGED <<position, accountVars>>
    BY <1>0, <1>4, <2>2 DEF Levels, LimitInv, Unpaused, Counted, DayLocked, accountVars
  <2> QED
    BY <1>4, <2>1, <2>2 DEF Levels
<1>5. CASE Mark
  BY <1>0, <1>5 DEF Mark, LimitInv, Unpaused, Counted, DayLocked
<1>6. CASE End
  <2>1. CASE Close(candle.close)
    <3>1. dayStart' = dayStart /\ pc' = "done"
      BY <1>6 DEF End
    <3> QED
      BY <2>1, <3>1, CandleTyped, CloseCounts DEF LimitInv, Unpaused
  <2>2. CASE UNCHANGED <<position, accountVars, curveVars>>
    BY <1>0, <1>6, <2>2 DEF End, LimitInv, Unpaused, Counted, DayLocked, accountVars
  <2> QED
    BY <1>6, <2>1, <2>2 DEF End
<1>7. CASE UNCHANGED vars
  BY <1>0, <1>7 DEF vars, LimitInv, Unpaused, Counted, DayLocked, accountVars
<1> QED
  BY <1>1, <1>2, <1>3, <1>4, <1>5, <1>6, <1>7 DEF Next

\* The limits hold in every run.
THEOREM LimitsHold == Spec => []LimitInv
<1>1. Init => LimitInv
  <2> SUFFICES ASSUME Init PROVE LimitInv
    OBVIOUS
  <2>1. DrawdownPct \in Nat \ {0} /\ MaxLosses \in Nat \ {0} /\ DailyPct \in Nat \ {0}
        /\ Deposit \in Nat \ {0}
    BY BacktestConstants DEF BacktestConstants
  <2>2. Unpaused /\ Counted
    BY <2>1 DEF Init, Unpaused, Counted
  <2>3. DayLocked
    <3>1. \A b \in Nat \ {0}, d \in Nat \ {0} : d * b > 0
      OBVIOUS
    <3>2. DailyPct * Deposit > 0
      BY <2>1, <3>1
    <3> QED
      BY <2>1, <3>2 DEF Init, DayLocked
  <2> QED
    BY <2>2, <2>3 DEF LimitInv
<1> QED
  BY <1>1, LimitStep, TypeCorrect, PTL DEF Spec

\* Where an entry is considered the limits have not been reached: the checks of
\* engine.py, lines 237 to 245, never refuse what the pause has let through.
THEOREM PauseComesFirst == Spec => []LimitsPauseFirst
<1>1. TypeOK /\ LimitInv => LimitsPauseFirst
  <2> SUFFICES ASSUME TypeOK, LimitInv, pc = "enter" PROVE ~DrawdownReached /\ losses < MaxLosses
    BY DEF LimitsPauseFirst
  <2>1. drawdown \in Int /\ 100 * DrawdownPct \in Int
    BY BacktestConstants DEF BacktestConstants, TypeOK
  <2> QED
    BY <2>1 DEF LimitInv, Unpaused, DrawdownReached
<1> QED
  BY <1>1, LimitsHold, TypeCorrect, PTL

\* A position is opened only on a day within its limit, after fewer losing trades
\* than allowed and before any pause.
THEOREM EntriesWithinLimits == Spec => EntryWithinLimits
<1> DEFINE Within == (~Holding /\ Holding') =>
             /\ dayStart > 0 => 100 * today < DailyPct * dayStart
             /\ streak < MaxLosses
             /\ ~paused
<1>1. TypeOK /\ LimitInv /\ [Next]_vars => [Within]_vars
  <2> SUFFICES ASSUME TypeOK, LimitInv, Next, ~Holding, Holding'
               PROVE  /\ dayStart > 0 => 100 * today < DailyPct * dayStart
                      /\ streak < MaxLosses
                      /\ ~paused
    OBVIOUS
  <2>1. Enter
    BY CandleTyped, ExitPriceTyped, CloseTyped
       DEF Next, NextCandle, Reverse, Levels, Mark, End, Close, Holding, Flat, Opposite
  <2>2. position' # position
    BY DEF Holding
  <2>3. EntryAllowed /\ pc = "enter"
    BY <2>1, <2>2 DEF Enter
  <2>4. 100 * today \in Int /\ (dayStart \in Int) /\ DailyPct * dayStart \in Int
    BY BacktestConstants DEF BacktestConstants, TypeOK
  <2> QED
    BY <2>3, <2>4 DEF LimitInv, Unpaused, Counted, DayLocked, EntryAllowed
<1> QED
  BY <1>1, LimitsHold, TypeCorrect, PTL DEF Spec, EntryWithinLimits

(***************************************************************************)
(* The exits.                                                              *)
(***************************************************************************)
\* What a close adds to the trade list is the result of the trade.
LEMMA CloseBooksResult ==
  ASSUME TypeOK, NEW price \in Nat, Close(price)
  PROVE  /\ (profit' - profit) - (loss' - loss) = Result(position, price)
         /\ loss' - loss \in {0, -Result(position, price)}
<1> DEFINE r == Result(position, price)
<1>1. r \in Int
  BY ResultTyped
<1>2. Append(r)
  BY DEF Close
<1>3. profit \in Nat /\ loss \in Nat
  BY DEF TypeOK
<1> HIDE DEF r
<1>4. (profit' - profit) - (loss' - loss) = r /\ loss' - loss \in {0, -r}
  BY <1>1, <1>2, <1>3 DEF Append
<1> QED
  BY <1>4 DEF r

\* A holder is on one of the two sides.
LEMMA HolderSide ==
  ASSUME TypeOK, Holding
  PROVE  position.side \in {"buy", "sell"}
BY PositionTyped DEF Holding, Sides

\* A level that is reached, and was not at the open, lies within the candle.
LEMMA ExitPriceInCandle ==
  ASSUME TypeOK, Holding, ExitPrice # None
  PROVE  candle.low <= ExitPrice /\ ExitPrice <= candle.high
<1>1. CASE position.side = "buy"
  BY <1>1, PositionTyped, CandleTyped
     DEF ExitPrice, StopReached, TargetReached, Worst, Best, None
<1>2. CASE position.side = "sell"
  BY <1>2, PositionTyped, CandleTyped
     DEF ExitPrice, StopReached, TargetReached, Worst, Best, None
<1> QED
  BY <1>1, <1>2, HolderSide

\* A position disappears only through a close, at the open, a level or the close.
LEMMA ExitByClose ==
  ASSUME TypeOK, Next, Holding, ~Holding'
  PROVE  \/ pc = "reverse" /\ Close(candle.open)
         \/ pc = "levels" /\ ExitPrice # None /\ Close(ExitPrice)
         \/ pc = "end" /\ Close(candle.close)
<1>1. position' # position
  BY DEF Holding
<1>2. ~NextCandle /\ ~Mark
  BY <1>1 DEF NextCandle, Mark
<1>3. ~Enter
  BY <1>1 DEF Enter, EntryAllowed
<1>4. CASE Reverse
  BY <1>1, <1>4 DEF Reverse
<1>5. CASE Levels
  BY <1>1, <1>5 DEF Levels
<1>6. CASE End
  BY <1>1, <1>6 DEF End
<1> QED
  BY <1>2, <1>3, <1>4, <1>5, <1>6 DEF Next

\* Every trade is closed at a price of its candle, over gaps too.
THEOREM ExitsInCandle == Spec => ExitInCandle
<1>1. TypeOK /\ [Next]_vars =>
        [(Holding /\ ~Holding') =>
           \E price \in candle.low..candle.high :
             (profit' - profit) - (loss' - loss) = Result(position, price)]_vars
  <2> SUFFICES ASSUME TypeOK, Next, Holding, ~Holding'
               PROVE  \E price \in candle.low..candle.high :
                        (profit' - profit) - (loss' - loss) = Result(position, price)
    OBVIOUS
  <2>1. \E price \in candle.low..candle.high : Close(price)
    <3>1. CASE Close(candle.open)
      <4>1. candle.open \in candle.low..candle.high
        BY CandleTyped
      <4> QED
        BY <3>1, <4>1
    <3>2. CASE ExitPrice # None /\ Close(ExitPrice)
      <4>1. ExitPrice \in candle.low..candle.high
        BY <3>2, ExitPriceInCandle, ExitPriceTyped, CandleTyped
      <4> QED
        BY <3>2, <4>1
    <3>3. CASE Close(candle.close)
      <4>1. candle.close \in candle.low..candle.high
        BY CandleTyped
      <4> QED
        BY <3>3, <4>1
    <3> QED
      BY <3>1, <3>2, <3>3, ExitByClose
  <2>2. PICK price \in candle.low..candle.high : Close(price)
    BY <2>1
  <2>3. price \in Nat
    BY CandleTyped
  <2> QED
    BY <2>2, <2>3, CloseBooksResult
<1> QED
  BY <1>1, TypeCorrect, PTL DEF Spec, ExitInCandle

(***************************************************************************)
(* The loss of a trade.                                                    *)
(***************************************************************************)
\* A price from which the stop has not been passed.
Short(price) == IF position.side = "buy" THEN price < position.stop ELSE price > position.stop
Distance == IF position.side = "buy" THEN position.entry - position.stop
                                     ELSE position.stop - position.entry

\* A position has a stop on its losing side and is no larger than the risk allows;
\* once the levels of a candle were looked at, its stop was not reached.
SizedForStop == Holding =>
  /\ position.stop # None
  /\ Distance \in Nat
  /\ 100 * (Distance * position.qty) <= position.risk
StopLooked == Holding /\ pc \in {"mark", "end"} => ~StopReached(Worst)
RiskInv == SizedForStop /\ StopLooked

\* Rounding down loses nothing of the divisor times the quotient.
LEMMA FloorBelow ==
  ASSUME NEW a \in Int, NEW b \in Nat \ {0}
  PROVE  b * (a \div b) <= a
OBVIOUS

\* The size of an entry times the distance of its stop is within the risk.
LEMMA SizeWithinRisk ==
  ASSUME TypeOK, NEW open \in Nat, NEW stop \in Nat, NEW d \in Nat \ {0},
         d = IF stop < open THEN open - stop ELSE stop - open,
         Quantity(open, stop) > 0
  PROVE  100 * (d * Quantity(open, stop)) <= balance * RiskPct
<1> DEFINE q == Quantity(open, stop)
<1>1. balance * RiskPct \in Int
  BY BacktestConstants DEF BacktestConstants, TypeOK
<1>2. q = (balance * RiskPct) \div (100 * d)
  BY DEF Quantity
<1>3. 100 * d \in Nat \ {0}
  OBVIOUS
<1>4. q \in Int
  BY <1>1, <1>2, <1>3
<1>5. (100 * d) * q <= balance * RiskPct
  BY <1>1, <1>2, <1>3, FloorBelow
<1>6. (100 * d) * q = 100 * (d * q)
  BY <1>4
<1> QED
  BY <1>5, <1>6

\* A trade closed before its stop was passed loses no more than its risk and costs.
LEMMA LossBounded ==
  ASSUME TypeOK, RiskInv, Holding, NEW price \in Nat, ~Short(price), Close(price)
  PROVE  100 * (loss' - loss - Fee * position.qty) <= position.risk
<1> DEFINE q == position.qty
           gap == IF position.side = "buy" THEN position.entry - price ELSE price - position.entry
<1>1. q \in Nat /\ Fee \in Nat /\ position.entry \in Nat /\ position.stop \in Nat
      /\ position.risk \in Int
  BY PositionTyped, BacktestConstants DEF BacktestConstants
<1>2. Distance \in Nat /\ 100 * (Distance * q) <= position.risk
  BY DEF RiskInv, SizedForStop
<1>3. gap \in Int /\ gap <= Distance
  BY <1>1, <1>2, HolderSide DEF Short, Distance
<1>4. \A a \in Int, b \in Nat, n \in Nat : a <= b => a * n <= b * n
  OBVIOUS
<1>5. gap * q <= Distance * q /\ gap * q \in Int /\ Distance * q \in Nat /\ Fee * q \in Nat
  BY <1>1, <1>2, <1>3, <1>4
<1>6. -Result(position, price) = gap * q + Fee * q
  <2>1. position.side \in {"buy", "sell"}
    BY HolderSide
  <2>2. \A a \in Int, b \in Int, n \in Nat : (a - b) * n = -((b - a) * n)
    OBVIOUS
  <2>3. ((price - position.entry) * q) \in Int /\ ((position.entry - price) * q) \in Int
    BY <1>1
  <2> QED
    BY <1>1, <1>5, <2>1, <2>2, <2>3 DEF Result
<1>7. loss' - loss \in {0, -Result(position, price)}
  BY CloseBooksResult
<1> HIDE DEF q, gap
<1>8. CASE loss' - loss = 0
  <2>1. 100 * (0 - Fee * q) <= 0 /\ 0 <= 100 * (Distance * q)
    BY <1>5
  <2> QED
    BY <1>1, <1>2, <1>5, <1>8, <2>1 DEF q
<1>9. CASE loss' - loss = -Result(position, price)
  <2>1. loss' - loss - Fee * q = gap * q
    BY <1>5, <1>6, <1>9
  <2>2. 100 * (gap * q) <= 100 * (Distance * q)
    BY <1>5
  <2> QED
    BY <1>1, <1>2, <1>5, <2>1, <2>2 DEF q
<1> QED
  BY <1>7, <1>8, <1>9

\* From a candle that does not open beyond the stop, no exit is beyond it.
LEMMA ExitBeforeStop ==
  ASSUME TypeOK, RiskInv, Next, Holding, ~Holding', ~StopReached(candle.open)
  PROVE  \E price \in Nat : ~Short(price) /\ Close(price)
<1>1. position.stop # None /\ position.stop \in Nat /\ position.side \in {"buy", "sell"}
      /\ position.target \in Nat
  BY PositionTyped, HolderSide DEF RiskInv, SizedForStop
<1>2. CASE Close(candle.open)
  <2>1. ~Short(candle.open)
    BY <1>1, CandleTyped DEF Short, StopReached
  <2> QED
    BY <1>2, <2>1, CandleTyped
<1>3. CASE ExitPrice # None /\ Close(ExitPrice)
  <2>1. ~Short(ExitPrice)
    <3>1. CASE position.side = "buy"
      BY <1>1, <1>3, <3>1, CandleTyped DEF Short, ExitPrice, StopReached, TargetReached, Worst, Best
    <3>2. CASE position.side = "sell"
      BY <1>1, <1>3, <3>2, CandleTyped DEF Short, ExitPrice, StopReached, TargetReached, Worst, Best
    <3> QED
      BY <1>1, <3>1, <3>2
  <2> QED
    BY <1>3, <2>1, ExitPriceTyped
<1>4. CASE pc = "end" /\ Close(candle.close)
  <2>1. ~StopReached(Worst)
    BY <1>4 DEF RiskInv, StopLooked
  <2>2. ~Short(candle.close)
    BY <1>1, <2>1, CandleTyped DEF Short, StopReached, Worst
  <2> QED
    BY <1>4, <2>2, CandleTyped
<1> QED
  BY <1>2, <1>3, <1>4, ExitByClose

\* Every step keeps positions sized for their stops.
LEMMA RiskStep ==
  ASSUME TypeOK, RiskInv, [Next]_vars
  PROVE  RiskInv'
<1>0. SizedForStop /\ StopLooked
  BY DEF RiskInv
<1>1. CASE NextCandle
  BY <1>0, <1>1 DEF NextCandle, RiskInv, SizedForStop, StopLooked, Holding, Distance
<1>2. CASE position' = Flat
  BY <1>2 DEF RiskInv, SizedForStop, StopLooked, Holding, Flat
<1>3. CASE Reverse /\ position' = position
  <2>1. pc' \notin {"mark", "end"} \/ Close(candle.open)
    BY <1>3 DEF Reverse
  <2>2. CASE Close(candle.open)
    BY <1>2, <2>2 DEF Close
  <2>3. CASE pc' \notin {"mark", "end"}
    BY <1>0, <1>3, <2>3 DEF RiskInv, SizedForStop, StopLooked, Holding, Distance
  <2> QED
    BY <2>1, <2>2, <2>3
<1>4. CASE Enter
  <2>1. CASE position' = position
    <3>1. pc' = "end" => ~Holding
      BY <1>4 DEF Enter, EntryAllowed
    <3>2. pc' # "mark"
      BY <1>4 DEF Enter
    <3> QED
      BY <1>0, <2>1, <3>1, <3>2 DEF RiskInv, SizedForStop, StopLooked, Holding, Distance
  <2>2. CASE position' # position
    <3> DEFINE s == signal.stop
               o == candle.open
    <3>1. /\ EntryAllowed /\ StopValid(signal, o) /\ Quantity(o, s) > 0 /\ ~DrawdownReached
          /\ position' = [side |-> signal.side, entry |-> o, stop |-> s,
                          target |-> signal.target, qty |-> Quantity(o, s),
                          risk |-> balance * RiskPct]
      BY <1>4, <2>2 DEF Enter
    <3>2. pc' = "levels"
      BY <1>4, <3>1 DEF Enter
    <3>3. signal.side \in {"buy", "sell"} /\ s \in Nat /\ o \in Nat /\ s # None
      <4>1. signal \in [side : Sides, stop : Prices \cup {None}, target : Prices \cup {None}]
        BY <3>1 DEF TypeOK, Signals, EntryAllowed, NoSignal, Sides
      <4>2. Prices \cup {None} \subseteq Nat
        BY BacktestConstants DEF BacktestConstants, None
      <4> QED
        BY <3>1, <4>1, <4>2, CandleTyped DEF StopValid, Sides
    <3> DEFINE d == IF s < o THEN o - s ELSE s - o
    <3>4. d \in Nat \ {0}
      BY <3>1, <3>3 DEF StopValid
    <3>5. 100 * (d * Quantity(o, s)) <= balance * RiskPct
      BY <3>1, <3>3, <3>4, SizeWithinRisk
    <3>6. Distance' = d
      BY <3>1, <3>3 DEF Distance, StopValid
    <3>7. position'.stop = s /\ position'.qty = Quantity(o, s) /\ position'.risk = balance * RiskPct
      BY <3>1
    <3> HIDE DEF d
    <3> QED
      BY <3>2, <3>3, <3>4, <3>5, <3>6, <3>7 DEF RiskInv, SizedForStop, StopLooked
  <2> QED
    BY <2>1, <2>2
<1>5. CASE Levels
  <2>1. CASE Close(ExitPrice)
    BY <1>2, <2>1 DEF Close
  <2>2. CASE ~(Holding /\ ExitPrice # None) /\ UNCHANGED <<position, candle>>
    <3>1. ASSUME Holding PROVE ~StopReached(Worst)
      <4>1. ExitPrice = None /\ position.stop # None
        BY <1>0, <2>2, <3>1 DEF SizedForStop
      <4>2. candle.open # None
        BY CandleTyped DEF None
      <4> QED
        BY <4>1, <4>2 DEF ExitPrice
    <3> QED
      BY <1>0, <2>2, <3>1 DEF RiskInv, SizedForStop, StopLooked, Holding, Distance, StopReached, Worst
  <2> QED
    BY <1>5, <2>1, <2>2 DEF Levels
<1>6. CASE Mark
  BY <1>0, <1>6 DEF Mark, RiskInv, SizedForStop, StopLooked, Holding, Distance, StopReached, Worst
<1>7. CASE End
  <2>1. CASE Close(candle.close)
    BY <1>2, <2>1 DEF Close
  <2>2. CASE ~Holding /\ UNCHANGED position
    BY <2>2 DEF RiskInv, SizedForStop, StopLooked, Holding
  <2> QED
    BY <1>7, <2>1, <2>2 DEF End
<1>8. CASE UNCHANGED vars
  BY <1>0, <1>8 DEF vars, RiskInv, SizedForStop, StopLooked, Holding, Distance, StopReached, Worst
<1>9. CASE Reverse
  BY <1>2, <1>3, <1>9 DEF Reverse, Close
<1> QED
  BY <1>1, <1>4, <1>5, <1>6, <1>7, <1>8, <1>9 DEF Next

\* A trade loses more than its risk and its costs only over a gap beyond its stop.
THEOREM LossesWithinRisk == Spec => LossWithinRisk
<1>1. Init => RiskInv
  BY DEF Init, RiskInv, SizedForStop, StopLooked, Holding, Flat
<1>2. TypeOK /\ RiskInv /\ [Next]_vars =>
        [(Holding /\ ~Holding' /\ ~StopReached(candle.open)) =>
           100 * (loss' - loss - Fee * position.qty) <= position.risk]_vars
  <2> SUFFICES ASSUME TypeOK, RiskInv, Next, Holding, ~Holding', ~StopReached(candle.open)
               PROVE  100 * (loss' - loss - Fee * position.qty) <= position.risk
    OBVIOUS
  <2>1. PICK price \in Nat : ~Short(price) /\ Close(price)
    BY ExitBeforeStop
  <2> QED
    BY <2>1, LossBounded
<1> QED
  BY <1>1, <1>2, RiskStep, TypeCorrect, PTL DEF Spec, LossWithinRisk

(***************************************************************************)
(* The report.                                                             *)
(***************************************************************************)
\* The balance is what the trade list says, and the curve has been above the deposit.
Accounted == balance - Deposit = profit - loss /\ top >= Deposit
\* A run that is not paused has not lost its balance.
Solvent == paused \/ balance > 0
\* A run that ends without a position and without a pause has put its balance on the
\* curve.
CurveCovers == ~paused /\ ~Holding /\ pc \in {"end", "done"} => fall >= Hundredths(top - balance, top)
ReportInv == Accounted /\ Solvent /\ CurveCovers /\ (pc = "done" => ~Holding)

\* A quotient is the largest number whose multiple is not above the dividend.
LEMMA DivIsFloor ==
  ASSUME NEW a \in Int, NEW b \in Nat \ {0}, NEW q \in Int, b * q <= a
  PROVE  q <= a \div b
<1> DEFINE d == a \div b
<1>1. d \in Int /\ b * d <= a /\ a < b * (d + 1)
  OBVIOUS
<1> HIDE DEF d
<1>2. SUFFICES ASSUME q >= d + 1 PROVE FALSE
  BY <1>1 DEF d
<1>3. \A x \in Int, y \in Int, n \in Nat : x >= y => n * x >= n * y
  OBVIOUS
<1>4. b * q >= b * (d + 1)
  BY <1>1, <1>2, <1>3
<1> QED
  BY <1>1, <1>4

\* A fall to a balance that is not negative is no smaller seen from a higher top.
LEMMA FallGrowsWithTop ==
  ASSUME NEW t \in Nat, NEW d \in Nat \ {0}, t >= d, NEW b \in Nat
  PROVE  Hundredths(t - b, t) >= Hundredths(d - b, d)
<1> DEFINE q == (20000 * (d - b) + d) \div (2 * d)
           k == 20001 - 2 * q
<1>1. q \in Int /\ (2 * d) * q <= 20000 * (d - b) + d
  <2>1. 20000 * (d - b) + d \in Int /\ 2 * d \in Nat \ {0}
    OBVIOUS
  <2> QED
    BY <2>1, FloorBelow
<1> HIDE DEF q
<1>2. k \in Int /\ k * d >= 20000 * b
  BY <1>1
<1> HIDE DEF k
<1>3. k >= 0
  <2> SUFFICES ASSUME k <= -1 PROVE FALSE
    BY <1>2
  <2>1. k * d <= (-1) * d
    BY <1>2
  <2> QED
    BY <1>2, <2>1
<1>4. k * t >= k * d
  BY <1>2, <1>3
<1>5. (2 * t) * q <= 20000 * (t - b) + t
  <2>1. k * t >= 20000 * b /\ k * t \in Int
    BY <1>2, <1>4
  <2>2. k * t = 20001 * t - (2 * t) * q
    BY <1>1 DEF k
  <2> QED
    BY <1>1, <2>1, <2>2
<1>6. q <= (20000 * (t - b) + t) \div (2 * t)
  BY <1>1, <1>5, DivIsFloor
<1> QED
  BY <1>6 DEF Hundredths, q

\* A fall of less than all leaves something.
LEMMA FallLeaves ==
  ASSUME NEW p \in Nat \ {0}, NEW b \in Int, Hundredths(p - b, p) < 10000
  PROVE  b > 0
<1>1. SUFFICES ASSUME b <= 0 PROVE FALSE
  OBVIOUS
<1>2. (2 * p) * 10000 <= 20000 * (p - b) + p
  BY <1>1
<1>3. 10000 <= (20000 * (p - b) + p) \div (2 * p)
  BY <1>2, DivIsFloor
<1> QED
  BY <1>3, HundredthsTyped DEF Hundredths

\* A close keeps the account, and leaves a balance unless it pauses.
LEMMA CloseAccounts ==
  ASSUME TypeOK, ReportInv, NEW price \in Nat, Close(price), top' >= top, top' \in Nat
  PROVE  Accounted' /\ Solvent' /\ ~Holding'
<1> DEFINE r == Result(position, price)
<1>1. r \in Int /\ balance \in Int /\ profit \in Nat /\ loss \in Nat /\ top \in Nat /\ peak \in Nat \ {0}
      /\ Deposit \in Nat /\ DrawdownPct \in Nat /\ DrawdownPct <= 100
  BY ResultTyped, BacktestConstants DEF BacktestConstants, TypeOK
<1>2. Append(r) /\ UpdateRiskState(r) /\ position' = Flat
  BY DEF Close
<1> HIDE DEF r
<1>3. Accounted'
  <2>1. balance' = balance + r /\ profit' - loss' = profit - loss + r
    BY <1>1, <1>2 DEF Append, UpdateRiskState
  <2> QED
    BY <1>1, <2>1 DEF ReportInv, Accounted
<1>4. Solvent'
  <2> SUFFICES ASSUME ~paused' PROVE balance' > 0
    BY DEF Solvent
  <2> DEFINE p == IF balance + r > peak THEN balance + r ELSE peak
  <2>1. p \in Nat \ {0} /\ balance' = balance + r /\ balance' \in Int
    BY <1>1, <1>2 DEF UpdateRiskState
  <2>2. ~(Hundredths(p - balance', p) >= 100 * DrawdownPct)
    BY <1>2 DEF UpdateRiskState
  <2> HIDE DEF p
  <2>3. Hundredths(p - balance', p) \in Int
    BY <2>1, HundredthsTyped
  <2>4. Hundredths(p - balance', p) < 10000
    BY <1>1, <2>2, <2>3
  <2> QED
    BY <2>1, <2>4, FallLeaves
<1> QED
  BY <1>2, <1>3, <1>4 DEF Holding, Flat

\* A point of the curve covers the fall to it.
LEMMA PointCovers ==
  ASSUME TypeOK, NEW equity \in Int, CurvePoint(equity)
  PROVE  top' \in Nat /\ top' >= top /\ fall' \in Int /\ fall' >= Hundredths(top' - equity, top')
<1>1. top \in Nat /\ fall \in Nat
  BY DEF TypeOK
<1>2. top' \in Nat /\ top' >= top
  BY <1>1 DEF CurvePoint
<1>3. Hundredths(top' - equity, top') \in Int
  BY <1>2, HundredthsTyped
<1> QED
  BY <1>1, <1>2, <1>3 DEF CurvePoint

\* Every step keeps the invariant.
LEMMA ReportStep == TypeOK /\ ReportInv /\ [Next]_vars => ReportInv'
<1> SUFFICES ASSUME TypeOK, ReportInv, [Next]_vars PROVE ReportInv'
  OBVIOUS
<1>1. balance \in Int /\ top \in Nat /\ fall \in Nat /\ profit \in Nat /\ loss \in Nat /\ Deposit \in Nat
  BY BacktestConstants DEF BacktestConstants, TypeOK
<1>2. CASE NextCandle
  BY <1>2 DEF NextCandle, ReportInv, Accounted, Solvent, CurveCovers, Holding, curveVars
<1>3. ASSUME NEW price \in Nat, Close(price), UNCHANGED curveVars, pc' = "end" => paused', pc' # "done"
      PROVE  ReportInv'
  <2>1. top' = top
    BY <1>3 DEF curveVars
  <2>2. Accounted' /\ Solvent' /\ ~Holding'
    BY <1>1, <1>3, <2>1, CloseAccounts
  <2> QED
    BY <1>3, <2>2 DEF ReportInv, CurveCovers
<1>4. CASE Reverse
  <2>1. CASE Close(candle.open)
    <3>1. UNCHANGED curveVars /\ (pc' = "end" => paused') /\ pc' # "done"
      BY <1>4, <2>1 DEF Reverse
    <3> QED
      BY <1>3, <2>1, <3>1, CandleTyped
  <2>2. CASE UNCHANGED <<position, accountVars, curveVars>> /\ pc' = "enter"
    BY <2>2 DEF ReportInv, Accounted, Solvent, CurveCovers, Holding, accountVars, curveVars
  <2> QED
    BY <1>4, <2>1, <2>2 DEF Reverse
<1>5. CASE Enter
  <2>1. (paused => paused') /\ (pc' = "end" => paused') /\ pc' # "done"
        /\ UNCHANGED <<balance, profit, loss, curveVars>>
    BY <1>5 DEF Enter
  <2> QED
    BY <2>1 DEF ReportInv, Accounted, Solvent, CurveCovers, curveVars
<1>6. CASE Levels
  <2>1. CASE Holding /\ ExitPrice # None /\ Close(ExitPrice)
    <3>1. UNCHANGED curveVars /\ (pc' = "end" => paused') /\ pc' # "done"
      BY <1>6, <2>1 DEF Levels
    <3> QED
      BY <1>3, <2>1, <3>1, ExitPriceTyped
  <2>2. CASE UNCHANGED <<position, accountVars, curveVars>> /\ pc' = "mark"
    BY <2>2 DEF ReportInv, Accounted, Solvent, CurveCovers, Holding, accountVars, curveVars
  <2> QED
    BY <1>6, <2>1, <2>2 DEF Levels
<1>7. CASE Mark
  <2>1. UNCHANGED <<position, balance, paused, profit, loss>> /\ pc' # "done"
        /\ CurvePoint(balance + Unrealised)
    BY <1>7 DEF Mark
  <2>2. balance + Unrealised \in Int
    BY <1>1, UnrealisedTyped
  <2>3. top' \in Nat /\ top' >= top /\ fall' >= Hundredths(top' - (balance + Unrealised), top')
    BY <2>1, <2>2, PointCovers
  <2>4. ~Holding => balance + Unrealised = balance
    BY <1>1 DEF Unrealised
  <2> QED
    BY <1>1, <2>1, <2>3, <2>4 DEF ReportInv, Accounted, Solvent, CurveCovers, Holding
<1>8. CASE End
  <2>1. CASE Close(candle.close) /\ CurvePoint(balance')
    <3>1. balance' \in Int
      BY <1>1, <2>1, ResultTyped, CandleTyped DEF Close, UpdateRiskState
    <3>2. top' \in Nat /\ top' >= top /\ fall' >= Hundredths(top' - balance', top')
      BY <2>1, <3>1, PointCovers
    <3>3. Accounted' /\ Solvent' /\ ~Holding'
      BY <2>1, <3>2, CandleTyped, CloseAccounts
    <3> QED
      BY <3>2, <3>3 DEF ReportInv, CurveCovers
  <2>2. CASE ~Holding /\ UNCHANGED <<position, accountVars, curveVars>>
    BY <1>8, <2>2 DEF End, ReportInv, Accounted, Solvent, CurveCovers, Holding, accountVars, curveVars
  <2> QED
    BY <1>8, <2>1, <2>2 DEF End
<1>9. CASE UNCHANGED vars
  BY <1>9 DEF vars, ReportInv, Accounted, Solvent, CurveCovers, Holding, accountVars, curveVars
<1> QED
  BY <1>2, <1>4, <1>5, <1>6, <1>7, <1>8, <1>9 DEF Next

\* A run ends flat, with the balance its trades add up to, and unless it was paused the
\* drawdown it reports is no smaller than what it lost of the deposit: a run that goes
\* on has money left, and from a higher top the same balance is a deeper fall.
THEOREM ReportsCoverLosses == Spec => []ReportCoversLoss
<1>1. Init => ReportInv
  <2> SUFFICES ASSUME Init PROVE ReportInv
    OBVIOUS
  <2>1. Deposit \in Nat \ {0}
    BY BacktestConstants DEF BacktestConstants
  <2>2. Hundredths(Deposit - Deposit, Deposit) = 0
    BY <2>1 DEF Hundredths
  <2> QED
    BY <2>1, <2>2 DEF Init, ReportInv, Accounted, Solvent, CurveCovers, Holding, Flat
<1>2. TypeOK /\ ReportInv => ReportCoversLoss
  <2> SUFFICES ASSUME TypeOK, ReportInv, pc = "done"
               PROVE  /\ ~Holding
                      /\ balance - Deposit = profit - loss
                      /\ paused \/ fall >= Hundredths(-(balance - Deposit), Deposit)
    BY DEF ReportCoversLoss, Metrics
  <2>1. balance \in Int /\ top \in Nat /\ Deposit \in Nat \ {0} /\ fall \in Nat /\ top >= Deposit
    BY BacktestConstants DEF BacktestConstants, TypeOK, ReportInv, Accounted
  <2>2. ASSUME ~paused PROVE fall >= Hundredths(-(balance - Deposit), Deposit)
    <3>1. balance \in Nat /\ fall >= Hundredths(top - balance, top)
      BY <2>1, <2>2 DEF ReportInv, Solvent, CurveCovers
    <3>2. Hundredths(top - balance, top) >= Hundredths(Deposit - balance, Deposit)
      BY <2>1, <3>1, FallGrowsWithTop
    <3>3. -(balance - Deposit) = Deposit - balance
      BY <2>1
    <3>4. Hundredths(top - balance, top) \in Int /\ Hundredths(Deposit - balance, Deposit) \in Int
      BY <2>1, HundredthsTyped
    <3> QED
      BY <2>1, <3>1, <3>2, <3>3, <3>4
  <2> QED
    BY <2>2 DEF ReportInv, Accounted
<1> QED
  BY <1>1, <1>2, ReportStep, TypeCorrect, PTL DEF Spec

(***************************************************************************)
(* The evidence: Qualification, whose validations run such simulations.    *)
(***************************************************************************)
\* What a validation in progress knows: no selection has seen the period it is tested on,
\* no simulation the holdout; one that passed has enough windows; and its dataset is
\* still the one in place, or was written meanwhile. Once there is a dataset there is
\* always one.
WalkGood(k) ==
  /\ k.pc \in {"train", "test"} => k.at + Test - 1 <= Research(k.loaded) /\ k.trained < k.at
  /\ k.pc \in {"train", "test", "holdout"} => k.known <= Research(k.loaded)
  /\ k.pc \in {"stress", "save"} /\ k.passed => k.valid >= MinWindows
  /\ k.pc \notin {"idle", "rename"} => data \in Contents /\ (k.loaded = data \/ k.replaced)

\* What an approved report says of its validation.
ReportGood(r) == r.approved => r.valid >= MinWindows /\ (r.loaded = r.data \/ r.replaced)

\* The inductive invariant of Unseen and AdmittedOnEvidence.
EvidenceInv ==
  /\ EvidenceTypeOK /\ (importing = "data" => data \in Contents)
  /\ \A w \in Walks : WalkGood(walk[w])
  /\ ReportGood(tmp) /\ ReportGood(report)

\* The sizes of a request are natural numbers.
LEMMA Sizes ==
  /\ Candidates \in Nat \ {0} /\ Length \in Nat /\ PartLength \in Nat
  /\ Train \in Nat \ {0} /\ Test \in Nat \ {0} /\ Step \in Nat \ {0} /\ Holdout \in Nat \ {0}
  /\ MinWindows \in Nat \ {0} /\ MaxImports \in Nat /\ MaxRuns \in Nat
BY QualificationConstants DEF QualificationConstants

\* The length of a dataset is a natural number, the candles before the holdout an integer.
LEMMA LengthTyped ==
  ASSUME NEW content
  PROVE  LengthOf(content) \in Nat /\ Research(content) \in Int
         /\ Research(content) = LengthOf(content) - Holdout
<1>1. LengthOf(content) \in Nat
  BY Sizes DEF LengthOf
<1> QED
  BY <1>1, Sizes DEF Research

\* A validation that goes on to a window, or to the holdout after the last one.
LEMMA WindowTyped ==
  ASSUME NEW k \in WalkState, NEW at \in Nat
  PROVE  LET n == Window(k, at) IN
         /\ n \in WalkState /\ n.at = at /\ n.trained = 0 /\ n.known = k.known
         /\ n.loaded = k.loaded /\ n.replaced = k.replaced
         /\ \/ n.pc = "train" /\ at + Test - 1 <= Research(k.loaded)
            \/ n.pc = "holdout"
<1> DEFINE to == IF at + Test - 1 <= Research(k.loaded) THEN "train" ELSE "holdout"
<1>1. Window(k, at) = [k EXCEPT !.at = at, !.next = 1, !.best = 1, !.score = -1, !.trained = 0, !.pc = to]
  BY DEF Window
<1>2. to \in {"train", "holdout"} /\ (to = "train" => at + Test - 1 <= Research(k.loaded))
  OBVIOUS
<1> HIDE DEF to
<1>3. 1 \in 1..Candidates /\ 1 \in 1..(Candidates + 1) /\ -1 \in Scores
  BY Sizes DEF Scores
<1> DEFINE n == [k EXCEPT !.at = at, !.next = 1, !.best = 1, !.score = -1, !.trained = 0, !.pc = to]
<1>4. n \in WalkState
  BY <1>2, <1>3 DEF WalkState
<1>5. n.at = at /\ n.trained = 0 /\ n.known = k.known /\ n.loaded = k.loaded
      /\ n.replaced = k.replaced /\ n.pc = to
  BY DEF WalkState
<1> HIDE DEF n
<1> QED
  BY <1>1, <1>2, <1>4, <1>5 DEF n

\* A simulation adds to what has been seen.
LEMMA SimulatedTyped ==
  ASSUME NEW k \in WalkState, NEW last \in Nat
  PROVE  LET n == Simulated(k, last) IN
         /\ n \in WalkState /\ (n.known = k.known \/ n.known = last)
         /\ n.pc = k.pc /\ n.at = k.at /\ n.next = k.next /\ n.best = k.best /\ n.score = k.score
         /\ n.loaded = k.loaded /\ n.replaced = k.replaced /\ n.valid = k.valid /\ n.won = k.won
         /\ n.passed = k.passed
<1> DEFINE x == IF last > k.known THEN last ELSE k.known
<1>1. Simulated(k, last) = [k EXCEPT !.known = x]
  BY DEF Simulated
<1>2. x \in Nat /\ (x = k.known \/ x = last)
  BY DEF WalkState
<1> HIDE DEF x
<1> QED
  BY <1>1, <1>2 DEF WalkState

\* A validation that is not in progress, and no report, promise nothing.
LEMMA IdleGood ==
  /\ IdleWalk \in WalkState /\ IdleWalk.pc = "idle" /\ WalkGood(IdleWalk)
  /\ IdleWalk.known = 0
  /\ ReportGood(NoReport) /\ NoReport.approved = FALSE
<1>1. 1 \in 1..Candidates /\ 1 \in 1..(Candidates + 1) /\ -1 \in Scores
  BY Sizes DEF Scores
<1>2. [c \in 1..Candidates |-> 0] \in [1..Candidates -> Nat]
  OBVIOUS
<1>3. IdleWalk \in WalkState /\ IdleWalk.pc = "idle" /\ IdleWalk.known = 0
  BY <1>1, <1>2 DEF IdleWalk, WalkState
<1> QED
  BY <1>3 DEF WalkGood, ReportGood, NoReport

\* A step that moves one validation, and perhaps writes a report.
LEMMA WalkMoves ==
  ASSUME EvidenceInv, NEW w \in Walks, NEW r \in WalkState, WalkGood(r),
         walk' = [walk EXCEPT ![w] = r], UNCHANGED <<data, manifest, imports, importing, start>>,
         runs' \in 0..MaxRuns, tmp' \in Report \cup {NoReport}, report' \in Report \cup {NoReport},
         ReportGood(tmp)', ReportGood(report)'
  PROVE  EvidenceInv'
<1>1. walk \in [Walks -> WalkState]
  BY DEF EvidenceInv, EvidenceTypeOK
<1>2. walk' \in [Walks -> WalkState] /\ walk'[w] = r /\ \A v \in Walks : v # w => walk'[v] = walk[v]
  BY <1>1
<1>3. EvidenceTypeOK'
  BY <1>2 DEF EvidenceInv, EvidenceTypeOK
<1>4. ASSUME NEW v \in Walks PROVE WalkGood(walk[v])'
  <2>1. WalkGood(walk'[v])
    BY <1>2 DEF EvidenceInv
  <2> QED
    BY <2>1 DEF WalkGood
<1> QED
  BY <1>3, <1>4 DEF EvidenceInv

\* A simulation on a training period: it ends before the test period begins.
LEMMA Trained ==
  ASSUME EvidenceInv, NEW w \in Walks, TrainOne(w)
  PROVE  EvidenceInv'
<1> DEFINE k == walk[w]
           s == Simulated(k, k.at - 1)
<1>1. k \in WalkState /\ WalkGood(k) /\ k.pc = "train" /\ k.next <= Candidates
  BY DEF EvidenceInv, EvidenceTypeOK, TrainOne
<1>2. PICK score \in Scores :
        walk' = [walk EXCEPT ![w] = [s EXCEPT
                   !.next = @ + 1, !.trained = k.at - 1,
                   !.best = IF score > k.score THEN k.next ELSE @,
                   !.score = IF score > @ THEN score ELSE @]]
  BY DEF TrainOne, TrainedTo
<1>3. k.at \in Nat /\ k.next \in 1..(Candidates + 1) /\ k.best \in 1..Candidates /\ k.score \in Scores
      /\ k.known \in Nat /\ k.trained \in Nat
  BY <1>1 DEF WalkState
<1>4. k.at + Test - 1 <= Research(k.loaded) /\ k.trained < k.at /\ k.known <= Research(k.loaded)
      /\ Research(k.loaded) \in Int
  BY <1>1, LengthTyped DEF WalkGood
<1>5. k.at - 1 \in Nat /\ k.at - 1 <= Research(k.loaded)
  BY <1>3, <1>4, Sizes
<1>6. s \in WalkState /\ (s.known = k.known \/ s.known = k.at - 1)
      /\ s.next = k.next /\ s.best = k.best /\ s.score = k.score /\ s.pc = k.pc /\ s.at = k.at
      /\ s.loaded = k.loaded /\ s.replaced = k.replaced
  BY <1>1, <1>5, SimulatedTyped
<1>7. s.known <= Research(k.loaded)
  BY <1>4, <1>5, <1>6
<1> DEFINE next == k.next + 1
           best == IF score > k.score THEN k.next ELSE k.best
           new == IF score > k.score THEN score ELSE k.score
           r == [s EXCEPT !.next = next, !.trained = k.at - 1, !.best = best, !.score = new]
<1>8. next \in 1..(Candidates + 1) /\ best \in 1..Candidates /\ new \in Scores
  BY <1>1, <1>3, Sizes
<1>9. walk' = [walk EXCEPT ![w] = r]
  BY <1>2, <1>6, <1>7
<1> HIDE DEF s, next, best, new
<1>10. r \in WalkState /\ r.pc = "train" /\ r.at = k.at /\ r.trained = k.at - 1 /\ r.known = s.known
       /\ r.loaded = k.loaded /\ r.replaced = k.replaced
  BY <1>1, <1>5, <1>6, <1>7, <1>8 DEF WalkState
<1> HIDE DEF r
<1>11. WalkGood(r)
  BY <1>1, <1>3, <1>4, <1>7, <1>10 DEF WalkGood
<1>12. UNCHANGED <<data, manifest, imports, importing, runs, tmp, report, start>>
  BY DEF TrainOne
<1> QED
  BY <1>9, <1>10, <1>11, <1>12, WalkMoves DEF EvidenceInv, EvidenceTypeOK, ReportGood

\* The best candidate goes to the test period with what it has seen.
LEMMA Selected ==
  ASSUME EvidenceInv, NEW w \in Walks, Select(w)
  PROVE  EvidenceInv'
<1> DEFINE k == walk[w]
           p == [k.picks EXCEPT ![k.best] = @ + 1]
           r == [k EXCEPT !.pc = "test", !.picks = p]
<1>1. k \in WalkState /\ WalkGood(k) /\ k.pc = "train"
  BY DEF EvidenceInv, EvidenceTypeOK, Select
<1>2. p \in [1..Candidates -> Nat]
  <2>1. k.picks \in [1..Candidates -> Nat] /\ k.best \in 1..Candidates
    BY <1>1 DEF WalkState
  <2>2. \A f \in [1..Candidates -> Nat], c \in 1..Candidates :
          [f EXCEPT ![c] = f[c] + 1] \in [1..Candidates -> Nat]
    OBVIOUS
  <2> QED
    BY <2>1, <2>2
<1>3. walk' = [walk EXCEPT ![w] = r]
  BY <1>1 DEF Select
<1> HIDE DEF p
<1>4. r \in WalkState /\ r.pc = "test" /\ r.at = k.at /\ r.trained = k.trained /\ r.known = k.known
      /\ r.loaded = k.loaded /\ r.replaced = k.replaced
  BY <1>1, <1>2 DEF WalkState
<1> HIDE DEF r
<1>5. WalkGood(r)
  BY <1>1, <1>4 DEF WalkGood
<1>6. UNCHANGED <<data, manifest, imports, importing, runs, tmp, report, start>>
  BY DEF Select
<1> QED
  BY <1>3, <1>4, <1>5, <1>6, WalkMoves DEF EvidenceInv, EvidenceTypeOK, ReportGood

\* A simulation on a test period: it ends before the holdout begins.
LEMMA Tested ==
  ASSUME EvidenceInv, NEW w \in Walks, TestOne(w)
  PROVE  EvidenceInv'
<1> DEFINE k == walk[w]
           last == k.at + Test - 1
           s == Simulated(k, last)
<1>1. k \in WalkState /\ WalkGood(k) /\ k.pc = "test"
  BY DEF EvidenceInv, EvidenceTypeOK, TestOne
<1>2. PICK m \in Measured(w) :
        walk' = [walk EXCEPT ![w] = Window([s EXCEPT
                   !.valid = IF m = "error" THEN @ ELSE @ + 1,
                   !.won = IF m = "win" THEN @ + 1 ELSE @], k.at + Step)]
  BY DEF TestOne
<1>3. k.at \in Nat /\ k.valid \in Nat /\ k.won \in Nat
  BY <1>1 DEF WalkState
<1>4. last \in Nat /\ last <= Research(k.loaded) /\ k.known <= Research(k.loaded) /\ k.at + Step \in Nat
      /\ k.at + Step > 0
  BY <1>1, <1>3, Sizes DEF WalkGood
<1> HIDE DEF last
<1>5. s \in WalkState /\ (s.known = k.known \/ s.known = last)
      /\ s.valid = k.valid /\ s.won = k.won /\ s.loaded = k.loaded /\ s.replaced = k.replaced
  BY <1>1, <1>4, SimulatedTyped
<1>6. s.known <= Research(k.loaded)
  BY <1>4, <1>5
<1> DEFINE valid == IF m = "error" THEN k.valid ELSE k.valid + 1
           won == IF m = "win" THEN k.won + 1 ELSE k.won
           u == [s EXCEPT !.valid = valid, !.won = won]
           next == k.at + Step
           r == Window(u, next)
<1>7. valid \in Nat /\ won \in Nat
  BY <1>3
<1>8. walk' = [walk EXCEPT ![w] = r]
  BY <1>2, <1>5, <1>6
<1> HIDE DEF s, valid, won
<1>9. u \in WalkState /\ u.known = s.known /\ u.loaded = k.loaded /\ u.replaced = k.replaced
  BY <1>5, <1>6, <1>7 DEF WalkState
<1> HIDE DEF u
<1>10. next \in Nat /\ next > 0
  BY <1>4
<1> HIDE DEF next
<1>11. /\ r \in WalkState /\ r.at = next /\ r.trained = 0 /\ r.known = u.known
       /\ r.loaded = u.loaded /\ r.replaced = u.replaced
       /\ \/ r.pc = "train" /\ next + Test - 1 <= Research(u.loaded)
          \/ r.pc = "holdout"
  BY <1>9, <1>10, WindowTyped
<1> HIDE DEF r
<1>12. WalkGood(r)
  BY <1>1, <1>6, <1>9, <1>10, <1>11 DEF WalkGood
<1>13. UNCHANGED <<data, manifest, imports, importing, runs, tmp, report, start>>
  BY DEF TestOne
<1> QED
  BY <1>8, <1>11, <1>12, <1>13, WalkMoves DEF EvidenceInv, EvidenceTypeOK, ReportGood

\* A validation begins on the dataset in place.
LEMMA Loaded ==
  ASSUME EvidenceInv, NEW w \in Walks, Load(w)
  PROVE  EvidenceInv'
<1> DEFINE b == [IdleWalk EXCEPT !.loaded = data]
           r == Window(b, Train + 1)
<1>1. /\ walk' = [walk EXCEPT ![w] = r] /\ LengthOf(data) >= Train + Test + Holdout
      /\ runs < MaxRuns /\ runs' = runs + 1
      /\ UNCHANGED <<data, manifest, imports, importing, tmp, report, start>>
  BY DEF Load, Required
<1>2. data \in Contents
  <2>1. data # NoData
    BY <1>1, Sizes DEF LengthOf
  <2> QED
    BY <2>1 DEF EvidenceInv, EvidenceTypeOK
<1>3. b \in WalkState /\ b.loaded = data /\ b.known = 0
  <2> DEFINE i0 == IdleWalk
  <2>1. i0 \in WalkState /\ i0.known = 0
    BY IdleGood
  <2> HIDE DEF i0
  <2>2. [i0 EXCEPT !.loaded = data] \in WalkState /\ [i0 EXCEPT !.loaded = data].loaded = data
        /\ [i0 EXCEPT !.loaded = data].known = 0
    BY <1>2, <2>1 DEF WalkState
  <2> QED
    BY <2>2 DEF i0
<1> HIDE DEF b
<1>4. Train + 1 \in Nat /\ 0 < Train + 1
  BY Sizes
<1>5. /\ r \in WalkState /\ r.at = Train + 1 /\ r.trained = 0 /\ r.known = 0 /\ r.loaded = data
      /\ \/ r.pc = "train" /\ Train + 1 + Test - 1 <= Research(data)
         \/ r.pc = "holdout"
  BY <1>3, <1>4, WindowTyped
<1>6. 0 <= Research(data)
  BY <1>1, LengthTyped, Sizes
<1> HIDE DEF r
<1>7. WalkGood(r)
  BY <1>2, <1>4, <1>5, <1>6 DEF WalkGood
<1>8. runs' \in 0..MaxRuns
  BY <1>1, Sizes DEF EvidenceInv, EvidenceTypeOK
<1> QED
  BY <1>1, <1>5, <1>7, <1>8, WalkMoves DEF EvidenceInv, EvidenceTypeOK, ReportGood

\* The holdout is passed only with enough windows.
LEMMA HeldOut ==
  ASSUME EvidenceInv, NEW w \in Walks, HoldoutRun(w) \/ StressRun(w)
  PROVE  EvidenceInv'
<1> DEFINE k == walk[w]
           s == Simulated(k, LengthOf(k.loaded))
<1>1. k \in WalkState /\ WalkGood(k) /\ k.pc \in {"holdout", "stress"} /\ k.valid \in Nat
  BY DEF EvidenceInv, EvidenceTypeOK, HoldoutRun, StressRun, WalkState
<1>2. s \in WalkState /\ s.valid = k.valid /\ s.loaded = k.loaded /\ s.replaced = k.replaced
  BY <1>1, LengthTyped, SimulatedTyped
<1>3. PICK passed \in BOOLEAN, to \in {"stress", "save"} :
        /\ walk' = [walk EXCEPT ![w] = [s EXCEPT !.passed = passed, !.pc = to]]
        /\ passed => k.valid >= MinWindows
  <2>1. CASE HoldoutRun(w)
    <3>1. PICK m \in Measured(w), promising \in {FALSE, Promising(k)} :
            walk' = [walk EXCEPT ![w] =
                       [s EXCEPT !.passed = promising /\ Stable(k) /\ m = "win", !.pc = "stress"]]
      BY <2>1 DEF HoldoutRun
    <3> DEFINE passed == promising /\ Stable(k) /\ m = "win"
    <3>2. passed \in BOOLEAN /\ (passed => Promising(k))
      OBVIOUS
    <3>3. passed => k.valid >= MinWindows
      BY <3>2 DEF Promising
    <3>4. walk' = [walk EXCEPT ![w] = [s EXCEPT !.passed = passed, !.pc = "stress"]]
      BY <3>1
    <3> HIDE DEF passed
    <3> QED
      BY <3>2, <3>3, <3>4
  <2>2. CASE StressRun(w)
    <3>1. PICK m \in Measured(w) :
            walk' = [walk EXCEPT ![w] = [s EXCEPT !.passed = k.passed /\ m = "win", !.pc = "save"]]
      BY <2>2 DEF StressRun
    <3> DEFINE passed == k.passed /\ m = "win"
    <3>2. passed \in BOOLEAN /\ (passed => k.passed)
      OBVIOUS
    <3>3. passed => k.valid >= MinWindows
      BY <1>1, <2>2, <3>2 DEF WalkGood, StressRun
    <3>4. walk' = [walk EXCEPT ![w] = [s EXCEPT !.passed = passed, !.pc = "save"]]
      BY <3>1
    <3> HIDE DEF passed
    <3> QED
      BY <3>2, <3>3, <3>4
  <2> QED
    BY <2>1, <2>2
<1> DEFINE r == [s EXCEPT !.passed = passed, !.pc = to]
<1> HIDE DEF s
<1>4. r \in WalkState /\ r.pc = to /\ r.passed = passed /\ r.valid = k.valid /\ r.loaded = k.loaded
      /\ r.replaced = k.replaced
  BY <1>2, <1>3 DEF WalkState
<1>5. walk' = [walk EXCEPT ![w] = r]
  BY <1>3
<1> HIDE DEF r
<1>6. WalkGood(r)
  BY <1>1, <1>3, <1>4 DEF WalkGood
<1>7. UNCHANGED <<data, manifest, imports, importing, runs, tmp, report, start>>
  BY DEF HoldoutRun, StressRun
<1> QED
  BY <1>4, <1>5, <1>6, <1>7, WalkMoves DEF EvidenceInv, EvidenceTypeOK, ReportGood

\* A report is approved with what its validation knows; a renamed report is the one
\* that was written.
LEMMA Saved ==
  ASSUME EvidenceInv, NEW w \in Walks,
         WalkDies(w) \/ SaveWrite(w) \/ SaveRename(w)
  PROVE  EvidenceInv'
<1> DEFINE k == walk[w]
<1>1. k \in WalkState /\ WalkGood(k) /\ runs \in 0..MaxRuns
      /\ tmp \in Report \cup {NoReport} /\ report \in Report \cup {NoReport}
      /\ ReportGood(tmp) /\ ReportGood(report)
  BY DEF EvidenceInv, EvidenceTypeOK
<1>2. IdleWalk \in WalkState /\ WalkGood(IdleWalk) /\ ReportGood(NoReport)
  BY IdleGood
<1>3. CASE WalkDies(w)
  <2>1. walk' = [walk EXCEPT ![w] = IdleWalk]
        /\ UNCHANGED <<data, manifest, imports, importing, runs, tmp, report, start>>
    BY <1>3 DEF WalkDies
  <2> QED
    BY <1>1, <1>2, <2>1, WalkMoves DEF ReportGood
<1>4. CASE SaveRename(w)
  <2>1. walk' = [walk EXCEPT ![w] = IdleWalk] /\ tmp' = NoReport
        /\ (report' = report \/ report' = tmp)
        /\ UNCHANGED <<data, manifest, imports, importing, runs, start>>
    BY <1>4 DEF SaveRename
  <2> QED
    BY <1>1, <1>2, <2>1, WalkMoves DEF ReportGood
<1>5. CASE SaveWrite(w)
  <2> DEFINE r == [IdleWalk EXCEPT !.pc = "rename"]
             yes == [data |-> data, approved |-> TRUE, loaded |-> k.loaded,
                     replaced |-> k.replaced, valid |-> k.valid]
             no == [NoReport EXCEPT !.data = data]
  <2>1. walk' = [walk EXCEPT ![w] = r] /\ tmp' = (IF k.passed THEN yes ELSE no) /\ k.pc = "save"
        /\ UNCHANGED <<data, manifest, imports, importing, runs, report, start>>
    BY <1>5 DEF SaveWrite
  <2>2. r \in WalkState /\ r.pc = "rename"
    BY <1>2 DEF WalkState
  <2>3. data \in Contents /\ (k.loaded = data \/ k.replaced) /\ (k.passed => k.valid >= MinWindows)
        /\ k.loaded \in Contents \cup {NoData} /\ k.replaced \in BOOLEAN /\ k.valid \in Nat
    BY <1>1, <2>1 DEF WalkGood, WalkState
  <2>4. yes \in Report /\ (k.passed => ReportGood(yes))
    BY <2>3 DEF Report, ReportGood
  <2>5. no \in Report /\ ReportGood(no)
    BY <2>3 DEF Report, NoReport, ReportGood
  <2>6. WalkGood(r)
    BY <2>2 DEF WalkGood
  <2> HIDE DEF r, yes, no
  <2>7. tmp' \in Report /\ ReportGood(tmp')
    BY <2>1, <2>4, <2>5
  <2> QED
    BY <1>1, <2>1, <2>2, <2>6, <2>7, WalkMoves DEF ReportGood
<1> QED
  BY <1>3, <1>4, <1>5

\* An import marks the validations in progress; a dataset in place is never taken away.
LEMMA Imported ==
  ASSUME EvidenceInv,
         (\E f \in Files : Import(f)) \/ ImportData \/ ImportManifest \/ ImportDies
  PROVE  EvidenceInv'
<1>1. EvidenceTypeOK /\ (importing = "data" => data \in Contents) /\ ReportGood(tmp) /\ ReportGood(report)
  BY DEF EvidenceInv
<1>2. ASSUME NEW content \in Contents, Rewritten(content), imports' \in 0..MaxImports,
             importing' \in {"data", "manifest"}, UNCHANGED <<manifest, runs, tmp, report, start>>
      PROVE  EvidenceInv'
  <2>1. walk \in [Walks -> WalkState] /\ data' = content
        /\ walk' = [w \in Walks |-> IF walk[w].pc = "idle" THEN walk[w]
                                    ELSE [walk[w] EXCEPT !.replaced = TRUE]]
    BY <1>1, <1>2 DEF EvidenceTypeOK, Rewritten
  <2>2. ASSUME NEW w \in Walks PROVE walk'[w] \in WalkState /\ WalkGood(walk[w])'
    <3>1. walk[w] \in WalkState /\ WalkGood(walk[w])
      BY <2>1 DEF EvidenceInv
    <3>2. CASE walk[w].pc = "idle"
      <4>1. walk'[w] = walk[w]
        BY <2>1, <3>2
      <4> QED
        BY <3>1, <3>2, <4>1 DEF WalkGood
    <3>3. CASE walk[w].pc # "idle"
      <4>1. walk'[w] = [walk[w] EXCEPT !.replaced = TRUE]
        BY <2>1, <3>3
      <4>2. /\ walk'[w] \in WalkState /\ walk'[w].pc = walk[w].pc /\ walk'[w].at = walk[w].at
            /\ walk'[w].trained = walk[w].trained /\ walk'[w].known = walk[w].known
            /\ walk'[w].loaded = walk[w].loaded /\ walk'[w].passed = walk[w].passed
            /\ walk'[w].valid = walk[w].valid /\ walk'[w].replaced = TRUE
        BY <3>1, <4>1 DEF WalkState
      <4> QED
        BY <1>2, <2>1, <3>1, <4>2 DEF WalkGood
    <3> QED
      BY <3>2, <3>3
  <2>3. walk' \in [Walks -> WalkState]
    BY <2>1, <2>2
  <2>4. EvidenceTypeOK'
    BY <1>1, <1>2, <2>1, <2>3 DEF EvidenceTypeOK
  <2> QED
    BY <1>1, <1>2, <2>1, <2>2, <2>4 DEF EvidenceInv, ReportGood
<1>3. ASSUME NEW f \in Files, Import(f) PROVE EvidenceInv'
  <2>1. [file |-> f, whole |-> FALSE] \in Contents
    BY DEF Contents
  <2>2. imports' \in 0..MaxImports
    BY <1>1, <1>3, Sizes DEF EvidenceTypeOK, Import
  <2> QED
    BY <1>2, <1>3, <2>1, <2>2 DEF Import
<1>4. CASE ImportData
  <2>1. [data EXCEPT !.whole = TRUE] \in Contents
    BY <1>1, <1>4 DEF ImportData, Contents
  <2>2. imports' \in 0..MaxImports
    BY <1>1, <1>4 DEF EvidenceTypeOK, ImportData
  <2> QED
    BY <1>2, <1>4, <2>1, <2>2 DEF ImportData
<1>5. CASE ImportManifest \/ ImportDies
  <2>1. UNCHANGED <<data, imports, walk, runs, tmp, report, start>> /\ importing' = "idle"
        /\ (manifest' = manifest \/ manifest' = data)
    BY <1>5 DEF ImportManifest, ImportDies
  <2>2. EvidenceTypeOK'
    BY <1>1, <2>1 DEF EvidenceTypeOK
  <2> QED
    BY <2>1, <2>2 DEF EvidenceInv, WalkGood, ReportGood
<1> QED
  BY <1>3, <1>4, <1>5

\* Every step keeps the invariant.
LEMMA EvidenceStep ==
  ASSUME EvidenceInv, [EvidenceNext]_evidenceVars
  PROVE  EvidenceInv'
<1>1. CASE StartChecks \/ StartReadsManifest \/ StartReadsReport \/ StartDone
  <2>1. UNCHANGED <<data, manifest, imports, importing, walk, runs, tmp, report>>
    BY <1>1 DEF StartChecks, StartReadsManifest, StartReadsReport, StartDone
  <2> DEFINE S == [pc : {"idle", "manifest", "report", "admitted"}, seen : Contents \cup {NoData}]
             i0 == IdleStart
  <2>2. start \in S /\ data \in Contents \cup {NoData}
    BY DEF EvidenceInv, EvidenceTypeOK
  <2>3. i0 \in S
    BY DEF IdleStart
  <2>4. \A x \in S, d \in Contents \cup {NoData}, p \in {"manifest", "report", "admitted"} :
          [x EXCEPT !.pc = p] \in S /\ [x EXCEPT !.pc = p, !.seen = d] \in S
    OBVIOUS
  <2>5. \/ start' = [i0 EXCEPT !.pc = "manifest", !.seen = data]
        \/ start' = [start EXCEPT !.pc = "report"]
        \/ start' = [i0 EXCEPT !.pc = "admitted"]
        \/ start' = i0
    BY <1>1 DEF StartChecks, StartReadsManifest, StartReadsReport, StartDone
  <2> HIDE DEF i0, S
  <2>6. start' \in S
    BY <2>2, <2>3, <2>4, <2>5
  <2>7. EvidenceTypeOK'
    BY <2>1, <2>6 DEF EvidenceInv, EvidenceTypeOK, S
  <2> QED
    BY <2>1, <2>7 DEF EvidenceInv, WalkGood, ReportGood
<1>2. CASE UNCHANGED evidenceVars
  BY <1>2 DEF evidenceVars, EvidenceInv, EvidenceTypeOK, WalkGood, ReportGood
<1>3. ASSUME NEW w \in Walks, WalkStep(w) PROVE EvidenceInv'
  BY <1>3, Loaded, Trained, Selected, Tested, HeldOut, Saved DEF WalkStep
<1> QED
  BY <1>1, <1>2, <1>3, Imported DEF EvidenceNext

\* Nothing is known before the first dataset is imported.
LEMMA EvidenceStarts ==
  ASSUME EvidenceInit
  PROVE  EvidenceInv
<1>1. IdleWalk \in WalkState /\ WalkGood(IdleWalk) /\ ReportGood(NoReport)
  BY IdleGood
<1>2. walk = [w \in Walks |-> IdleWalk] /\ runs = 0 /\ imports = 0
  BY DEF EvidenceInit
<1>3. 0 \in 0..MaxImports /\ 0 \in 0..MaxRuns
  BY Sizes
<1>4. walk \in [Walks -> WalkState] /\ \A w \in Walks : WalkGood(walk[w])
  BY <1>1, <1>2
<1>5. start \in [pc : {"idle", "manifest", "report", "admitted"}, seen : Contents \cup {NoData}]
  BY DEF EvidenceInit, IdleStart
<1>6. EvidenceTypeOK
  BY <1>2, <1>3, <1>4, <1>5 DEF EvidenceInit, EvidenceTypeOK
<1> QED
  BY <1>1, <1>4, <1>6 DEF EvidenceInit, EvidenceInv

\* The evidence is what it says in every reachable state.
LEMMA EvidenceHolds == EvidenceSpec => []EvidenceInv
<1>1. EvidenceInit => EvidenceInv
  BY EvidenceStarts
<1>2. EvidenceInv /\ [EvidenceNext]_evidenceVars => EvidenceInv'
  BY EvidenceStep
<1> QED
  BY <1>1, <1>2, PTL DEF EvidenceSpec

\* The variables of Qualification keep their types.
THEOREM EvidenceTyped == EvidenceSpec => []EvidenceTypeOK
<1>1. EvidenceInv => EvidenceTypeOK
  BY DEF EvidenceInv
<1> QED
  BY <1>1, EvidenceHolds, PTL

\* run_walk_forward keeps its sets apart, for any sizes of the request: whatever is
\* imported meanwhile, no selection has seen the test period it is judged on, and no
\* simulation before its own the holdout.
THEOREM TestsUnseen == EvidenceSpec => []Unseen
<1>1. EvidenceInv => Unseen
  <2> SUFFICES ASSUME EvidenceInv, NEW w \in Walks
               PROVE  /\ walk[w].pc = "test" => walk[w].trained < walk[w].at
                      /\ walk[w].pc \in {"train", "test", "holdout"} =>
                           walk[w].known <= LengthOf(walk[w].loaded) - Holdout
    BY DEF Unseen
  <2>1. WalkGood(walk[w])
    BY DEF EvidenceInv
  <2> QED
    BY <2>1, LengthTyped DEF WalkGood
<1> QED
  BY <1>1, EvidenceHolds, PTL

\* start_trading admits a live start only on an approved report of enough valid windows
\* about the dataset its check began with, although the three files are read one after
\* the other: the report is about the dataset its validation was laid out on, unless a
\* dataset was written while that validation ran.
THEOREM StartsOnEvidence == EvidenceSpec => AdmittedOnEvidence
<1>1. EvidenceInv /\ [EvidenceNext]_evidenceVars =>
        [start'.pc = "admitted" /\ start.pc # "admitted" =>
           /\ report.approved
           /\ report.valid >= MinWindows
           /\ report.loaded = start.seen \/ report.replaced]_evidenceVars
  <2> SUFFICES ASSUME EvidenceInv, EvidenceNext, start'.pc = "admitted", start.pc # "admitted"
               PROVE  /\ report.approved
                      /\ report.valid >= MinWindows
                      /\ report.loaded = start.seen \/ report.replaced
    OBVIOUS
  <2>1. start' # start
    OBVIOUS
  <2>2. StartChecks \/ StartReadsManifest \/ StartReadsReport \/ StartDone
    BY <2>1 DEF EvidenceNext, WalkStep, Import, ImportData, ImportManifest, ImportDies, Load,
                TrainOne, Select, TestOne, HoldoutRun, StressRun, WalkDies, SaveWrite,
                SaveRename
  <2>3. start \in [pc : {"idle", "manifest", "report", "admitted"}, seen : Contents \cup {NoData}]
    BY DEF EvidenceInv, EvidenceTypeOK
  <2>4. IdleStart.pc = "idle" /\ [IdleStart EXCEPT !.pc = "manifest", !.seen = data].pc = "manifest"
        /\ [start EXCEPT !.pc = "report"].pc = "report"
    BY <2>3 DEF IdleStart
  <2>5. StartReadsReport /\ Admits(start.seen, report)
    BY <2>2, <2>4 DEF StartChecks, StartReadsManifest, StartReadsReport, StartDone
  <2> QED
    BY <2>5 DEF Admits, EvidenceInv, ReportGood
<1> QED
  BY <1>1, EvidenceHolds, PTL DEF EvidenceSpec, AdmittedOnEvidence
=============================================================================
