--------------------------- MODULE OrderExecution ---------------------------
(***************************************************************************)
(* The order path of one user on the paper broker: ExecutionEngine         *)
(* (backend/app/engines/execution.py) driven by the strategy loops and the *)
(* position monitor of a TradingEngine and by the trading API, with the    *)
(* PaperBroker that holds the positions, the trades table, the emergency   *)
(* stop and the loss of all memory at a restart.                           *)
(*                                                                         *)
(* The process is one asyncio event loop: code runs atomically between two *)
(* suspending awaits, and every action below is the code from one          *)
(* suspension (a database or Redis round trip) to the next.  The paper     *)
(* broker never suspends, so a broker call belongs to the step around it.  *)
(*                                                                         *)
(* An order is named by a number of its own (a "fill"); the order id the   *)
(* broker gives it, PAPER_n, is the field no, which starts again with      *)
(* every broker instance.  Prices, sizes and the reasons of a refusal are  *)
(* abstracted.                                                             *)
(***************************************************************************)
EXTENDS Naturals, FiniteSets

CONSTANTS
  Loops,          \* strategy-loop tasks of the user's engine
  Requests,       \* concurrent POST /trades requests
  Monitor,        \* the engine's position-monitor task
  CloseRequests,  \* concurrent POST /trades/{id}/close requests
  Symbols,        \* markets
  NoSymbol,       \* not a market
  MaxOpen,        \* RiskProfile.max_open_trades
  DbFaults,       \* whether a commit may fail for a reason of the database
  RedisFaults,    \* whether Redis may become unreachable
  RiskRaises,     \* whether the last comparison of validate_trade raises
  MaxFills,       \* bound: orders filled in a behaviour
  MaxStops,       \* bound: engine stops and emergency stops
  MaxRestarts     \* bound: process restarts

Callers == Loops \cup Requests
Closers == CloseRequests \cup {Monitor}
Fills == 1..MaxFills

ASSUME OrderConstants ==
  /\ IsFiniteSet(Callers) /\ IsFiniteSet(Closers)
  /\ Loops \cap Requests = {} /\ Monitor \notin CloseRequests
  /\ NoSymbol \notin Symbols
  /\ MaxOpen \in Nat \ {0} /\ MaxFills \in Nat
  /\ MaxStops \in Nat /\ MaxRestarts \in Nat
  /\ DbFaults \in BOOLEAN /\ RedisFaults \in BOOLEAN /\ RiskRaises \in BOOLEAN

VARIABLES
  call,       \* execute_signal calls in flight
  close,      \* monitor cycle and close_trade calls in flight
  position,   \* PaperBroker._positions: the fill held on each symbol, 0 for none
  counter,    \* PaperBroker._order_counter
  order,      \* every filled order with its row of the trades table
  lastFill,   \* number of orders filled so far
  exits,      \* times each trade's exit was committed
  counted,    \* times each trade's result was added to the risk counters
  engineUp,   \* the engine's tasks exist
  hit,        \* symbols whose price is beyond the stop loss or take profit
  stop,       \* emergency stop: process flag, Redis key, stop requests in flight
  redis,      \* "up", "failing" (the next command fails) or "down"
  budget,     \* engine stops and restarts still allowed (bounds)
  abandoned,  \* history: fills whose call ended before their row was committed
  dropped,    \* history: exits whose closer was killed, or failed, before counting them
  survivors   \* history: calls past the gate when the stop was activated

vars == <<call, close, position, counter, order, lastFill, exits, counted,
          engineUp, hit, stop, redis, budget, abandoned, dropped, survivors>>

callVars   == <<call, counter, lastFill, abandoned, survivors>>
closeVars  == <<close, exits, counted, dropped>>
engineVars == <<engineUp, budget>>

IdleCall == [pc |-> "idle", symbol |-> NoSymbol, fill |-> 0]
IdleClose == [pc |-> "idle", todo |-> {}, fill |-> 0]

CallState == [pc : {"idle", "risk", "reserve", "place", "record"},
              symbol : Symbols \cup {NoSymbol}, fill : 0..MaxFills]
CloseState == [pc : {"idle", "checking", "commit", "count"},
               todo : SUBSET Fills, fill : 0..MaxFills]
OrderState == [state : {"none", "filled", "open", "closed"},
               no : Nat, symbol : Symbols \cup {NoSymbol}]

TypeOK ==
  /\ call \in [Callers -> CallState]
  /\ close \in [Closers -> CloseState]
  /\ position \in [Symbols -> 0..MaxFills]
  /\ counter \in Nat
  /\ order \in [Fills -> OrderState]
  /\ lastFill \in 0..MaxFills
  /\ exits \in [Fills -> Nat]
  /\ counted \in [Fills -> Nat]
  /\ engineUp \in BOOLEAN
  /\ hit \subseteq Symbols
  /\ stop \in [flag : BOOLEAN, key : BOOLEAN, pending : Nat]
  /\ redis \in {"up", "failing", "down"}
  /\ budget \in [stops : Nat, restarts : Nat]
  /\ abandoned \subseteq 0..MaxFills
  /\ dropped \in [Fills -> Nat]
  /\ survivors \subseteq Callers

Init ==
  /\ call = [c \in Callers |-> IdleCall]
  /\ close = [k \in Closers |-> IdleClose]
  /\ position = [s \in Symbols |-> 0]
  /\ counter = 0
  /\ order = [f \in Fills |-> [state |-> "none", no |-> 0, symbol |-> NoSymbol]]
  /\ lastFill = 0
  /\ exits = [f \in Fills |-> 0]
  /\ counted = [f \in Fills |-> 0]
  /\ engineUp = FALSE
  /\ hit = {}
  /\ stop = [flag |-> FALSE, key |-> FALSE, pending |-> 0]
  /\ redis = "up"
  /\ budget = [stops |-> MaxStops, restarts |-> MaxRestarts]
  /\ abandoned = {}
  /\ dropped = [f \in Fills |-> 0]
  /\ survivors = {}

OpenTrades == {f \in Fills : order[f].state = "open"}

\* The shared Redis client, as much as this component sees of it.
Redis == INSTANCE RedisHealth WITH health <- redis

(***************************************************************************)
(* What a Redis command leaves behind: the client notices a broken         *)
(* connection at the first command that fails, and is unhealthy from then. *)
(***************************************************************************)
AfterCommand == IF redis = "failing" THEN "down" ELSE redis

(***************************************************************************)
(* execute_signal.                                                         *)
(***************************************************************************)
End(c) ==
  /\ call' = [call EXCEPT ![c] = IdleCall]
  /\ survivors' = survivors \ {c}

\* Mutant: only the Redis key is read.
StopActiveKeyOnly == redis = "up" /\ stop.key

\* emergency_stop_active(): the process flag first, then the Redis key; an
\* unhealthy or failing Redis answers "not active".
StopActive == stop.flag \/ (redis = "up" /\ stop.key)

\* A loop or a request enters execute_signal and is past the emergency-stop
\* gate; the quote, AI and news checks that follow do not suspend.
Admit(c, s) ==
  /\ call[c].pc = "idle"
  /\ c \in Loops => engineUp
  /\ ~StopActive
  /\ call' = [call EXCEPT ![c] = [pc |-> "risk", symbol |-> s, fill |-> 0]]
  /\ redis' = AfterCommand
  /\ UNCHANGED <<closeVars, engineVars, position, counter, order, lastFill,
                 hit, stop, abandoned, survivors>>

\* Mutant: the count is compared with <=.
RiskPassedAtLimit(c) ==
  /\ call[c].pc = "risk" /\ ~RiskRaises
  /\ Cardinality(OpenTrades) <= MaxOpen
  /\ call' = [call EXCEPT ![c].pc = "reserve"]
  /\ UNCHANGED <<closeVars, engineVars, position, counter, order, lastFill,
                 hit, stop, redis, abandoned, survivors>>

\* validate_trade's trade counts: fewer than max_open_trades open in all and
\* fewer than two on the symbol, as the trades table reads at that moment.  With
\* RiskRaises the comparison of a float with a Decimal that ends validate_trade
\* raises, so that a call that passed every gate is Refused all the same; with
\* RiskRaises = FALSE it compares as it is written.
RiskPassed(c) ==
  /\ call[c].pc = "risk" /\ ~RiskRaises
  /\ Cardinality(OpenTrades) < MaxOpen
  /\ Cardinality({f \in OpenTrades : order[f].symbol = call[c].symbol}) < 2
  /\ call' = [call EXCEPT ![c].pc = "reserve"]
  /\ UNCHANGED <<closeVars, engineVars, position, counter, order, lastFill,
                 hit, stop, redis, abandoned, survivors>>

\* Any of the checks up to and including validate_trade refuses or raises.
Refused(c) ==
  /\ call[c].pc \in {"risk", "reserve"}
  /\ End(c)
  /\ UNCHANGED <<closeVars, engineVars, position, counter, order, lastFill,
                 hit, stop, redis, abandoned>>

\* check_and_reserve.  Every analysis stamps its signal with the current time,
\* so the key is new and only a failing Redis, whose set_nx returns False,
\* turns the call away.
Reserve(c) ==
  /\ call[c].pc = "reserve"
  /\ redis' = AfterCommand
  /\ IF redis = "failing"
     THEN End(c)
     ELSE /\ call' = [call EXCEPT ![c].pc = "place"]
          /\ UNCHANGED survivors
  /\ UNCHANGED <<closeVars, engineVars, position, counter, order, lastFill,
                 hit, stop, abandoned>>

\* PaperBroker.place_order fills the order and the commit of its row is sent.
PlaceFilled(c) ==
  LET s == call[c].symbol
      f == lastFill + 1
  IN
  /\ call[c].pc = "place"
  /\ lastFill < MaxFills
  /\ position[s] = 0
  /\ counter' = counter + 1
  /\ lastFill' = f
  /\ position' = [position EXCEPT ![s] = f]
  /\ order' = [order EXCEPT ![f] = [state |-> "filled", no |-> counter + 1, symbol |-> s]]
  /\ call' = [call EXCEPT ![c] = [pc |-> "record", symbol |-> s, fill |-> f]]
  /\ UNCHANGED <<closeVars, engineVars, hit, stop, redis, abandoned, survivors>>

\* Mutant: a refused order gives its number back, also when it took none.
PlaceRefusedReturnsNumber(c) ==
  /\ call[c].pc = "place"
  /\ position[call[c].symbol] # 0
  /\ counter' = counter - 1
  /\ redis' = AfterCommand
  /\ End(c)
  /\ UNCHANGED <<closeVars, engineVars, position, order, lastFill, hit, stop,
                 abandoned>>

\* place_order refuses: a position is already open on the symbol, or the
\* balance is too small, which has already used up an order number.
PlaceRefused(c) ==
  /\ call[c].pc = "place"
  /\ IF position[call[c].symbol] # 0
     THEN UNCHANGED counter
     ELSE /\ counter < MaxFills
          /\ counter' = counter + 1
  /\ redis' = AfterCommand
  /\ End(c)
  /\ UNCHANGED <<closeVars, engineVars, position, order, lastFill, hit, stop,
                 abandoned>>

\* The unique constraint (broker, broker_order_id) of the trades table.
OrderIdTaken(f) ==
  \E g \in Fills \ {f} : order[g].state \in {"open", "closed"} /\ order[g].no = order[f].no

\* Mutant: the row is added to the session and never committed.
RecordUncommitted(c) ==
  /\ call[c].pc = "record"
  /\ ~OrderIdTaken(call[c].fill)
  /\ End(c)
  /\ UNCHANGED <<closeVars, engineVars, position, counter, order, lastFill, hit, stop,
                 redis, abandoned>>

\* The commit of the new row, and mark_completed after it.
Record(c) ==
  /\ call[c].pc = "record"
  /\ ~OrderIdTaken(call[c].fill)
  /\ order' = [order EXCEPT ![call[c].fill].state = "open"]
  /\ redis' = AfterCommand
  /\ End(c)
  /\ UNCHANGED <<closeVars, engineVars, position, counter, lastFill, hit, stop,
                 abandoned>>

\* The commit raises: execute_signal reports the error and leaves the broker's
\* position as it is.
RecordFails(c) ==
  /\ call[c].pc = "record"
  /\ OrderIdTaken(call[c].fill) \/ DbFaults
  /\ abandoned' = abandoned \cup {call[c].fill}
  /\ End(c)
  /\ UNCHANGED <<closeVars, engineVars, position, counter, order, lastFill, hit,
                 stop, redis>>

(***************************************************************************)
(* close_trade, called by the close endpoint and by the position monitor.  *)
(* The monitor reads every OPEN row once per cycle; the select inside      *)
(* close_trade runs in the same session, whose identity map returns the    *)
(* rows as they were read.                                                 *)
(***************************************************************************)
RequestClose(k, f) ==
  /\ close[k].pc = "idle"
  /\ f \in OpenTrades
  /\ close' = [close EXCEPT ![k] = [pc |-> "checking", todo |-> {f}, fill |-> 0]]
  /\ UNCHANGED <<callVars, engineVars, position, order, exits, counted, dropped,
                 hit, stop, redis>>

Scan ==
  /\ engineUp
  /\ close[Monitor].pc = "idle"
  /\ close' = [close EXCEPT ![Monitor] = [pc |-> "checking", todo |-> OpenTrades, fill |-> 0]]
  /\ UNCHANGED <<callVars, engineVars, position, order, exits, counted, dropped,
                 hit, stop, redis>>

\* Mutant: a row may be passed over although its level is reached.
NotHitUnchecked(f) ==
  /\ close[Monitor].pc = "checking"
  /\ f \in close[Monitor].todo
  /\ close' = [close EXCEPT ![Monitor].todo = @ \ {f}]
  /\ UNCHANGED <<callVars, engineVars, position, order, exits, counted, dropped,
                 hit, stop, redis>>

\* check_stop_loss_take_profit finds neither level reached.
NotHit(f) ==
  /\ close[Monitor].pc = "checking"
  /\ f \in close[Monitor].todo
  /\ order[f].symbol \notin hit
  /\ close' = [close EXCEPT ![Monitor].todo = @ \ {f}]
  /\ UNCHANGED <<callVars, engineVars, position, order, exits, counted, dropped,
                 hit, stop, redis>>

\* PaperBroker.close_position finds nothing on the symbol: "Close failed".
CloseFails(k, f) ==
  /\ close[k].pc = "checking"
  /\ f \in close[k].todo
  /\ k = Monitor => order[f].symbol \in hit
  /\ position[order[f].symbol] = 0
  /\ close' = [close EXCEPT ![k].todo = @ \ {f}]
  /\ UNCHANGED <<callVars, engineVars, position, order, exits, counted, dropped,
                 hit, stop, redis>>

\* Mutant: the broker reports the close and keeps the position.
ClosePositionKept(k, f) ==
  /\ close[k].pc = "checking"
  /\ f \in close[k].todo
  /\ k = Monitor => order[f].symbol \in hit
  /\ position[order[f].symbol] # 0
  /\ close' = [close EXCEPT ![k] = [pc |-> "commit", todo |-> @.todo \ {f}, fill |-> f]]
  /\ UNCHANGED <<callVars, engineVars, position, order, exits, counted, dropped, hit,
                 stop, redis>>

\* close_position removes the position of the trade's symbol, whichever order
\* opened it, and takes an order number; the commit of the row is sent.
ClosePosition(k, f) ==
  /\ close[k].pc = "checking"
  /\ f \in close[k].todo
  /\ k = Monitor => order[f].symbol \in hit
  /\ position[order[f].symbol] # 0
  /\ position' = [position EXCEPT ![order[f].symbol] = 0]
  /\ counter' = counter + 1
  /\ close' = [close EXCEPT ![k] = [pc |-> "commit", todo |-> @.todo \ {f}, fill |-> f]]
  /\ UNCHANGED <<call, lastFill, abandoned, survivors, engineVars, order, exits, counted,
                 dropped, hit, stop, redis>>

\* The commit of status, exit price and P&L.
BookExit(k) ==
  /\ close[k].pc = "commit"
  /\ order' = [order EXCEPT ![close[k].fill].state = "closed"]
  /\ exits' = [exits EXCEPT ![close[k].fill] = @ + 1]
  /\ close' = [close EXCEPT ![k].pc = "count"]
  /\ UNCHANGED <<callVars, engineVars, position, counted, dropped, hit, stop, redis>>

\* Mutant: the position is put back when its exit cannot be booked.
BookFailsRestoring(k) ==
  /\ DbFaults
  /\ close[k].pc = "commit"
  /\ position' = [position EXCEPT ![order[close[k].fill].symbol] = close[k].fill]
  /\ close' = [close EXCEPT ![k] = IdleClose]
  /\ UNCHANGED <<callVars, engineVars, order, exits, counted, dropped, hit, stop,
                 redis>>

\* The commit raises: the row stays OPEN, and the session, which would have to
\* be rolled back first, serves no other trade of the cycle.
BookFails(k) ==
  /\ DbFaults
  /\ close[k].pc = "commit"
  /\ close' = [close EXCEPT ![k] = IdleClose]
  /\ UNCHANGED <<callVars, engineVars, position, order, exits, counted, dropped,
                 hit, stop, redis>>

\* Mutant: the result is not passed on to the risk engine.
CountResultSkipped(k) ==
  /\ close[k].pc = "count"
  /\ close' = [close EXCEPT ![k] = [pc |-> "checking", todo |-> @.todo, fill |-> 0]]
  /\ UNCHANGED <<callVars, engineVars, position, order, exits, counted, dropped, hit,
                 stop, redis>>

\* update_trade_result.
CountResult(k) ==
  /\ close[k].pc = "count"
  /\ counted' = [counted EXCEPT ![close[k].fill] = @ + 1]
  /\ close' = [close EXCEPT ![k] = [pc |-> "checking", todo |-> @.todo, fill |-> 0]]
  /\ UNCHANGED <<callVars, engineVars, position, order, exits, dropped, hit, stop,
                 redis>>

\* The select or the commit of update_trade_result raises.  The exit is booked by
\* then; close_trade reports the error, and nothing hands the result in again.
CountFails(k) ==
  /\ DbFaults
  /\ close[k].pc = "count"
  /\ dropped' = [dropped EXCEPT ![close[k].fill] = @ + 1]
  /\ close' = [close EXCEPT ![k] = IdleClose]
  /\ UNCHANGED <<callVars, engineVars, position, order, exits, counted, hit, stop, redis>>

\* The request returns, or the monitor goes to sleep until its next cycle.
CloseDone(k) ==
  /\ close[k].pc = "checking"
  /\ close[k].todo = {}
  /\ close' = [close EXCEPT ![k] = IdleClose]
  /\ UNCHANGED <<callVars, engineVars, position, order, exits, counted, dropped,
                 hit, stop, redis>>

(***************************************************************************)
(* The engine's tasks, the emergency stop and the process.                 *)
(***************************************************************************)
StartEngine ==
  /\ ~engineUp
  /\ engineUp' = TRUE
  /\ UNCHANGED <<callVars, closeVars, position, order, hit, stop, redis, budget>>

\* TradingEngine.stop cancels the loops and the monitor: each ends at the await
\* it is suspended in, and nothing of what it was doing is taken back.
Cancelled(f) ==
  close[Monitor].pc = "count" /\ close[Monitor].fill = f

KillTasks ==
  /\ engineUp' = FALSE
  /\ call' = [c \in Callers |-> IF c \in Loops THEN IdleCall ELSE call[c]]
  /\ close' = [close EXCEPT ![Monitor] = IdleClose]
  /\ abandoned' = abandoned \cup {call[c].fill : c \in {l \in Loops : call[l].pc = "record"}}
  /\ dropped' = [f \in Fills |-> dropped[f] + IF Cancelled(f) THEN 1 ELSE 0]
  /\ survivors' = survivors \ Loops

StopEngine ==
  /\ engineUp
  /\ budget.stops > 0
  /\ budget' = [budget EXCEPT !.stops = @ - 1]
  /\ KillTasks
  /\ UNCHANGED <<position, counter, order, lastFill, exits, counted, hit, stop, redis>>

\* POST /emergency-stop: the process flag is set before the first await ...
ActivateStop ==
  /\ budget.stops > 0
  /\ budget' = [budget EXCEPT !.stops = @ - 1]
  /\ stop' = [stop EXCEPT !.flag = TRUE, !.pending = @ + 1]
  /\ survivors' = {c \in Callers : call[c].pc # "idle"}
  /\ UNCHANGED <<closeVars, call, position, counter, order, lastFill, engineUp,
                 hit, redis, abandoned>>

\* ... then the key is written, if Redis takes it, and every engine stopped.
FinishStop ==
  /\ stop.pending > 0
  /\ stop' = [stop EXCEPT !.pending = @ - 1, !.key = @ \/ redis = "up"]
  /\ redis' = AfterCommand
  /\ KillTasks
  /\ UNCHANGED <<position, counter, order, lastFill, exits, counted, hit, budget>>

\* POST /emergency-stop/reset, at any time: the flag falls and the key is deleted.
\* One step, although the deletion takes a round trip: the key is not read while
\* the flag is up, and a deletion that comes later only keeps the gate shut longer.
ClearStop ==
  /\ stop' = [stop EXCEPT !.flag = FALSE, !.key = @ /\ redis # "up"]
  /\ redis' = AfterCommand
  /\ UNCHANGED <<callVars, closeVars, engineVars, position, order, hit>>

PriceMoves(s) ==
  /\ hit' = IF s \in hit THEN hit \ {s} ELSE hit \cup {s}
  /\ UNCHANGED <<callVars, closeVars, engineVars, position, order, stop, redis>>

\* The server breaks, or a command of another user of the client notices.
RedisFails ==
  /\ RedisFaults
  /\ Redis!Break \/ (redis # "down" /\ Redis!Notice)
  /\ UNCHANGED <<callVars, closeVars, engineVars, position, order, hit, stop>>

RedisReconnects ==
  /\ redis # "up"
  /\ Redis!Recover
  /\ UNCHANGED <<callVars, closeVars, engineVars, position, order, hit, stop>>

\* The process dies and starts again: tasks, requests, the paper broker and the
\* process flag are gone; the trades table and the Redis key are not.
Restart ==
  /\ budget.restarts > 0
  /\ budget' = [budget EXCEPT !.restarts = @ - 1]
  /\ engineUp' = FALSE
  /\ call' = [c \in Callers |-> IdleCall]
  /\ close' = [k \in Closers |-> IdleClose]
  /\ position' = [s \in Symbols |-> 0]
  /\ counter' = 0
  /\ stop' = [stop EXCEPT !.flag = FALSE, !.pending = 0]
  /\ redis' = "up"
  /\ abandoned' = abandoned \cup {call[c].fill : c \in {d \in Callers : call[d].pc = "record"}}
  /\ dropped' = [f \in Fills |-> dropped[f]
                   + Cardinality({k \in Closers : close[k].pc = "count" /\ close[k].fill = f})]
  /\ survivors' = {}
  /\ UNCHANGED <<order, lastFill, exits, counted, hit>>

CallStep(c) ==
  \/ \E s \in Symbols : Admit(c, s)
  \/ RiskPassed(c) \/ Refused(c) \/ Reserve(c)
  \/ PlaceFilled(c) \/ PlaceRefused(c)
  \/ Record(c) \/ RecordFails(c)

CloseStep(k) ==
  \/ \E f \in Fills : CloseFails(k, f) \/ ClosePosition(k, f)
  \/ BookExit(k) \/ BookFails(k) \/ CountResult(k) \/ CountFails(k) \/ CloseDone(k)

MonitorStep == Scan \/ (\E f \in Fills : NotHit(f)) \/ CloseStep(Monitor)

Next ==
  \/ \E c \in Callers : CallStep(c)
  \/ \E k \in CloseRequests : CloseStep(k) \/ \E f \in Fills : RequestClose(k, f)
  \/ MonitorStep
  \/ StartEngine \/ StopEngine
  \/ ActivateStop \/ FinishStop \/ ClearStop
  \/ \E s \in Symbols : PriceMoves(s)
  \/ RedisFails \/ RedisReconnects
  \/ Restart

Spec == Init /\ [][Next]_vars

\* The event loop runs every ready task, so the monitor of a started engine
\* goes through its cycles.
FairSpec == Spec /\ WF_vars(MonitorStep)

(***************************************************************************)
(* Properties.                                                             *)
(***************************************************************************)
InFlight == {c \in Callers : call[c].pc \in {"reserve", "place", "record"}}

\* A trade the table shows as CLOSED has no position left at the broker, even
\* though close_trade acts on rows read before other tasks ran and closes
\* positions by symbol.
ClosedTradeFlat ==
  \A f \in Fills : order[f].state = "closed" =>
    \A s \in Symbols : position[s] # f

\* The open-trade limit is checked several awaits before the row is inserted,
\* and nothing reserves a slot in between: calls that are past the check count
\* for nothing.  The overshoot is bounded by the number of concurrent calls.
ExposureBound ==
  Cardinality(OpenTrades) + Cardinality(InFlight) <= MaxOpen - 1 + Cardinality(Callers)

\* A position the broker holds is the position of an OPEN row, of a call about
\* to commit its row, of an exit that is not booked yet, or of a call that was
\* cut off between the fill and the commit: no other path of execute_signal or
\* close_trade loses track of a position.
PositionAccounted ==
  \A s \in Symbols : position[s] # 0 =>
    \/ order[position[s]].state = "open"
    \/ \E c \in Callers : call[c].pc = "record" /\ call[c].fill = position[s]
    \/ position[s] \in abandoned

\* Fills are numbered in order.
FillsNumbered == \A f \in Fills : order[f].state = "none" <=> f > lastFill

\* The broker files a position under the symbol of its order.
PositionsFiled ==
  \A s \in Symbols : position[s] # 0 =>
    position[s] <= lastFill /\ order[position[s]].symbol = s

\* close_trade works on rows that were inserted, and an exit about to be booked
\* has left the broker.
Recorded(f) == order[f].state \in {"open", "closed"}

ClosersHoldRows ==
  \A k \in Closers :
    /\ \A f \in close[k].todo : Recorded(f)
    /\ close[k].pc = "commit" =>
         /\ close[k].fill \in Fills
         /\ Recorded(close[k].fill)
         /\ \A s \in Symbols : position[s] # close[k].fill

\* A fill without a row belongs to the one call about to insert it, or to a call
\* that was cut off.
Recording(c, f) == call[c].pc = "record" /\ call[c].fill = f

FillsTracked ==
  /\ \A c \in Callers : call[c].pc = "record" =>
       call[c].fill \in Fills /\ order[call[c].fill].state = "filled"
  /\ \A c, d \in Callers : \A f \in Fills : Recording(c, f) /\ Recording(d, f) => c = d
  /\ \A f \in Fills : order[f].state = "filled" =>
       f \in abandoned \/ \E c \in Callers : Recording(c, f)

\* What ClosedTradeFlat and PositionAccounted rest on, taken together.
LedgerInv ==
  FillsNumbered /\ PositionsFiled /\ ClosersHoldRows /\ FillsTracked /\ ClosedTradeFlat

\* The calls, tasks and sessions above implement the ledger a reader of the code
\* has in mind: an order is filled once, its position leaves the broker once, its
\* row is inserted once and closed only when the position is gone, whatever is
\* interleaved, cancelled or restarted.
Held == {position[s] : s \in Symbols} \ {0}

Row(f) == IF order[f].state \in {"open", "closed"} THEN order[f].state ELSE "none"

Ledger == INSTANCE TradeLedger WITH
  filled <- {f \in Fills : order[f].state # "none"},
  held <- Held,
  row <- [f \in Fills |-> Row(f)]

LedgerKept == Ledger!Spec

\* Every committed exit reaches the loss counters of the risk engine exactly
\* once, unless the task was cancelled between the two commits or the second of
\* them failed; nothing makes up for it then, and nothing counts an exit twice.
EveryExitCounted ==
  \A f \in Fills :
    exits[f] = counted[f] + dropped[f]
               + Cardinality({k \in Closers : close[k].pc = "count" /\ close[k].fill = f})

\* While the stop flag is up, only calls that were past the gate when it was
\* raised can still place an order; once the request has stopped the engines,
\* no call of a strategy loop is among them.
OrderUnderStop ==
  [][\A c \in Callers :
       (stop.flag /\ call[c].pc = "place" /\ call'[c].pc = "record")
         => c \in survivors /\ (c \in Loops => stop.pending > 0)]_vars

\* What OrderUnderStop rests on: under the flag every call in flight is one that
\* was past the gate, and the answered stop request has cancelled the loops.
StopInv ==
  stop.flag =>
    /\ {c \in Callers : call[c].pc # "idle"} \subseteq survivors
    /\ stop.pending = 0 => survivors \cap Loops = {}

\* A position whose stop loss or take profit stays reached under a running engine
\* does not stay at the broker for ever.  (A row may stay OPEN for ever: a stop can
\* cancel the monitor between the close at the broker and the commit.)
HitTradeIsClosed ==
  \A f \in Fills :
    []<>~(/\ order[f].state = "open" /\ order[f].symbol \in hit /\ engineUp
          /\ position[order[f].symbol] = f)
=============================================================================
