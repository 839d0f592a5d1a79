----------------------------- MODULE LiveTrading -----------------------------
(***************************************************************************)
(* Orders of one user and market on live brokers, and the recovery after a *)
(* restart: BinanceBroker and MT5Broker (backend/app/brokers/binance.py,   *)
(* mt5.py) under execute_signal and close_trade, and StartupRecovery with  *)
(* OrderStateSynchronizer and PositionReconciler (backend/app/core).       *)
(*                                                                         *)
(* A live broker is across the network: a request can fail before or after *)
(* the broker has acted on it.  Every order is for one unit, bought (1) or *)
(* sold (-1), so that the position of a market is an integer (netting      *)
(* account); a close orders whatever quantity it read.                     *)
(*                                                                         *)
(* The history variable parted holds the brokers at which one of the       *)
(* circumstances has occurred under which exchange and trades table part:  *)
(*   - a reply was lost after the broker had acted;                        *)
(*   - a close read something else than the one unit of its own trade: the *)
(*     units of several trades, what is left of trades on opposite sides,  *)
(*     or a short position whose size came without its sign;               *)
(*   - two closes of one trade both found a position;                      *)
(*   - a close was reported without a price;                               *)
(*   - the process died between an order and its commit;                   *)
(*   - the broker closed the position itself;                              *)
(*   - recovery closed a row whose position exists.                        *)
(***************************************************************************)
EXTENDS Integers, FiniteSets

CONSTANTS
  Brokers,      \* live broker types the user trades on
  Unsigned,     \* those that report the size of a position without its sign
  Attempts,     \* requests per order: 2 on Binance (_retryable), 1 on MT5
  Orders,       \* concurrent execute_signal calls
  Closers,      \* the position monitor and concurrent close requests
  NoBroker,     \* not a broker
  MaxFills,     \* bound: rows of the trades table
  MaxTrouble    \* bound: lost replies, missing prices, restarts, closes by the broker

Fills == 1..MaxFills

ASSUME LiveConstants ==
  /\ IsFiniteSet(Brokers) /\ NoBroker \notin Brokers /\ Unsigned \subseteq Brokers
  /\ IsFiniteSet(Orders) /\ IsFiniteSet(Closers)
  /\ Attempts \in [Brokers -> {1, 2}]
  /\ MaxFills \in Nat /\ MaxTrouble \in Nat

VARIABLES
  net,        \* position at each broker, in units
  row,        \* trades table: state, broker and side of each row
  lastFill,   \* rows inserted
  order,      \* execute_signal calls in flight
  close,      \* close_trade calls in flight
  phase,      \* "up", or the step of the recovery
  todo,       \* broker types the recovery still has to visit
  stopped,    \* the recovery activated the emergency stop
  trouble,    \* bound: troubles still allowed
  parted      \* history: see above

vars == <<net, row, lastFill, order, close, phase, todo, stopped, trouble, parted>>

Sides == {1, -1}

NoRow == [state |-> "none", broker |-> NoBroker, side |-> 1]
IdleOrder == [pc |-> "idle", broker |-> NoBroker, side |-> 1, tries |-> 0]
IdleClose == [pc |-> "idle", fill |-> 0, seen |-> 0, tries |-> 0]

TypeOK ==
  /\ net \in [Brokers -> Int]
  /\ row \in [Fills -> [state : {"none", "open", "closed"},
                         broker : Brokers \cup {NoBroker}, side : Sides]]
  /\ lastFill \in 0..MaxFills
  /\ order \in [Orders -> [pc : {"idle", "send", "reply"},
                           broker : Brokers \cup {NoBroker}, side : Sides, tries : 0..2]]
  /\ \A c \in Orders : order[c].pc # "idle" => order[c].tries \in 1..Attempts[order[c].broker]
  /\ close \in [Closers -> [pc : {"idle", "read", "send", "reply"},
                            fill : 0..MaxFills, seen : Int, tries : 0..2]]
  /\ phase \in {"up", "sync", "reconcile"}
  /\ todo \subseteq Brokers
  /\ stopped \in BOOLEAN
  /\ trouble \in 0..MaxTrouble
  /\ parted \subseteq Brokers

Open(b, s) == {f \in Fills : row[f].state = "open" /\ row[f].broker = b /\ row[f].side = s}
Placed(b, s) == {c \in Orders : order[c].broker = b /\ order[c].side = s /\ order[c].pc = "reply"}

BrokerOf(k) == row[close[k].fill].broker
SideOf(k) == row[close[k].fill].side
Closing(b, s) == {k \in Closers : close[k].pc = "reply" /\ BrokerOf(k) = b /\ SideOf(k) = s}

AllOpen == {f \in Fills : row[f].state = "open"}
OpenAt(b) == Open(b, 1) \cup Open(b, -1)

(***************************************************************************)
(* The process starts with the OPEN rows of an earlier one, and with the   *)
(* positions they stand for; it recovers before it serves.                 *)
(***************************************************************************)
Init ==
  /\ lastFill \in 0..MaxFills
  /\ row \in [Fills -> {NoRow} \cup [state : {"open"}, broker : Brokers, side : Sides]]
  /\ \A f \in Fills : row[f].state = "open" <=> f <= lastFill
  /\ net = [b \in Brokers |-> Cardinality(Open(b, 1)) - Cardinality(Open(b, -1))]
  /\ order = [c \in Orders |-> IdleOrder]
  /\ close = [k \in Closers |-> IdleClose]
  /\ phase = "sync"
  /\ todo = {b \in Brokers : OpenAt(b) # {}}
  /\ stopped = FALSE
  /\ trouble = MaxTrouble
  /\ parted = {}

Part(b, cond) == parted' = IF cond THEN parted \cup {b} ELSE parted
Trouble == trouble > 0 /\ trouble' = trouble - 1

recoveryVars == <<phase, todo, stopped>>

(***************************************************************************)
(* execute_signal on a live broker, from the order on.                     *)
(***************************************************************************)
\* The stop is not active and fewer than two trades are open on the market.
StartOrder(c, b, s) ==
  /\ phase = "up" /\ ~stopped
  /\ order[c].pc = "idle"
  /\ Cardinality(AllOpen) < 2
  /\ lastFill < MaxFills
  /\ order' = [order EXCEPT ![c] = [pc |-> "send", broker |-> b, side |-> s, tries |-> 1]]
  /\ UNCHANGED <<net, row, lastFill, close, recoveryVars, trouble, parted>>

OrderAccepted(c) ==
  /\ order[c].pc = "send"
  /\ net' = [net EXCEPT ![order[c].broker] = @ + order[c].side]
  /\ order' = [order EXCEPT ![c].pc = "reply"]
  /\ UNCHANGED <<row, lastFill, close, recoveryVars, trouble, parted>>

\* Another attempt of _retryable, or place_order reports a failed order, also
\* when the client cannot reconnect for the second attempt.
NextAttempt(c) ==
  \/ /\ order[c].tries < Attempts[order[c].broker]
     /\ order' = [order EXCEPT ![c] = [order[c] EXCEPT !.pc = "send", !.tries = @ + 1]]
  \/ order' = [order EXCEPT ![c] = IdleOrder]

OrderRejected(c) ==
  /\ order[c].pc = "send"
  /\ NextAttempt(c)
  /\ UNCHANGED <<net, row, lastFill, close, recoveryVars, trouble, parted>>

\* The broker has filled the order, and the attempt fails all the same: the order
\* is sent again or reported as failed.
OrderReplyLost(c) ==
  /\ order[c].pc = "reply"
  /\ Trouble
  /\ NextAttempt(c)
  /\ Part(order[c].broker, TRUE)
  /\ UNCHANGED <<net, row, lastFill, close, recoveryVars>>

\* The reply arrives and the row is committed.
Record(c) ==
  /\ order[c].pc = "reply"
  /\ lastFill < MaxFills
  /\ lastFill' = lastFill + 1
  /\ row' = [row EXCEPT ![lastFill + 1] = [state |-> "open", broker |-> order[c].broker,
                                          side |-> order[c].side]]
  /\ order' = [order EXCEPT ![c] = IdleOrder]
  /\ UNCHANGED <<net, close, recoveryVars, trouble, parted>>

(***************************************************************************)
(* close_trade on a live broker: close_position reads the position of the  *)
(* market and sends an opposite market order of the size it read.          *)
(***************************************************************************)
StartClose(k, f) ==
  /\ phase = "up"
  /\ close[k].pc = "idle"
  /\ row[f].state = "open"
  /\ close' = [close EXCEPT ![k] = [IdleClose EXCEPT !.pc = "read", !.fill = f]]
  /\ UNCHANGED <<net, row, lastFill, order, recoveryVars, trouble, parted>>

\* The position of a market as the adapter reports it.
Reported(b) == IF b \in Unsigned /\ net[b] < 0 THEN -net[b] ELSE net[b]

\* The position is read: the size of the order to come, and its side.  The side
\* that close_trade passes is not looked at.
ReadPosition(k) ==
  LET seen == Reported(BrokerOf(k)) IN
  /\ close[k].pc = "read"
  /\ seen # 0
  /\ close' = [close EXCEPT ![k] = [close[k] EXCEPT !.pc = "send", !.seen = seen, !.tries = 1]]
  /\ Part(BrokerOf(k), seen # SideOf(k))
  /\ UNCHANGED <<net, row, lastFill, order, recoveryVars, trouble>>

\* No position, or the read failed, which get_positions answers with an empty list
\* (always on a spot account): "No position found".
NoPosition(k) ==
  /\ close[k].pc = "read"
  /\ close' = [close EXCEPT ![k] = IdleClose]
  /\ UNCHANGED <<net, row, lastFill, order, recoveryVars, trouble, parted>>

\* Another close of the same trade has already had its order filled.
ClosedAlready(k) ==
  \/ row[close[k].fill].state = "closed"
  \/ \E j \in Closers \ {k} : close[j].fill = close[k].fill /\ close[j].pc = "reply"

\* Mutant: the order goes out on the side of the position.
CloseAcceptedSameSide(k) ==
  LET b == BrokerOf(k) IN
  /\ close[k].pc = "send"
  /\ net' = [net EXCEPT ![b] = @ + close[k].seen]
  /\ close' = [close EXCEPT ![k].pc = "reply"]
  /\ Part(b, ClosedAlready(k))
  /\ UNCHANGED <<row, lastFill, order, recoveryVars, trouble>>

\* The order goes out on the side opposite to the one that was read and for that
\* quantity.  It is not reduce-only: it is filled whatever the position is by now.
CloseAccepted(k) ==
  LET b == BrokerOf(k) IN
  /\ close[k].pc = "send"
  /\ net' = [net EXCEPT ![b] = @ - close[k].seen]
  /\ close' = [close EXCEPT ![k].pc = "reply"]
  /\ Part(b, ClosedAlready(k))
  /\ UNCHANGED <<row, lastFill, order, recoveryVars, trouble>>

NextCloseAttempt(k) ==
  \/ /\ close[k].tries < Attempts[BrokerOf(k)]
     /\ close' = [close EXCEPT ![k] = [close[k] EXCEPT !.pc = "send", !.tries = @ + 1]]
  \/ close' = [close EXCEPT ![k] = IdleClose]

CloseRejected(k) ==
  /\ close[k].pc = "send"
  /\ NextCloseAttempt(k)
  /\ UNCHANGED <<net, row, lastFill, order, recoveryVars, trouble, parted>>

CloseReplyLost(k) ==
  /\ close[k].pc = "reply"
  /\ Trouble
  /\ NextCloseAttempt(k)
  /\ Part(BrokerOf(k), TRUE)
  /\ UNCHANGED <<net, row, lastFill, order, recoveryVars>>

Book(k) ==
  /\ close[k].pc = "reply"
  /\ row' = [row EXCEPT ![close[k].fill].state = "closed"]
  /\ close' = [close EXCEPT ![k] = IdleClose]
  /\ UNCHANGED <<net, lastFill, order, recoveryVars, trouble, parted>>

\* The reply has no average price: the P&L of None raises and the row stays OPEN.
BookRaises(k) ==
  /\ close[k].pc = "reply"
  /\ Trouble
  /\ close' = [close EXCEPT ![k] = IdleClose]
  /\ Part(BrokerOf(k), TRUE)
  /\ UNCHANGED <<net, row, lastFill, order, recoveryVars>>

\* The stop loss or take profit sent with the order, or the user, at the broker.
ClosedOutside(b) ==
  /\ net[b] # 0
  /\ Trouble
  /\ net' = [net EXCEPT ![b] = 0]
  /\ Part(b, TRUE)
  /\ UNCHANGED <<row, lastFill, order, close, recoveryVars>>

(***************************************************************************)
(* The process dies, starts again and recovers before it serves.           *)
(***************************************************************************)
Crash ==
  /\ Trouble
  /\ order' = [c \in Orders |-> IdleOrder]
  /\ close' = [k \in Closers |-> IdleClose]
  /\ parted' = parted \cup {b \in Brokers :
                          \E s \in Sides : Placed(b, s) \cup Closing(b, s) # {}}
  /\ phase' = "sync"
  /\ todo' = {b \in Brokers : OpenAt(b) # {}}
  /\ UNCHANGED <<net, row, lastFill, stopped>>

\* recover: the only error it reports is one of its own queries.
QueryFails ==
  /\ phase = "sync"
  /\ Trouble
  /\ phase' = "up" /\ todo' = {}
  /\ stopped' = TRUE
  /\ UNCHANGED <<net, row, lastFill, order, close, parted>>

\* Mutant: the step to the brokers is taken also when there is none to visit.
SyncOrdersAlways ==
  /\ phase = "sync"
  /\ phase' = "reconcile"
  /\ UNCHANGED <<net, row, lastFill, order, close, todo, stopped, trouble, parted>>

\* sync_pending_orders asks every OPEN trade's broker for an order status no
\* broker class can give: each trade ends in an error that nobody reads.
SyncOrders ==
  /\ phase = "sync"
  /\ phase' = IF todo = {} THEN "up" ELSE "reconcile"
  /\ UNCHANGED <<net, row, lastFill, order, close, todo, stopped, trouble, parted>>

\* reconcile fails: the error is put in its result, which nobody reads either.
\* So it does for every broker that answers with a position, which is no
\* dictionary.
ReconcileFails(b) ==
  /\ phase = "reconcile"
  /\ b \in todo
  /\ todo' = todo \ {b}
  /\ phase' = IF todo' = {} THEN "up" ELSE phase
  /\ UNCHANGED <<net, row, lastFill, order, close, stopped, trouble, parted>>

\* The broker answers with no position, or get_positions swallowed an error: every
\* OPEN row of the user is closed, whichever broker it belongs to.
ReconcileEmpty(b) ==
  /\ phase = "reconcile"
  /\ b \in todo
  /\ row' = [f \in Fills |-> IF f \in AllOpen THEN [row[f] EXCEPT !.state = "closed"] ELSE row[f]]
  /\ parted' = parted \cup {d \in Brokers : net[d] # 0 /\ OpenAt(d) # {}}
  /\ todo' = todo \ {b}
  /\ phase' = IF todo' = {} THEN "up" ELSE phase
  /\ UNCHANGED <<net, lastFill, order, close, stopped, trouble>>

OrderStep(c) ==
  \/ OrderAccepted(c) \/ OrderRejected(c) \/ OrderReplyLost(c)
  \/ Record(c)

CloseStep(k) ==
  \/ ReadPosition(k) \/ NoPosition(k) \/ CloseAccepted(k)
  \/ CloseRejected(k) \/ CloseReplyLost(k) \/ Book(k) \/ BookRaises(k)

RecoveryStep ==
  \/ SyncOrders
  \/ \E b \in Brokers : ReconcileFails(b) \/ ReconcileEmpty(b)

Next ==
  \/ \E c \in Orders : OrderStep(c) \/ \E b \in Brokers, s \in Sides : StartOrder(c, b, s)
  \/ \E k \in Closers : CloseStep(k) \/ \E f \in Fills : StartClose(k, f)
  \/ \E b \in Brokers : ClosedOutside(b)
  \/ Crash \/ QueryFails \/ RecoveryStep

Spec == Init /\ [][Next]_vars

\* The recovery is awaited by the start-up, and its requests have timeouts.
FairSpec == Spec /\ WF_vars(RecoveryStep)

(***************************************************************************)
(* Properties.                                                             *)
(***************************************************************************)
\* The units on one side of a market: OPEN rows, give or take the calls between an
\* order and its commit.
Booked(b, s) == Cardinality(Open(b, s)) + Cardinality(Placed(b, s)) - Cardinality(Closing(b, s))

\* As long as none of the circumstances listed above has occurred at a broker, its
\* position is what the trades table says.
TableMatchesBroker ==
  \A b \in Brokers : b \notin parted => net[b] = Booked(b, 1) - Booked(b, -1)

\* The start-up ends, whatever the brokers answer.
RecoveryEnds == phase # "up" ~> phase = "up"

\* close_trade: "Close an open trade.": no order to close goes out for a trade that
\* another close has booked.
ClosesOpenTradesOnly ==
  [][\A k \in Closers :
       close[k].pc = "send" /\ close'[k].pc = "reply" => row[close[k].fill].state = "open"]_vars

\* _close_orphaned_trade: "Close a trade that exists locally but not on broker.": what
\* one broker answers closes no row of another broker at which the position exists.
ClosesOrphansOnly ==
  [][\A f \in Fills :
       (phase = "reconcile" /\ row[f].state = "open" /\ row'[f].state = "closed")
         => row[f].broker \in todo \ todo' \/ net[row[f].broker] = 0]_vars
=============================================================================
