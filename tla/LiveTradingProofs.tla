---------------------------- MODULE LiveTradingProofs ----------------------------
(***************************************************************************)
(* Proofs about LiveTrading, for any finite set of live brokers, any       *)
(* number of concurrent orders and closes, and any number of trades and    *)
(* of troubles.                                                            *)
(***************************************************************************)
EXTENDS LiveTrading, FiniteSetTheorems, TLAPS

RowState == [state : {"none", "open", "closed"}, broker : Brokers \cup {NoBroker}, side : Sides]
OrderState == [pc : {"idle", "send", "reply"}, broker : Brokers \cup {NoBroker}, side : Sides,
               tries : 0..2]
CloseState == [pc : {"idle", "read", "send", "reply"}, fill : 0..MaxFills, seen : Int, tries : 0..2]

\* Rows are inserted in order, each with the broker of its order.
RowsInserted ==
  \A f \in Fills : /\ row[f].state # "none" <=> f <= lastFill
                   /\ row[f].state # "none" => row[f].broker \in Brokers

\* A call in flight has a broker, or a row of one.
CallsHold ==
  /\ \A c \in Orders : order[c].pc # "idle" => order[c].broker \in Brokers
  /\ \A k \in Closers : close[k].pc # "idle" =>
       close[k].fill \in Fills /\ row[close[k].fill].state # "none"

\* What type correctness rests on.
TypeInv == TypeOK /\ RowsInserted /\ CallsHold

(***************************************************************************)
(* Lemmas about the calls.                                                 *)
(***************************************************************************)
\* TypeOK, with the names of the record sets.
LEMMA TypeNames ==
  ASSUME TypeOK
  PROVE  /\ row \in [Fills -> RowState]
         /\ order \in [Orders -> OrderState]
         /\ close \in [Closers -> CloseState]
BY DEF TypeOK, RowState, OrderState, CloseState

\* Calls that are not in flight.
LEMMA IdleTypes ==
  /\ IdleOrder \in OrderState /\ IdleOrder.pc = "idle"
  /\ IdleClose \in CloseState /\ IdleClose.pc = "idle"
BY LiveConstants DEF IdleOrder, IdleClose, OrderState, CloseState, Sides

\* Every row has a broker once it is inserted, and a close in flight is about one.
LEMMA BrokerOfClose ==
  ASSUME TypeInv, NEW k \in Closers, close[k].pc # "idle"
  PROVE  close[k].fill \in Fills /\ BrokerOf(k) \in Brokers
BY DEF TypeInv, CallsHold, RowsInserted, BrokerOf

\* An order that is attempted again or given up: nothing is placed by it any more.
LEMMA NextAttemptEffect ==
  ASSUME TypeInv, NEW c \in Orders, order[c].pc # "idle", NextAttempt(c)
  PROVE  /\ order' \in [Orders -> OrderState]
         /\ order'[c].pc \in {"idle", "send"}
         /\ order'[c].pc = "send" => /\ order'[c].broker = order[c].broker
                                     /\ order'[c].tries \in 1..Attempts[order[c].broker]
         /\ \A d \in Orders \ {c} : order'[d] = order[d]
<1>1. order \in [Orders -> OrderState] /\ order[c] \in OrderState /\ order[c].broker \in Brokers
      /\ order[c].tries \in 1..Attempts[order[c].broker] /\ Attempts[order[c].broker] \in {1, 2}
  BY TypeNames, LiveConstants DEF TypeInv, CallsHold, TypeOK
<1>2. CASE /\ order[c].tries < Attempts[order[c].broker]
           /\ order' = [order EXCEPT ![c] = [order[c] EXCEPT !.pc = "send", !.tries = @ + 1]]
  <2> DEFINE new == [order[c] EXCEPT !.pc = "send", !.tries = @ + 1]
  <2>1. order[c].tries + 1 \in 0..2 /\ order[c].tries + 1 \in 1..Attempts[order[c].broker]
    BY <1>1, <1>2
  <2>2. new \in OrderState /\ new.pc = "send" /\ new.broker = order[c].broker
        /\ new.tries = order[c].tries + 1
    BY <1>1, <2>1 DEF OrderState
  <2>3. order' = [order EXCEPT ![c] = new]
    BY <1>1, <1>2
  <2> HIDE DEF new
  <2>4. QED
    BY <1>1, <2>1, <2>2, <2>3
<1>3. CASE order' = [order EXCEPT ![c] = IdleOrder]
  BY <1>1, <1>3, IdleTypes
<1>4. QED
  BY <1>2, <1>3 DEF NextAttempt

\* A close that is attempted again or given up: it has no order at the broker any
\* more, and one that is attempted again keeps its row and its quantity.
LEMMA NextCloseAttemptEffect ==
  ASSUME TypeInv, NEW k \in Closers, close[k].pc # "idle", close[k].tries \in 0..2, NextCloseAttempt(k)
  PROVE  /\ close' \in [Closers -> CloseState]
         /\ close'[k].pc \in {"idle", "send"}
         /\ close'[k].pc = "send" => /\ close'[k].fill = close[k].fill
                                     /\ close'[k].seen = close[k].seen
         /\ \A j \in Closers \ {k} : close'[j] = close[j]
<1>1. close \in [Closers -> CloseState] /\ close[k] \in CloseState
      /\ Attempts[BrokerOf(k)] \in {1, 2}
  BY TypeNames, BrokerOfClose, LiveConstants DEF TypeInv
<1>2. CASE /\ close[k].tries < Attempts[BrokerOf(k)]
           /\ close' = [close EXCEPT ![k] = [close[k] EXCEPT !.pc = "send", !.tries = @ + 1]]
  <2> DEFINE new == [close[k] EXCEPT !.pc = "send", !.tries = @ + 1]
  <2>1. close[k].tries + 1 \in 0..2
    BY <1>1, <1>2
  <2>2. new \in CloseState /\ new.pc = "send" /\ new.fill = close[k].fill /\ new.seen = close[k].seen
    BY <1>1, <2>1 DEF CloseState
  <2>3. close' = [close EXCEPT ![k] = new]
    BY <1>1, <1>2
  <2> HIDE DEF new
  <2>4. QED
    BY <1>1, <2>2, <2>3
<1>3. CASE close' = [close EXCEPT ![k] = IdleClose]
  BY <1>1, <1>3, IdleTypes
<1>4. QED
  BY <1>2, <1>3 DEF NextCloseAttempt

\* A change of step leaves the rest of the record.
LEMMA PcChanged ==
  /\ \A r \in OrderState, pc \in {"idle", "send", "reply"} :
       LET s == [r EXCEPT !.pc = pc] IN
       s \in OrderState /\ s.pc = pc /\ s.broker = r.broker /\ s.side = r.side /\ s.tries = r.tries
  /\ \A r \in CloseState, pc \in {"idle", "read", "send", "reply"} :
       LET s == [r EXCEPT !.pc = pc] IN
       s \in CloseState /\ s.pc = pc /\ s.fill = r.fill /\ s.seen = r.seen
BY DEF OrderState, CloseState

\* The sets that are counted are finite.
LEMMA CountedFinite ==
  ASSUME NEW b, NEW s
  PROVE  /\ IsFiniteSet(Open(b, s)) /\ Cardinality(Open(b, s)) \in Nat
         /\ IsFiniteSet(Placed(b, s)) /\ Cardinality(Placed(b, s)) \in Nat
         /\ IsFiniteSet(Closing(b, s)) /\ Cardinality(Closing(b, s)) \in Nat
         /\ Booked(b, s) \in Int
<1>1. IsFiniteSet(Fills) /\ IsFiniteSet(Orders) /\ IsFiniteSet(Closers)
  BY LiveConstants, FS_Interval DEF Fills
<1>2. /\ Open(b, s) \subseteq Fills /\ Placed(b, s) \subseteq Orders
      /\ Closing(b, s) \subseteq Closers
  BY DEF Open, Placed, Closing
<1>3. QED
  BY <1>1, <1>2, FS_Subset, FS_CardinalityType DEF Booked

(***************************************************************************)
(* Type correctness.                                                       *)
(***************************************************************************)
\* The steps of execute_signal keep the types.
LEMMA OrderStepType ==
  ASSUME TypeInv, NEW c \in Orders, OrderStep(c) \/ \E b \in Brokers, s \in Sides : StartOrder(c, b, s)
  PROVE  TypeInv'
<1> USE DEF TypeInv
<1>0. /\ TypeOK /\ RowsInserted /\ CallsHold
      /\ row \in [Fills -> RowState] /\ order \in [Orders -> OrderState]
      /\ order[c] \in OrderState /\ close \in [Closers -> CloseState]
  BY TypeNames
<1>1. ASSUME NEW b \in Brokers, NEW s \in Sides, StartOrder(c, b, s) PROVE TypeInv'
  <2>1. [pc |-> "send", broker |-> b, side |-> s, tries |-> 1] \in OrderState /\ 1 \in 1..Attempts[b]
    BY LiveConstants DEF OrderState
  <2>2. /\ order' \in [Orders -> OrderState] /\ order'[c].broker = b /\ order'[c].tries = 1
        /\ \A d \in Orders \ {c} : order'[d] = order[d]
    BY <1>0, <1>1, <2>1 DEF StartOrder
  <2>3. QED
    BY <1>0, <1>1, <2>1, <2>2
    DEF StartOrder, recoveryVars, TypeOK, OrderState, RowsInserted, CallsHold
<1>2. CASE OrderAccepted(c)
  <2>1. /\ order' \in [Orders -> OrderState] /\ order'[c].broker = order[c].broker
        /\ order'[c].tries = order[c].tries /\ \A d \in Orders \ {c} : order'[d] = order[d]
    <3>1. order' = [order EXCEPT ![c] = [order[c] EXCEPT !.pc = "reply"]]
      BY <1>2 DEF OrderAccepted
    <3>2. QED
      BY <1>0, <3>1, PcChanged
  <2>2. net' \in [Brokers -> Int]
    BY <1>0, <1>2 DEF OrderAccepted, TypeOK, CallsHold, OrderState, Sides
  <2>3. order[c].pc # "idle"
    BY <1>2 DEF OrderAccepted
  <2>4. QED
    BY <1>0, <1>2, <2>1, <2>2, <2>3
    DEF OrderAccepted, recoveryVars, TypeOK, OrderState, RowsInserted, CallsHold
<1>3. CASE OrderRejected(c) \/ OrderReplyLost(c)
  <2>1. order[c].pc # "idle" /\ NextAttempt(c)
    BY <1>3 DEF OrderRejected, OrderReplyLost
  <2>2. /\ UNCHANGED <<net, row, lastFill, close, recoveryVars>>
        /\ trouble' \in 0..MaxTrouble /\ parted' \subseteq Brokers
    BY <1>0, <1>3, LiveConstants DEF OrderRejected, OrderReplyLost, Trouble, Part, TypeOK, CallsHold
  <2>3. order[c].broker \in Brokers
    BY <1>0, <2>1 DEF CallsHold
  <2>4. QED
    BY <1>0, <2>1, <2>2, <2>3, NextAttemptEffect
    DEF recoveryVars, TypeOK, OrderState, RowsInserted, CallsHold
<1>4. CASE Record(c)
  <2>1. /\ lastFill + 1 \in Fills /\ lastFill' = lastFill + 1 /\ lastFill' \in 0..MaxFills
        /\ lastFill \in Nat
    BY <1>0, <1>4, LiveConstants DEF Record, TypeOK, Fills
  <2>2. order[c].broker \in Brokers
    BY <1>0, <1>4 DEF Record, CallsHold
  <2>3. /\ order' \in [Orders -> OrderState] /\ order'[c].pc = "idle"
        /\ \A d \in Orders \ {c} : order'[d] = order[d]
    BY <1>0, <1>4, IdleTypes DEF Record
  <2>4. /\ row' \in [Fills -> RowState]
        /\ row'[lastFill + 1].state = "open" /\ row'[lastFill + 1].broker \in Brokers
        /\ \A f \in Fills \ {lastFill + 1} : row'[f] = row[f]
    <3> DEFINE new == [state |-> "open", broker |-> order[c].broker, side |-> order[c].side]
    <3>1. new \in RowState /\ new.state = "open" /\ new.broker = order[c].broker
      BY <1>0, <2>2 DEF RowState, OrderState
    <3>2. row' = [row EXCEPT ![lastFill + 1] = new]
      BY <1>4 DEF Record
    <3> HIDE DEF new
    <3>3. QED
      BY <1>0, <2>1, <2>2, <3>1, <3>2
  <2>5. RowsInserted'
    <3> SUFFICES ASSUME NEW f \in Fills
                 PROVE  /\ row'[f].state # "none" <=> f <= lastFill + 1
                        /\ row'[f].state # "none" => row'[f].broker \in Brokers
      BY <2>1 DEF RowsInserted
    <3>1. CASE f = lastFill + 1
      BY <2>1, <2>4, <3>1
    <3>2. CASE f # lastFill + 1
      <4>1. f <= lastFill + 1 <=> f <= lastFill
        BY <2>1, <3>2 DEF Fills
      <4>2. QED
        BY <1>0, <2>4, <3>2, <4>1 DEF RowsInserted
    <3>3. QED
      BY <3>1, <3>2
  <2>6. CallsHold'
    BY <1>0, <1>4, <2>3, <2>4 DEF Record, CallsHold
  <2>7. QED
    BY <1>0, <1>4, <2>1, <2>3, <2>4, <2>5, <2>6
    DEF Record, recoveryVars, TypeOK, OrderState, RowState, CloseState
<1>5. QED
  BY <1>1, <1>2, <1>3, <1>4 DEF OrderStep

\* The steps of close_trade keep the types.
LEMMA CloseStepType ==
  ASSUME TypeInv, NEW k \in Closers, CloseStep(k) \/ \E f \in Fills : StartClose(k, f)
  PROVE  TypeInv'
<1> USE DEF TypeInv
<1>0. /\ TypeOK /\ RowsInserted /\ CallsHold
      /\ row \in [Fills -> RowState] /\ order \in [Orders -> OrderState]
      /\ close \in [Closers -> CloseState] /\ close[k] \in CloseState
      /\ Fills \subseteq 0..MaxFills
  BY TypeNames, LiveConstants DEF Fills
<1>b. close[k].pc # "idle" =>
        close[k].fill \in Fills /\ BrokerOf(k) \in Brokers /\ row[close[k].fill].state # "none"
  BY <1>0, BrokerOfClose DEF CallsHold
\* A step that changes this call alone, and perhaps the position and the history.
<1>a. ASSUME UNCHANGED <<row, lastFill, order, recoveryVars>>,
             net' \in [Brokers -> Int], trouble' \in 0..MaxTrouble, parted' \subseteq Brokers,
             close' \in [Closers -> CloseState],
             close'[k].pc # "idle" =>
               close'[k].fill \in Fills /\ row[close'[k].fill].state # "none",
             \A j \in Closers \ {k} : close'[j] = close[j]
      PROVE  TypeInv'
  <2>1. RowsInserted' /\ CallsHold'
    BY <1>0, <1>a DEF RowsInserted, CallsHold
  <2>2. QED
    BY <1>0, <1>a, <2>1 DEF recoveryVars, TypeOK, CloseState
<1>1. ASSUME NEW f \in Fills, StartClose(k, f) PROVE TypeInv'
  <2> DEFINE new == [IdleClose EXCEPT !.pc = "read", !.fill = f]
  <2>1. new \in CloseState /\ new.fill = f
    BY <1>0, IdleTypes DEF IdleClose, CloseState
  <2>2. close' = [close EXCEPT ![k] = new] /\ row[f].state # "none"
        /\ UNCHANGED <<net, row, lastFill, order, recoveryVars, trouble, parted>>
    BY <1>1 DEF StartClose
  <2> HIDE DEF new
  <2>3. QED
    BY <1>0, <1>a, <2>1, <2>2 DEF TypeOK
<1>2. CASE ReadPosition(k)
  <2> DEFINE seen == Reported(BrokerOf(k))
             new == [close[k] EXCEPT !.pc = "send", !.seen = seen, !.tries = 1]
  <2>1. close[k].pc # "idle"
    BY <1>2 DEF ReadPosition
  <2>2. seen \in Int
    BY <1>0, <1>b, <2>1 DEF TypeOK, Reported
  <2>3. close' = [close EXCEPT ![k] = new] /\ parted' \subseteq parted \cup {BrokerOf(k)}
        /\ UNCHANGED <<net, row, lastFill, order, recoveryVars, trouble>>
    BY <1>0, <1>2 DEF ReadPosition, Part
  <2> HIDE DEF seen
  <2>4. new \in CloseState /\ new.fill = close[k].fill
    <3>1. 1 \in 0..2
      OBVIOUS
    <3>2. QED
      BY <1>0, <2>2, <3>1 DEF CloseState
  <2> HIDE DEF new
  <2>5. QED
    BY <1>0, <1>a, <1>b, <2>1, <2>3, <2>4 DEF TypeOK
<1>3. CASE NoPosition(k)
  BY <1>0, <1>3, <1>a, IdleTypes DEF NoPosition, TypeOK
<1>4. CASE CloseAccepted(k)
  <2>1. close[k].pc # "idle"
    BY <1>4 DEF CloseAccepted
  <2>2. net' \in [Brokers -> Int] /\ parted' \subseteq Brokers
    BY <1>0, <1>4, <1>b, <2>1 DEF CloseAccepted, Part, TypeOK, CloseState
  <2>3. close' = [close EXCEPT ![k] = [close[k] EXCEPT !.pc = "reply"]]
        /\ UNCHANGED <<row, lastFill, order, recoveryVars, trouble>>
    BY <1>4 DEF CloseAccepted
  <2>4. close' \in [Closers -> CloseState] /\ close'[k].fill = close[k].fill
        /\ \A j \in Closers \ {k} : close'[j] = close[j]
    BY <1>0, <2>3, PcChanged
  <2>5. QED
    BY <1>0, <1>a, <1>b, <2>1, <2>2, <2>3, <2>4 DEF TypeOK
<1>5. CASE CloseRejected(k) \/ CloseReplyLost(k)
  <2>1. close[k].pc # "idle" /\ close[k].tries \in 0..2 /\ NextCloseAttempt(k)
    BY <1>0, <1>5 DEF CloseRejected, CloseReplyLost, CloseState
  <2>2. /\ UNCHANGED <<net, row, lastFill, order, recoveryVars>>
        /\ trouble' \in 0..MaxTrouble /\ parted' \subseteq Brokers
    BY <1>0, <1>5, <1>b, <2>1, LiveConstants DEF CloseRejected, CloseReplyLost, Trouble, Part, TypeOK
  <2>3. QED
    BY <1>0, <1>a, <1>b, <2>1, <2>2, NextCloseAttemptEffect DEF TypeOK
<1>6. CASE Book(k)
  <2>1. close[k].fill \in Fills /\ close[k].pc # "idle" /\ row[close[k].fill].state # "none"
    BY <1>6, <1>b DEF Book
  <2>2. /\ row' \in [Fills -> RowState]
        /\ \A f \in Fills : row'[f].broker = row[f].broker
        /\ \A f \in Fills : row'[f].state = "none" <=> row[f].state = "none"
    <3> DEFINE new == [row[close[k].fill] EXCEPT !.state = "closed"]
    <3>1. row[close[k].fill] \in RowState
      BY <1>0, <2>1
    <3>2. new \in RowState /\ new.state = "closed" /\ new.broker = row[close[k].fill].broker
      BY <3>1 DEF RowState
    <3>3. row' = [row EXCEPT ![close[k].fill] = new]
      BY <1>0, <1>6 DEF Book
    <3> HIDE DEF new
    <3>4. QED
      BY <1>0, <2>1, <3>2, <3>3
  <2>3. /\ close' \in [Closers -> CloseState] /\ close'[k].pc = "idle"
        /\ \A j \in Closers \ {k} : close'[j] = close[j]
        /\ UNCHANGED <<net, lastFill, order, recoveryVars, trouble, parted>>
    BY <1>0, <1>6, IdleTypes DEF Book
  <2>4. RowsInserted' /\ CallsHold'
    BY <1>0, <2>2, <2>3 DEF RowsInserted, CallsHold
  <2>5. QED
    BY <1>0, <2>2, <2>3, <2>4 DEF recoveryVars, TypeOK, RowState, CloseState
<1>7. CASE BookRaises(k)
  <2>1. close[k].pc # "idle" /\ close' = [close EXCEPT ![k] = IdleClose]
        /\ parted' \subseteq parted \cup {BrokerOf(k)} /\ trouble' \in 0..MaxTrouble
        /\ UNCHANGED <<net, row, lastFill, order, recoveryVars>>
    BY <1>0, <1>7, LiveConstants DEF BookRaises, Part, Trouble, TypeOK
  <2>2. QED
    BY <1>0, <1>a, <1>b, <2>1, IdleTypes DEF TypeOK
<1>8. QED
  BY <1>1, <1>2, <1>3, <1>4, <1>5, <1>6, <1>7 DEF CloseStep

\* The process dies, the recovery takes its steps, a position is closed outside.
LEMMA OtherStepType ==
  ASSUME TypeInv,
         \/ \E b \in Brokers : ClosedOutside(b)
         \/ Crash \/ QueryFails \/ RecoveryStep
  PROVE  TypeInv'
<1> USE DEF TypeInv
<1>0. /\ TypeOK /\ RowsInserted /\ CallsHold
      /\ row \in [Fills -> RowState] /\ order \in [Orders -> OrderState]
      /\ close \in [Closers -> CloseState]
  BY TypeNames
<1>1. ASSUME NEW b \in Brokers, ClosedOutside(b) PROVE TypeInv'
  BY <1>0, <1>1, LiveConstants
  DEF ClosedOutside, Trouble, Part, recoveryVars, TypeOK, RowsInserted, CallsHold, BrokerOf
<1>2. CASE Crash
  <2>1. /\ order' \in [Orders -> OrderState] /\ \A c \in Orders : order'[c].pc = "idle"
        /\ close' \in [Closers -> CloseState] /\ \A k \in Closers : close'[k].pc = "idle"
    BY <1>2, IdleTypes DEF Crash
  <2>2. trouble' \in 0..MaxTrouble /\ parted' \subseteq Brokers /\ todo' \subseteq Brokers
    BY <1>0, <1>2, LiveConstants DEF Crash, Trouble, TypeOK
  <2>3. QED
    BY <1>0, <1>2, <2>1, <2>2
    DEF Crash, TypeOK, RowsInserted, CallsHold, OrderState, CloseState
<1>3. CASE QueryFails
  BY <1>0, <1>3, LiveConstants DEF QueryFails, Trouble, TypeOK, RowsInserted, CallsHold
<1>4. CASE SyncOrders
  BY <1>0, <1>4 DEF SyncOrders, TypeOK, RowsInserted, CallsHold
<1>5. ASSUME NEW b \in Brokers, ReconcileFails(b) PROVE TypeInv'
  BY <1>0, <1>5 DEF ReconcileFails, TypeOK, RowsInserted, CallsHold
<1>6. ASSUME NEW b \in Brokers, ReconcileEmpty(b) PROVE TypeInv'
  <2>1. \A r \in RowState : LET s == [r EXCEPT !.state = "closed"] IN
          s \in RowState /\ s.state = "closed" /\ s.broker = r.broker
    BY DEF RowState
  <2>2. row' = [f \in Fills |-> IF f \in AllOpen THEN [row[f] EXCEPT !.state = "closed"] ELSE row[f]]
    BY <1>6 DEF ReconcileEmpty
  <2>3. ASSUME NEW f \in Fills
        PROVE  /\ row'[f] \in RowState /\ row'[f].broker = row[f].broker
               /\ row'[f].state = "none" <=> row[f].state = "none"
    BY <1>0, <2>1, <2>2 DEF AllOpen
  <2>4. row' \in [Fills -> RowState]
    BY <2>2, <2>3
  <2>5. RowsInserted' /\ CallsHold'
    BY <1>0, <1>6, <2>3 DEF ReconcileEmpty, RowsInserted, CallsHold
  <2>6. QED
    BY <1>0, <1>6, <2>4, <2>5 DEF ReconcileEmpty, TypeOK, RowState
<1>7. QED
  BY <1>1, <1>2, <1>3, <1>4, <1>5, <1>6 DEF RecoveryStep

\* Nothing is in flight at first, and the rows are those of an earlier process.
LEMMA TypeInit == Init => TypeInv
<1> SUFFICES ASSUME Init PROVE TypeInv
  OBVIOUS
<1>1. /\ order \in [Orders -> OrderState] /\ \A c \in Orders : order[c].pc = "idle"
      /\ close \in [Closers -> CloseState] /\ \A k \in Closers : close[k].pc = "idle"
  BY IdleTypes DEF Init
<1>2. ASSUME NEW f \in Fills
      PROVE  /\ row[f] \in RowState
             /\ row[f].state # "none" <=> f <= lastFill
             /\ row[f].state # "none" => row[f].broker \in Brokers
  <2>1. row[f] = NoRow \/ row[f] \in [state : {"open"}, broker : Brokers, side : Sides]
    BY DEF Init
  <2>2. row[f].state = "open" <=> f <= lastFill
    BY DEF Init
  <2>3. QED
    BY <2>1, <2>2 DEF NoRow, RowState, Sides
<1>3. RowsInserted /\ CallsHold
  BY <1>1, <1>2 DEF RowsInserted, CallsHold
<1>4. row \in [Fills -> RowState]
  BY <1>2 DEF Init
<1>5. net \in [Brokers -> Int]
  <2>1. \A b \in Brokers : Cardinality(Open(b, 1)) \in Nat /\ Cardinality(Open(b, -1)) \in Nat
    BY CountedFinite
  <2>2. QED
    BY <2>1 DEF Init
<1>6. lastFill \in 0..MaxFills /\ trouble \in 0..MaxTrouble
  BY LiveConstants DEF Init
<1>7. QED
  BY <1>1, <1>3, <1>4, <1>5, <1>6 DEF Init, TypeInv, TypeOK, RowState, OrderState, CloseState

\* Every reachable state is of its type, its rows are inserted in order, and every
\* call in flight has its broker or row.
LEMMA TypeInvariant == Spec => []TypeInv
<1>1. Init => TypeInv
  BY TypeInit
<1>2. TypeInv /\ [Next]_vars => TypeInv'
  <2> SUFFICES ASSUME TypeInv, [Next]_vars PROVE TypeInv'
    OBVIOUS
  <2>1. CASE UNCHANGED vars
    BY <2>1 DEF vars, TypeInv, TypeOK, RowsInserted, CallsHold
  <2>2. QED
    BY <2>1, OrderStepType, CloseStepType, OtherStepType DEF Next
<1>3. QED
  BY <1>1, <1>2, PTL DEF Spec

\* Type correctness of the positions, the trades table, the calls in flight and the
\* recovery; an order in flight has been attempted no more often than its broker
\* attempts one.
THEOREM TypeCorrect == Spec => []TypeOK
<1>1. TypeInv => TypeOK
  BY DEF TypeInv
<1>2. QED
  BY <1>1, TypeInvariant, PTL

(***************************************************************************)
(* The position at the broker and the trades table.                        *)
(***************************************************************************)
\* No call is in flight during the recovery.
QuietRecovery ==
  phase # "up" => /\ \A c \in Orders : order[c].pc = "idle"
                  /\ \A k \in Closers : close[k].pc = "idle"

\* At a broker where nothing has parted, a close that has read the position read the
\* unit of its trade, and one whose order is filled is the only such close of an open trade.
OneUnitEach ==
  \A k \in Closers : close[k].pc # "idle" /\ BrokerOf(k) \notin parted =>
    /\ close[k].pc \in {"send", "reply"} => close[k].seen = SideOf(k)
    /\ close[k].pc = "reply" =>
         /\ row[close[k].fill].state = "open"
         /\ \A j \in Closers \ {k} : close[j].pc = "reply" => close[j].fill # close[k].fill

\* The balance of one broker.
Balanced(b) == net[b] = Booked(b, 1) - Booked(b, -1)

\* The inductive invariant of TableMatchesBroker: a close takes the unit of its own
\* trade off the position and that trade off the table.
LedgerInv == TypeInv /\ QuietRecovery /\ OneUnitEach /\ TableMatchesBroker

\* What is counted the same is booked the same.
LEMMA BookedSame ==
  ASSUME NEW b, NEW s,
         Open(b, s)' = Open(b, s), Placed(b, s)' = Placed(b, s), Closing(b, s)' = Closing(b, s)
  PROVE  Booked(b, s)' = Booked(b, s)
BY DEF Booked

\* A unit more or less on one side moves position and table alike.
LEMMA OneSideMoves ==
  ASSUME NEW b \in Brokers, NEW side \in Sides, Balanced(b), net[b] \in Int,
         \/ Booked(b, side)' = Booked(b, side) + 1 /\ net'[b] = net[b] + side
         \/ Booked(b, side)' = Booked(b, side) - 1 /\ net'[b] = net[b] - side,
         \A s \in Sides \ {side} : Booked(b, s)' = Booked(b, s)
  PROVE  Balanced(b)'
<1>1. Booked(b, 1) \in Int /\ Booked(b, -1) \in Int
  BY CountedFinite
<1>2. CASE side = 1
  <2>1. Booked(b, -1)' = Booked(b, -1)
    BY <1>2 DEF Sides
  <2>2. QED
    BY <1>1, <1>2, <2>1 DEF Balanced
<1>3. CASE side = -1
  <2>1. Booked(b, 1)' = Booked(b, 1)
    BY <1>3 DEF Sides
  <2>2. QED
    BY <1>1, <1>3, <2>1 DEF Balanced
<1>4. QED
  BY <1>2, <1>3 DEF Sides

\* Nothing moves at a broker where nothing counted changes.
LEMMA NothingMoves ==
  ASSUME NEW b \in Brokers, Balanced(b), net'[b] = net[b],
         \A s \in Sides : Booked(b, s)' = Booked(b, s)
  PROVE  Balanced(b)'
<1>1. Booked(b, 1)' = Booked(b, 1) /\ Booked(b, -1)' = Booked(b, -1)
  BY DEF Sides
<1>2. QED
  BY <1>1 DEF Balanced

\* A step of an order that leaves nothing placed by it, unless its broker has parted.
LEMMA OrderAlone ==
  ASSUME LedgerInv, NEW c \in Orders,
         UNCHANGED <<net, row, close, phase>>, parted \subseteq parted',
         \A d \in Orders \ {c} : order'[d] = order[d],
         order[c].pc = "reply" => order[c].broker \in parted',
         order'[c].pc # "reply", phase = "up"
  PROVE  QuietRecovery' /\ OneUnitEach' /\ TableMatchesBroker'
<1>1. QuietRecovery' /\ OneUnitEach'
  BY DEF LedgerInv, QuietRecovery, OneUnitEach, BrokerOf, SideOf
<1>2. ASSUME NEW b \in Brokers, b \notin parted' PROVE Balanced(b)'
  <2>1. ASSUME NEW s \in Sides PROVE Booked(b, s)' = Booked(b, s)
    <3>1. Placed(b, s)' = Placed(b, s) /\ Open(b, s)' = Open(b, s) /\ Closing(b, s)' = Closing(b, s)
      BY <1>2 DEF Placed, Open, Closing, BrokerOf, SideOf
    <3>2. QED
      BY <3>1, BookedSame
  <2>2. Balanced(b)
    BY <1>2 DEF LedgerInv, TableMatchesBroker, Balanced
  <2>3. QED
    BY <2>1, <2>2, NothingMoves
<1>3. QED
  BY <1>1, <1>2 DEF TableMatchesBroker, Balanced

\* A step of a close that leaves no filled order of it, unless its broker has parted.
LEMMA CloseAlone ==
  ASSUME LedgerInv, NEW k \in Closers,
         UNCHANGED <<net, row, order, phase>>, parted \subseteq parted',
         \A j \in Closers \ {k} : close'[j] = close[j],
         close[k].pc = "reply" => BrokerOf(k) \in parted',
         close'[k].pc # "reply", phase = "up",
         close'[k].pc = "send" /\ row[close'[k].fill].broker \notin parted' =>
           close'[k].seen = row[close'[k].fill].side
  PROVE  QuietRecovery' /\ OneUnitEach' /\ TableMatchesBroker'
<1>1. QuietRecovery'
  BY DEF QuietRecovery
<1>2. OneUnitEach'
  BY DEF LedgerInv, OneUnitEach, BrokerOf, SideOf
<1>3. ASSUME NEW b \in Brokers, b \notin parted' PROVE Balanced(b)'
  <2>1. ASSUME NEW s \in Sides PROVE Booked(b, s)' = Booked(b, s)
    <3>1. Placed(b, s)' = Placed(b, s) /\ Open(b, s)' = Open(b, s) /\ Closing(b, s)' = Closing(b, s)
      BY <1>3 DEF Placed, Open, Closing, BrokerOf, SideOf
    <3>2. QED
      BY <3>1, BookedSame
  <2>2. Balanced(b)
    BY <1>3 DEF LedgerInv, TableMatchesBroker, Balanced
  <2>3. QED
    BY <2>1, <2>2, NothingMoves
<1>4. QED
  BY <1>1, <1>2, <1>3 DEF TableMatchesBroker, Balanced

\* The steps of execute_signal keep the balance: a filled order adds one unit and one
\* placed order, its commit turns that order into an open trade.
LEMMA OrderLedger ==
  ASSUME LedgerInv, TypeInv', NEW c \in Orders, OrderStep(c) \/ \E b \in Brokers, s \in Sides : StartOrder(c, b, s)
  PROVE  LedgerInv'
<1>0. /\ TypeInv /\ QuietRecovery /\ OneUnitEach /\ TableMatchesBroker
      /\ order \in [Orders -> OrderState] /\ order[c] \in OrderState
      /\ net \in [Brokers -> Int] /\ row \in [Fills -> RowState]
  BY TypeNames DEF LedgerInv, TypeInv, TypeOK
<1>s. SUFFICES QuietRecovery' /\ OneUnitEach' /\ TableMatchesBroker'
  BY DEF LedgerInv
<1>1. ASSUME NEW b \in Brokers, NEW s \in Sides, StartOrder(c, b, s)
      PROVE  QuietRecovery' /\ OneUnitEach' /\ TableMatchesBroker'
  <2>1. order'[c].pc = "send" /\ \A d \in Orders \ {c} : order'[d] = order[d]
    BY <1>0, <1>1 DEF StartOrder
  <2>2. /\ UNCHANGED <<net, row, close, phase, parted>> /\ phase = "up" /\ order[c].pc = "idle"
    BY <1>1 DEF StartOrder, recoveryVars
  <2>3. QED
    BY <2>1, <2>2, OrderAlone
<1>2. CASE OrderRejected(c) \/ OrderReplyLost(c)
  <2>1. order[c].pc # "idle" /\ NextAttempt(c)
    BY <1>2 DEF OrderRejected, OrderReplyLost
  <2>2. /\ UNCHANGED <<net, row, close, phase>> /\ parted \subseteq parted'
        /\ order[c].pc = "reply" => order[c].broker \in parted'
    BY <1>2 DEF OrderRejected, OrderReplyLost, recoveryVars, Part
  <2>3. phase = "up"
    BY <1>0, <2>1 DEF QuietRecovery
  <2>4. order'[c].pc # "reply" /\ \A d \in Orders \ {c} : order'[d] = order[d]
    BY <1>0, <2>1, NextAttemptEffect
  <2>5. QED
    BY <2>2, <2>3, <2>4, OrderAlone
<1>3. CASE OrderAccepted(c)
  <2> DEFINE a == order[c].broker
  <2>0. PICK side : side = order[c].side
    OBVIOUS
  <2>1. /\ order[c].pc = "send" /\ UNCHANGED <<row, close, phase, parted>>
        /\ net' = [net EXCEPT ![a] = @ + side]
        /\ order' = [order EXCEPT ![c] = [order[c] EXCEPT !.pc = "reply"]]
    BY <1>3, <2>0 DEF OrderAccepted, recoveryVars
  <2>2. /\ order'[c].pc = "reply" /\ order'[c].broker = a /\ order'[c].side = side
        /\ \A d \in Orders \ {c} : order'[d] = order[d]
    BY <1>0, <2>0, <2>1, PcChanged
  <2>3. QuietRecovery' /\ OneUnitEach'
    BY <1>0, <2>1, <2>2 DEF QuietRecovery, OneUnitEach, BrokerOf, SideOf
  <2>4. side \in Sides
    BY <1>0, <2>0 DEF OrderState
  <2>5. ASSUME NEW b \in Brokers, b \notin parted' PROVE Balanced(b)'
    <3>1. \A s \in Sides : Open(b, s)' = Open(b, s) /\ Closing(b, s)' = Closing(b, s)
      BY <2>1 DEF Open, Closing, BrokerOf, SideOf
    <3>2. Balanced(b) /\ net[b] \in Int
      BY <1>0, <2>1, <2>5 DEF TableMatchesBroker, Balanced
    <3>3. ASSUME NEW s \in Sides, b # a \/ s # side PROVE Booked(b, s)' = Booked(b, s)
      <4>1. Placed(b, s)' = Placed(b, s)
        BY <2>0, <2>1, <2>2, <3>3 DEF Placed
      <4>2. QED
        BY <3>1, <4>1, BookedSame
    <3>4. CASE b = a
      <4>1. Placed(b, side)' = Placed(b, side) \cup {c} /\ c \notin Placed(b, side)
        BY <2>0, <2>1, <2>2, <3>4 DEF Placed
      <4>2. Cardinality(Placed(b, side)') = Cardinality(Placed(b, side)) + 1
        <5>1. IsFiniteSet(Placed(b, side))
          BY CountedFinite
        <5>2. QED
          BY <4>1, <5>1, FS_AddElement
      <4>3. Booked(b, side)' = Booked(b, side) + 1
        <5>1. Open(b, side)' = Open(b, side) /\ Closing(b, side)' = Closing(b, side)
          BY <2>4, <3>1
        <5>2. QED
          BY <4>2, <5>1, CountedFinite DEF Booked
      <4>4. net'[b] = net[b] + side
        BY <1>0, <2>1, <3>4
      <4>5. \A s \in Sides \ {side} : Booked(b, s)' = Booked(b, s)
        BY <3>3
      <4>6. QED
        BY <2>4, <3>2, <4>3, <4>4, <4>5, OneSideMoves
    <3>5. CASE b # a
      <4>1. net'[b] = net[b]
        BY <1>0, <2>1, <3>5
      <4>2. QED
        BY <3>2, <3>3, <3>5, <4>1, NothingMoves
    <3>6. QED
      BY <3>4, <3>5
  <2>6. QED
    BY <2>3, <2>5 DEF TableMatchesBroker, Balanced
<1>4. CASE Record(c)
  <2> DEFINE a == order[c].broker
             side == order[c].side
             n == lastFill + 1
             new == [state |-> "open", broker |-> a, side |-> side]
  <2>1. /\ order[c].pc = "reply" /\ UNCHANGED <<net, close, phase, parted>>
        /\ row' = [row EXCEPT ![n] = new]
        /\ order' = [order EXCEPT ![c] = IdleOrder]
    BY <1>4 DEF Record, recoveryVars
  <2>2. n \in Fills /\ ~(n <= lastFill)
    BY <1>0, <1>4, LiveConstants DEF Record, TypeInv, TypeOK, Fills
  <2>3. row[n].state = "none"
    BY <1>0, <2>2 DEF TypeInv, RowsInserted
  <2>4. new.state = "open" /\ new.broker = a /\ new.side = side
    OBVIOUS
  <2> HIDE DEF n, new, side
  <2>5. /\ order'[c].pc = "idle" /\ \A d \in Orders \ {c} : order'[d] = order[d]
        /\ row'[n].state = "open" /\ row'[n].broker = a /\ row'[n].side = side
        /\ \A f \in Fills \ {n} : row'[f] = row[f]
    BY <1>0, <2>1, <2>2, <2>4, IdleTypes
  <2>6. \A k \in Closers : close[k].pc # "idle" => close[k].fill \in Fills \ {n}
    BY <1>0, <2>3 DEF TypeInv, CallsHold
  <2>7. QuietRecovery' /\ OneUnitEach'
    BY <1>0, <2>1, <2>5, <2>6 DEF QuietRecovery, OneUnitEach, BrokerOf, SideOf
  <2>8. ASSUME NEW b \in Brokers, b \notin parted' PROVE Balanced(b)'
    <3>1. net' = net /\ \A s \in Sides : Closing(b, s)' = Closing(b, s)
      BY <2>1, <2>5, <2>6 DEF Closing, BrokerOf, SideOf
    <3>2. Balanced(b)
      BY <1>0, <2>1, <2>8 DEF TableMatchesBroker, Balanced
    <3>3. ASSUME NEW s \in Sides PROVE Booked(b, s)' = Booked(b, s)
      <4>1. CASE b = a /\ s = side
        <5>1. Placed(b, s)' = Placed(b, s) \ {c} /\ c \in Placed(b, s)
          <6>1. /\ order'[c].pc # "reply" /\ order[c].pc = "reply"
                /\ order[c].broker = b /\ order[c].side = s
            BY <2>1, <2>5, <4>1 DEF side
          <6>2. QED
            BY ONLY <2>5, <6>1, c \in Orders DEF Placed
        <5>2. Open(b, s)' = Open(b, s) \cup {n} /\ n \notin Open(b, s)
          BY ONLY <2>2, <2>3, <2>5, <4>1 DEF Open
        <5>3. Cardinality(Placed(b, s)') = Cardinality(Placed(b, s)) - 1
          <6>1. IsFiniteSet(Placed(b, s))
            BY CountedFinite
          <6>2. QED
            BY <5>1, <6>1, FS_RemoveElement
        <5>4. Cardinality(Open(b, s)') = Cardinality(Open(b, s)) + 1
          <6>1. IsFiniteSet(Open(b, s))
            BY CountedFinite
          <6>2. QED
            BY <5>2, <6>1, FS_AddElement
        <5>5. QED
          BY <3>1, <5>3, <5>4, CountedFinite DEF Booked
      <4>2. CASE ~(b = a /\ s = side)
        <5>1. Placed(b, s)' = Placed(b, s)
          BY <2>1, <2>5, <4>2 DEF Placed, side
        <5>2. Open(b, s)' = Open(b, s)
          BY <2>2, <2>3, <2>5, <4>2 DEF Open
        <5>3. QED
          BY <3>1, <5>1, <5>2, BookedSame
      <4>3. QED
        BY <4>1, <4>2
    <3>4. net'[b] = net[b]
      BY <3>1
    <3>5. QED
      BY <3>2, <3>3, <3>4, NothingMoves
  <2>9. QED
    BY <2>7, <2>8 DEF TableMatchesBroker, Balanced
<1>5. QED
  BY <1>1, <1>2, <1>3, <1>4 DEF OrderStep

\* A close whose order is filled took the unit of its trade, which is open and which no
\* other close has taken.
LEMMA CloseAcceptedLedger ==
  ASSUME LedgerInv, NEW k \in Closers, CloseAccepted(k)
  PROVE  QuietRecovery' /\ OneUnitEach' /\ TableMatchesBroker'
<1> DEFINE a == BrokerOf(k)
<1>0. /\ TypeInv /\ QuietRecovery /\ OneUnitEach /\ TableMatchesBroker
      /\ close \in [Closers -> CloseState] /\ close[k] \in CloseState
      /\ net \in [Brokers -> Int] /\ row \in [Fills -> RowState]
  BY TypeNames DEF LedgerInv, TypeInv, TypeOK
<1>1. /\ close[k].pc = "send" /\ UNCHANGED <<row, order, phase>>
      /\ net' = [net EXCEPT ![a] = @ - close[k].seen]
      /\ close' = [close EXCEPT ![k] = [close[k] EXCEPT !.pc = "reply"]]
      /\ parted \subseteq parted' /\ (ClosedAlready(k) => a \in parted')
  BY <1>0 DEF CloseAccepted, recoveryVars, Part
<1>2. close[k].fill \in Fills /\ a \in Brokers /\ row[close[k].fill].state # "none"
  BY <1>0, <1>1, BrokerOfClose DEF TypeInv, CallsHold
<1>3. /\ close'[k].pc = "reply" /\ close'[k].fill = close[k].fill /\ close'[k].seen = close[k].seen
      /\ \A j \in Closers \ {k} : close'[j] = close[j]
  BY <1>0, <1>1, PcChanged
<1>4. QuietRecovery' /\ SideOf(k) \in Sides
  BY <1>0, <1>1, <1>2 DEF QuietRecovery, SideOf, RowState
<1>5. ASSUME a \notin parted'
      PROVE  /\ close[k].seen = SideOf(k) /\ row[close[k].fill].state = "open"
             /\ \A j \in Closers \ {k} : close[j].pc = "reply" => close[j].fill # close[k].fill
  <2>1. a \notin parted /\ ~ClosedAlready(k)
    BY <1>1, <1>5
  <2>2. close[k].seen = SideOf(k)
    BY <1>0, <1>1, <2>1 DEF OneUnitEach
  <2>3. row[close[k].fill].state \in {"none", "open", "closed"}
    BY <1>0, <1>2 DEF RowState
  <2>4. QED
    BY <1>2, <2>1, <2>2, <2>3 DEF ClosedAlready
<1> HIDE DEF a
<1>6. OneUnitEach'
  <2> SUFFICES ASSUME NEW m \in Closers, close'[m].pc # "idle",
                      row[close'[m].fill].broker \notin parted'
               PROVE  /\ close'[m].pc \in {"send", "reply"} => close'[m].seen = row[close'[m].fill].side
                      /\ close'[m].pc = "reply" =>
                           /\ row[close'[m].fill].state = "open"
                           /\ \A j \in Closers \ {m} : close'[j].pc = "reply" =>
                                                        close'[j].fill # close'[m].fill
    BY <1>1 DEF OneUnitEach, BrokerOf, SideOf
  <2>1. CASE m = k
    BY <1>3, <1>5, <2>1 DEF a, BrokerOf, SideOf
  <2>2. CASE m # k
    <3>1. close'[m] = close[m] /\ BrokerOf(m) \notin parted
      BY <1>1, <1>3, <2>2 DEF BrokerOf
    <3>2. /\ close[m].pc \in {"send", "reply"} => close[m].seen = SideOf(m)
          /\ close[m].pc = "reply" =>
               /\ row[close[m].fill].state = "open"
               /\ \A j \in Closers \ {m} : close[j].pc = "reply" => close[j].fill # close[m].fill
      BY <1>0, <3>1 DEF OneUnitEach
    <3>3. ASSUME close[m].pc = "reply" PROVE close[k].fill # close[m].fill
      <4>1. CASE close[k].fill = close[m].fill
        <5>1. a \notin parted'
          BY <3>1, <4>1 DEF a, BrokerOf
        <5>2. QED
          BY <1>5, <2>2, <3>3, <5>1
      <4>2. QED
        BY <4>1
    <3>4. QED
      BY <1>3, <2>2, <3>1, <3>2, <3>3 DEF SideOf
  <2>3. QED
    BY <2>1, <2>2
<1>7. ASSUME NEW b \in Brokers, b \notin parted' PROVE Balanced(b)'
  <2>0. PICK side : side = SideOf(k)
    OBVIOUS
  <2>1. \A s \in Sides : Open(b, s)' = Open(b, s) /\ Placed(b, s)' = Placed(b, s)
    BY <1>1 DEF Open, Placed
  <2>2. Balanced(b) /\ net[b] \in Int
    BY <1>0, <1>1, <1>7 DEF TableMatchesBroker, Balanced
  <2>3. ASSUME NEW s \in Sides, b # a \/ s # side PROVE Booked(b, s)' = Booked(b, s)
    <3>1. Closing(b, s)' = Closing(b, s)
      BY <1>1, <1>3, <2>0, <2>3 DEF Closing, BrokerOf, SideOf, a
    <3>2. QED
      BY <2>1, <3>1, BookedSame
  <2>4. CASE b = a
    <3>1. Closing(b, side)' = Closing(b, side) \cup {k} /\ k \notin Closing(b, side)
      BY <1>1, <1>3, <2>0, <2>4 DEF Closing, BrokerOf, SideOf, a
    <3>2. Cardinality(Closing(b, side)') = Cardinality(Closing(b, side)) + 1
      <4>1. IsFiniteSet(Closing(b, side))
        BY CountedFinite
      <4>2. QED
        BY <3>1, <4>1, FS_AddElement
    <3>3. Booked(b, side)' = Booked(b, side) - 1
      <4>1. Open(b, side)' = Open(b, side) /\ Placed(b, side)' = Placed(b, side)
        BY <1>4, <2>0, <2>1
      <4>2. QED
        BY <3>2, <4>1, CountedFinite DEF Booked
    <3>4. net'[b] = net[b] - side
      BY <1>0, <1>1, <1>5, <1>7, <2>0, <2>4
    <3>5. \A s \in Sides \ {side} : Booked(b, s)' = Booked(b, s)
      BY <2>3
    <3>6. side \in Sides
      BY <1>4, <2>0
    <3>7. QED
      BY <2>2, <3>3, <3>4, <3>5, <3>6, OneSideMoves
  <2>5. CASE b # a
    <3>1. net'[b] = net[b]
      BY <1>0, <1>1, <2>5
    <3>2. QED
      BY <2>2, <2>3, <2>5, <3>1, NothingMoves
  <2>6. QED
    BY <2>4, <2>5
<1>8. QED
  BY <1>4, <1>6, <1>7 DEF TableMatchesBroker, Balanced

\* The commit of a close turns its filled order into a closed trade.
LEMMA BookLedger ==
  ASSUME LedgerInv, NEW k \in Closers, Book(k)
  PROVE  QuietRecovery' /\ OneUnitEach' /\ TableMatchesBroker'
<1> DEFINE a == BrokerOf(k)
           f == close[k].fill
<1>0. /\ TypeInv /\ QuietRecovery /\ OneUnitEach /\ TableMatchesBroker
      /\ close \in [Closers -> CloseState]
      /\ net \in [Brokers -> Int] /\ row \in [Fills -> RowState]
  BY TypeNames DEF LedgerInv, TypeInv, TypeOK
<1>1. /\ close[k].pc = "reply" /\ UNCHANGED <<net, order, phase, parted>>
      /\ row' = [row EXCEPT ![f].state = "closed"]
      /\ close' = [close EXCEPT ![k] = IdleClose]
  BY DEF Book, recoveryVars
<1>2. f \in Fills /\ a \in Brokers
  BY <1>0, <1>1, BrokerOfClose
<1>3. /\ row'[f].state = "closed"
      /\ \A g \in Fills : row'[g].broker = row[g].broker /\ row'[g].side = row[g].side
      /\ \A g \in Fills \ {f} : row'[g] = row[g]
  <2>1. row[f] \in RowState
    BY <1>0, <1>2
  <2>2. \A r \in RowState : LET s == [r EXCEPT !.state = "closed"] IN
          s.state = "closed" /\ s.broker = r.broker /\ s.side = r.side
    BY DEF RowState
  <2>3. row' = [row EXCEPT ![f] = [row[f] EXCEPT !.state = "closed"]]
    BY <1>0, <1>1, <1>2
  <2>4. QED
    BY <1>0, <1>2, <2>1, <2>2, <2>3
<1>4. close'[k].pc = "idle" /\ \A j \in Closers \ {k} : close'[j] = close[j]
  BY <1>0, <1>1, IdleTypes
<1>5. ASSUME a \notin parted
      PROVE  /\ row[f].state = "open"
             /\ \A j \in Closers \ {k} : close[j].pc = "reply" => close[j].fill # f
  BY <1>0, <1>1, <1>5 DEF OneUnitEach
<1>6. \A j \in Closers : close[j].pc # "idle" => close[j].fill \in Fills
  BY <1>0 DEF TypeInv, CallsHold
<1> HIDE DEF f
<1>7. QuietRecovery'
  BY <1>0, <1>1 DEF QuietRecovery
<1>8. OneUnitEach'
  <2> SUFFICES ASSUME NEW m \in Closers \ {k}, close[m].pc # "idle",
                      row'[close[m].fill].broker \notin parted
               PROVE  /\ close[m].pc \in {"send", "reply"} =>
                           close[m].seen = row'[close[m].fill].side
                      /\ close[m].pc = "reply" =>
                           /\ row'[close[m].fill].state = "open"
                           /\ \A j \in Closers \ {m, k} : close[j].pc = "reply" =>
                                                           close[j].fill # close[m].fill
    BY <1>1, <1>4 DEF OneUnitEach, BrokerOf, SideOf
  <2>1. BrokerOf(m) \notin parted
    BY <1>3, <1>6 DEF BrokerOf
  <2>2. /\ close[m].pc \in {"send", "reply"} => close[m].seen = SideOf(m)
        /\ close[m].pc = "reply" =>
             /\ row[close[m].fill].state = "open"
             /\ \A j \in Closers \ {m} : close[j].pc = "reply" => close[j].fill # close[m].fill
    BY <1>0, <2>1 DEF OneUnitEach
  <2>3. close[m].pc = "reply" => close[m].fill \in Fills \ {f}
    BY <1>1, <1>6, <2>2 DEF f
  <2>4. row'[close[m].fill].side = SideOf(m)
    BY <1>3, <1>6 DEF SideOf
  <2>5. QED
    BY <1>3, <2>2, <2>3, <2>4
<1>9. ASSUME NEW b \in Brokers, b \notin parted' PROVE Balanced(b)'
  <2>1. Balanced(b) /\ net'[b] = net[b]
    BY <1>0, <1>1, <1>9 DEF TableMatchesBroker, Balanced
  <2>2. ASSUME NEW s \in Sides PROVE Booked(b, s)' = Booked(b, s)
    <3>1. Placed(b, s)' = Placed(b, s)
      BY <1>1 DEF Placed
    <3>2. Closing(b, s)' = {j \in Closers \ {k} : close[j].pc = "reply" /\ BrokerOf(j) = b /\ SideOf(j) = s}
      BY <1>3, <1>4, <1>6 DEF Closing, BrokerOf, SideOf
    <3>3. Open(b, s)' = {g \in Fills \ {f} :
                          row[g].state = "open" /\ row[g].broker = b /\ row[g].side = s}
      BY <1>2, <1>3 DEF Open
    <3>4. CASE b = a /\ s = SideOf(k)
      <4>1. Closing(b, s)' = Closing(b, s) \ {k} /\ k \in Closing(b, s)
        BY <1>1, <3>2, <3>4 DEF Closing
      <4>2. Open(b, s)' = Open(b, s) \ {f} /\ f \in Open(b, s)
        BY <1>1, <1>2, <1>5, <1>9, <3>3, <3>4 DEF Open, BrokerOf, SideOf, f
      <4>3. Cardinality(Closing(b, s)') = Cardinality(Closing(b, s)) - 1
        <5>1. IsFiniteSet(Closing(b, s))
          BY CountedFinite
        <5>2. QED
          BY <4>1, <5>1, FS_RemoveElement
      <4>4. Cardinality(Open(b, s)') = Cardinality(Open(b, s)) - 1
        <5>1. IsFiniteSet(Open(b, s))
          BY CountedFinite
        <5>2. QED
          BY <4>2, <5>1, FS_RemoveElement
      <4>5. QED
        BY <3>1, <4>3, <4>4, CountedFinite DEF Booked
    <3>5. CASE ~(b = a /\ s = SideOf(k))
      <4>1. Closing(b, s)' = Closing(b, s)
        BY <3>2, <3>5 DEF Closing
      <4>2. Open(b, s)' = Open(b, s)
        BY <3>3, <3>5 DEF Open, BrokerOf, SideOf, f
      <4>3. QED
        BY <3>1, <4>1, <4>2, BookedSame
    <3>6. QED
      BY <3>4, <3>5
  <2>3. QED
    BY <2>1, <2>2, NothingMoves
<1>10. QED
  BY <1>7, <1>8, <1>9 DEF TableMatchesBroker, Balanced

\* The steps of close_trade keep the balance.
LEMMA CloseLedger ==
  ASSUME LedgerInv, TypeInv', NEW k \in Closers, CloseStep(k) \/ \E f \in Fills : StartClose(k, f)
  PROVE  LedgerInv'
<1>0. /\ TypeInv /\ QuietRecovery /\ OneUnitEach
      /\ close \in [Closers -> CloseState] /\ close[k] \in CloseState
      /\ net \in [Brokers -> Int]
  BY TypeNames DEF LedgerInv, TypeInv, TypeOK
<1>s. SUFFICES QuietRecovery' /\ OneUnitEach' /\ TableMatchesBroker'
  BY DEF LedgerInv
<1>1. ASSUME NEW f \in Fills, StartClose(k, f)
      PROVE  QuietRecovery' /\ OneUnitEach' /\ TableMatchesBroker'
  <2>1. close'[k].pc = "read" /\ \A j \in Closers \ {k} : close'[j] = close[j]
    BY <1>0, <1>1 DEF StartClose, IdleClose
  <2>2. UNCHANGED <<net, row, order, phase, parted>> /\ phase = "up" /\ close[k].pc = "idle"
    BY <1>1 DEF StartClose, recoveryVars
  <2>3. QED
    BY <2>1, <2>2, CloseAlone
<1>2. CASE ReadPosition(k)
  <2> DEFINE a == BrokerOf(k)
             seen == Reported(a)
             new == [close[k] EXCEPT !.pc = "send", !.seen = seen, !.tries = 1]
  <2>1. /\ close[k].pc = "read" /\ UNCHANGED <<net, row, order, phase>>
        /\ (seen # SideOf(k) => a \in parted') /\ parted \subseteq parted'
        /\ close' = [close EXCEPT ![k] = new]
    BY <1>0, <1>2 DEF ReadPosition, recoveryVars, Part
  <2> HIDE DEF seen
  <2>2. new.pc = "send" /\ new.fill = close[k].fill /\ new.seen = seen
    BY <1>0 DEF CloseState
  <2> HIDE DEF new
  <2>3. /\ close'[k].pc = "send" /\ close'[k].fill = close[k].fill /\ close'[k].seen = seen
        /\ \A j \in Closers \ {k} : close'[j] = close[j]
    BY <1>0, <2>1, <2>2
  <2>4. phase = "up"
    BY <1>0, <2>1 DEF QuietRecovery
  <2>5. row[close'[k].fill].broker = a /\ row[close'[k].fill].side = SideOf(k)
    BY <2>3 DEF BrokerOf, SideOf
  <2> HIDE DEF a
  <2>6. QED
    BY <2>1, <2>3, <2>4, <2>5, CloseAlone
<1>3. CASE NoPosition(k)
  <2>1. /\ close[k].pc = "read" /\ UNCHANGED <<net, row, order, phase, parted>>
        /\ close' = [close EXCEPT ![k] = IdleClose]
    BY <1>3 DEF NoPosition, recoveryVars
  <2>2. close'[k].pc = "idle" /\ \A j \in Closers \ {k} : close'[j] = close[j]
    BY <1>0, <2>1, IdleTypes
  <2>3. phase = "up"
    BY <1>0, <2>1 DEF QuietRecovery
  <2>4. QED
    BY <2>1, <2>2, <2>3, CloseAlone
<1>4. CASE CloseAccepted(k)
  BY <1>4, CloseAcceptedLedger
<1>5. CASE CloseRejected(k)
  <2>1. /\ close[k].pc = "send" /\ UNCHANGED <<net, row, order, phase, parted>>
        /\ NextCloseAttempt(k) /\ close[k].tries \in 0..2
    BY <1>0, <1>5 DEF CloseRejected, recoveryVars, CloseState
  <2>2. /\ close'[k].pc \in {"idle", "send"}
        /\ close'[k].pc = "send" => close'[k].fill = close[k].fill /\ close'[k].seen = close[k].seen
        /\ \A j \in Closers \ {k} : close'[j] = close[j]
    BY <1>0, <2>1, NextCloseAttemptEffect
  <2>3. BrokerOf(k) \notin parted => close[k].seen = SideOf(k)
    BY <1>0, <2>1 DEF OneUnitEach
  <2>4. phase = "up"
    BY <1>0, <2>1 DEF QuietRecovery
  <2>5. close'[k].pc = "send" /\ row[close'[k].fill].broker \notin parted' =>
          close'[k].seen = row[close'[k].fill].side
    BY <2>1, <2>2, <2>3 DEF BrokerOf, SideOf
  <2>6. QED
    BY <2>1, <2>2, <2>4, <2>5, CloseAlone
<1>6. CASE CloseReplyLost(k)
  <2>1. /\ close[k].pc = "reply" /\ UNCHANGED <<net, row, order, phase>>
        /\ parted' = parted \cup {BrokerOf(k)}
        /\ NextCloseAttempt(k) /\ close[k].tries \in 0..2
    BY <1>0, <1>6 DEF CloseReplyLost, recoveryVars, Part, CloseState
  <2>2. /\ close'[k].pc \in {"idle", "send"}
        /\ close'[k].pc = "send" => close'[k].fill = close[k].fill
        /\ \A j \in Closers \ {k} : close'[j] = close[j]
    BY <1>0, <2>1, NextCloseAttemptEffect
  <2>3. phase = "up"
    BY <1>0, <2>1 DEF QuietRecovery
  <2>4. close'[k].pc = "send" => row[close'[k].fill].broker \in parted'
    BY <2>1, <2>2 DEF BrokerOf
  <2>5. QED
    BY <2>1, <2>2, <2>3, <2>4, CloseAlone
<1>7. CASE Book(k)
  BY <1>7, BookLedger
<1>8. CASE BookRaises(k)
  <2>1. /\ close[k].pc = "reply" /\ UNCHANGED <<net, row, order, phase>>
        /\ parted' = parted \cup {BrokerOf(k)}
        /\ close' = [close EXCEPT ![k] = IdleClose]
    BY <1>8 DEF BookRaises, recoveryVars, Part
  <2>2. close'[k].pc = "idle" /\ \A j \in Closers \ {k} : close'[j] = close[j]
    BY <1>0, <2>1, IdleTypes
  <2>3. phase = "up"
    BY <1>0, <2>1 DEF QuietRecovery
  <2>4. QED
    BY <2>1, <2>2, <2>3, CloseAlone
<1>9. QED
  BY <1>1, <1>2, <1>3, <1>4, <1>5, <1>6, <1>7, <1>8 DEF CloseStep

\* A death of the process between an order and its commit parts the broker, and so
\* does the recovery when it closes the rows of a position that exists; whatever else
\* the recovery and the broker do leaves the balance alone.
LEMMA OtherLedger ==
  ASSUME LedgerInv, TypeInv',
         \/ \E b \in Brokers : ClosedOutside(b)
         \/ Crash \/ QueryFails \/ RecoveryStep
  PROVE  LedgerInv'
<1>0. /\ TypeInv /\ QuietRecovery /\ OneUnitEach /\ TableMatchesBroker
      /\ net \in [Brokers -> Int] /\ row \in [Fills -> RowState]
  BY TypeNames DEF LedgerInv, TypeInv, TypeOK
<1>s. SUFFICES QuietRecovery' /\ OneUnitEach' /\ TableMatchesBroker'
  BY DEF LedgerInv
<1>1. ASSUME NEW a \in Brokers, ClosedOutside(a)
      PROVE  QuietRecovery' /\ OneUnitEach' /\ TableMatchesBroker'
  <2>1. /\ UNCHANGED <<row, order, close, phase>> /\ net' = [net EXCEPT ![a] = 0]
        /\ parted' = parted \cup {a}
    BY <1>1 DEF ClosedOutside, recoveryVars, Part
  <2>2. QuietRecovery' /\ OneUnitEach'
    BY <1>0, <2>1 DEF QuietRecovery, OneUnitEach, BrokerOf, SideOf
  <2>3. ASSUME NEW b \in Brokers, b \notin parted' PROVE Balanced(b)'
    <3>1. net'[b] = net[b] /\ Balanced(b)
      BY <1>0, <2>1, <2>3 DEF TableMatchesBroker, Balanced
    <3>2. ASSUME NEW s \in Sides PROVE Booked(b, s)' = Booked(b, s)
      BY <2>1, BookedSame DEF Open, Placed, Closing, BrokerOf, SideOf
    <3>3. QED
      BY <3>1, <3>2, NothingMoves
  <2>4. QED
    BY <2>2, <2>3 DEF TableMatchesBroker, Balanced
<1>2. CASE Crash
  <2>1. /\ UNCHANGED <<net, row>>
        /\ parted' = parted \cup {b \in Brokers :
                                \E s \in Sides : Placed(b, s) \cup Closing(b, s) # {}}
    BY <1>2, IdleTypes DEF Crash
  <2>2. \A k \in Closers : close'[k].pc = "idle"
    BY <1>2, IdleTypes DEF Crash
  <2>3. QuietRecovery' /\ OneUnitEach'
    BY <1>2, <2>2, IdleTypes DEF QuietRecovery, OneUnitEach, Crash
  <2>4. ASSUME NEW b \in Brokers, b \notin parted' PROVE Balanced(b)'
    <3>1. b \notin parted /\ \A s \in Sides : Placed(b, s) = {} /\ Closing(b, s) = {}
      BY <2>1, <2>4
    <3>2. \A s \in Sides : Placed(b, s)' = {} /\ Closing(b, s)' = {}
      BY <1>2, <2>2, IdleTypes DEF Placed, Closing, Crash
    <3>3. net'[b] = net[b] /\ \A s \in Sides : Open(b, s)' = Open(b, s)
      BY <2>1 DEF Open
    <3>4. Balanced(b)
      BY <1>0, <3>1 DEF TableMatchesBroker, Balanced
    <3>5. \A s \in Sides : Booked(b, s)' = Booked(b, s)
      BY <3>1, <3>2, <3>3, BookedSame
    <3>6. QED
      BY <3>3, <3>4, <3>5, NothingMoves
  <2>5. QED
    BY <2>3, <2>4 DEF TableMatchesBroker, Balanced
<1>3. CASE QueryFails \/ SyncOrders \/ \E b \in Brokers : ReconcileFails(b)
  <2>1. UNCHANGED <<net, row, order, close, parted>> /\ (phase' # "up" => phase # "up")
    BY <1>3 DEF QueryFails, SyncOrders, ReconcileFails
  <2>2. QuietRecovery' /\ OneUnitEach'
    BY <1>0, <2>1 DEF QuietRecovery, OneUnitEach, BrokerOf, SideOf
  <2>3. ASSUME NEW b \in Brokers, b \notin parted' PROVE Balanced(b)'
    <3>1. net'[b] = net[b] /\ Balanced(b)
      BY <1>0, <2>1, <2>3 DEF TableMatchesBroker, Balanced
    <3>2. ASSUME NEW s \in Sides PROVE Booked(b, s)' = Booked(b, s)
      BY <2>1, BookedSame DEF Open, Placed, Closing, BrokerOf, SideOf
    <3>3. QED
      BY <3>1, <3>2, NothingMoves
  <2>4. QED
    BY <2>2, <2>3 DEF TableMatchesBroker, Balanced
<1>4. ASSUME NEW a \in Brokers, ReconcileEmpty(a)
      PROVE  QuietRecovery' /\ OneUnitEach' /\ TableMatchesBroker'
  <2>1. /\ UNCHANGED <<net, order, close>> /\ phase = "reconcile"
        /\ row' = [f \in Fills |-> IF f \in AllOpen THEN [row[f] EXCEPT !.state = "closed"] ELSE row[f]]
        /\ parted' = parted \cup {d \in Brokers : net[d] # 0 /\ OpenAt(d) # {}}
    BY <1>4 DEF ReconcileEmpty
  <2>2. /\ \A c \in Orders : order[c].pc = "idle"
        /\ \A k \in Closers : close[k].pc = "idle"
    BY <1>0, <2>1 DEF QuietRecovery
  <2>3. QuietRecovery' /\ OneUnitEach'
    BY <2>1, <2>2 DEF QuietRecovery, OneUnitEach
  <2>4. ASSUME NEW f \in Fills PROVE row'[f].state # "open"
    <3>1. \A r \in RowState : [r EXCEPT !.state = "closed"].state = "closed"
      BY DEF RowState
    <3>2. QED
      BY <1>0, <2>1, <3>1 DEF AllOpen
  <2>5. ASSUME NEW b \in Brokers, b \notin parted' PROVE Balanced(b)'
    <3>1. ASSUME NEW s \in Sides PROVE Booked(b, s)' = 0
      <4>1. Placed(b, s)' = {} /\ Closing(b, s)' = {} /\ Open(b, s)' = {}
        BY <2>1, <2>2, <2>4 DEF Placed, Closing, Open
      <4>2. QED
        BY <4>1, FS_EmptySet DEF Booked
    <3>2. net[b] = 0
      <4>1. CASE OpenAt(b) = {}
        <5>1. ASSUME NEW s \in Sides PROVE Booked(b, s) = 0
          <6>1. Placed(b, s) = {} /\ Closing(b, s) = {} /\ Open(b, s) = {}
            BY <2>2, <4>1 DEF Placed, Closing, OpenAt, Sides
          <6>2. QED
            BY <6>1, FS_EmptySet DEF Booked
        <5>2. Booked(b, 1) = 0 /\ Booked(b, -1) = 0
          BY <5>1 DEF Sides
        <5>3. QED
          BY <1>0, <2>1, <2>5, <5>2 DEF TableMatchesBroker
      <4>2. QED
        BY <2>1, <2>5, <4>1
    <3>3. Booked(b, 1)' = 0 /\ Booked(b, -1)' = 0
      BY <3>1 DEF Sides
    <3>4. QED
      BY <2>1, <3>2, <3>3 DEF Balanced
  <2>6. QED
    BY <2>3, <2>5 DEF TableMatchesBroker, Balanced
<1>5. QED
  BY <1>1, <1>2, <1>3, <1>4 DEF RecoveryStep

\* The position at a live broker is what the trades table says, give or take the
\* calls between an order and its commit, for any number of brokers, orders, closes
\* and restarts, as long as none of the circumstances has occurred there that parted
\* lists: no other way leads the two apart.
THEOREM TableMatches == Spec => []TableMatchesBroker
<1>1. Init => LedgerInv
  <2> SUFFICES ASSUME Init, TypeInv PROVE QuietRecovery /\ OneUnitEach /\ TableMatchesBroker
    BY TypeInit DEF LedgerInv
  <2>1. /\ \A c \in Orders : order[c].pc = "idle"
        /\ \A k \in Closers : close[k].pc = "idle"
    BY IdleTypes DEF Init
  <2>2. ASSUME NEW b \in Brokers, NEW s PROVE Booked(b, s) = Cardinality(Open(b, s))
    <3>1. Placed(b, s) = {} /\ Closing(b, s) = {}
      BY <2>1 DEF Placed, Closing
    <3>2. QED
      BY <3>1, CountedFinite, FS_EmptySet DEF Booked
  <2>3. QuietRecovery /\ OneUnitEach
    BY <2>1 DEF QuietRecovery, OneUnitEach
  <2>4. \A b \in Brokers : net[b] = Booked(b, 1) - Booked(b, -1)
    BY <2>2 DEF Init
  <2>5. QED
    BY <2>3, <2>4 DEF TableMatchesBroker
<1>2. LedgerInv /\ TypeInv' /\ [Next]_vars => LedgerInv'
  <2> SUFFICES ASSUME LedgerInv, TypeInv', [Next]_vars PROVE LedgerInv'
    OBVIOUS
  <2>1. CASE UNCHANGED vars
    BY <2>1 DEF vars, LedgerInv, QuietRecovery, OneUnitEach, TableMatchesBroker, BrokerOf,
                SideOf, Booked, Open, Placed, Closing
  <2>2. QED
    BY <2>1, OrderLedger, CloseLedger, OtherLedger DEF Next
<1>3. LedgerInv => TableMatchesBroker
  BY DEF LedgerInv
<1>4. QED
  BY <1>1, <1>2, <1>3, TypeInvariant, PTL DEF Spec
=============================================================================
