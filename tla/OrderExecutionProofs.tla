------------------------ MODULE OrderExecutionProofs ------------------------
(***************************************************************************)
(* Proofs about OrderExecution, for every number of loops, requests and    *)
(* symbols and every bound: type correctness, then the emergency stop, the *)
(* exposure bound and the ledger invariant with what follows from it.      *)
(***************************************************************************)
EXTENDS OrderExecution, FiniteSetTheorems, TLAPS

\* Counting one more occurrence keeps a counter function typed.
LEMMA Increment ==
  ASSUME NEW S, NEW g \in [S -> Nat], NEW x
  PROVE  [g EXCEPT ![x] = @ + 1] \in [S -> Nat]
<1>1. CASE x \in S
  BY <1>1
<1>2. CASE x \notin S
  BY <1>2
<1>3. QED
  BY <1>1, <1>2

\* The steps of execute_signal keep the state typed.
LEMMA CallTypes ==
  ASSUME TypeOK, NEW c \in Callers, CallStep(c)
  PROVE  TypeOK'
<1>0. MaxFills \in Nat
  BY OrderConstants
<1>a. IdleCall \in CallState
  BY <1>0 DEF IdleCall, CallState
<1> USE DEF TypeOK, End, AfterCommand, closeVars, engineVars
<1>1. ASSUME NEW s \in Symbols, Admit(c, s) PROVE TypeOK'
  <2>1. call' \in [Callers -> CallState]
    BY <1>0, <1>1 DEF Admit, CallState
  <2> QED BY <1>1, <2>1 DEF Admit
<1>2. CASE RiskPassed(c)
  <2>1. call' \in [Callers -> CallState]
    BY <1>0, <1>2 DEF RiskPassed, CallState
  <2> QED BY <1>2, <2>1 DEF RiskPassed
<1>3. CASE Refused(c)
  BY <1>a, <1>3 DEF Refused
<1>4. CASE Reserve(c)
  <2>1. call' \in [Callers -> CallState]
    BY <1>0, <1>a, <1>4 DEF Reserve, CallState
  <2> QED BY <1>4, <2>1 DEF Reserve
<1>5. CASE PlaceFilled(c)
  <2> DEFINE s == call[c].symbol
             f == lastFill + 1
  <2>0. /\ s \in Symbols \cup {NoSymbol}
        /\ f \in Fills /\ f \in 0..MaxFills
    BY <1>0, <1>5 DEF PlaceFilled, CallState, Fills
  <2>1. call' \in [Callers -> CallState]
    BY <2>0, <1>5 DEF PlaceFilled, CallState
  <2>2. position' \in [Symbols -> 0..MaxFills]
    BY <2>0, <1>5 DEF PlaceFilled
  <2>3. order' \in [Fills -> OrderState]
    <3>1. [state |-> "filled", no |-> counter + 1, symbol |-> s] \in OrderState
      BY <2>0 DEF OrderState
    <3> QED BY <3>1, <1>5 DEF PlaceFilled
  <2> QED BY <2>0, <1>5, <2>1, <2>2, <2>3 DEF PlaceFilled
<1>6. CASE PlaceRefused(c)
  BY <1>a, <1>6 DEF PlaceRefused
<1>7. CASE Record(c)
  <2>1. order' \in [Fills -> OrderState]
    <3>1. order \in [Fills -> OrderState]
      OBVIOUS
    <3>2. order' = [order EXCEPT ![call[c].fill].state = "open"]
      BY <1>7 DEF Record
    <3>3. \A o \in OrderState : [o EXCEPT !.state = "open"] \in OrderState
      BY DEF OrderState
    <3> QED BY ONLY <3>1, <3>2, <3>3
  <2> QED BY <1>a, <1>7, <2>1 DEF Record
<1>8. CASE RecordFails(c)
  <2>1. call[c].fill \in 0..MaxFills
    BY DEF CallState
  <2> QED BY <2>1, <1>a, <1>8 DEF RecordFails
<1>9. QED
  BY <1>1, <1>2, <1>3, <1>4, <1>5, <1>6, <1>7, <1>8 DEF CallStep

\* The steps of close_trade and of the position monitor keep the state typed.
LEMMA CloseTypes ==
  ASSUME TypeOK, NEW k \in Closers,
         CloseStep(k) \/ (\E f \in Fills : RequestClose(k, f))
           \/ (k = Monitor /\ (Scan \/ \E f \in Fills : NotHit(f)))
  PROVE  TypeOK'
<1>0. Fills \subseteq 0..MaxFills /\ 0 \in 0..MaxFills
  BY OrderConstants DEF Fills
<1>a. /\ close \in [Closers -> CloseState]
      /\ position \in [Symbols -> 0..MaxFills]
      /\ order \in [Fills -> OrderState]
      /\ exits \in [Fills -> Nat]
      /\ counted \in [Fills -> Nat]
  BY DEF TypeOK
<1>b. /\ close[k] \in CloseState
      /\ close[k].todo \in SUBSET Fills
      /\ close[k].fill \in 0..MaxFills
  BY <1>a DEF CloseState
<1>c. /\ \A todo \in SUBSET Fills : [pc |-> "checking", todo |-> todo, fill |-> 0] \in CloseState
      /\ \A todo \in SUBSET Fills, f \in Fills :
           [pc |-> "commit", todo |-> todo, fill |-> f] \in CloseState
      /\ IdleClose \in CloseState
  BY <1>0 DEF CloseState, IdleClose
<1>d. ASSUME NEW new \in CloseState, close' = [close EXCEPT ![k] = new]
      PROVE  close' \in [Closers -> CloseState]
  BY <1>a, <1>d
<1>1. ASSUME NEW f \in Fills, RequestClose(k, f) PROVE TypeOK'
  <2>1. {f} \in SUBSET Fills
    OBVIOUS
  <2>2. close' \in [Closers -> CloseState]
    BY <1>c, <1>d, <1>1, <2>1 DEF RequestClose
  <2> QED BY <1>1, <2>2 DEF TypeOK, RequestClose, callVars, engineVars
<1>2. ASSUME k = Monitor, Scan PROVE TypeOK'
  <2>1. OpenTrades \in SUBSET Fills
    BY DEF OpenTrades
  <2>2. close' \in [Closers -> CloseState]
    BY <1>c, <1>d, <1>2, <2>1 DEF Scan
  <2> QED BY <1>2, <2>2 DEF TypeOK, Scan, callVars, engineVars
<1>e. ASSUME NEW f \in Fills, close' = [close EXCEPT ![k].todo = @ \ {f}]
      PROVE  close' \in [Closers -> CloseState]
  <2>1. [close[k] EXCEPT !.todo = @ \ {f}] \in CloseState
    BY <1>b DEF CloseState
  <2>2. close' = [close EXCEPT ![k] = [close[k] EXCEPT !.todo = @ \ {f}]]
    BY <1>a, <1>e
  <2>3. QED
    BY <1>d, <2>1, <2>2
<1>3. ASSUME k = Monitor, NEW f \in Fills, NotHit(f) PROVE TypeOK'
  <2>1. close' \in [Closers -> CloseState]
    BY <1>e, <1>3 DEF NotHit
  <2> QED BY <1>3, <2>1 DEF TypeOK, NotHit, callVars, engineVars
<1>4. ASSUME NEW f \in Fills, CloseFails(k, f) PROVE TypeOK'
  <2>1. close' \in [Closers -> CloseState]
    BY <1>e, <1>4 DEF CloseFails
  <2> QED BY <1>4, <2>1 DEF TypeOK, CloseFails, callVars, engineVars
<1>5. ASSUME NEW f \in Fills, ClosePosition(k, f) PROVE TypeOK'
  <2>1. close[k].todo \ {f} \in SUBSET Fills
    BY <1>b
  <2>2. [pc |-> "commit", todo |-> close[k].todo \ {f}, fill |-> f] \in CloseState
    BY <1>c, <2>1
  <2>3. close' = [close EXCEPT ![k] = [pc |-> "commit", todo |-> close[k].todo \ {f}, fill |-> f]]
    BY <1>a, <1>5 DEF ClosePosition
  <2>4. close' \in [Closers -> CloseState]
    BY <1>d, <2>2, <2>3
  <2>5. position' \in [Symbols -> 0..MaxFills]
    BY <1>0, <1>a, <1>5 DEF ClosePosition
  <2>6. counter' \in Nat
    BY <1>5 DEF TypeOK, ClosePosition
  <2> QED BY <1>5, <2>4, <2>5, <2>6 DEF TypeOK, ClosePosition, engineVars
<1>6. CASE BookExit(k)
  <2>1. close' \in [Closers -> CloseState]
    <3>1. [close[k] EXCEPT !.pc = "count"] \in CloseState
      BY <1>b DEF CloseState
    <3>2. close' = [close EXCEPT ![k] = [close[k] EXCEPT !.pc = "count"]]
      BY <1>a, <1>6 DEF BookExit
    <3>3. QED
      BY <1>d, <3>1, <3>2
  <2>2. order' \in [Fills -> OrderState]
    BY <1>a, <1>6 DEF BookExit, OrderState
  <2>3. exits' \in [Fills -> Nat]
    BY <1>a, <1>6, Increment DEF BookExit
  <2> QED BY <1>6, <2>1, <2>2, <2>3 DEF TypeOK, BookExit, callVars, engineVars
<1>7. CASE BookFails(k)
  <2>1. close' \in [Closers -> CloseState]
    BY <1>a, <1>c, <1>7 DEF BookFails
  <2> QED BY <1>7, <2>1 DEF TypeOK, BookFails, callVars, engineVars
<1>8. CASE CountResult(k)
  <2>1. counted' \in [Fills -> Nat]
    BY <1>a, <1>8, Increment DEF CountResult
  <2>2. close' = [close EXCEPT ![k] = [pc |-> "checking", todo |-> close[k].todo, fill |-> 0]]
    BY <1>a, <1>8 DEF CountResult
  <2>3. close' \in [Closers -> CloseState]
    BY <1>b, <1>c, <1>d, <2>2
  <2> QED BY <1>8, <2>1, <2>3 DEF TypeOK, CountResult, callVars, engineVars
<1>f. CASE CountFails(k)
  <2>1. dropped' \in [Fills -> Nat]
    BY <1>f, Increment DEF TypeOK, CountFails
  <2>2. close' \in [Closers -> CloseState]
    BY <1>a, <1>c, <1>f DEF CountFails
  <2> QED BY <1>f, <2>1, <2>2 DEF TypeOK, CountFails, callVars, engineVars
<1>9. CASE CloseDone(k)
  <2>1. close' \in [Closers -> CloseState]
    BY <1>a, <1>c, <1>9 DEF CloseDone
  <2> QED BY <1>9, <2>1 DEF TypeOK, CloseDone, callVars, engineVars
<1>10. QED
  BY <1>1, <1>2, <1>3, <1>4, <1>5, <1>6, <1>7, <1>8, <1>f, <1>9 DEF CloseStep

\* Cancelling the tasks of an engine leaves what it touches typed.
LEMMA KillTypes ==
  ASSUME TypeOK, KillTasks
  PROVE  /\ engineUp' \in BOOLEAN
         /\ call' \in [Callers -> CallState]
         /\ close' \in [Closers -> CloseState]
         /\ abandoned' \subseteq 0..MaxFills
         /\ dropped' \in [Fills -> Nat]
         /\ survivors' \subseteq Callers
<1>0. MaxFills \in Nat
  BY OrderConstants
<1>1. IdleClose \in CloseState /\ IdleCall \in CallState
  BY <1>0 DEF IdleClose, CloseState, IdleCall, CallState
<1>2. \A c \in Callers : call[c].fill \in 0..MaxFills
  BY DEF TypeOK, CallState
<1>3. Loops \subseteq Callers
  BY DEF Callers
<1>4. abandoned' \subseteq 0..MaxFills
  <2>1. abandoned' = abandoned \cup {call[c].fill : c \in {l \in Loops : call[l].pc = "record"}}
    BY DEF KillTasks
  <2>2. abandoned \subseteq 0..MaxFills
    BY DEF TypeOK
  <2>3. {call[c].fill : c \in {l \in Loops : call[l].pc = "record"}} \subseteq 0..MaxFills
    BY <1>2, <1>3
  <2>4. QED
    BY <2>1, <2>2, <2>3
<1>5. dropped' \in [Fills -> Nat]
  BY DEF TypeOK, KillTasks
<1>6. /\ engineUp' \in BOOLEAN
      /\ survivors' \subseteq Callers
  BY DEF TypeOK, KillTasks
<1>7. call' \in [Callers -> CallState]
  BY <1>1 DEF TypeOK, KillTasks
<1>8. close' \in [Closers -> CloseState]
  BY <1>1 DEF TypeOK, KillTasks
<1>9. QED
  BY <1>4, <1>5, <1>6, <1>7, <1>8

\* A restart of the process leaves the state typed.
LEMMA RestartTypes ==
  ASSUME TypeOK, Restart
  PROVE  TypeOK'
<1>0. MaxFills \in Nat
  BY OrderConstants
<1>1. IdleClose \in CloseState /\ IdleCall \in CallState
  BY <1>0 DEF IdleClose, CloseState, IdleCall, CallState
<1>2. \A c \in Callers : call[c].fill \in 0..MaxFills
  BY DEF TypeOK, CallState
<1>3. abandoned' \subseteq 0..MaxFills
  BY <1>2 DEF TypeOK, Restart
<1>4. dropped' \in [Fills -> Nat]
  <2> DEFINE W(f) == {k \in Closers : close[k].pc = "count" /\ close[k].fill = f}
  <2>1. ASSUME NEW f \in Fills PROVE Cardinality(W(f)) \in Nat
    <3>1. W(f) \in SUBSET Closers
      OBVIOUS
    <3>2. IsFiniteSet(W(f))
      BY <3>1, OrderConstants, FS_Subset
    <3>3. QED
      BY <3>2, FS_CardinalityType
  <2>2. dropped' = [f \in Fills |-> dropped[f] + Cardinality(W(f))]
    BY DEF Restart
  <2> HIDE DEF W
  <2>3. QED
    BY <2>1, <2>2 DEF TypeOK
<1>5. /\ call' \in [Callers -> CallState]
      /\ close' \in [Closers -> CloseState]
  BY <1>1 DEF Restart
<1>6. position' \in [Symbols -> 0..MaxFills]
  BY <1>0 DEF Restart
<1>7. stop' \in [flag : BOOLEAN, key : BOOLEAN, pending : Nat]
  BY DEF TypeOK, Restart
<1>8. budget' \in [stops : Nat, restarts : Nat]
  BY DEF TypeOK, Restart
<1>9. QED
  BY <1>3, <1>4, <1>5, <1>6, <1>7, <1>8 DEF TypeOK, Restart

\* Every variable of the order path keeps its type.
THEOREM TypeCorrect == Spec => []TypeOK
<1>1. Init => TypeOK
  <2> SUFFICES ASSUME Init PROVE TypeOK
    OBVIOUS
  <2>0. MaxFills \in Nat
    BY OrderConstants
  <2>1. IdleClose \in CloseState /\ IdleCall \in CallState
    BY <2>0 DEF IdleClose, CloseState, IdleCall, CallState
  <2>2. [state |-> "none", no |-> 0, symbol |-> NoSymbol] \in OrderState
    BY DEF OrderState
  <2>3. /\ call \in [Callers -> CallState]
        /\ close \in [Closers -> CloseState]
        /\ order \in [Fills -> OrderState]
    BY <2>1, <2>2 DEF Init
  <2>4. /\ position \in [Symbols -> 0..MaxFills]
        /\ lastFill \in 0..MaxFills
        /\ exits \in [Fills -> Nat]
        /\ counted \in [Fills -> Nat]
        /\ dropped \in [Fills -> Nat]
    BY <2>0 DEF Init
  <2>5. budget \in [stops : Nat, restarts : Nat]
    BY OrderConstants DEF Init
  <2>6. QED
    BY <2>3, <2>4, <2>5 DEF Init, TypeOK
<1>2. TypeOK /\ [Next]_vars => TypeOK'
  <2> SUFFICES ASSUME TypeOK, [Next]_vars PROVE TypeOK'
    OBVIOUS
  <2>1. ASSUME NEW c \in Callers, CallStep(c) PROVE TypeOK'
    BY <2>1, CallTypes
  <2>2. ASSUME NEW k \in CloseRequests, CloseStep(k) \/ \E f \in Fills : RequestClose(k, f)
        PROVE  TypeOK'
    BY <2>2, CloseTypes DEF Closers
  <2>3. CASE MonitorStep
    BY <2>3, CloseTypes DEF MonitorStep, Closers
  <2>4. CASE StopEngine
    BY <2>4, KillTypes DEF StopEngine, TypeOK
  <2>5. CASE FinishStop
    <3> DEFINE key == stop.key \/ redis = "up"
    <3>a. key \in BOOLEAN
      OBVIOUS
    <3>b. stop' = [stop EXCEPT !.pending = @ - 1, !.key = key]
      BY <2>5 DEF FinishStop
    <3>c. stop.pending \in Nat /\ stop.pending - 1 \in Nat
      BY <2>5 DEF FinishStop, TypeOK
    <3>d. stop \in [flag : BOOLEAN, key : BOOLEAN, pending : Nat]
      BY DEF TypeOK
    <3> HIDE DEF key
    <3>1. stop' \in [flag : BOOLEAN, key : BOOLEAN, pending : Nat]
      BY ONLY <3>a, <3>b, <3>c, <3>d
    <3>2. QED
      BY <2>5, <3>1, KillTypes DEF FinishStop, TypeOK, AfterCommand
  <2>6. CASE ActivateStop
    <3>1. budget' \in [stops : Nat, restarts : Nat]
      BY <2>6 DEF ActivateStop, TypeOK
    <3>a. stop' = [stop EXCEPT !.flag = TRUE, !.pending = @ + 1]
      BY <2>6 DEF ActivateStop
    <3>b. stop \in [flag : BOOLEAN, key : BOOLEAN, pending : Nat]
      BY DEF TypeOK
    <3>2. stop' \in [flag : BOOLEAN, key : BOOLEAN, pending : Nat]
      <4>1. stop.pending \in Nat /\ stop.pending + 1 \in Nat
        BY <3>b
      <4>3. stop.key \in BOOLEAN
        BY <3>b
      <4>4. stop' = [flag |-> TRUE, key |-> stop.key, pending |-> stop.pending + 1]
        BY <3>a, <3>b
      <4> DEFINE k == stop.key
                 n == stop.pending + 1
      <4> HIDE DEF k, n
      <4>5. k \in BOOLEAN /\ n \in Nat /\ stop' = [flag |-> TRUE, key |-> k, pending |-> n]
        BY <4>1, <4>3, <4>4 DEF k, n
      <4>6. QED
        BY ONLY <4>5
    <3>3. survivors' \subseteq Callers
      BY <2>6 DEF ActivateStop
    <3>4. QED
      BY <2>6, <3>1, <3>2, <3>3 DEF ActivateStop, TypeOK, closeVars
  <2>7. CASE StartEngine \/ ClearStop \/ RedisFails \/ RedisReconnects
    BY <2>7 DEF StartEngine, ClearStop, RedisFails, RedisReconnects, TypeOK, AfterCommand,
                Redis!Break, Redis!Notice, Redis!Recover, callVars, closeVars, engineVars
  <2>8. ASSUME NEW s \in Symbols, PriceMoves(s) PROVE TypeOK'
    BY <2>8 DEF PriceMoves, TypeOK, callVars, closeVars, engineVars
  <2>9. CASE Restart
    BY <2>9, RestartTypes
  <2>10. CASE UNCHANGED vars
    BY <2>10 DEF vars, TypeOK
  <2>11. QED
    BY <2>1, <2>2, <2>3, <2>4, <2>5, <2>6, <2>7, <2>8, <2>9, <2>10 DEF Next
<1>3. QED
  BY <1>1, <1>2, PTL DEF Spec

\* Under the stop flag only a call that was past the gate places an order, and
\* once the stop request was answered no strategy loop does (execute_signal's
\* gate, activate_emergency_stop, stop_all).
THEOREM OrdersUnderStop == Spec => OrderUnderStop
<1>1. Init => StopInv
  BY DEF Init, StopInv
<1>2. TypeOK /\ StopInv /\ [Next]_vars => StopInv'
  <2> SUFFICES ASSUME TypeOK, StopInv, [Next]_vars PROVE StopInv'
    OBVIOUS
  <2>1. ASSUME NEW c \in Callers, CallStep(c) PROVE StopInv'
    <3>1. ASSUME NEW s \in Symbols, Admit(c, s) PROVE StopInv'
      BY <3>1 DEF Admit, StopInv, StopActive
    <3>2. CASE RiskPassed(c) \/ PlaceFilled(c) \/ (Reserve(c) /\ ~End(c))
      <4>1. /\ {d \in Callers : call'[d].pc # "idle"} \subseteq {d \in Callers : call[d].pc # "idle"}
            /\ survivors' = survivors /\ stop' = stop
        BY <3>2 DEF RiskPassed, PlaceFilled, Reserve, TypeOK, CallState
      <4>2. QED
        BY <4>1 DEF StopInv
    <3>3. CASE End(c) /\ stop' = stop
      <4>1. {d \in Callers : call'[d].pc # "idle"} \subseteq {d \in Callers : call[d].pc # "idle"} \ {c}
        BY <3>3 DEF End, TypeOK, IdleCall
      <4>2. survivors' = survivors \ {c}
        BY <3>3 DEF End
      <4>3. QED
        BY <3>3, <4>1, <4>2 DEF StopInv
    <3>4. QED
      BY <2>1, <3>1, <3>2, <3>3
      DEF CallStep, Refused, Reserve, PlaceRefused, Record, RecordFails
  <2>2. CASE KillTasks /\ stop'.flag = stop.flag
    <3>1. {c \in Callers : call'[c].pc # "idle"} \subseteq {c \in Callers : call[c].pc # "idle"} \ Loops
      BY <2>2 DEF KillTasks, IdleCall
    <3>2. survivors' = survivors \ Loops
      BY <2>2 DEF KillTasks
    <3>3. QED
      BY <2>2, <3>1, <3>2 DEF StopInv
  <2>3. CASE StopEngine
    BY <2>2, <2>3 DEF StopEngine
  <2>4. CASE FinishStop
    BY <2>2, <2>4 DEF FinishStop, TypeOK
  <2>5. CASE ActivateStop
    BY <2>5 DEF ActivateStop, TypeOK, StopInv
  <2>6. CASE ClearStop
    BY <2>6 DEF ClearStop, TypeOK, StopInv
  <2>7. CASE Restart
    BY <2>7 DEF Restart, TypeOK, StopInv
  <2>8. CASE UNCHANGED <<call, stop, survivors>>
    BY <2>8 DEF StopInv
  <2>9. ASSUME NEW k \in Closers,
               CloseStep(k) \/ MonitorStep \/ (\E f \in Fills : RequestClose(k, f))
        PROVE  StopInv'
    BY <2>8, <2>9 DEF CloseStep, MonitorStep, RequestClose, Scan, NotHit, CloseFails,
       ClosePosition, BookExit, BookFails, CountResult, CountFails, CloseDone, callVars
  <2>10. CASE StartEngine \/ RedisFails \/ RedisReconnects \/ \E s \in Symbols : PriceMoves(s)
    BY <2>8, <2>10 DEF StartEngine, RedisFails, RedisReconnects, PriceMoves, callVars
  <2>11. QED
    BY <2>1, <2>3, <2>4, <2>5, <2>6, <2>7, <2>8, <2>9, <2>10 DEF Next, vars, Closers
<1>3. TypeOK /\ StopInv => \A c \in Callers :
        (stop.flag /\ call[c].pc = "place" /\ call'[c].pc = "record")
          => c \in survivors /\ (c \in Loops => stop.pending > 0)
  BY DEF TypeOK, StopInv
<1>4. QED
  BY <1>1, <1>2, <1>3, TypeCorrect, PTL DEF Spec, OrderUnderStop

\* The open trades overshoot max_open_trades by less than the number of
\* concurrent execute_signal calls: RiskPassed is the only step that lets a call
\* in, and it finds the limit not reached.
THEOREM ExposureBounded == Spec => []ExposureBound
<1> DEFINE Bound(n) == n <= MaxOpen - 1 + Cardinality(Callers)
           Load == Cardinality(OpenTrades) + Cardinality(InFlight)
<1>0. /\ MaxOpen \in Nat /\ MaxOpen > 0
      /\ IsFiniteSet(Callers) /\ Cardinality(Callers) \in Nat
      /\ IsFiniteSet(Fills)
  BY OrderConstants, FS_CardinalityType, FS_Interval DEF Fills
<1>a. \A T : T \subseteq Fills => IsFiniteSet(T) /\ Cardinality(T) \in Nat
  BY <1>0, FS_Subset, FS_CardinalityType
<1>b. \A T : T \subseteq Callers =>
        IsFiniteSet(T) /\ Cardinality(T) \in Nat /\ Cardinality(T) <= Cardinality(Callers)
  BY <1>0, FS_Subset, FS_CardinalityType
<1>c. /\ OpenTrades \subseteq Fills /\ OpenTrades' \subseteq Fills
      /\ InFlight \subseteq Callers /\ InFlight' \subseteq Callers
  BY DEF OpenTrades, InFlight, Fills
<1>d. /\ Cardinality(OpenTrades) \in Nat /\ Cardinality(OpenTrades') \in Nat
      /\ Cardinality(InFlight) \in Nat /\ Cardinality(InFlight') \in Nat
      /\ IsFiniteSet(OpenTrades) /\ IsFiniteSet(InFlight)
      /\ Cardinality(InFlight') <= Cardinality(Callers)
  BY <1>a, <1>b, <1>c
<1>1. Init => ExposureBound
  <2> SUFFICES ASSUME Init PROVE ExposureBound
    OBVIOUS
  <2>1. OpenTrades = {} /\ InFlight = {}
    BY DEF Init, OpenTrades, InFlight, IdleCall
  <2>2. Cardinality({}) = 0
    BY FS_EmptySet
  <2>3. QED
    BY <1>0, <2>1, <2>2 DEF ExposureBound
<1>2. TypeOK /\ ExposureBound /\ [Next]_vars => ExposureBound'
  <2> SUFFICES ASSUME TypeOK, ExposureBound, [Next]_vars PROVE ExposureBound'
    OBVIOUS
  <2>1. CASE OpenTrades' \subseteq OpenTrades /\ InFlight' \subseteq InFlight
    <3>1. /\ Cardinality(OpenTrades') <= Cardinality(OpenTrades)
          /\ Cardinality(InFlight') <= Cardinality(InFlight)
      BY <1>d, <2>1, FS_Subset
    <3>2. QED
      BY <1>0, <1>d, <3>1 DEF ExposureBound
  <2>2. ASSUME NEW c \in Callers, CallStep(c) PROVE ExposureBound'
    <3>1. CASE RiskPassed(c)
      <4>1. OpenTrades' = OpenTrades /\ Cardinality(OpenTrades) < MaxOpen
        BY <3>1 DEF RiskPassed, OpenTrades
      <4>2. QED
        BY <1>0, <1>d, <4>1 DEF ExposureBound
    <3>2. CASE Record(c)
      <4> DEFINE f == call[c].fill
      <4>1. OpenTrades' \subseteq OpenTrades \cup {f}
        BY <3>2 DEF Record, OpenTrades, TypeOK, OrderState
      <4>2. c \in InFlight /\ InFlight' \subseteq InFlight \ {c}
        BY <3>2 DEF Record, End, InFlight, IdleCall, TypeOK
      <4>3. /\ IsFiniteSet(OpenTrades \cup {f})
            /\ Cardinality(OpenTrades \cup {f}) <= Cardinality(OpenTrades) + 1
        <5>1. Cardinality(OpenTrades \cup {f}) =
                IF f \in OpenTrades THEN Cardinality(OpenTrades) ELSE Cardinality(OpenTrades) + 1
          BY <1>d, FS_AddElement
        <5>2. IsFiniteSet(OpenTrades \cup {f})
          BY <1>d, FS_AddElement
        <5>3. QED
          BY <1>d, <5>1, <5>2
      <4>4. Cardinality(OpenTrades') <= Cardinality(OpenTrades) + 1
        <5>1. Cardinality(OpenTrades') <= Cardinality(OpenTrades \cup {f})
          BY <4>1, <4>3, FS_Subset
        <5>2. Cardinality(OpenTrades \cup {f}) \in Nat
          BY <4>3, FS_CardinalityType
        <5>3. QED
          BY <1>d, <4>3, <5>1, <5>2
      <4>5. Cardinality(InFlight') <= Cardinality(InFlight) - 1
        <5>1. /\ IsFiniteSet(InFlight \ {c})
              /\ Cardinality(InFlight \ {c}) = Cardinality(InFlight) - 1
          BY <1>d, <4>2, FS_RemoveElement
        <5>2. QED
          BY <4>2, <5>1, FS_Subset
      <4>6. QED
        BY <1>0, <1>d, <4>4, <4>5 DEF ExposureBound
    <3>3. ASSUME ~RiskPassed(c), ~Record(c) PROVE ExposureBound'
      <4>1. InFlight' \subseteq InFlight
        BY <2>2, <3>3 DEF CallStep, InFlight, Admit, Refused, Reserve, PlaceFilled,
           PlaceRefused, RecordFails, End, IdleCall, TypeOK
      <4>2. OpenTrades' \subseteq OpenTrades
        BY <2>2, <3>3 DEF CallStep, OpenTrades, Admit, Refused, Reserve, PlaceFilled,
           PlaceRefused, RecordFails, TypeOK
      <4>3. QED
        BY <2>1, <4>1, <4>2
    <3>4. QED
      BY <3>1, <3>2, <3>3
  <2>3. CASE KillTasks /\ order' = order
    BY <2>1, <2>3 DEF KillTasks, OpenTrades, InFlight, IdleCall
  <2>4. CASE Restart
    BY <2>1, <2>4 DEF Restart, OpenTrades, InFlight, IdleCall
  <2>5. CASE call' = call /\ order' = order
    BY <2>1, <2>5 DEF OpenTrades, InFlight
  <2>6. ASSUME NEW k \in Closers, BookExit(k) PROVE ExposureBound'
    <3>1. OpenTrades' \subseteq OpenTrades
      BY <2>6 DEF BookExit, OpenTrades, TypeOK
    <3>2. QED
      BY <2>1, <2>6, <3>1 DEF BookExit, callVars, InFlight
  <2>7. ASSUME NEW k \in Closers,
               CloseStep(k) \/ MonitorStep \/ (\E f \in Fills : RequestClose(k, f))
        PROVE  ExposureBound'
    BY <2>5, <2>6, <2>7 DEF CloseStep, MonitorStep, RequestClose, Scan, NotHit, CloseFails,
       ClosePosition, BookFails, CountResult, CountFails, CloseDone, callVars, Closers
  <2>8. CASE StopEngine \/ FinishStop
    BY <2>3, <2>8 DEF StopEngine, FinishStop
  <2>9. CASE \/ StartEngine \/ ActivateStop \/ ClearStop
             \/ RedisFails \/ RedisReconnects \/ \E s \in Symbols : PriceMoves(s)
    BY <2>5, <2>9 DEF StartEngine, ActivateStop, ClearStop, RedisFails, RedisReconnects,
       PriceMoves, callVars
  <2>10. QED
    BY <2>2, <2>4, <2>5, <2>7, <2>8, <2>9 DEF Next, vars, Closers
<1>3. QED
  BY <1>1, <1>2, TypeCorrect, PTL DEF Spec

\* A step that touches no order, position or recording call keeps LedgerInv.
LEMMA LedgerUntouched ==
  ASSUME LedgerInv, UNCHANGED <<order, position, lastFill, close, abandoned>>,
         \A c \in Callers : /\ call'[c].pc = "record" <=> call[c].pc = "record"
                            /\ call[c].pc = "record" => call'[c].fill = call[c].fill
  PROVE  LedgerInv'
<1>1. \A c \in Callers, f \in Fills : Recording(c, f)' <=> Recording(c, f)
  BY DEF Recording
<1>2. FillsTracked'
  BY <1>1 DEF LedgerInv, FillsTracked
<1>3. QED
  BY <1>2 DEF LedgerInv, FillsNumbered, PositionsFiled, ClosersHoldRows, Recorded, ClosedTradeFlat

\* A fill takes a fresh number, which no row, closer or other call holds.
LEMMA LedgerPlaceFilled ==
  ASSUME TypeOK, LedgerInv, NEW c \in Callers, PlaceFilled(c)
  PROVE  LedgerInv'
<1> DEFINE s == call[c].symbol
           f == lastFill + 1
<1>1. /\ f \in Fills /\ lastFill \in Nat /\ \A g \in Fills : g \in Nat
      /\ order[f].state = "none" /\ order \in [Fills -> OrderState]
      /\ position \in [Symbols -> 0..MaxFills] /\ call \in [Callers -> CallState]
  <2>1. /\ order \in [Fills -> OrderState] /\ position \in [Symbols -> 0..MaxFills]
        /\ call \in [Callers -> CallState] /\ lastFill \in 0..MaxFills
    BY DEF TypeOK
  <2>2. f \in Fills /\ lastFill \in Nat /\ \A g \in Fills : g \in Nat
    BY <2>1, OrderConstants DEF PlaceFilled, Fills
  <2>3. order[f].state = "none"
    BY <2>2 DEF LedgerInv, FillsNumbered
  <2>4. QED
    BY <2>1, <2>2, <2>3
<1>2. order' = [order EXCEPT ![f] = [state |-> "filled", no |-> counter + 1, symbol |-> s]]
  BY DEF PlaceFilled
<1>3. /\ order'[f].state = "filled" /\ order'[f].symbol = s
      /\ \A g \in Fills \ {f} : order'[g] = order[g]
  BY <1>1, <1>2
<1>4. /\ call'[c].pc = "record" /\ call'[c].fill = f
      /\ \A d \in Callers \ {c} : call'[d] = call[d]
      /\ call[c].pc # "record"
  BY <1>1 DEF PlaceFilled
<1>5. /\ lastFill' = f /\ close' = close /\ abandoned' = abandoned
      /\ position' = [position EXCEPT ![s] = f]
  BY DEF PlaceFilled, closeVars
<1>6. \A g \in Fills : Recorded(g) => g # f /\ Recorded(g)'
  BY <1>1, <1>3 DEF Recorded
<1> HIDE DEF f, s
<1>7. FillsNumbered'
  BY <1>1, <1>3, <1>5 DEF LedgerInv, FillsNumbered, f
<1>8. PositionsFiled'
  <2> SUFFICES ASSUME NEW t \in Symbols, position'[t] # 0
               PROVE  position'[t] <= lastFill' /\ order'[position'[t]].symbol = t
    BY DEF PositionsFiled
  <2>1. CASE t = s
    BY <1>1, <1>3, <1>5, <2>1 DEF Fills
  <2>2. CASE t # s
    <3>1. position'[t] = position[t] /\ position[t] <= lastFill /\ order[position[t]].symbol = t
      BY <1>1, <1>5, <2>2 DEF LedgerInv, PositionsFiled
    <3>2. position[t] \in Fills \ {f}
      BY <1>1, <3>1 DEF f, Fills
    <3>3. QED
      BY <1>1, <1>3, <1>5, <3>1, <3>2 DEF f, Fills
  <2>3. QED
    BY <2>1, <2>2
<1>9. ClosersHoldRows'
  <2> SUFFICES ASSUME NEW k \in Closers
               PROVE  /\ \A g \in close[k].todo : Recorded(g)'
                      /\ close[k].pc = "commit" =>
                           /\ close[k].fill \in Fills
                           /\ Recorded(close[k].fill)'
                           /\ \A t \in Symbols : position'[t] # close[k].fill
    BY <1>5 DEF ClosersHoldRows
  <2>1. close[k].todo \subseteq Fills
    BY DEF TypeOK, CloseState
  <2>2. /\ \A g \in close[k].todo : Recorded(g)
        /\ close[k].pc = "commit" =>
             /\ close[k].fill \in Fills
             /\ Recorded(close[k].fill)
             /\ \A t \in Symbols : position[t] # close[k].fill
    BY DEF LedgerInv, ClosersHoldRows
  <2>3. QED
    BY <1>1, <1>5, <1>6, <2>1, <2>2
<1>10. FillsTracked'
  <2>1. \A d \in Callers : call[d].pc = "record" => call[d].fill \in Fills \ {f}
    BY <1>1 DEF LedgerInv, FillsTracked
  <2>2. \A d \in Callers, g \in Fills :
          Recording(d, g)' <=> IF d = c THEN g = f ELSE Recording(d, g)
    BY <1>4 DEF Recording
  <2>3. \A d \in Callers : call'[d].pc = "record" =>
          call'[d].fill \in Fills /\ order'[call'[d].fill].state = "filled"
    BY <1>1, <1>3, <1>4, <2>1 DEF LedgerInv, FillsTracked
  <2>4. \A d, e \in Callers : \A g \in Fills : Recording(d, g)' /\ Recording(e, g)' => d = e
    BY <2>1, <2>2 DEF LedgerInv, FillsTracked, Recording
  <2>5. \A g \in Fills : order'[g].state = "filled" =>
          g \in abandoned' \/ \E d \in Callers : Recording(d, g)'
    BY <1>3, <1>4, <1>5, <2>2 DEF LedgerInv, FillsTracked, Recording
  <2>6. QED
    BY <2>3, <2>4, <2>5 DEF FillsTracked
<1>11. ClosedTradeFlat'
  BY <1>1, <1>3, <1>5 DEF LedgerInv, ClosedTradeFlat
<1>12. QED
  BY <1>7, <1>8, <1>9, <1>10, <1>11 DEF LedgerInv

\* Recording a fill, or failing to, ends the only call that holds it.
LEMMA LedgerRecord ==
  ASSUME TypeOK, LedgerInv, NEW c \in Callers, Record(c) \/ RecordFails(c)
  PROVE  LedgerInv'
<1> DEFINE f == call[c].fill
<1>1. /\ f \in Fills /\ order[f].state = "filled" /\ call[c].pc = "record"
      /\ order \in [Fills -> OrderState] /\ call \in [Callers -> CallState]
  BY DEF Record, RecordFails, LedgerInv, FillsTracked, TypeOK
<1>2. /\ \A g \in Fills \ {f} : order'[g] = order[g]
      /\ order'[f].symbol = order[f].symbol
      /\ \/ order'[f].state = "open"
         \/ order'[f].state = "filled" /\ f \in abandoned'
      /\ abandoned \subseteq abandoned'
  BY <1>1 DEF Record, RecordFails, OrderState
<1>3. /\ call'[c].pc = "idle"
      /\ \A d \in Callers \ {c} : call'[d] = call[d]
  BY <1>1 DEF Record, RecordFails, End, IdleCall
<1>4. lastFill' = lastFill /\ close' = close /\ position' = position
  BY DEF Record, RecordFails, closeVars
<1> HIDE DEF f
<1>5. \A g \in Fills : Recorded(g) => Recorded(g)'
  BY <1>1, <1>2 DEF Recorded
<1>6. FillsNumbered'
  BY <1>1, <1>2, <1>4 DEF LedgerInv, FillsNumbered
<1>7. PositionsFiled'
  <2>1. \A g \in Fills : order'[g].symbol = order[g].symbol
    BY <1>2
  <2>2. \A t \in Symbols : position[t] # 0 => position[t] \in Fills
    BY OrderConstants DEF TypeOK, Fills
  <2>3. QED
    BY <1>4, <2>1, <2>2 DEF LedgerInv, PositionsFiled
<1>8. ClosersHoldRows'
  <2>1. \A k \in Closers : close[k].todo \subseteq Fills
    BY DEF TypeOK, CloseState
  <2>2. QED
    BY <1>4, <1>5, <2>1 DEF LedgerInv, ClosersHoldRows
<1>9. FillsTracked'
  <2>1. \A d \in Callers, g \in Fills : Recording(d, g)' <=> d # c /\ Recording(d, g)
    BY <1>3 DEF Recording
  <2>2. Recording(c, f)
    BY <1>1 DEF Recording, f
  <2>3. \A d \in Callers : call'[d].pc = "record" =>
          call'[d].fill \in Fills /\ order'[call'[d].fill].state = "filled"
    <3>1. \A d \in Callers \ {c} : call[d].pc = "record" => call[d].fill \in Fills \ {f}
      BY <1>1, <2>2 DEF LedgerInv, FillsTracked, Recording
    <3>2. QED
      BY <1>2, <1>3, <3>1 DEF LedgerInv, FillsTracked
  <2>4. \A d, e \in Callers : \A g \in Fills : Recording(d, g)' /\ Recording(e, g)' => d = e
    BY <2>1 DEF LedgerInv, FillsTracked
  <2>5. \A g \in Fills : order'[g].state = "filled" =>
          g \in abandoned' \/ \E d \in Callers : Recording(d, g)'
    <3> SUFFICES ASSUME NEW g \in Fills, order'[g].state = "filled", g \notin abandoned'
                 PROVE  \E d \in Callers : Recording(d, g)'
      OBVIOUS
    <3>1. g # f /\ order[g].state = "filled" /\ g \notin abandoned
      BY <1>2
    <3>2. PICK d \in Callers : Recording(d, g)
      BY <3>1 DEF LedgerInv, FillsTracked
    <3>3. d # c
      BY <2>2, <3>1, <3>2 DEF Recording
    <3>4. QED
      BY <2>1, <3>2, <3>3
  <2>6. QED
    BY <2>3, <2>4, <2>5 DEF FillsTracked
<1>10. ClosedTradeFlat'
  BY <1>1, <1>2, <1>4 DEF LedgerInv, ClosedTradeFlat
<1>11. QED
  BY <1>6, <1>7, <1>8, <1>9, <1>10 DEF LedgerInv

\* Closing removes the position filed under the trade's symbol before the exit
\* is booked, and a fill is filed under no other symbol.
LEMMA LedgerClose ==
  ASSUME TypeOK, LedgerInv, NEW k \in Closers,
         CloseStep(k) \/ (\E f \in Fills : RequestClose(k, f))
           \/ (k = Monitor /\ (Scan \/ \E f \in Fills : NotHit(f)))
  PROVE  LedgerInv'
<1>1. /\ close \in [Closers -> CloseState] /\ order \in [Fills -> OrderState]
      /\ position \in [Symbols -> 0..MaxFills]
      /\ \A m \in Closers : close[m].todo \subseteq Fills
  BY DEF TypeOK, CloseState
<1>2. ASSUME order' = order, position' = position, lastFill' = lastFill,
             abandoned' = abandoned, call' = call, ClosersHoldRows'
      PROVE  LedgerInv'
  BY <1>2 DEF LedgerInv, FillsNumbered, PositionsFiled, FillsTracked, Recording, ClosedTradeFlat
<1>3. ASSUME order' = order, position' = position,
             \A m \in Closers \ {k} : close'[m] = close[m],
             \A f \in close'[k].todo : Recorded(f),
             close'[k].pc # "commit"
      PROVE  ClosersHoldRows'
  BY <1>3 DEF LedgerInv, ClosersHoldRows, Recorded
<1>4. \A f \in close[k].todo : Recorded(f)
  BY DEF LedgerInv, ClosersHoldRows
<1>5. \A f \in OpenTrades : Recorded(f)
  BY DEF OpenTrades, Recorded
<1>6. ASSUME NEW f \in Fills, RequestClose(k, f) PROVE LedgerInv'
  BY <1>1, <1>2, <1>3, <1>5, <1>6 DEF RequestClose, callVars
<1>7. ASSUME k = Monitor, Scan PROVE LedgerInv'
  BY <1>1, <1>2, <1>3, <1>5, <1>7 DEF Scan, callVars
<1>8. ASSUME k = Monitor, NEW f \in Fills, NotHit(f) PROVE LedgerInv'
  BY <1>1, <1>2, <1>3, <1>4, <1>8 DEF NotHit, callVars
<1>9. ASSUME NEW f \in Fills, CloseFails(k, f) PROVE LedgerInv'
  BY <1>1, <1>2, <1>3, <1>4, <1>9 DEF CloseFails, callVars
<1>10. CASE BookFails(k) \/ CountFails(k) \/ CloseDone(k)
  BY <1>1, <1>2, <1>3, <1>10 DEF BookFails, CountFails, CloseDone, IdleClose, callVars
<1>11. CASE CountResult(k)
  BY <1>1, <1>2, <1>3, <1>4, <1>11 DEF CountResult, callVars
<1>12. ASSUME NEW f \in Fills, ClosePosition(k, f) PROVE LedgerInv'
  <2> DEFINE s == order[f].symbol
  <2>1. /\ order' = order /\ lastFill' = lastFill /\ abandoned' = abandoned /\ call' = call
        /\ f \in close[k].todo
        /\ position' = [position EXCEPT ![s] = 0]
    BY <1>12 DEF ClosePosition
  <2>2. \A t \in Symbols : position'[t] = IF t = s THEN 0 ELSE position[t]
    BY <1>1, <2>1
  <2>3. Recorded(f) /\ \A t \in Symbols : position'[t] # f
    <3>1. \A t \in Symbols : position[t] = f => t = s
      BY DEF LedgerInv, PositionsFiled, Fills
    <3>2. QED
      BY <1>4, <2>1, <2>2, <3>1 DEF Fills
  <2>4. /\ close'[k].todo \subseteq close[k].todo
        /\ close'[k].fill = f
        /\ \A m \in Closers \ {k} : close'[m] = close[m]
    BY <1>1, <1>12 DEF ClosePosition
  <2>5. ClosersHoldRows'
    BY <1>4, <2>1, <2>2, <2>3, <2>4 DEF LedgerInv, ClosersHoldRows, Recorded, Fills
  <2>6. FillsNumbered' /\ FillsTracked'
    BY <2>1 DEF LedgerInv, FillsNumbered, FillsTracked, Recording
  <2>7. PositionsFiled'
    BY <2>1, <2>2 DEF LedgerInv, PositionsFiled
  <2>8. ClosedTradeFlat'
    BY <2>1, <2>2 DEF LedgerInv, ClosedTradeFlat, Fills
  <2>9. QED
    BY <2>5, <2>6, <2>7, <2>8 DEF LedgerInv
<1>13. CASE BookExit(k)
  <2> DEFINE f == close[k].fill
  <2>1. f \in Fills /\ Recorded(f) /\ \A s \in Symbols : position[s] # f
    BY <1>13 DEF BookExit, LedgerInv, ClosersHoldRows
  <2>2. /\ order'[f].state = "closed" /\ order'[f].symbol = order[f].symbol
        /\ \A g \in Fills \ {f} : order'[g] = order[g]
    BY <1>1, <1>13, <2>1 DEF BookExit, OrderState
  <2>3. /\ position' = position /\ lastFill' = lastFill /\ abandoned' = abandoned /\ call' = call
        /\ close'[k].pc = "count" /\ close'[k].todo = close[k].todo
        /\ \A m \in Closers \ {k} : close'[m] = close[m]
    BY <1>1, <1>13 DEF BookExit, callVars, CloseState
  <2> HIDE DEF f
  <2>4. \A g \in Fills : Recorded(g) <=> Recorded(g)'
    BY <2>1, <2>2 DEF Recorded
  <2>5. ClosersHoldRows'
    BY <1>1, <2>3, <2>4 DEF LedgerInv, ClosersHoldRows
  <2>6. FillsNumbered'
    BY <2>1, <2>2, <2>3 DEF LedgerInv, FillsNumbered, Recorded
  <2>7. PositionsFiled'
    <3>1. \A g \in Fills : order'[g].symbol = order[g].symbol
      BY <2>2
    <3>2. \A t \in Symbols : position[t] # 0 => position[t] \in Fills
      BY OrderConstants DEF TypeOK, Fills
    <3>3. QED
      BY <2>3, <3>1, <3>2 DEF LedgerInv, PositionsFiled
  <2>8. FillsTracked'
    <3>1. \A g \in Fills : order'[g].state = "filled" <=> order[g].state = "filled"
      BY <2>1, <2>2 DEF Recorded
    <3>2. QED
      BY <2>3, <3>1 DEF LedgerInv, FillsTracked, Recording
  <2>9. ClosedTradeFlat'
    BY <2>1, <2>2, <2>3 DEF LedgerInv, ClosedTradeFlat
  <2>10. QED
    BY <2>5, <2>6, <2>7, <2>8, <2>9 DEF LedgerInv
<1>14. QED
  BY <1>6, <1>7, <1>8, <1>9, <1>10, <1>11, <1>12, <1>13 DEF CloseStep

\* Cancelled tasks leave the fills they held among the abandoned ones.
LEMMA LedgerKill ==
  ASSUME TypeOK, LedgerInv, KillTasks, UNCHANGED <<position, lastFill, order>>
  PROVE  LedgerInv'
<1>1. /\ \A c \in Callers, f \in Fills : Recording(c, f)' <=> c \notin Loops /\ Recording(c, f)
      /\ \A c \in Callers : call'[c].pc = "record" => call'[c] = call[c]
      /\ \A c \in Loops, f \in Fills : Recording(c, f) => f \in abandoned'
      /\ abandoned \subseteq abandoned'
  BY DEF KillTasks, Recording, IdleCall, Callers
<1>2. FillsTracked'
  BY <1>1 DEF LedgerInv, FillsTracked
<1>3. /\ \A k \in Closers \ {Monitor} : close'[k] = close[k]
      /\ close'[Monitor] = IdleClose
  BY DEF KillTasks, TypeOK, Closers
<1>4. ClosersHoldRows'
  BY <1>3 DEF LedgerInv, ClosersHoldRows, IdleClose, Recorded
<1>5. QED
  BY <1>2, <1>4 DEF LedgerInv, FillsNumbered, PositionsFiled, ClosedTradeFlat

\* A restart forgets the positions and abandons the fills of every call.
LEMMA LedgerRestart ==
  ASSUME TypeOK, LedgerInv, Restart
  PROVE  LedgerInv'
<1>1. /\ lastFill' = lastFill /\ order' = order
      /\ \A c \in Callers : call'[c].pc = "idle"
      /\ \A k \in Closers : close'[k] = IdleClose
      /\ \A s \in Symbols : position'[s] = 0
      /\ \A c \in Callers, f \in Fills : Recording(c, f) => f \in abandoned'
      /\ abandoned \subseteq abandoned'
  BY DEF Restart, IdleCall, Recording
<1>2. FillsTracked'
  BY <1>1 DEF LedgerInv, FillsTracked, Recording
<1>3. ClosersHoldRows'
  BY <1>1 DEF ClosersHoldRows, IdleClose
<1>4. FillsNumbered' /\ PositionsFiled'
  BY <1>1 DEF LedgerInv, FillsNumbered, PositionsFiled
<1>5. ClosedTradeFlat'
  BY <1>1 DEF ClosedTradeFlat, Fills
<1>6. QED
  BY <1>2, <1>3, <1>4, <1>5 DEF LedgerInv

\* The ledger invariant holds in every behaviour of the order path.
THEOREM LedgerHolds == Spec => []LedgerInv
<1>1. Init => LedgerInv
  <2> SUFFICES ASSUME Init PROVE LedgerInv
    OBVIOUS
  <2>1. FillsNumbered
    BY OrderConstants DEF Init, FillsNumbered, Fills
  <2>2. PositionsFiled /\ ClosersHoldRows /\ FillsTracked /\ ClosedTradeFlat
    BY DEF Init, PositionsFiled, ClosersHoldRows, FillsTracked, ClosedTradeFlat, Recording,
       IdleClose, IdleCall
  <2>3. QED
    BY <2>1, <2>2 DEF LedgerInv
<1>2. TypeOK /\ LedgerInv /\ [Next]_vars => LedgerInv'
  <2> SUFFICES ASSUME TypeOK, LedgerInv, [Next]_vars PROVE LedgerInv'
    OBVIOUS
  <2>1. ASSUME NEW c \in Callers, CallStep(c) PROVE LedgerInv'
    <3>1. CASE PlaceFilled(c)
      BY <3>1, LedgerPlaceFilled
    <3>2. CASE Record(c) \/ RecordFails(c)
      BY <3>2, LedgerRecord
    <3>3. CASE \/ \E s \in Symbols : Admit(c, s)
               \/ RiskPassed(c) \/ Refused(c) \/ Reserve(c) \/ PlaceRefused(c)
      <4>1. UNCHANGED <<order, position, lastFill, close, abandoned>>
        BY <3>3 DEF Admit, RiskPassed, Refused, Reserve, PlaceRefused, closeVars
      <4>2. call[c].pc # "record" /\ call'[c].pc # "record"
        <5>1. call \in [Callers -> CallState] /\ call[c] \in CallState
          BY DEF TypeOK
        <5>2. call[c].pc # "record"
          BY <3>3 DEF Admit, RiskPassed, Refused, Reserve, PlaceRefused
        <5>3. CASE End(c)
          BY <5>1, <5>2, <5>3 DEF End, IdleCall
        <5>4. CASE ~End(c)
          BY <3>3, <5>1, <5>2, <5>4 DEF Admit, RiskPassed, Refused, Reserve, PlaceRefused, CallState
        <5>5. QED
          BY <5>2, <5>3, <5>4
      <4>3. \A d \in Callers \ {c} : call'[d] = call[d]
        BY <3>3 DEF Admit, RiskPassed, Refused, Reserve, PlaceRefused, End, TypeOK
      <4>4. QED
        BY <4>1, <4>2, <4>3, LedgerUntouched
    <3>4. QED
      BY <2>1, <3>1, <3>2, <3>3 DEF CallStep
  <2>2. ASSUME NEW k \in CloseRequests, CloseStep(k) \/ \E f \in Fills : RequestClose(k, f)
        PROVE  LedgerInv'
    BY <2>2, LedgerClose DEF Closers
  <2>3. CASE MonitorStep
    BY <2>3, LedgerClose DEF MonitorStep, Closers
  <2>4. CASE StopEngine \/ FinishStop
    BY <2>4, LedgerKill DEF StopEngine, FinishStop
  <2>5. CASE Restart
    BY <2>5, LedgerRestart
  <2>6. CASE UNCHANGED <<call, close, order, position, lastFill, abandoned>>
    BY <2>6, LedgerUntouched
  <2>7. CASE \/ StartEngine \/ ActivateStop \/ ClearStop
             \/ RedisFails \/ RedisReconnects \/ \E s \in Symbols : PriceMoves(s)
    BY <2>6, <2>7 DEF StartEngine, ActivateStop, ClearStop, RedisFails, RedisReconnects,
       PriceMoves, callVars, closeVars
  <2>8. QED
    BY <2>1, <2>2, <2>3, <2>4, <2>5, <2>6, <2>7 DEF Next, vars
<1>3. QED
  BY <1>1, <1>2, TypeCorrect, PTL DEF Spec

\* No trade whose row is CLOSED is still held by the broker.
THEOREM ClosedTradesFlat == Spec => []ClosedTradeFlat
<1>1. LedgerInv => ClosedTradeFlat
  BY DEF LedgerInv
<1>2. QED
  BY <1>1, LedgerHolds, PTL

\* Every position of the broker has an open row, a call about to insert its
\* row, or was abandoned by a call that was cut off.
THEOREM PositionsAccounted == Spec => []PositionAccounted
<1>1. TypeOK /\ LedgerInv => PositionAccounted
  <2> SUFFICES ASSUME TypeOK, LedgerInv, NEW s \in Symbols, position[s] # 0,
                      position[s] \notin abandoned,
                      ~\E c \in Callers : call[c].pc = "record" /\ call[c].fill = position[s]
               PROVE  order[position[s]].state = "open"
    BY DEF PositionAccounted
  <2> DEFINE f == position[s]
  <2>1. f \in Fills /\ f <= lastFill /\ lastFill \in Nat
    BY OrderConstants DEF TypeOK, Fills, LedgerInv, PositionsFiled
  <2>2. order[f].state # "none"
    BY <2>1 DEF LedgerInv, FillsNumbered, Fills
  <2>3. order[f].state # "filled"
    BY <2>1 DEF LedgerInv, FillsTracked, Recording
  <2>4. order[f].state # "closed"
    BY <2>1 DEF LedgerInv, ClosedTradeFlat
  <2>5. QED
    BY <2>1, <2>2, <2>3, <2>4 DEF TypeOK, OrderState
<1>2. QED
  BY <1>1, TypeCorrect, LedgerHolds, PTL

(***************************************************************************)
(* OrderExecution implements TradeLedger, for any number of symbols,       *)
(* callers, closers and fills.  The step of the ledger that a step of the  *)
(* order path takes is read off three actions of the broker and two        *)
(* commits; every other step leaves the ledger as it is.                   *)
(***************************************************************************)

(***************************************************************************)
(* Calls and filled orders carry a symbol, so that a position is filed.    *)
(***************************************************************************)
SymbolsKnown ==
  /\ \A c \in Callers : call[c].pc # "idle" => call[c].symbol \in Symbols
  /\ \A f \in Fills : order[f].state # "none" => order[f].symbol \in Symbols

\* A call keeps the symbol it was admitted with.
LEMMA CallKeepsSymbol ==
  ASSUME TypeOK, SymbolsKnown, NEW c \in Callers, CallStep(c)
  PROVE  \A d \in Callers : call'[d].pc # "idle" => call'[d].symbol \in Symbols
<1>1. call \in [Callers -> CallState]
  BY DEF TypeOK
<1>2. ASSUME NEW s \in Symbols, Admit(c, s)
      PROVE  \A d \in Callers : call'[d].pc # "idle" => call'[d].symbol \in Symbols
  BY <1>1, <1>2 DEF Admit, SymbolsKnown
<1>3. CASE End(c)
  BY <1>1, <1>3 DEF End, IdleCall, SymbolsKnown
<1>4. CASE call' = [call EXCEPT ![c].pc = "reserve"] \/ call' = [call EXCEPT ![c].pc = "place"]
  <2>1. CASE call[c].pc = "idle"
    BY <2>1 , <1>1, <1>4, <1>2, <1>3 DEF CallStep, RiskPassed, Refused, Reserve, PlaceFilled,
       PlaceRefused, Record, RecordFails
  <2>2. CASE call[c].pc # "idle"
    BY <1>1, <1>4, <2>2 DEF SymbolsKnown, CallState
  <2> QED
    BY <2>1, <2>2
<1>5. CASE PlaceFilled(c)
  BY <1>1, <1>5 DEF PlaceFilled, SymbolsKnown
<1> QED
  BY <1>2, <1>3, <1>4, <1>5 DEF CallStep, RiskPassed, Refused, Reserve, PlaceRefused, Record,
     RecordFails

(***************************************************************************)
(* The steps that matter to the ledger.                                    *)
(***************************************************************************)
LEMMA LedgerMoves ==
  ASSUME [Next]_vars
  PROVE  \/ UNCHANGED <<order, position>>
         \/ \E c \in Callers : PlaceFilled(c) \/ Record(c)
         \/ \E k \in Closers, f \in Fills : ClosePosition(k, f)
         \/ \E k \in Closers : BookExit(k)
         \/ Restart
<1>1. ASSUME NEW c \in Callers, CallStep(c)
      PROVE  UNCHANGED <<order, position>> \/ PlaceFilled(c) \/ Record(c)
  BY <1>1 DEF CallStep, Admit, RiskPassed, Refused, Reserve, PlaceRefused, RecordFails
<1>2. ASSUME NEW k \in Closers, CloseStep(k)
      PROVE  \/ UNCHANGED <<order, position>> \/ BookExit(k)
             \/ \E f \in Fills : ClosePosition(k, f)
  BY <1>2 DEF CloseStep, CloseFails, BookFails, CountResult, CountFails, CloseDone
<1>3. ASSUME \/ Scan \/ \E f \in Fills : NotHit(f) \/ \E k \in Closers : RequestClose(k, f)
      PROVE  UNCHANGED <<order, position>>
  BY <1>3 DEF Scan, NotHit, RequestClose
<1>4. ASSUME \/ StartEngine \/ StopEngine \/ ActivateStop \/ FinishStop \/ ClearStop
             \/ RedisFails \/ RedisReconnects \/ (\E s \in Symbols : PriceMoves(s)) \/ UNCHANGED vars
      PROVE  UNCHANGED <<order, position>>
  BY <1>4 DEF StartEngine, StopEngine, ActivateStop, FinishStop, ClearStop, RedisFails,
     RedisReconnects, PriceMoves, vars
<1> QED
  BY <1>1, <1>2, <1>3, <1>4 DEF Next, MonitorStep, Closers

\* The calls change by their own steps, by cancellation or by a restart.
LEMMA CallMoves ==
  ASSUME [Next]_vars
  PROVE  \/ \E c \in Callers : CallStep(c)
         \/ call' = call
         \/ \A c \in Callers : call'[c] = call[c] \/ call'[c] = IdleCall
<1>1. ASSUME NEW k \in Closers,
             CloseStep(k) \/ MonitorStep \/ \E f \in Fills : RequestClose(k, f)
      PROVE  call' = call
  BY <1>1 DEF CloseStep, MonitorStep, RequestClose, Scan, NotHit, CloseFails, ClosePosition,
     BookExit, BookFails, CountResult, CountFails, CloseDone, callVars
<1>2. ASSUME \/ StartEngine \/ ActivateStop \/ ClearStop \/ RedisFails \/ RedisReconnects
             \/ (\E s \in Symbols : PriceMoves(s)) \/ UNCHANGED vars
      PROVE  call' = call
  BY <1>2 DEF StartEngine, ActivateStop, ClearStop, RedisFails, RedisReconnects, PriceMoves,
     callVars, vars
<1>3. ASSUME StopEngine \/ FinishStop \/ Restart
      PROVE  \A c \in Callers : call'[c] = call[c] \/ call'[c] = IdleCall
  BY <1>3 DEF StopEngine, FinishStop, KillTasks, Restart
<1>4. Monitor \in Closers
  BY DEF Closers
<1> QED
  BY <1>1, <1>2, <1>3, <1>4 DEF Next, Closers

\* Symbols stay known.
LEMMA SymbolsStayKnown ==
  ASSUME TypeOK, LedgerInv, SymbolsKnown, [Next]_vars
  PROVE  SymbolsKnown'
<1>0. /\ order \in [Fills -> OrderState] /\ call \in [Callers -> CallState]
      /\ \A f \in Fills : order[f].state # "none" => order[f].symbol \in Symbols
  BY DEF TypeOK, SymbolsKnown
<1> DEFINE Orders == \A f \in Fills : order'[f].state # "none" => order'[f].symbol \in Symbols
<1>1. ASSUME NEW c \in Callers, PlaceFilled(c) PROVE Orders
  <2>1. call[c].symbol \in Symbols
    BY <1>1 DEF PlaceFilled, SymbolsKnown
  <2> QED
    BY <1>0, <1>1, <2>1 DEF PlaceFilled
<1>2. ASSUME NEW c \in Callers, Record(c) PROVE Orders
  <2>1. call[c].fill \in Fills /\ order[call[c].fill].state = "filled"
    BY <1>2 DEF Record, LedgerInv, FillsTracked
  <2> QED
    BY <1>0, <1>2, <2>1 DEF Record, OrderState
<1>3. ASSUME NEW k \in Closers, BookExit(k) PROVE Orders
  <2>1. close[k].fill \in Fills /\ order[close[k].fill].state # "none"
    BY <1>3 DEF BookExit, LedgerInv, ClosersHoldRows, Recorded
  <2> QED
    BY <1>0, <1>3, <2>1 DEF BookExit, OrderState
<1>4. ASSUME order' = order PROVE Orders
  BY <1>0, <1>4
<1>5. Orders
  <2> HIDE DEF Orders
  <2>1. ASSUME NEW k \in Closers, NEW f \in Fills, ClosePosition(k, f) PROVE order' = order
    BY <2>1 DEF ClosePosition
  <2>2. ASSUME Restart PROVE order' = order
    BY <2>2 DEF Restart
  <2> QED
    BY <1>1, <1>2, <1>3, <1>4, <2>1, <2>2, LedgerMoves
<1>6. \A c \in Callers : call'[c].pc # "idle" => call'[c].symbol \in Symbols
  BY CallMoves, CallKeepsSymbol DEF SymbolsKnown, IdleCall
<1> QED
  BY <1>5, <1>6 DEF SymbolsKnown

(***************************************************************************)
(* The refinement, one lemma for each step of the ledger.                  *)
(***************************************************************************)
Filled == {f \in Fills : order[f].state # "none"}
Rows == [f \in Fills |-> Row(f)]

Mapped ==
  /\ TypeOK /\ LedgerInv /\ SymbolsKnown
  /\ order \in [Fills -> OrderState] /\ position \in [Symbols -> 0..MaxFills]
  /\ call \in [Callers -> CallState]

\* A filled order is a new one, and its position is filed where none was.
LEMMA FillIsFill ==
  ASSUME Mapped, NEW c \in Callers, PlaceFilled(c)
  PROVE  Ledger!Next
<1> DEFINE s == call[c].symbol
<1>1. s \in Symbols /\ position[s] = 0
  BY DEF PlaceFilled, Mapped, SymbolsKnown
<1>2. PICK f \in Fills : f = lastFill + 1 /\ f # 0 /\ order[f].state = "none"
  BY OrderConstants DEF PlaceFilled, Mapped, TypeOK, Fills, LedgerInv, FillsNumbered
<1>3. /\ position' = [position EXCEPT ![s] = f]
      /\ order' = [order EXCEPT ![f] = [state |-> "filled", no |-> counter + 1, symbol |-> s]]
  BY <1>2 DEF PlaceFilled
<1> HIDE DEF s
<1>4. /\ order'[f].state = "filled"
      /\ \A g \in Fills \ {f} : order'[g] = order[g]
  BY <1>2, <1>3 DEF Mapped
<1>5. Filled' = Filled \cup {f} /\ f \notin Filled
  BY <1>2, <1>4 DEF Filled
<1>6. Held' = Held \cup {f}
  BY <1>1, <1>2, <1>3 DEF Held, Mapped
<1>7. Rows' = Rows
  BY <1>2, <1>4 DEF Rows, Row
<1>8. Ledger!Fill(f)
  BY <1>5, <1>6, <1>7 DEF Ledger!Fill, Filled, Rows
<1> QED
  BY <1>8 DEF Ledger!Next

\* The commit of a new row.
LEMMA RecordIsInsert ==
  ASSUME Mapped, NEW c \in Callers, Record(c)
  PROVE  Ledger!Next
<1> DEFINE f == call[c].fill
<1>1. f \in Fills /\ order[f].state = "filled" /\ position' = position
  BY DEF Record, Mapped, LedgerInv, FillsTracked
<1>2. order' = [order EXCEPT ![f].state = "open"]
  BY DEF Record
<1> HIDE DEF f
<1>3. /\ order'[f].state = "open"
      /\ \A g \in Fills \ {f} : order'[g] = order[g]
  BY <1>1, <1>2 DEF Mapped, OrderState
<1>4. Filled' = Filled /\ f \in Filled /\ Held' = Held
  BY <1>1, <1>3 DEF Filled, Held
<1>5. Rows[f] = "none" /\ Rows' = [Rows EXCEPT ![f] = "open"]
  BY <1>1, <1>3 DEF Rows, Row
<1>6. Ledger!Insert(f)
  BY <1>4, <1>5 DEF Ledger!Insert, Filled, Rows
<1> QED
  BY <1>1, <1>6 DEF Ledger!Next

\* The broker closes what it holds on the symbol, under whichever order.
LEMMA CloseIsLeave ==
  ASSUME Mapped, NEW k \in Closers, NEW f \in Fills, ClosePosition(k, f)
  PROVE  Ledger!Next
<1> DEFINE s == order[f].symbol
           g == position[s]
<1>1. s \in Symbols
  <2>1. Recorded(f)
    BY DEF ClosePosition, Mapped, LedgerInv, ClosersHoldRows
  <2> QED
    BY <2>1 DEF Recorded, Mapped, SymbolsKnown
<1>2. /\ g # 0 /\ order' = order
      /\ position' = [position EXCEPT ![s] = 0]
  BY DEF ClosePosition
<1>3. g \in Fills
  BY <1>1, <1>2, OrderConstants DEF Mapped, Fills
<1>4. \A t \in Symbols : position[t] = g => t = s
  BY <1>1, <1>2 DEF Mapped, LedgerInv, PositionsFiled
<1>5. \A t \in Symbols : position'[t] = IF t = s THEN 0 ELSE position[t]
  BY <1>1, <1>2 DEF Mapped
<1>6. Held' = Held \ {g} /\ g \in Held
  BY <1>1, <1>2, <1>4, <1>5 DEF Held
<1>7. Filled' = Filled /\ Rows' = Rows
  BY <1>2 DEF Filled, Rows, Row
<1>8. Ledger!Leave(g)
  BY <1>6, <1>7 DEF Ledger!Leave, Filled, Rows
<1> QED
  BY <1>3, <1>8 DEF Ledger!Next

\* The commit of an exit closes an open row whose position is gone; that of a
\* second exit of the same trade changes no state.
LEMMA BookIsClose ==
  ASSUME Mapped, NEW k \in Closers, BookExit(k)
  PROVE  [Ledger!Next]_<<Filled, Held, Rows>>
<1> DEFINE f == close[k].fill
<1>1. /\ f \in Fills /\ Recorded(f) /\ position' = position
      /\ \A s \in Symbols : position[s] # f
  BY DEF BookExit, Mapped, LedgerInv, ClosersHoldRows
<1>2. order' = [order EXCEPT ![f].state = "closed"] /\ f # 0
  BY <1>1 DEF BookExit, Fills
<1> HIDE DEF f
<1>3. /\ order'[f].state = "closed"
      /\ \A g \in Fills \ {f} : order'[g] = order[g]
  BY <1>1, <1>2 DEF Mapped, OrderState
<1>4. Filled' = Filled /\ Held' = Held /\ f \notin Held
  BY <1>1, <1>3 DEF Filled, Held, Recorded
<1>5. CASE order[f].state = "open"
  <2>1. Rows[f] = "open" /\ Rows' = [Rows EXCEPT ![f] = "closed"]
    BY <1>1, <1>3, <1>5 DEF Rows, Row
  <2>2. Ledger!Close(f)
    BY <1>4, <2>1 DEF Ledger!Close, Filled, Rows
  <2> QED
    BY <1>1, <2>2 DEF Ledger!Next
<1>6. CASE order[f].state = "closed"
  <2>1. Rows' = Rows
    BY <1>1, <1>3, <1>6 DEF Rows, Row
  <2> QED
    BY <1>4, <2>1
<1> QED
  BY <1>1, <1>5, <1>6 DEF Recorded

\* A restart empties the paper broker.
LEMMA RestartIsForget ==
  ASSUME Mapped, Restart
  PROVE  Ledger!Next
<1>1. order' = order /\ \A s \in Symbols : position'[s] = 0
  BY DEF Restart
<1>2. Held' = {} /\ Filled' = Filled /\ Rows' = Rows
  BY <1>1 DEF Held, Filled, Rows, Row
<1> QED
  BY <1>2 DEF Ledger!Next, Ledger!Forget, Filled, Rows

\* The order path implements the ledger: an order is filled once, its position
\* leaves the broker once, and its row is inserted once and closed only when the
\* position is gone (execute_signal and close_trade, engines/execution.py, lines 49
\* and 283).
THEOREM OrderPathKeepsLedger == Spec => LedgerKept
<1>1. Init => SymbolsKnown
  BY DEF Init, IdleCall, SymbolsKnown
<1>2. TypeOK /\ LedgerInv /\ SymbolsKnown /\ [Next]_vars => SymbolsKnown'
  BY SymbolsStayKnown
<1>3. Init => Ledger!Init
  <2> SUFFICES ASSUME Init PROVE Ledger!Init
    OBVIOUS
  <2>1. Filled = {} /\ Held = {} /\ Rows = [f \in Fills |-> "none"]
    BY DEF Init, Filled, Held, Rows, Row
  <2> QED
    BY <2>1 DEF Ledger!Init, Filled, Rows
<1>4. TypeOK /\ LedgerInv /\ SymbolsKnown /\ [Next]_vars
        => [Ledger!Next]_<<{f \in Fills : order[f].state # "none"}, Held, [f \in Fills |-> Row(f)]>>
  <2> SUFFICES ASSUME TypeOK, LedgerInv, SymbolsKnown, [Next]_vars
               PROVE  [Ledger!Next]_<<Filled, Held, Rows>>
    BY DEF Filled, Rows
  <2>1. Mapped
    BY DEF Mapped, TypeOK
  <2>2. ASSUME UNCHANGED <<order, position>> PROVE UNCHANGED <<Filled, Held, Rows>>
    BY <2>2 DEF Filled, Held, Rows, Row
  <2> QED
    BY <2>1, <2>2, LedgerMoves, FillIsFill, RecordIsInsert, CloseIsLeave, BookIsClose,
       RestartIsForget
<1> QED
  BY <1>1, <1>2, <1>3, <1>4, TypeCorrect, LedgerHolds, PTL
     DEF Spec, LedgerKept, Ledger!Spec, Ledger!ledger

(***************************************************************************)
(* Every committed exit is counted.  The account is kept per fill: a step  *)
(* moves one unit of one fill from the closers that are about to count it  *)
(* to the counter, or to the history of what was cut off.                  *)
(***************************************************************************)
Counting(f) == {k \in Closers : close[k].pc = "count" /\ close[k].fill = f}

\* Closers are finitely many, and so are those about to count a fill.
LEMMA CountingFinite ==
  ASSUME NEW f
  PROVE  /\ IsFiniteSet(Counting(f)) /\ Cardinality(Counting(f)) \in Nat
         /\ IsFiniteSet(Counting(f)') /\ Cardinality(Counting(f)') \in Nat
<1>1. Counting(f) \in SUBSET Closers /\ Counting(f)' \in SUBSET Closers
  BY DEF Counting
<1>2. IsFiniteSet(Counting(f)) /\ IsFiniteSet(Counting(f)')
  BY <1>1, OrderConstants, FS_Subset
<1>3. QED
  BY <1>2, FS_CardinalityType

\* A step that keeps the accounts, and lets no closer begin or end its counting,
\* keeps the balance.
LEMMA CountingUntouched ==
  ASSUME EveryExitCounted, UNCHANGED <<exits, counted, dropped>>,
         \A k \in Closers : close'[k] = close[k] \/ (close[k].pc # "count" /\ close'[k].pc # "count")
  PROVE  EveryExitCounted'
<1>1. \A f \in Fills : Counting(f)' = Counting(f)
  BY DEF Counting
<1>2. QED
  BY <1>1 DEF EveryExitCounted, Counting

\* The exit is committed, and its closer is about to count it.
LEMMA BookExitBalances ==
  ASSUME TypeOK, EveryExitCounted, NEW k \in Closers, BookExit(k)
  PROVE  EveryExitCounted'
<1> SUFFICES ASSUME NEW f \in Fills
             PROVE  exits'[f] = counted'[f] + dropped'[f] + Cardinality(Counting(f)')
  BY DEF EveryExitCounted, Counting
<1>1. exits[f] = counted[f] + dropped[f] + Cardinality(Counting(f))
  BY DEF EveryExitCounted, Counting
<1>2. /\ exits[f] \in Nat /\ counted[f] \in Nat /\ dropped[f] \in Nat
      /\ counted' = counted /\ dropped' = dropped
  BY DEF TypeOK, BookExit
<1>3. CASE close[k].fill = f
  <2>1. exits'[f] = exits[f] + 1
    BY <1>3 DEF TypeOK, BookExit
  <2>2. Counting(f)' = Counting(f) \cup {k} /\ k \notin Counting(f)
    BY <1>3 DEF TypeOK, CloseState, BookExit, Counting
  <2>3. Cardinality(Counting(f)') = Cardinality(Counting(f)) + 1
    BY <2>2, CountingFinite, FS_AddElement
  <2>4. QED
    BY <1>1, <1>2, <2>1, <2>3, CountingFinite
<1>4. CASE close[k].fill # f
  <2>1. exits'[f] = exits[f]
    BY <1>4 DEF TypeOK, BookExit
  <2>2. Counting(f)' = Counting(f)
    BY <1>4 DEF TypeOK, CloseState, BookExit, Counting
  <2>3. QED
    BY <1>1, <1>2, <2>1, <2>2
<1>5. QED
  BY <1>3, <1>4

\* update_trade_result takes the exit into the counters.
LEMMA CountResultBalances ==
  ASSUME TypeOK, EveryExitCounted, NEW k \in Closers, CountResult(k)
  PROVE  EveryExitCounted'
<1> SUFFICES ASSUME NEW f \in Fills
             PROVE  exits'[f] = counted'[f] + dropped'[f] + Cardinality(Counting(f)')
  BY DEF EveryExitCounted, Counting
<1>1. exits[f] = counted[f] + dropped[f] + Cardinality(Counting(f))
  BY DEF EveryExitCounted, Counting
<1>2. /\ exits[f] \in Nat /\ counted[f] \in Nat /\ dropped[f] \in Nat
      /\ exits' = exits /\ dropped' = dropped
  BY DEF TypeOK, CountResult
<1>3. CASE close[k].fill = f
  <2>1. counted'[f] = counted[f] + 1
    BY <1>3 DEF TypeOK, CountResult
  <2>2. Counting(f)' = Counting(f) \ {k} /\ k \in Counting(f)
    BY <1>3 DEF TypeOK, CloseState, CountResult, Counting
  <2>3. Cardinality(Counting(f)') = Cardinality(Counting(f)) - 1
    BY <2>2, CountingFinite, FS_RemoveElement
  <2>4. QED
    BY <1>1, <1>2, <2>1, <2>3, CountingFinite
<1>4. CASE close[k].fill # f
  <2>1. counted'[f] = counted[f]
    BY <1>4 DEF TypeOK, CountResult
  <2>2. Counting(f)' = Counting(f)
    BY <1>4 DEF TypeOK, CloseState, CountResult, Counting
  <2>3. QED
    BY <1>1, <1>2, <2>1, <2>2
<1>5. QED
  BY <1>3, <1>4

\* An update that failed leaves its exit uncounted, and says so.
LEMMA CountFailsBalances ==
  ASSUME TypeOK, EveryExitCounted, NEW k \in Closers, CountFails(k)
  PROVE  EveryExitCounted'
<1> SUFFICES ASSUME NEW f \in Fills
             PROVE  exits'[f] = counted'[f] + dropped'[f] + Cardinality(Counting(f)')
  BY DEF EveryExitCounted, Counting
<1>1. exits[f] = counted[f] + dropped[f] + Cardinality(Counting(f))
  BY DEF EveryExitCounted, Counting
<1>2. /\ exits[f] \in Nat /\ counted[f] \in Nat /\ dropped[f] \in Nat
      /\ exits' = exits /\ counted' = counted
  BY DEF TypeOK, CountFails
<1>3. CASE close[k].fill = f
  <2>1. dropped'[f] = dropped[f] + 1
    BY <1>3 DEF TypeOK, CountFails
  <2>2. Counting(f)' = Counting(f) \ {k} /\ k \in Counting(f)
    BY <1>3 DEF TypeOK, CloseState, CountFails, IdleClose, Counting
  <2>3. Cardinality(Counting(f)') = Cardinality(Counting(f)) - 1
    BY <2>2, CountingFinite, FS_RemoveElement
  <2>4. QED
    BY <1>1, <1>2, <2>1, <2>3, CountingFinite
<1>4. CASE close[k].fill # f
  <2>1. dropped'[f] = dropped[f]
    BY <1>4 DEF TypeOK, CountFails
  <2>2. Counting(f)' = Counting(f)
    BY <1>4 DEF TypeOK, CloseState, CountFails, IdleClose, Counting
  <2>3. QED
    BY <1>1, <1>2, <2>1, <2>2
<1>5. QED
  BY <1>3, <1>4

\* A cancelled monitor loses the count it was about to make, and no other.
LEMMA KillBalances ==
  ASSUME TypeOK, EveryExitCounted, KillTasks, UNCHANGED <<exits, counted>>
  PROVE  EveryExitCounted'
<1> SUFFICES ASSUME NEW f \in Fills
             PROVE  exits'[f] = counted'[f] + dropped'[f] + Cardinality(Counting(f)')
  BY DEF EveryExitCounted, Counting
<1>1. exits[f] = counted[f] + dropped[f] + Cardinality(Counting(f))
  BY DEF EveryExitCounted, Counting
<1>2. exits[f] \in Nat /\ counted[f] \in Nat /\ dropped[f] \in Nat
  BY DEF TypeOK
<1>3. Counting(f)' = Counting(f) \ {Monitor} /\ (Monitor \in Counting(f) <=> Cancelled(f))
  BY DEF TypeOK, KillTasks, IdleClose, Counting, Cancelled, Closers
<1>4. dropped'[f] = dropped[f] + IF Cancelled(f) THEN 1 ELSE 0
  BY DEF KillTasks
<1>5. Cardinality(Counting(f)') =
        IF Cancelled(f) THEN Cardinality(Counting(f)) - 1 ELSE Cardinality(Counting(f))
  BY <1>3, CountingFinite, FS_RemoveElement
<1>6. QED
  BY <1>1, <1>2, <1>4, <1>5, CountingFinite

\* The dead process loses every count under way.
LEMMA RestartBalances ==
  ASSUME TypeOK, EveryExitCounted, Restart
  PROVE  EveryExitCounted'
<1> SUFFICES ASSUME NEW f \in Fills
             PROVE  exits'[f] = counted'[f] + dropped'[f] + Cardinality(Counting(f)')
  BY DEF EveryExitCounted, Counting
<1>1. exits[f] = counted[f] + dropped[f] + Cardinality(Counting(f))
  BY DEF EveryExitCounted, Counting
<1>2. /\ exits[f] \in Nat /\ counted[f] \in Nat /\ dropped[f] \in Nat
      /\ exits' = exits /\ counted' = counted
  BY DEF TypeOK, Restart
<1>3. dropped'[f] = dropped[f] + Cardinality(Counting(f))
  BY DEF Restart, Counting
<1>4. Counting(f)' = {}
  BY DEF Restart, IdleClose, Counting
<1>5. QED
  BY <1>1, <1>2, <1>3, <1>4, CountingFinite, FS_EmptySet

\* Every exit committed by close_trade reaches the risk counters exactly once, or
\* belongs to a task that was cut off between the two commits or whose second commit
\* failed, whatever the number of closers and however often one trade is closed.
THEOREM ExitsCounted == Spec => []EveryExitCounted
<1>1. Init => EveryExitCounted
  <2> SUFFICES ASSUME Init, NEW f \in Fills
               PROVE  exits[f] = counted[f] + dropped[f] + Cardinality(Counting(f))
    BY DEF EveryExitCounted, Counting
  <2>1. Counting(f) = {}
    BY DEF Init, IdleClose, Counting
  <2>2. QED
    BY <2>1, FS_EmptySet DEF Init
<1>2. TypeOK /\ EveryExitCounted /\ [Next]_vars => EveryExitCounted'
  <2> SUFFICES ASSUME TypeOK, EveryExitCounted, [Next]_vars PROVE EveryExitCounted'
    OBVIOUS
  <2>1. CASE UNCHANGED <<close, exits, counted, dropped>>
    BY <2>1, CountingUntouched
  <2>2. ASSUME NEW k \in Closers,
               CloseStep(k) \/ (\E f \in Fills : RequestClose(k, f))
                 \/ (k = Monitor /\ (Scan \/ \E f \in Fills : NotHit(f)))
        PROVE  EveryExitCounted'
    <3>1. CASE BookExit(k) \/ CountResult(k) \/ CountFails(k)
      BY <3>1, BookExitBalances, CountResultBalances, CountFailsBalances
    <3>2. CASE ~(BookExit(k) \/ CountResult(k) \/ CountFails(k))
      <4>1. UNCHANGED <<exits, counted, dropped>>
        BY <2>2, <3>2 DEF CloseStep, RequestClose, Scan, NotHit, CloseFails, ClosePosition,
           BookFails, CloseDone
      <4>2. /\ close[k].pc # "count" /\ close'[k].pc # "count"
            /\ \A m \in Closers \ {k} : close'[m] = close[m]
        BY <2>2, <3>2 DEF TypeOK, CloseState, CloseStep, RequestClose, Scan, NotHit, CloseFails,
           ClosePosition, BookFails, CloseDone, IdleClose
      <4>3. QED
        BY <4>1, <4>2, CountingUntouched
    <3>3. QED
      BY <3>1, <3>2
  <2>3. ASSUME NEW c \in Callers, CallStep(c) PROVE EveryExitCounted'
    BY <2>1, <2>3 DEF CallStep, Admit, RiskPassed, Refused, Reserve, PlaceFilled, PlaceRefused,
       Record, RecordFails, closeVars
  <2>4. CASE StopEngine \/ FinishStop
    BY <2>4, KillBalances DEF StopEngine, FinishStop
  <2>5. CASE Restart
    BY <2>5, RestartBalances
  <2>6. CASE \/ StartEngine \/ ActivateStop \/ ClearStop
             \/ RedisFails \/ RedisReconnects \/ \E s \in Symbols : PriceMoves(s)
    BY <2>1, <2>6 DEF StartEngine, ActivateStop, ClearStop, RedisFails, RedisReconnects,
       PriceMoves, closeVars
  <2>7. QED
    BY <2>1, <2>2, <2>3, <2>4, <2>5, <2>6 DEF Next, MonitorStep, vars, Closers
<1>3. QED
  BY <1>1, <1>2, TypeCorrect, PTL DEF Spec
=============================================================================
