--------------------------- MODULE RedisGuardsProofs ---------------------------
(***************************************************************************)
(* Proofs about RedisClient and RedisGuards, for any finite set of tasks,  *)
(* any threshold and any number of attempts: the circuit never contradicts *)
(* the connection, the client implements RedisHealth, the specification    *)
(* OrderExecution is built on, and the guards keep what they promise.      *)
(***************************************************************************)
EXTENDS RedisGuards, FiniteSetTheorems, TLAPS

(***************************************************************************)
(* The circuit.  CircuitInv is inductive without a type: a step that opens *)
(* the circuit clears the connection, and one that connects closes it.     *)
(***************************************************************************)
\* A counted failure clears the connection, whatever it does to the circuit.
LEMMA FailureDisconnects ==
  ASSUME CountFailure
  PROVE  CircuitInv' /\ ~connected'
BY DEF CountFailure, CircuitInv

\* Every step of the client keeps the circuit and the connection consistent.
LEMMA CircuitStep ==
  ASSUME CircuitInv, [ClientNext]_clientVars
  PROVE  CircuitInv'
<1>1. ASSUME NEW t \in Tasks, Begin(t) PROVE CircuitInv'
  BY <1>1 DEF Begin, CircuitInv
<1>2. ASSUME NEW t \in Tasks, PingOk(t) \/ WakeAgain(t) \/ GiveUp(t) \/ Apply(t) \/ Reply(t)
      PROVE  CircuitInv'
  BY <1>2 DEF PingOk, WakeAgain, GiveUp, Apply, Reply, CircuitInv
<1>3. ASSUME NEW t \in Tasks, PingFails(t) PROVE CircuitInv'
  BY <1>3 DEF PingFails, CircuitInv
<1>4. ASSUME NEW t \in Tasks, ConnectOk(t) PROVE CircuitInv'
  BY <1>4 DEF ConnectOk, CircuitInv
<1>5. ASSUME NEW t \in Tasks, ConnectFails(t) \/ CommandFails(t) PROVE CircuitInv'
  BY <1>5, FailureDisconnects DEF ConnectFails, CommandFails
<1>6. ASSUME ServerFails \/ ServerBack \/ CircuitTimer \/ ClientRestart PROVE CircuitInv'
  BY <1>6 DEF ServerFails, ServerBack, CircuitTimer, ClientRestart, CircuitInv
<1>7. CASE UNCHANGED clientVars
  BY <1>7 DEF clientVars, CircuitInv
<1> QED
  BY <1>1, <1>2, <1>3, <1>4, <1>5, <1>6, <1>7 DEF ClientNext

\* Nobody reads "connected" while the circuit refuses commands: is_healthy of
\* core/redis.py, line 50, has one meaning for every user of the client.
THEOREM CircuitConsistent == ClientSpec => []CircuitInv
<1>1. ClientInit => CircuitInv
  BY DEF ClientInit, CircuitInv
<1> QED
  BY <1>1, CircuitStep, PTL DEF ClientSpec

(***************************************************************************)
(* The refinement.  Only a step from "down" to "failing" is forbidden: a   *)
(* step that makes the client healthy must have been answered by a server. *)
(***************************************************************************)
\* A client becomes healthy by a connection that was answered, never by the time
\* of its circuit running out.
LEMMA HealthyOnceAnswered ==
  ASSUME CircuitInv, [ClientNext]_clientVars, ~Healthy, Healthy'
  PROVE  server'
<1>1. ASSUME NEW t \in Tasks, Begin(t) PROVE FALSE
  BY <1>1 DEF Begin, CircuitInv, Healthy
<1>2. ASSUME NEW t \in Tasks,
             PingOk(t) \/ PingFails(t) \/ WakeAgain(t) \/ GiveUp(t) \/ Apply(t) \/ Reply(t)
      PROVE  FALSE
  BY <1>2 DEF PingOk, PingFails, WakeAgain, GiveUp, Apply, Reply, Healthy
<1>3. ASSUME NEW t \in Tasks, ConnectOk(t) PROVE server'
  BY <1>3 DEF ConnectOk
<1>4. ASSUME NEW t \in Tasks, ConnectFails(t) \/ CommandFails(t) PROVE FALSE
  BY <1>4, FailureDisconnects DEF ConnectFails, CommandFails, Healthy
<1>5. ASSUME ServerFails \/ ServerBack \/ CircuitTimer PROVE FALSE
  BY <1>5 DEF ServerFails, ServerBack, CircuitTimer, Healthy
<1>6. ASSUME ClientRestart PROVE server'
  BY <1>6 DEF ClientRestart
<1>7. CASE UNCHANGED clientVars
  BY <1>7 DEF clientVars, Healthy
<1> QED
  BY <1>1, <1>2, <1>3, <1>4, <1>5, <1>6, <1>7 DEF ClientNext

\* The client implements RedisHealth.
THEOREM ClientImplementsHealth == ClientSpec => HealthKept
<1> DEFINE h == IF ~Healthy THEN "down" ELSE IF server THEN "up" ELSE "failing"
<1>1. ClientInit => Health!Init
  BY DEF ClientInit, Healthy, Health!Init
<1>2. ASSUME CircuitInv, [ClientNext]_clientVars
      PROVE  [Health!Next]_h
  <2>1. CASE ~Healthy'
    BY <2>1 DEF Health!Next, Health!Notice
  <2>2. CASE Healthy' /\ server'
    BY <2>2 DEF Health!Next, Health!Recover
  <2>3. CASE Healthy' /\ ~server'
    <3>1. Healthy
      BY <1>2, <2>3, HealthyOnceAnswered
    <3> QED
      BY <2>3, <3>1 DEF Health!Next, Health!Break
  <2> QED
    BY <2>1, <2>2, <2>3
<1> QED
  BY <1>1, <1>2, CircuitConsistent, PTL DEF ClientSpec, HealthKept, Health!Spec

(***************************************************************************)
(* The users of the client keep to it, so that its facts are theirs.       *)
(***************************************************************************)
\* Whatever the guard and the stop do on top of it, the client takes a step of its
\* own or none.
LEMMA GuardsStepClient == [Next]_vars => [ClientNext]_clientVars
<1> SUFFICES ASSUME [Next]_vars PROVE [ClientNext]_clientVars
  OBVIOUS
<1>1. ASSUME NEW t \in Tasks, Other(t) \/ ReserveRedis(t) PROVE [ClientNext]_clientVars
  BY <1>1 DEF Other, ReserveRedis, ClientNext
<1>2. ASSUME NEW t \in Tasks, ReserveLocal(t) PROVE [ClientNext]_clientVars
  BY <1>2 DEF ReserveLocal
<1>3. ASSUME NEW t \in Tasks,
             Fill(t) \/ Reject(t) \/ \E kind \in StopCommands : StopCommand(t, kind)
      PROVE  [ClientNext]_clientVars
  BY <1>3 DEF Fill, Reject, StopCommand, Issue, ClientNext
<1>4. ASSUME NEW t \in Tasks, TaskStep(t) PROVE [ClientNext]_clientVars
  BY <1>4 DEF TaskStep, Connection, Execute, Answer, NoAnswer, ClientNext
<1>5. ASSUME Environment \/ Restart PROVE [ClientNext]_clientVars
  BY <1>5 DEF Environment, Restart, ClientNext
<1>6. CASE UNCHANGED vars
  BY <1>6 DEF vars, clientVars
<1> QED
  BY <1>1, <1>2, <1>3, <1>4, <1>5, <1>6 DEF Next

\* The guard and the stop run on RedisClient.
THEOREM GuardsUseClient == Spec => ClientSpec
<1>1. Init => ClientInit
  BY DEF Init
<1> QED
  BY <1>1, GuardsStepClient, PTL DEF Spec, ClientSpec

\* The circuit under the load of the guard and the stop.
THEOREM CircuitUnderGuards == Spec => []CircuitInv
  BY GuardsUseClient, CircuitConsistent, PTL

\* Under the same load the client implements RedisHealth.
THEOREM HealthUnderGuards == Spec => HealthKept
  BY GuardsUseClient, ClientImplementsHealth, PTL

(***************************************************************************)
(* The idempotency guard and the emergency stop.                           *)
(***************************************************************************)
\* A task that is about to connect, now or after its ping has failed, has an attempt
\* left.
AttemptsLeft ==
  \A t \in Tasks : task[t].pc \in {"ping", "connect"} => task[t].tries < MaxAttempts

(***************************************************************************)
(* Types.                                                                  *)
(***************************************************************************)
Steps == {"idle", "ping", "connect", "sleep", "command", "reply"}

\* A counted failure stays within the counter and the states of the circuit.
LEMMA FailureTypes ==
  ASSUME ClientTypeOK, CountFailure
  PROVE  dropped' \in BOOLEAN /\ connected' \in BOOLEAN
         /\ circuit' \in {"closed", "open", "expired"} /\ failures' \in 0..Threshold
<1>1. failures \in 0..Threshold /\ circuit \in {"closed", "open", "expired"}
  BY DEF ClientTypeOK
<1>2. failures' \in 0..Threshold
  BY <1>1, ClientConstants DEF CountFailure
<1>3. circuit' \in {"closed", "open", "expired"}
  BY <1>1 DEF CountFailure
<1>4. dropped' \in BOOLEAN /\ connected' \in BOOLEAN
  BY DEF CountFailure
<1> QED
  BY <1>2, <1>3, <1>4

\* A task that moves to a step with an attempt left where one is needed.
LEMMA TaskMoves ==
  ASSUME task \in [Tasks -> TaskState], AttemptsLeft, NEW t \in Tasks,
         NEW pc \in Steps, NEW n \in 0..MaxAttempts,
         pc \in {"ping", "connect"} => n < MaxAttempts,
         task' = [task EXCEPT ![t] = At(pc, n)]
  PROVE  task' \in [Tasks -> TaskState] /\ AttemptsLeft'
<1>1. At(pc, n) \in TaskState
  BY DEF At, TaskState, Steps
<1>2. At(pc, n).pc = pc /\ At(pc, n).tries = n
  BY DEF At
<1>3. task' \in [Tasks -> TaskState]
  BY <1>1
<1>4. \A u \in Tasks : task'[u] = IF u = t THEN At(pc, n) ELSE task[u]
  OBVIOUS
<1> QED
  BY <1>2, <1>3, <1>4 DEF AttemptsLeft

\* The tasks keep their type and their attempts.
LEMMA TaskTypes ==
  ASSUME ClientTypeOK, AttemptsLeft, [ClientNext]_clientVars
  PROVE  task' \in [Tasks -> TaskState] /\ AttemptsLeft'
<1> DEFINE Kept == task' \in [Tasks -> TaskState] /\ AttemptsLeft'
<1>0. /\ task \in [Tasks -> TaskState]
      /\ \A t \in Tasks : task[t].tries \in 0..MaxAttempts
  BY DEF ClientTypeOK, TaskState
<1>1. ASSUME NEW t \in Tasks, Begin(t) PROVE Kept
  <2>1. PICK pc \in {"ping", "connect"} : task' = [task EXCEPT ![t] = At(pc, 0)]
    BY <1>1 DEF Begin
  <2>2. 0 \in 0..MaxAttempts /\ 0 < MaxAttempts
    BY ClientConstants
  <2> QED
    BY <1>0, <2>1, <2>2, TaskMoves DEF Steps
<1>2. ASSUME NEW t \in Tasks, PingOk(t) \/ ConnectOk(t) \/ Apply(t) PROVE Kept
  <2>1. PICK pc \in {"command", "reply"} : task' = [task EXCEPT ![t] = At(pc, task[t].tries)]
    BY <1>2 DEF PingOk, ConnectOk, Apply, Goto
  <2> QED
    BY <1>0, <2>1, TaskMoves DEF Steps
<1>3. ASSUME NEW t \in Tasks, PingFails(t) PROVE Kept
  <2>1. task' = [task EXCEPT ![t] = At("connect", task[t].tries)] /\ task[t].tries < MaxAttempts
    BY <1>3 DEF PingFails, Goto, AttemptsLeft
  <2> QED
    BY <1>0, <2>1, TaskMoves DEF Steps
<1>4. ASSUME NEW t \in Tasks, WakeAgain(t) PROVE Kept
  <2>1. PICK pc \in {"command", "connect"} : task' = [task EXCEPT ![t] = At(pc, task[t].tries)]
    BY <1>4 DEF WakeAgain, Goto
  <2>2. task[t].tries < MaxAttempts
    BY <1>4 DEF WakeAgain
  <2> QED
    BY <1>0, <2>1, <2>2, TaskMoves DEF Steps
<1>5. ASSUME NEW t \in Tasks, ConnectFails(t) PROVE Kept
  <2>1. task' = [task EXCEPT ![t] = At("sleep", task[t].tries + 1)] /\ task[t].tries < MaxAttempts
    BY <1>5 DEF ConnectFails, AttemptsLeft
  <2>2. task[t].tries + 1 \in 0..MaxAttempts
    BY <1>0, <2>1, ClientConstants
  <2> QED
    BY <1>0, <2>1, <2>2, TaskMoves DEF Steps
<1>6. ASSUME NEW t \in Tasks, GiveUp(t) \/ Reply(t) \/ CommandFails(t) PROVE Kept
  <2>1. task' = [task EXCEPT ![t] = At("idle", 0)]
    BY <1>6 DEF GiveUp, Reply, CommandFails, IdleTask
  <2>2. 0 \in 0..MaxAttempts
    BY ClientConstants
  <2> QED
    BY <1>0, <2>1, <2>2, TaskMoves DEF Steps
<1>7. ASSUME ServerFails PROVE Kept
  <2>1. \A t \in Tasks : /\ task'[t].pc = task[t].pc /\ task'[t].tries = task[t].tries
                         /\ task'[t].lost = (task[t].lost \/ OnWire(t))
    BY <1>7 DEF ServerFails
  <2>2. \A t \in Tasks : [pc |-> task[t].pc, tries |-> task[t].tries,
                          lost |-> task[t].lost \/ OnWire(t)] \in TaskState
    BY <1>0 DEF TaskState
  <2>3. task' \in [Tasks -> TaskState]
    BY <1>7, <2>2 DEF ServerFails
  <2> QED
    BY <2>1, <2>3 DEF AttemptsLeft
<1>8. ASSUME ClientRestart PROVE Kept
  <2>1. At("idle", 0) \in TaskState /\ At("idle", 0).pc = "idle"
    BY ClientConstants DEF At, TaskState
  <2>2. task' = [t \in Tasks |-> At("idle", 0)]
    BY <1>8 DEF ClientRestart, IdleTask
  <2> QED
    BY <2>1, <2>2 DEF AttemptsLeft
<1>9. ASSUME ServerBack \/ CircuitTimer \/ UNCHANGED clientVars PROVE Kept
  BY <1>0, <1>9 DEF ServerBack, CircuitTimer, clientVars, AttemptsLeft
<1> HIDE DEF Kept
<1> QED
  BY <1>1, <1>2, <1>3, <1>4, <1>5, <1>6, <1>7, <1>8, <1>9 DEF ClientNext, Kept

\* The client keeps its type.
LEMMA ClientTypes ==
  ASSUME ClientTypeOK, AttemptsLeft, [ClientNext]_clientVars
  PROVE  ClientTypeOK' /\ AttemptsLeft'
<1> DEFINE Flags == /\ server' \in BOOLEAN /\ dropped' \in BOOLEAN /\ connected' \in BOOLEAN
                    /\ circuit' \in {"closed", "open", "expired"} /\ failures' \in 0..Threshold
<1>0. 0 \in 0..Threshold
  BY ClientConstants
<1>1. ASSUME NEW t \in Tasks, Begin(t) \/ PingOk(t) \/ PingFails(t) \/ ConnectOk(t)
      PROVE  Flags
  BY <1>0, <1>1, Zenon DEF Begin, PingOk, PingFails, ConnectOk, ClientTypeOK
<1>2. ASSUME NEW t \in Tasks, WakeAgain(t) \/ GiveUp(t) \/ Apply(t) \/ Reply(t)
      PROVE  Flags
  BY <1>0, <1>2, Zenon DEF WakeAgain, GiveUp, Apply, Reply, ClientTypeOK
<1>3. ASSUME NEW t \in Tasks, ConnectFails(t) \/ CommandFails(t) PROVE Flags
  BY <1>3, FailureTypes DEF ConnectFails, CommandFails, ClientTypeOK
<1>4. ASSUME ServerFails \/ ServerBack \/ CircuitTimer \/ ClientRestart PROVE Flags
  <2>1. CASE ServerFails
    BY <2>1, Zenon DEF ServerFails, ClientTypeOK
  <2>2. CASE ServerBack
    BY <2>2, Zenon DEF ServerBack, ClientTypeOK
  <2>3. CASE CircuitTimer
    BY <2>3, Zenon DEF CircuitTimer, ClientTypeOK
  <2>4. CASE ClientRestart
    BY <1>0, <2>4, Zenon DEF ClientRestart, ClientTypeOK
  <2> QED
    BY <1>4, <2>1, <2>2, <2>3, <2>4
<1>5. ASSUME UNCHANGED clientVars PROVE Flags
  <2>1. /\ server' = server /\ dropped' = dropped /\ connected' = connected
        /\ circuit' = circuit /\ failures' = failures
    BY <1>5 DEF clientVars
  <2> QED
    BY <2>1, Zenon DEF ClientTypeOK
<1>6. Flags
  <2> HIDE DEF Flags
  <2> QED
    BY <1>1, <1>2, <1>3, <1>4, <1>5 DEF ClientNext
<1> QED
  BY <1>6, TaskTypes DEF ClientTypeOK

(***************************************************************************)
(* TypeOK of the whole.                                                    *)
(***************************************************************************)
Ops == [kind : Commands, store : Stores \cup {NoStore}]

\* The steps of the calls, in groups that change the same variables.
Starts(t) == Other(t) \/ ReserveRedis(t)
Ends(t) == Answer(t) \/ NoAnswer(t)

\* Every step is one of these.
LEMMA StepCases ==
  ASSUME [Next]_vars
  PROVE  \/ UNCHANGED <<op, guardVars, stopVars>>
         \/ \E t \in Tasks : Starts(t)
         \/ \E t \in Tasks : ReserveLocal(t)
         \/ \E t \in Tasks : Fill(t)
         \/ \E t \in Tasks : Reject(t)
         \/ \E t \in Tasks, kind \in StopCommands : StopCommand(t, kind)
         \/ \E t \in Tasks : Execute(t)
         \/ \E t \in Tasks : Ends(t)
         \/ Restart
<1>1. CASE UNCHANGED vars
  BY <1>1 DEF vars, guardVars, stopVars
<1>2. ASSUME NEW t \in Tasks, TaskStep(t)
      PROVE  UNCHANGED <<op, guardVars, stopVars>> \/ Execute(t) \/ Ends(t)
  BY <1>2 DEF TaskStep, Connection, Ends
<1>3. ASSUME Environment PROVE UNCHANGED <<op, guardVars, stopVars>>
  BY <1>3 DEF Environment
<1> QED
  BY <1>1, <1>2, <1>3 DEF Next, Starts

\* The commands of the calls.
LEMMA OpTypes ==
  ASSUME TypeOK, [Next]_vars
  PROVE  op' \in [Tasks -> Ops]
<1>0. op \in [Tasks -> Ops] /\ holds \in [Tasks -> Stores \cup {NoStore}]
  BY DEF TypeOK, Ops
<1>1. ASSUME NEW t \in Tasks, NEW kind \in Commands, NEW store \in Stores \cup {NoStore},
             Issue(t, kind, store)
      PROVE  op' \in [Tasks -> Ops]
  BY <1>0, <1>1 DEF Issue, Ops
<1>2. ASSUME NEW t \in Tasks, Starts(t) \/ Ends(t) PROVE op' \in [Tasks -> Ops]
  <2>1. \/ op' = [op EXCEPT ![t] = NoOp]
        \/ op' = [op EXCEPT ![t] = [kind |-> "reserve", store |-> NoStore]]
    BY <1>2 DEF Starts, Ends, Other, ReserveRedis, Answer, NoAnswer
  <2>2. NoOp \in Ops /\ [kind |-> "reserve", store |-> NoStore] \in Ops
    BY DEF NoOp, Ops, Commands
  <2> QED
    BY <1>0, <2>1, <2>2
<1>3. ASSUME NEW t \in Tasks, Fill(t) PROVE op' \in [Tasks -> Ops]
  <2>1. Issue(t, "complete", NoStore)
    BY <1>3 DEF Fill
  <2> QED
    BY <1>1, <2>1 DEF Commands
<1>4. ASSUME NEW t \in Tasks, Reject(t) PROVE op' \in [Tasks -> Ops]
  <2>1. Issue(t, "release", holds[t])
    BY <1>4 DEF Reject
  <2> QED
    BY <1>0, <1>1, <2>1 DEF Commands
<1>5. ASSUME NEW t \in Tasks, NEW kind \in StopCommands, StopCommand(t, kind)
      PROVE  op' \in [Tasks -> Ops]
  <2>1. Issue(t, kind, NoStore)
    BY <1>5 DEF StopCommand
  <2> QED
    BY <1>1, <2>1 DEF Commands, StopCommands
<1>6. ASSUME Restart PROVE op' \in [Tasks -> Ops]
  BY <1>6 DEF Restart, NoOp, Ops, Commands
<1>7. ASSUME UNCHANGED <<op, guardVars, stopVars>> \/ (\E t \in Tasks : ReserveLocal(t) \/ Execute(t))
      PROVE  op' \in [Tasks -> Ops]
  BY <1>0, <1>7 DEF ReserveLocal, Execute
<1> QED
  BY <1>2, <1>3, <1>4, <1>5, <1>6, <1>7, StepCases

\* The reservations and the orders placed under them.
LEMMA HolderTypes ==
  ASSUME TypeOK, [Next]_vars
  PROVE  holds' \in [Tasks -> Stores \cup {NoStore}] /\ orders' \in [Stores -> 0..2]
<1> DEFINE Typed == holds' \in [Tasks -> Stores \cup {NoStore}] /\ orders' \in [Stores -> 0..2]
<1>0. holds \in [Tasks -> Stores \cup {NoStore}] /\ orders \in [Stores -> 0..2]
  BY DEF TypeOK
<1>1. ASSUME NEW t \in Tasks, Fill(t) PROVE Typed
  <2>1. holds[t] \in Stores /\ orders[holds[t]] \in 0..2
    BY <1>0, <1>1 DEF Fill, NoStore
  <2>2. \/ orders' = orders
        \/ orders' = [orders EXCEPT ![holds[t]] = IF orders[holds[t]] < 2
                                                 THEN orders[holds[t]] + 1 ELSE orders[holds[t]]]
    BY <1>1 DEF Fill
  <2>3. orders' \in [Stores -> 0..2]
    BY <1>0, <2>1, <2>2
  <2> QED
    BY <1>0, <1>1, <2>3 DEF Fill
<1>2. ASSUME NEW t \in Tasks, ReserveLocal(t) \/ Reject(t) \/ Answer(t) PROVE Typed
  BY <1>0, <1>2 DEF ReserveLocal, Reject, Answer, Stores
<1>3. ASSUME NEW t \in Tasks, Execute(t) PROVE Typed
  BY <1>0, <1>3 DEF Execute, Stores
<1>4. ASSUME Restart PROVE Typed
  BY <1>0, <1>4 DEF Restart, Stores
<1>5. ASSUME NEW t \in Tasks, Starts(t) \/ NoAnswer(t) \/ \E k \in StopCommands : StopCommand(t, k)
      PROVE  Typed
  BY <1>0, <1>5 DEF Starts, NoAnswer, Other, ReserveRedis, StopCommand, guardVars
<1>6. ASSUME UNCHANGED <<op, guardVars, stopVars>> PROVE Typed
  BY <1>0, <1>6 DEF guardVars
<1> HIDE DEF Typed
<1>7. Typed
  BY <1>1, <1>2, <1>3, <1>4, <1>5, <1>6, StepCases DEF Ends
<1> QED
  BY <1>7 DEF Typed

\* The answers on their way and the keys.
LEMMA KeyTypes ==
  ASSUME TypeOK, [Next]_vars
  PROVE  got' \in [Tasks -> BOOLEAN] /\ db' \in [order : BOOLEAN, stop : BOOLEAN]
<1> DEFINE Typed == got' \in [Tasks -> BOOLEAN] /\ db' \in [order : BOOLEAN, stop : BOOLEAN]
<1>0. got \in [Tasks -> BOOLEAN] /\ db \in [order : BOOLEAN, stop : BOOLEAN]
  BY DEF TypeOK
<1>1. ASSUME NEW t \in Tasks, Execute(t) PROVE Typed
  <2>1. got' \in [Tasks -> BOOLEAN]
    BY <1>0, <1>1 DEF Execute
  <2>2. db' \in [order : BOOLEAN, stop : BOOLEAN]
    BY <1>1 DEF Execute, Effect
  <2> QED
    BY <2>1, <2>2
<1>2. ASSUME NEW t \in Tasks, Ends(t) PROVE Typed
  BY <1>0, <1>2 DEF Ends, Answer, NoAnswer
<1>3. ASSUME Restart PROVE Typed
  BY <1>0, <1>3 DEF Restart
<1>4. ASSUME NEW t \in Tasks,
             \/ Starts(t) \/ ReserveLocal(t) \/ Fill(t) \/ Reject(t)
             \/ \E k \in StopCommands : StopCommand(t, k)
      PROVE  Typed
  BY <1>0, <1>4 DEF Starts, Other, ReserveRedis, ReserveLocal, Fill, Reject, StopCommand, guardVars
<1>5. ASSUME UNCHANGED <<op, guardVars, stopVars>> PROVE Typed
  BY <1>0, <1>5 DEF guardVars
<1> HIDE DEF Typed
<1>6. Typed
  BY <1>1, <1>2, <1>3, <1>4, <1>5, StepCases
<1> QED
  BY <1>6 DEF Typed

\* The flags.
LEMMA FlagTypes ==
  ASSUME TypeOK, [Next]_vars
  PROVE  /\ local' \in BOOLEAN
         /\ crossed' \in BOOLEAN
         /\ clean' \in BOOLEAN
         /\ asked' \in StopCommands \cup {"cut"}
<1> DEFINE Typed == /\ local' \in BOOLEAN
                    /\ crossed' \in BOOLEAN
                    /\ clean' \in BOOLEAN
                    /\ asked' \in StopCommands \cup {"cut"}
<1>0. /\ local \in BOOLEAN
      /\ crossed \in BOOLEAN
      /\ clean \in BOOLEAN
      /\ asked \in StopCommands \cup {"cut"}
  BY DEF TypeOK
<1>1. ASSUME NEW t \in Tasks, Execute(t) PROVE Typed
  BY <1>0, <1>1, Zenon DEF Execute, stopVars
<1>2. ASSUME NEW t \in Tasks, Answer(t) PROVE Typed
  BY <1>0, <1>2, Zenon DEF Answer, stopVars
<1>3. ASSUME NEW t \in Tasks, NoAnswer(t) PROVE Typed
  BY <1>0, <1>3, Zenon DEF NoAnswer
<1>4. ASSUME Restart PROVE Typed
  BY <1>0, <1>4, Zenon DEF Restart
<1>5. ASSUME NEW t \in Tasks, NEW k \in StopCommands, StopCommand(t, k) PROVE Typed
  BY <1>0, <1>5, Zenon DEF StopCommand, guardVars
<1>6. ASSUME NEW t \in Tasks, ReserveLocal(t) PROVE Typed
  BY <1>0, <1>6, Zenon DEF ReserveLocal, stopVars
<1>7. ASSUME NEW t \in Tasks, Starts(t) \/ Fill(t) \/ Reject(t) PROVE Typed
  BY <1>0, <1>7, Zenon DEF Starts, Other, ReserveRedis, Fill, Reject, guardVars, stopVars
<1>8. ASSUME UNCHANGED <<op, guardVars, stopVars>> PROVE Typed
  BY <1>0, <1>8, Zenon DEF guardVars, stopVars
<1> HIDE DEF Typed
<1>9. Typed
  BY <1>1, <1>2, <1>3, <1>4, <1>5, <1>6, <1>7, <1>8, StepCases DEF Ends
<1> QED
  BY <1>9 DEF Typed

\* Types, with the attempts they rest on.
Typed == TypeOK /\ AttemptsLeft

\* Init satisfies the types.
LEMMA InitTyped == Init => Typed
<1> SUFFICES ASSUME Init PROVE Typed
  OBVIOUS
<1>1. ClientTypeOK
  <2>1. task \in [Tasks -> TaskState]
    BY ClientConstants DEF Init, ClientInit, IdleTask, At, TaskState
  <2>2. failures \in 0..Threshold
    BY ClientConstants DEF Init, ClientInit
  <2> QED
    BY <2>1, <2>2, Zenon DEF Init, ClientInit, ClientTypeOK
<1>2. AttemptsLeft
  BY DEF Init, ClientInit, IdleTask, At, AttemptsLeft
<1>3. op \in [Tasks -> Ops] /\ orders \in [Stores -> 0..2]
  BY DEF Init, Ops, NoOp, Commands
<1>4. got \in [Tasks -> BOOLEAN] /\ holds \in [Tasks -> Stores \cup {NoStore}]
  BY DEF Init
<1>5. db \in [order : BOOLEAN, stop : BOOLEAN]
  BY DEF Init
<1> QED
  BY <1>1, <1>2, <1>3, <1>4, <1>5, Zenon DEF Init, Typed, TypeOK, Ops, StopCommands

\* Every step keeps them.
LEMMA StepTyped == Typed /\ [Next]_vars => Typed'
<1> SUFFICES ASSUME Typed, [Next]_vars PROVE Typed'
  OBVIOUS
<1>1. TypeOK /\ AttemptsLeft /\ ClientTypeOK
  BY DEF Typed, TypeOK
<1>2. [ClientNext]_clientVars
  BY GuardsStepClient
<1>3. ClientTypeOK' /\ AttemptsLeft'
  BY <1>1, <1>2, ClientTypes
<1>4. op' \in [Tasks -> [kind : Commands, store : Stores \cup {NoStore}]]
  BY <1>1, OpTypes DEF Ops
<1> QED
  BY <1>1, <1>3, <1>4, HolderTypes, KeyTypes, FlagTypes DEF Typed, TypeOK

\* The guard and the stop are typed, for any number of tasks.
THEOREM TypesKept == Spec => []TypeOK
<1>1. Spec => []Typed
  BY InitTyped, StepTyped, PTL DEF Spec
<1>2. Typed => TypeOK
  BY DEF Typed
<1> QED
  BY <1>1, <1>2, PTL

(***************************************************************************)
(* How a step moves the tasks.                                             *)
(***************************************************************************)
Others(t) == \A u \in Tasks \ {t} : task'[u] = task[u]

Idles(t) == task'[t].pc = "idle" /\ Others(t)

\* A command begins.
LEMMA BeginMoves ==
  ASSUME Typed, NEW t \in Tasks, Begin(t)
  PROVE  task[t].pc = "idle" /\ task'[t].pc \in {"ping", "connect"} /\ Others(t)
<1>1. task \in [Tasks -> TaskState]
  BY DEF Typed, TypeOK, ClientTypeOK
<1> QED
  BY <1>1 DEF Begin, At, Others

\* The server executes one.
LEMMA ApplyMoves ==
  ASSUME Typed, NEW t \in Tasks, Apply(t)
  PROVE  task[t].pc = "command" /\ task'[t].pc = "reply" /\ Others(t)
<1>1. task \in [Tasks -> TaskState]
  BY DEF Typed, TypeOK, ClientTypeOK
<1> QED
  BY <1>1 DEF Apply, Goto, At, Others

\* One is answered or given up.
LEMMA EndMoves ==
  ASSUME Typed, NEW t \in Tasks, Reply(t) \/ CommandFails(t) \/ GiveUp(t)
  PROVE  task[t].pc # "idle" /\ Idles(t)
<1>1. task \in [Tasks -> TaskState]
  BY DEF Typed, TypeOK, ClientTypeOK
<1> QED
  BY <1>1 DEF Reply, CommandFails, GiveUp, IdleTask, At, Others, Idles

\* A step that touches neither guard nor stop begins, executes and ends nothing.
Quiet ==
  /\ UNCHANGED <<op, guardVars, stopVars>>
  /\ \A t \in Tasks : /\ task'[t].pc = "idle" <=> task[t].pc = "idle"
                      /\ task'[t].pc = "reply" <=> task[t].pc = "reply"

\* Connections and the surroundings are quiet.
LEMMA QuietSteps ==
  ASSUME Typed, UNCHANGED vars \/ Environment \/ \E t \in Tasks : Connection(t)
  PROVE  Quiet
<1>1. task \in [Tasks -> TaskState]
  BY DEF Typed, TypeOK, ClientTypeOK
<1>2. CASE UNCHANGED vars
  BY <1>2 DEF vars, Quiet, guardVars, stopVars
<1>3. ASSUME NEW t \in Tasks, Connection(t) PROVE Quiet
  <2>1. PICK pc \in {"command", "connect", "sleep"} :
          /\ task[t].pc \in {"ping", "connect", "sleep"}
          /\ \/ task' = [task EXCEPT ![t] = At(pc, task[t].tries)]
             \/ task' = [task EXCEPT ![t] = At(pc, task[t].tries + 1)]
    BY <1>3 DEF Connection, PingOk, PingFails, ConnectOk, ConnectFails, WakeAgain, Goto
  <2> QED
    BY <1>1, <1>3, <2>1 DEF Connection, Quiet, At
<1>4. ASSUME Environment PROVE Quiet
  <2>1. \A t \in Tasks : task'[t].pc = task[t].pc
    BY <1>1, <1>4 DEF Environment, ServerFails, ServerBack, CircuitTimer
  <2> QED
    BY <1>4, <2>1 DEF Environment, Quiet
<1> QED
  BY <1>2, <1>3, <1>4

\* Every step is quiet or one of the others.
LEMMA Moves ==
  ASSUME Typed, [Next]_vars
  PROVE  \/ Quiet
         \/ \E t \in Tasks : Starts(t)
         \/ \E t \in Tasks : ReserveLocal(t)
         \/ \E t \in Tasks : Fill(t)
         \/ \E t \in Tasks : Reject(t)
         \/ \E t \in Tasks, kind \in StopCommands : StopCommand(t, kind)
         \/ \E t \in Tasks : Execute(t)
         \/ \E t \in Tasks : Ends(t)
         \/ Restart
  BY QuietSteps DEF Next, TaskStep, Starts, Ends

(***************************************************************************)
(* The emergency stop.                                                     *)
(***************************************************************************)
\* A stop command that runs alone is the last one asked for, and once the server has
\* executed it the key says so.
StopInFlight ==
  clean => \A t \in InFlight(StopCommands) :
    /\ op[t].kind = asked
    /\ task[t].pc = "reply" => (db.stop <=> asked = "activate")
    /\ \A u \in InFlight(StopCommands) : u = t

StopInv == Typed /\ StopInFlight /\ StopKept

\* The stop commands in flight before and after.
Stops == InFlight(StopCommands)

\* Nothing happens to the stop when no stop command begins, is executed or ends.
LEMMA StopUndisturbed ==
  ASSUME StopInv, UNCHANGED stopVars, db'.stop = db.stop, Stops' = Stops,
         \A u \in Stops : op'[u] = op[u] /\ (task'[u].pc = "reply" <=> task[u].pc = "reply")
  PROVE  StopInFlight' /\ StopKept'
  BY DEF StopInv, StopInFlight, StopKept, Stops, stopVars

\* A step that leaves the stop commands alone.
LEMMA StopElsewhere ==
  ASSUME StopInv, NEW t \in Tasks,
         Starts(t) \/ ReserveLocal(t) \/ Fill(t) \/ Reject(t)
  PROVE  StopInFlight' /\ StopKept'
<1>0. Typed /\ op \in [Tasks -> Ops]
  BY DEF StopInv, Typed, TypeOK, Ops
<1>1. CASE ReserveLocal(t)
  BY <1>1, StopUndisturbed DEF ReserveLocal, clientVars, Stops, InFlight
<1>2. CASE Starts(t) \/ Fill(t) \/ Reject(t)
  <2>1. UNCHANGED <<db, stopVars>>
    BY <1>2 DEF Starts, Other, ReserveRedis, Fill, Reject, guardVars
  <2>2. \/ /\ Begin(t)
           /\ \E k \in {"other", "reserve", "complete", "release"} : \E store :
                op' = [op EXCEPT ![t] = [kind |-> k, store |-> store]]
        \/ UNCHANGED <<clientVars, op>>
    BY <1>2 DEF Starts, Other, ReserveRedis, Fill, Reject, Issue, NoOp
  <2>3. CASE UNCHANGED <<clientVars, op>>
    BY <2>1, <2>3, StopUndisturbed DEF clientVars, Stops, InFlight
  <2>4. CASE Begin(t) /\ ~UNCHANGED <<clientVars, op>>
    <3>1. task[t].pc = "idle" /\ Others(t)
      BY <1>0, <2>4, BeginMoves
    <3>2. op'[t].kind \notin StopCommands /\ \A u \in Tasks \ {t} : op'[u] = op[u]
      BY <1>0, <2>2, <2>4 DEF StopCommands
    <3> QED
      BY <2>1, <3>1, <3>2, StopUndisturbed DEF Stops, InFlight, Others
  <2> QED
    BY <2>2, <2>3, <2>4
<1> QED
  BY <1>1, <1>2

\* A stop command begins, or is refused by the open circuit.
LEMMA StopBegins ==
  ASSUME StopInv, NEW t \in Tasks, NEW kind \in StopCommands, StopCommand(t, kind)
  PROVE  StopInFlight' /\ StopKept'
<1>0. Typed /\ op \in [Tasks -> Ops]
  BY DEF StopInv, Typed, TypeOK, Ops
<1>1. asked' = kind /\ (clean' => ~Refused /\ Stops = {})
  BY DEF StopCommand, Stops
<1>2. CASE ~clean'
  BY <1>2 DEF StopInFlight, StopKept
<1>3. CASE clean'
  <2>1. Begin(t) /\ op' = [op EXCEPT ![t] = [kind |-> kind, store |-> NoStore]]
    BY <1>1, <1>3 DEF StopCommand, Issue
  <2>2. task'[t].pc \in {"ping", "connect"} /\ Others(t)
    BY <1>0, <2>1, BeginMoves
  <2>3. op'[t].kind = kind /\ \A u \in Tasks \ {t} : op'[u] = op[u]
    BY <1>0, <2>1
  <2>4. Stops' = {t}
    BY <1>1, <1>3, <2>2, <2>3 DEF Stops, InFlight, Others
  <2> QED
    BY <1>1, <2>2, <2>3, <2>4 DEF StopInFlight, StopKept, Stops
<1> QED
  BY <1>2, <1>3

\* The server executes a command.
LEMMA StopExecutes ==
  ASSUME StopInv, NEW t \in Tasks, Execute(t)
  PROVE  StopInFlight' /\ StopKept'
<1>0. Typed /\ op' = op /\ UNCHANGED stopVars
  BY DEF StopInv, Execute
<1>1. task[t].pc = "command" /\ task'[t].pc = "reply" /\ Others(t)
  BY <1>0, ApplyMoves DEF Execute
<1>2. Stops' = Stops
  BY <1>0, <1>1 DEF Stops, InFlight, Others
<1>3. db'.stop = (op[t].kind = "activate" \/ (db.stop /\ op[t].kind # "clear"))
  BY DEF Execute, Effect
<1>4. CASE t \notin Stops
  <2>1. op[t].kind \notin StopCommands
    BY <1>1, <1>4 DEF Stops, InFlight
  <2>2. db'.stop = db.stop
    BY <1>3, <2>1 DEF StopCommands, StopInv, Typed, TypeOK
  <2> QED
    BY <1>0, <1>2, <1>4, <1>1, <2>2, StopUndisturbed DEF Others, Stops, InFlight
<1>5. CASE t \in Stops
  <2>1. clean => op[t].kind = asked /\ Stops = {t}
    BY <1>5 DEF StopInv, StopInFlight, Stops
  <2>2. op[t].kind \in {"activate", "clear"}
    BY <1>5 DEF Stops, InFlight, StopCommands
  <2>3. clean => (db'.stop <=> asked = "activate")
    BY <1>3, <2>1, <2>2
  <2> QED
    BY <1>0, <1>2, <1>5, <2>1, <2>3 DEF StopInFlight, StopKept, Stops, stopVars
<1> QED
  BY <1>4, <1>5

\* A command ends.
LEMMA StopEnds ==
  ASSUME StopInv, NEW t \in Tasks, Ends(t)
  PROVE  StopInFlight' /\ StopKept'
<1>0. Typed /\ op \in [Tasks -> Ops]
  BY DEF StopInv, Typed, TypeOK, Ops
<1>1. task[t].pc # "idle" /\ task'[t].pc = "idle" /\ Others(t)
  BY <1>0, EndMoves DEF Ends, Answer, NoAnswer, Idles
<1>2. op' = [op EXCEPT ![t] = NoOp] /\ UNCHANGED <<db, asked>>
  BY DEF Ends, Answer, NoAnswer, stopVars
<1>3. Stops' = Stops \ {t} /\ \A u \in Tasks \ {t} : op'[u] = op[u]
  BY <1>0, <1>1, <1>2 DEF Stops, InFlight, Others
<1>4. CASE t \notin Stops
  <2>1. op[t].kind \notin StopCommands
    BY <1>1, <1>4 DEF Stops, InFlight
  <2>2. clean' = clean
    BY <2>1 DEF Ends, Answer, NoAnswer, stopVars, StopInv, Typed, TypeOK
  <2>3. UNCHANGED stopVars
    BY <1>2, <2>2 DEF stopVars
  <2>4. Stops \subseteq Tasks \ {t} /\ Stops' = Stops
    BY <1>3, <1>4 DEF Stops, InFlight
  <2> QED
    BY <1>1, <1>2, <1>3, <2>3, <2>4, StopUndisturbed DEF Others
<1>5. CASE t \in Stops /\ clean'
  <2>1. Reply(t) /\ clean
    BY <1>5 DEF Ends, Answer, NoAnswer, stopVars, Stops, InFlight
  <2>2. task[t].pc = "reply"
    BY <2>1 DEF Reply
  <2>3. (db.stop <=> asked = "activate") /\ Stops = {t}
    BY <1>5, <2>1, <2>2 DEF StopInv, StopInFlight, Stops
  <2>4. Stops' = {}
    BY <1>3, <2>3
  <2> QED
    BY <1>2, <2>3, <2>4 DEF StopInFlight, StopKept, Stops
<1>6. CASE ~clean'
  BY <1>6 DEF StopInFlight, StopKept
<1> QED
  BY <1>4, <1>5, <1>6

\* The process dies: a stop command under way makes no promise.
LEMMA StopRestarts ==
  ASSUME StopInv, Restart
  PROVE  StopInFlight' /\ StopKept'
<1>1. \A u \in Tasks : task'[u].pc = "idle"
  BY DEF Restart, ClientRestart, IdleTask, At
<1>2. Stops' = {}
  BY <1>1 DEF Stops, InFlight
<1>3. CASE clean'
  <2>1. clean /\ Stops = {} /\ UNCHANGED <<db, asked>>
    BY <1>3 DEF Restart, Stops
  <2> QED
    BY <1>2, <2>1 DEF StopInv, StopInFlight, StopKept, Stops
<1>4. CASE ~clean'
  BY <1>4 DEF StopInFlight, StopKept
<1> QED
  BY <1>3, <1>4

\* The key of the emergency stop says what the last undisturbed command asked for,
\* also after a restart: activate_emergency_stop and clear_emergency_stop of
\* operational_state.py, lines 16 and 21.
THEOREM StopIsKept == Spec => []StopKept
<1>1. Init => StopInv
  <2>1. ASSUME Init PROVE Stops = {}
    BY <2>1 DEF Init, ClientInit, IdleTask, At, Stops, InFlight
  <2>2. ASSUME Init PROVE StopInFlight /\ StopKept
    BY <2>1, <2>2 DEF Init, StopInFlight, StopKept, Stops
  <2> QED
    BY <2>2, InitTyped DEF StopInv
<1>2. StopInv /\ [Next]_vars => StopInv'
  <2> SUFFICES ASSUME StopInv, [Next]_vars PROVE StopInv'
    OBVIOUS
  <2>1. Typed /\ Typed'
    BY StepTyped DEF StopInv
  <2>2. CASE Quiet
    BY <2>1, <2>2, StopUndisturbed DEF Quiet, guardVars, Stops, InFlight, StopInv
  <2> QED
    BY <2>1, <2>2, Moves, StopElsewhere, StopBegins, StopExecutes, StopEnds, StopRestarts DEF StopInv
<1>3. StopInv => StopKept
  BY DEF StopInv
<1> QED
  BY <1>1, <1>2, <1>3, PTL DEF Spec

(***************************************************************************)
(* The idempotency guard.                                                  *)
(***************************************************************************)
\* What stands for the one reservation Redis has granted and that may still become
\* an order or give the key back: the holder, the reply on its way to it, and its
\* release until the server executes it.
Token(t) ==
  \/ holds[t] = "redis"
  \/ got[t]
  \/ op[t].kind = "release" /\ op[t].store = "redis" /\ task[t].pc \notin {"idle", "reply"}

HoldersIdle == \A t \in Tasks : holds[t] # NoStore => task[t].pc = "idle"

RepliesDue == \A t \in Tasks : got[t] => task[t].pc = "reply" /\ op[t].kind = "reserve"

\* Redis: one token or one order, and the key is there as long as one of them is.
RedisOnce ==
  ~crossed =>
    /\ \A t, u \in Tasks : Token(t) /\ Token(u) => t = u
    /\ orders["redis"] <= 1
    /\ orders["redis"] = 1 => \A t \in Tasks : ~Token(t)
    /\ orders["redis"] = 1 \/ (\E t \in Tasks : Token(t)) => db.order

\* The memory of the process: one holder or one order, and the key is there.
LocalOnce ==
  /\ \A t, u \in Tasks : holds[t] = "local" /\ holds[u] = "local" => t = u
  /\ orders["local"] <= 1
  /\ orders["local"] = 1 => \A t \in Tasks : holds[t] # "local"
  /\ orders["local"] = 1 \/ (\E t \in Tasks : holds[t] = "local") => local

\* A release knows the store of its reservation.
ReleasesKnown == \A t \in Tasks : op[t].kind = "release" => op[t].store \in Stores

GuardInv == Typed /\ HoldersIdle /\ RepliesDue /\ ReleasesKnown /\ RedisOnce /\ LocalOnce

GuardGoal == HoldersIdle' /\ RepliesDue' /\ RedisOnce' /\ LocalOnce'

\* The shape of the state the steps below work on.
LEMMA Shapes ==
  ASSUME Typed
  PROVE  /\ op \in [Tasks -> Ops] /\ got \in [Tasks -> BOOLEAN]
         /\ holds \in [Tasks -> Stores \cup {NoStore}] /\ orders \in [Stores -> 0..2]
         /\ db \in [order : BOOLEAN, stop : BOOLEAN] /\ orders["redis"] \in 0..2
         /\ orders["local"] \in 0..2
  BY DEF Typed, TypeOK, Ops, Stores

\* Nothing changes for the guard.
LEMMA GuardUndisturbed ==
  ASSUME GuardInv, UNCHANGED <<got, local, holds, orders, crossed>>, db'.order = db.order,
         \A t \in Tasks : holds[t] # NoStore => task'[t].pc = "idle",
         \A t \in Tasks : got[t] => task'[t].pc = "reply" /\ op'[t].kind = "reserve",
         \A t \in Tasks : Token(t)' => Token(t)
  PROVE  GuardGoal
<1>1. HoldersIdle' /\ RepliesDue'
  BY DEF HoldersIdle, RepliesDue
<1>2. RedisOnce'
  BY DEF GuardInv, RedisOnce
<1>3. LocalOnce'
  BY DEF GuardInv, LocalOnce
<1> QED
  BY <1>1, <1>2, <1>3 DEF GuardGoal

\* Quiet steps, commands of others and of the stop.
LEMMA GuardElsewhere ==
  ASSUME GuardInv, NEW t \in Tasks,
         Starts(t) \/ \E k \in StopCommands : StopCommand(t, k)
  PROVE  GuardGoal
<1>0. Typed /\ op \in [Tasks -> Ops]
  BY Shapes DEF GuardInv
<1>1. UNCHANGED guardVars /\ holds[t] = NoStore
  BY DEF Starts, Other, ReserveRedis, StopCommand
<1>2. \/ /\ Begin(t)
         /\ \E k \in StopCommands \cup {"other", "reserve"} :
              op' = [op EXCEPT ![t] = [kind |-> k, store |-> NoStore]]
      \/ UNCHANGED <<clientVars, op>>
  BY DEF Starts, Other, ReserveRedis, StopCommand, Issue, NoOp
<1>3. CASE UNCHANGED <<clientVars, op>>
  BY <1>1, <1>3, GuardUndisturbed
     DEF clientVars, guardVars, GuardInv, HoldersIdle, RepliesDue, Token
<1>4. CASE Begin(t) /\ ~UNCHANGED <<clientVars, op>>
  <2>1. task[t].pc = "idle" /\ Others(t)
    BY <1>0, <1>4, BeginMoves
  <2>2. op'[t].kind # "release" /\ \A u \in Tasks \ {t} : op'[u] = op[u]
    BY <1>0, <1>2, <1>4 DEF StopCommands
  <2>3. ~got[t]
    BY <2>1 DEF GuardInv, RepliesDue
  <2> QED
    BY <1>1, <2>1, <2>2, <2>3, GuardUndisturbed
       DEF guardVars, GuardInv, HoldersIdle, RepliesDue, Token, Others
<1> QED
  BY <1>2, <1>3, <1>4

\* The commands keep the store of a release.
LEMMA ReleasesStayKnown ==
  ASSUME Typed, ReleasesKnown, [Next]_vars
  PROVE  ReleasesKnown'
<1>0. op \in [Tasks -> Ops] /\ holds \in [Tasks -> Stores \cup {NoStore}]
  BY Shapes
<1>1. ASSUME NEW t \in Tasks, NEW kind \in Commands, NEW store, Issue(t, kind, store),
             kind = "release" => store \in Stores
      PROVE  ReleasesKnown'
  BY <1>0, <1>1 DEF Issue, ReleasesKnown
<1>2. ASSUME NEW t \in Tasks, Fill(t) PROVE ReleasesKnown'
  <2>1. Issue(t, "complete", NoStore)
    BY <1>2 DEF Fill
  <2> QED
    BY <1>1, <2>1 DEF Commands
<1>3. ASSUME NEW t \in Tasks, Reject(t) PROVE ReleasesKnown'
  <2>1. Issue(t, "release", holds[t]) /\ holds[t] \in Stores
    BY <1>0, <1>3 DEF Reject
  <2> QED
    BY <1>1, <2>1 DEF Commands
<1>4. ASSUME NEW t \in Tasks, NEW k \in StopCommands, StopCommand(t, k) PROVE ReleasesKnown'
  <2>1. Issue(t, k, NoStore)
    BY <1>4 DEF StopCommand
  <2> QED
    BY <1>1, <2>1 DEF Commands, StopCommands
<1>5. ASSUME NEW t \in Tasks, Starts(t) \/ Ends(t) PROVE ReleasesKnown'
  <2>1. \/ op' = [op EXCEPT ![t] = NoOp]
        \/ op' = [op EXCEPT ![t] = [kind |-> "reserve", store |-> NoStore]]
    BY <1>5 DEF Starts, Ends, Other, ReserveRedis, Answer, NoAnswer
  <2> QED
    BY <1>0, <2>1 DEF ReleasesKnown, NoOp
<1>6. ASSUME Restart PROVE ReleasesKnown'
  BY <1>6 DEF Restart, ReleasesKnown, NoOp
<1>7. ASSUME UNCHANGED op PROVE ReleasesKnown'
  BY <1>7 DEF ReleasesKnown
<1>8. ASSUME NEW t \in Tasks, ReserveLocal(t) \/ Execute(t) PROVE UNCHANGED op
  BY <1>8 DEF ReserveLocal, Execute
<1> QED
  BY <1>2, <1>3, <1>4, <1>5, <1>6, <1>7, <1>8, StepCases

\* The memory of the process grants the key.
LEMMA GuardReservesLocally ==
  ASSUME GuardInv, NEW t \in Tasks, ReserveLocal(t)
  PROVE  GuardGoal
<1>0. holds \in [Tasks -> Stores \cup {NoStore}] /\ orders["local"] \in 0..2
  BY Shapes DEF GuardInv
<1>1. /\ task[t].pc = "idle" /\ ~local /\ local'
      /\ UNCHANGED <<task, op, db, got, orders, crossed>>
      /\ holds'[t] = "local" /\ \A u \in Tasks \ {t} : holds'[u] = holds[u]
  BY <1>0 DEF ReserveLocal, clientVars
<1>2. HoldersIdle' /\ RepliesDue'
  BY <1>1 DEF GuardInv, HoldersIdle, RepliesDue
<1>3. \A u \in Tasks : Token(u)' => Token(u)
  BY <1>1 DEF Token
<1>4. RedisOnce'
  BY <1>1, <1>3 DEF GuardInv, RedisOnce
<1>5. LocalOnce'
  BY <1>0, <1>1 DEF GuardInv, LocalOnce
<1> QED
  BY <1>2, <1>4, <1>5 DEF GuardGoal

\* What a holder leaves behind when its order is filled or rejected.
LEMMA HolderLeaves ==
  ASSUME GuardInv, NEW t \in Tasks, Fill(t) \/ Reject(t)
  PROVE  /\ holds[t] \in Stores /\ task[t].pc = "idle" /\ ~got[t]
         /\ holds'[t] = NoStore /\ \A u \in Tasks \ {t} : holds'[u] = holds[u]
         /\ UNCHANGED <<db, got, local, crossed>>
         /\ Others(t) /\ \A u \in Tasks \ {t} : op'[u] = op[u]
         /\ HoldersIdle' /\ RepliesDue'
<1>0. Typed /\ holds \in [Tasks -> Stores \cup {NoStore}] /\ op \in [Tasks -> Ops]
  BY Shapes DEF GuardInv
<1>1. holds[t] \in Stores /\ task[t].pc = "idle"
  BY <1>0 DEF Fill, Reject, GuardInv, HoldersIdle
<1>2. ~got[t]
  BY <1>1 DEF GuardInv, RepliesDue
<1>3. /\ holds'[t] = NoStore /\ \A u \in Tasks \ {t} : holds'[u] = holds[u]
      /\ UNCHANGED <<db, got, local, crossed>>
  BY <1>0 DEF Fill, Reject
<1>4. (Begin(t) /\ \A u \in Tasks \ {t} : op'[u] = op[u]) \/ UNCHANGED <<clientVars, op>>
  BY <1>0 DEF Fill, Reject, Issue
<1>5. Others(t) /\ \A u \in Tasks \ {t} : op'[u] = op[u]
  BY <1>0, <1>4, BeginMoves DEF clientVars, Others
<1>6. HoldersIdle' /\ RepliesDue'
  BY <1>2, <1>3, <1>5 DEF GuardInv, HoldersIdle, RepliesDue, Others
<1> QED
  BY <1>1, <1>2, <1>3, <1>5, <1>6

\* The order of a holder is filled.
LEMMA GuardFills ==
  ASSUME GuardInv, NEW t \in Tasks, Fill(t)
  PROVE  GuardGoal
<1>0. /\ Typed /\ orders \in [Stores -> 0..2] /\ op \in [Tasks -> Ops]
      /\ orders["redis"] \in 0..2 /\ orders["local"] \in 0..2
  BY Shapes DEF GuardInv
<1>1. /\ holds[t] \in Stores /\ task[t].pc = "idle" /\ ~got[t]
      /\ holds'[t] = NoStore /\ \A u \in Tasks \ {t} : holds'[u] = holds[u]
      /\ UNCHANGED <<db, got, local, crossed>>
      /\ Others(t) /\ \A u \in Tasks \ {t} : op'[u] = op[u]
      /\ HoldersIdle' /\ RepliesDue'
  BY HolderLeaves
<1>2. op'[t].kind # "release" \/ task'[t].pc = "idle"
  <2>1. Issue(t, "complete", NoStore)
    BY DEF Fill
  <2> QED
    BY <1>0, <1>1, <2>1 DEF Issue, clientVars
<1>3. ~Token(t)' /\ \A u \in Tasks \ {t} : Token(u)' => Token(u)
  BY <1>1, <1>2 DEF Token, Others, NoStore
<1>4. CASE holds[t] = "redis"
  <2>1. ~crossed => orders["redis"] = 0
    BY <1>0, <1>4 DEF GuardInv, RedisOnce, Token
  <2>2. /\ orders'["local"] = orders["local"]
        /\ ~crossed => orders'["redis"] = 1
    BY <1>0, <1>4, <2>1 DEF Fill, Stores
  <2>3. RedisOnce'
    BY <1>1, <1>3, <1>4, <2>2 DEF GuardInv, RedisOnce, Token
  <2>4. LocalOnce'
    BY <1>1, <2>2 DEF GuardInv, LocalOnce, NoStore
  <2> QED
    BY <1>1, <2>3, <2>4 DEF GuardGoal
<1>5. CASE holds[t] = "local"
  <2>1. orders["local"] = 0
    BY <1>0, <1>5 DEF GuardInv, LocalOnce
  <2>2. orders'["redis"] = orders["redis"] /\ orders'["local"] = 1
    BY <1>0, <1>5, <2>1 DEF Fill, Stores
  <2>3. RedisOnce'
    BY <1>1, <1>3, <2>2 DEF GuardInv, RedisOnce
  <2>4. LocalOnce'
    BY <1>1, <1>5, <2>2 DEF GuardInv, LocalOnce, NoStore
  <2> QED
    BY <1>1, <2>3, <2>4 DEF GuardGoal
<1> QED
  BY <1>1, <1>4, <1>5 DEF Stores

\* It is rejected: a reservation of Redis is now that of the release.
LEMMA GuardRejects ==
  ASSUME GuardInv, NEW t \in Tasks, Reject(t)
  PROVE  GuardGoal
<1>0. Typed /\ op \in [Tasks -> Ops]
  BY Shapes DEF GuardInv
<1>1. /\ holds[t] \in Stores /\ task[t].pc = "idle" /\ ~got[t]
      /\ holds'[t] = NoStore /\ \A u \in Tasks \ {t} : holds'[u] = holds[u]
      /\ UNCHANGED <<db, got, local, crossed>>
      /\ Others(t) /\ \A u \in Tasks \ {t} : op'[u] = op[u]
      /\ HoldersIdle' /\ RepliesDue'
  BY HolderLeaves
<1>2. op'[t].store = holds[t] \/ task'[t].pc = "idle"
  <2>1. Issue(t, "release", holds[t])
    BY DEF Reject
  <2> QED
    BY <1>0, <1>1, <2>1 DEF Issue, clientVars
<1>3. \A u \in Tasks : Token(u)' => Token(u)
  BY <1>1, <1>2 DEF Token, Others, NoStore
<1>4. UNCHANGED orders
  BY DEF Reject
<1>5. RedisOnce'
  BY <1>1, <1>3, <1>4 DEF GuardInv, RedisOnce
<1>6. LocalOnce'
  BY <1>1, <1>4 DEF GuardInv, LocalOnce, NoStore
<1> QED
  BY <1>1, <1>5, <1>6 DEF GuardGoal

\* The server executes a command.
LEMMA GuardExecutes ==
  ASSUME GuardInv, NEW t \in Tasks, Execute(t)
  PROVE  GuardGoal
<1>0. /\ Typed /\ got \in [Tasks -> BOOLEAN] /\ orders \in [Stores -> 0..2]
      /\ orders["redis"] \in 0..2
  BY Shapes DEF GuardInv
<1>1. task[t].pc = "command" /\ task'[t].pc = "reply" /\ Others(t)
  BY <1>0, ApplyMoves DEF Execute
<1>2. /\ UNCHANGED <<op, local, holds>>
      /\ got'[t] <=> (op[t].kind = "reserve" /\ ~db.order)
      /\ \A u \in Tasks \ {t} : got'[u] = got[u]
  BY <1>0 DEF Execute
<1>3. holds[t] = NoStore /\ ~got[t]
  BY <1>1 DEF GuardInv, HoldersIdle, RepliesDue
<1>4. /\ crossed' <=> (crossed \/ (op[t].kind = "release" /\ op[t].store = "local" /\ db.order))
      /\ orders'["local"] = orders["local"]
      /\ ~crossed' => UNCHANGED orders
  BY <1>0 DEF Execute, Stores
<1>5. db'.order <=> (op[t].kind \in {"reserve", "complete"} \/ (db.order /\ op[t].kind # "release"))
  BY DEF Execute, Effect
<1>6. HoldersIdle' /\ RepliesDue'
  BY <1>1, <1>2, <1>3 DEF GuardInv, HoldersIdle, RepliesDue, Others
<1>7. LocalOnce'
  BY <1>2, <1>4 DEF GuardInv, LocalOnce
<1>8. RedisOnce'
  <2>1. \A u \in Tasks \ {t} : Token(u)' <=> Token(u)
    BY <1>1, <1>2 DEF Token, Others
  <2>2. Token(t)' <=> got'[t]
    BY <1>1, <1>2, <1>3 DEF Token, NoStore
  <2>3. CASE got'[t]
    <3>1. ~db.order /\ db'.order /\ (~crossed' => ~crossed)
      BY <1>2, <1>4, <1>5, <2>3
    <3>2. ~crossed => orders["redis"] # 1 /\ \A u \in Tasks : ~Token(u)
      BY <3>1 DEF GuardInv, RedisOnce
    <3> QED
      BY <1>0, <1>4, <2>1, <2>2, <3>1, <3>2 DEF RedisOnce, GuardInv
  <2>4. CASE ~got'[t] /\ op[t].kind # "release"
    <3>1. db.order => db'.order
      BY <1>5, <2>4
    <3>2. \A u \in Tasks : Token(u)' => Token(u)
      BY <2>1, <2>2, <2>4
    <3> QED
      BY <1>4, <3>1, <3>2 DEF RedisOnce, GuardInv
  <2>5. CASE ~got'[t] /\ op[t].kind = "release" /\ ~crossed'
    <3>1. \A u \in Tasks : ~Token(u)' /\ orders["redis"] # 1
      <4>1. CASE op[t].store = "redis"
        <5>1. Token(t)
          BY <1>1, <2>5, <4>1 DEF Token
        <5> QED
          BY <1>4, <2>1, <2>2, <2>5, <5>1 DEF GuardInv, RedisOnce
      <4>2. CASE op[t].store = "local"
        <5>1. ~crossed /\ ~db.order
          BY <1>4, <2>5, <4>2
        <5> QED
          BY <2>1, <2>2, <2>5, <5>1 DEF GuardInv, RedisOnce
      <4> QED
        BY <2>5, <4>1, <4>2 DEF GuardInv, ReleasesKnown, Stores
    <3>2. orders'["redis"] = 0
      BY <1>0, <1>4, <2>5, <3>1 DEF GuardInv, RedisOnce
    <3> QED
      BY <3>1, <3>2 DEF RedisOnce
  <2>6. CASE crossed'
    BY <2>6 DEF RedisOnce
  <2> QED
    BY <2>3, <2>4, <2>5, <2>6
<1> QED
  BY <1>6, <1>7, <1>8 DEF GuardGoal

\* A command ends: a granted reservation becomes its caller's, or is lost.
LEMMA GuardEnds ==
  ASSUME GuardInv, NEW t \in Tasks, Ends(t)
  PROVE  GuardGoal
<1>0. Typed /\ got \in [Tasks -> BOOLEAN] /\ holds \in [Tasks -> Stores \cup {NoStore}]
      /\ op \in [Tasks -> Ops]
  BY Shapes DEF GuardInv
<1>1. task[t].pc # "idle" /\ task'[t].pc = "idle" /\ Others(t)
  BY <1>0, EndMoves DEF Ends, Answer, NoAnswer, Idles
<1>2. holds[t] = NoStore
  BY <1>1 DEF GuardInv, HoldersIdle
<1>3. /\ UNCHANGED <<db, local, orders, crossed>>
      /\ ~got'[t] /\ \A u \in Tasks \ {t} : got'[u] = got[u] /\ op'[u] = op[u]
      /\ \A u \in Tasks \ {t} : holds'[u] = holds[u]
      /\ holds'[t] = NoStore \/ (holds'[t] = "redis" /\ got[t])
  BY <1>0, <1>2 DEF Ends, Answer, NoAnswer
<1>4. HoldersIdle' /\ RepliesDue'
  BY <1>1, <1>3 DEF GuardInv, HoldersIdle, RepliesDue, Others
<1>5. \A u \in Tasks : Token(u)' => Token(u)
  BY <1>1, <1>3 DEF Token, Others, NoStore
<1>6. RedisOnce'
  BY <1>3, <1>5 DEF GuardInv, RedisOnce
<1>7. LocalOnce'
  BY <1>3 DEF GuardInv, LocalOnce, NoStore
<1> QED
  BY <1>4, <1>6, <1>7 DEF GuardGoal

\* The process dies with its memory and its holders.
LEMMA GuardRestarts ==
  ASSUME GuardInv, Restart
  PROVE  GuardGoal
<1>0. orders \in [Stores -> 0..2]
  BY Shapes DEF GuardInv
<1>1. /\ \A u \in Tasks : holds'[u] = NoStore /\ ~got'[u] /\ op'[u] = NoOp
      /\ orders'["local"] = 0 /\ orders'["redis"] = orders["redis"]
      /\ UNCHANGED <<db, crossed>>
  BY <1>0 DEF Restart, Stores
<1>2. \A u \in Tasks : ~Token(u)'
  BY <1>1 DEF Token, NoOp, NoStore
<1>3. RedisOnce'
  BY <1>1, <1>2 DEF GuardInv, RedisOnce
<1>4. HoldersIdle' /\ RepliesDue' /\ LocalOnce'
  BY <1>1 DEF HoldersIdle, RepliesDue, LocalOnce, NoStore
<1> QED
  BY <1>3, <1>4 DEF GuardGoal

\* At most one element is at most a cardinality of one.
LEMMA AtMostOne ==
  ASSUME NEW S, \A x, y \in S : x = y
  PROVE  Cardinality(S) \in {0, 1} /\ (S = {} => Cardinality(S) = 0)
<1>1. CASE S = {}
  BY <1>1, FS_EmptySet
<1>2. CASE S # {}
  <2>1. PICK x : S = {x}
    BY <1>2
  <2> QED
    BY <1>2, <2>1, FS_Singleton
<1> QED
  BY <1>1, <1>2

\* Neither Redis nor the memory of the process admits a second order for a key of
\* check_and_reserve (core/hardening.py, line 202), whatever is lost, retried,
\* released or restarted, except after a crossed release.
THEOREM OneOrderPerStoreKept == Spec => []OneOrderPerStore
<1>1. Init => GuardInv
  <2> SUFFICES ASSUME Init PROVE GuardInv
    OBVIOUS
  <2>1. Typed
    BY InitTyped
  <2>2. \A t \in Tasks : holds[t] = NoStore /\ ~got[t] /\ op[t] = NoOp
    BY DEF Init
  <2>3. orders["redis"] = 0 /\ orders["local"] = 0
    BY DEF Init, Stores
  <2> QED
    BY <2>1, <2>2, <2>3
       DEF GuardInv, HoldersIdle, RepliesDue, ReleasesKnown, RedisOnce, LocalOnce, Token, NoOp, NoStore
<1>2. GuardInv /\ [Next]_vars => GuardInv'
  <2> SUFFICES ASSUME GuardInv, [Next]_vars PROVE GuardInv'
    OBVIOUS
  <2>1. Typed /\ Typed' /\ ReleasesKnown'
    BY StepTyped, ReleasesStayKnown DEF GuardInv
  <2>2. ASSUME Quiet PROVE GuardGoal
    <3>1. /\ UNCHANGED <<op, db, got, local, holds, orders, crossed>>
          /\ \A t \in Tasks : /\ task'[t].pc = "idle" <=> task[t].pc = "idle"
                              /\ task'[t].pc = "reply" <=> task[t].pc = "reply"
      BY <2>2 DEF Quiet, guardVars
    <3>2. \A t \in Tasks : Token(t)' => Token(t)
      BY <3>1 DEF Token
    <3>3. /\ \A t \in Tasks : holds[t] # NoStore => task'[t].pc = "idle"
          /\ \A t \in Tasks : got[t] => task'[t].pc = "reply" /\ op'[t].kind = "reserve"
      BY <3>1 DEF GuardInv, HoldersIdle, RepliesDue
    <3> QED
      BY <3>1, <3>2, <3>3, GuardUndisturbed
  <2>3. GuardGoal
    BY <2>1, <2>2, Moves, GuardElsewhere, GuardReservesLocally, GuardFills, GuardRejects,
       GuardExecutes, GuardEnds, GuardRestarts
  <2> QED
    BY <2>1, <2>3 DEF GuardInv, GuardGoal
<1>3. GuardInv => OneOrderPerStore
  <2> SUFFICES ASSUME GuardInv, NEW s \in Stores, s = "redis" => ~crossed
               PROVE  orders[s] + Cardinality({t \in Tasks : holds[t] = s}) <= 1
    BY DEF OneOrderPerStore
  <2>1. orders[s] \in 0..2
    BY Shapes DEF GuardInv
  <2> DEFINE H == {t \in Tasks : holds[t] = s}
  <2>2. (\A x, y \in H : x = y) /\ orders[s] <= 1 /\ (orders[s] = 1 => H = {})
    BY DEF GuardInv, RedisOnce, LocalOnce, Token, Stores
  <2>3. Cardinality(H) \in {0, 1} /\ (H = {} => Cardinality(H) = 0)
    BY <2>2, AtMostOne
  <2> QED
    BY <2>1, <2>2, <2>3
<1> QED
  BY <1>1, <1>2, <1>3, PTL DEF Spec
=============================================================================
