----------------------------- MODULE RedisClient -----------------------------
(***************************************************************************)
(* RedisClient (backend/app/core/redis.py): one client shared by every     *)
(* task of the process, with a ping before each command, a reconnect loop  *)
(* with back-off, and a circuit breaker on the failures counted.           *)
(*                                                                         *)
(* A task is a coroutine inside _execute.  Its code runs atomically from   *)
(* one await to the next: the ping, the connection attempt, the back-off   *)
(* sleep, the command.  A command that has reached the server and whose    *)
(* reply is still on its way is a state of its own, so that a reply can be *)
(* lost.                                                                   *)
(***************************************************************************)
EXTENDS Naturals, FiniteSets

CONSTANTS
  Tasks,         \* coroutines that use the client
  Threshold,     \* _circuit_threshold
  MaxAttempts    \* _max_reconnect_attempts

ASSUME ClientConstants ==
  /\ Threshold \in Nat \ {0}
  /\ MaxAttempts \in Nat \ {0}

VARIABLES
  server,      \* the Redis server answers
  dropped,     \* the connection of a connected client died with an earlier server
  connected,   \* _connected
  circuit,     \* _circuit_open: "closed", "open", or "expired" once its time is over
  failures,    \* _failure_count, which is only compared with Threshold
  task         \* where each coroutine is suspended

clientVars == <<server, dropped, connected, circuit, failures, task>>

At(pc, tries) == [pc |-> pc, tries |-> tries, lost |-> FALSE]
IdleTask == At("idle", 0)

TaskState == [pc : {"idle", "ping", "connect", "sleep", "command", "reply"},
              tries : 0..MaxAttempts, lost : BOOLEAN]

ClientTypeOK ==
  /\ server \in BOOLEAN
  /\ dropped \in BOOLEAN
  /\ connected \in BOOLEAN
  /\ circuit \in {"closed", "open", "expired"}
  /\ failures \in 0..Threshold
  /\ task \in [Tasks -> TaskState]

\* The process starts only after connect() has succeeded.
ClientInit ==
  /\ server = TRUE
  /\ dropped = FALSE
  /\ connected = TRUE
  /\ circuit = "closed"
  /\ failures = 0
  /\ task = [t \in Tasks |-> IdleTask]

\* is_healthy
Healthy == connected /\ circuit = "closed"

OnWire(t) == task[t].pc \in {"ping", "connect", "command", "reply"}

Goto(t, pc) == task' = [task EXCEPT ![t] = At(pc, task[t].tries)]

\* Mutant: the connection keeps its mark when the circuit opens.
CountFailureOnly ==
  /\ UNCHANGED <<connected, dropped>>
  /\ failures' = IF failures < Threshold THEN failures + 1 ELSE failures
  /\ circuit' = IF failures + 1 >= Threshold THEN "open" ELSE circuit

\* What every failed attempt or command leaves behind.
CountFailure ==
  /\ connected' = FALSE
  /\ dropped' = FALSE
  /\ failures' = IF failures < Threshold THEN failures + 1 ELSE failures
  /\ circuit' = IF failures + 1 >= Threshold THEN "open" ELSE circuit

\* _ensure_connected answers at once while the circuit is open.
Refused == circuit = "open"

\* Mutant: a circuit that was opened is never tried again.
BeginClosedOnly(t) ==
  /\ task[t].pc = "idle"
  /\ circuit = "closed"
  /\ task' = [task EXCEPT ![t] = At(IF connected THEN "ping" ELSE "connect", 0)]
  /\ UNCHANGED <<server, dropped, connected, circuit, failures>>

\* A command enters _ensure_connected: a circuit whose time is over is half-open,
\* which the code writes as closed; then the ping of a connected client or the
\* first attempt to reconnect.
Begin(t) ==
  /\ task[t].pc = "idle"
  /\ ~Refused
  /\ circuit' = "closed"
  /\ task' = [task EXCEPT ![t] = At(IF connected THEN "ping" ELSE "connect", 0)]
  /\ UNCHANGED <<server, dropped, connected, failures>>

PingOk(t) ==
  /\ task[t].pc = "ping"
  /\ server /\ ~task[t].lost
  /\ dropped' = FALSE
  /\ Goto(t, "command")
  /\ UNCHANGED <<server, connected, circuit, failures>>

\* A failed ping is not counted; the reconnect loop begins.
PingFails(t) ==
  /\ task[t].pc = "ping"
  /\ ~server \/ task[t].lost \/ dropped
  /\ connected' = FALSE
  /\ dropped' = FALSE
  /\ Goto(t, "connect")
  /\ UNCHANGED <<server, circuit, failures>>

\* Mutant: the client counts as connected before the server has answered.
ConnectUnverified(t) ==
  /\ task[t].pc = "connect"
  /\ ~task[t].lost
  /\ connected' = TRUE
  /\ failures' = 0
  /\ circuit' = "closed"
  /\ dropped' = FALSE
  /\ Goto(t, "command")
  /\ UNCHANGED server

\* connect() with a new client whose ping is answered.
ConnectOk(t) ==
  /\ task[t].pc = "connect"
  /\ server /\ ~task[t].lost
  /\ connected' = TRUE
  /\ failures' = 0
  /\ circuit' = "closed"
  /\ dropped' = FALSE
  /\ Goto(t, "command")
  /\ UNCHANGED server

\* The attempt fails, also when another task has connected meanwhile, and the
\* loop sleeps, after its last attempt too.
ConnectFails(t) ==
  /\ task[t].pc = "connect"
  /\ ~server \/ task[t].lost
  /\ CountFailure
  /\ task' = [task EXCEPT ![t] = At("sleep", task[t].tries + 1)]
  /\ UNCHANGED server

\* The next attempt: connect() returns at once when another task has connected.
WakeAgain(t) ==
  /\ task[t].pc = "sleep"
  /\ task[t].tries < MaxAttempts
  /\ Goto(t, IF connected THEN "command" ELSE "connect")
  /\ UNCHANGED <<server, dropped, connected, circuit, failures>>

\* Every attempt is used up: the command is skipped.
GiveUp(t) ==
  /\ task[t].pc = "sleep"
  /\ task[t].tries = MaxAttempts
  /\ task' = [task EXCEPT ![t] = IdleTask]
  /\ UNCHANGED <<server, dropped, connected, circuit, failures>>

\* The server executes the command.
Apply(t) ==
  /\ task[t].pc = "command"
  /\ server /\ ~task[t].lost
  /\ Goto(t, "reply")
  /\ UNCHANGED <<server, dropped, connected, circuit, failures>>

Reply(t) ==
  /\ task[t].pc = "reply"
  /\ server /\ ~task[t].lost
  /\ failures' = 0
  /\ task' = [task EXCEPT ![t] = IdleTask]
  /\ UNCHANGED <<server, dropped, connected, circuit>>

\* The command fails before or after the server executed it.
CommandFails(t) ==
  /\ task[t].pc \in {"command", "reply"}
  /\ ~server \/ task[t].lost \/ (dropped /\ task[t].pc = "command")
  /\ CountFailure
  /\ task' = [task EXCEPT ![t] = IdleTask]
  /\ UNCHANGED server

ServerFails ==
  /\ server
  /\ server' = FALSE
  /\ dropped' = connected
  /\ task' = [t \in Tasks |-> [pc |-> task[t].pc, tries |-> task[t].tries,
                               lost |-> task[t].lost \/ OnWire(t)]]
  /\ UNCHANGED <<connected, circuit, failures>>

ServerBack ==
  /\ ~server
  /\ server' = TRUE
  /\ UNCHANGED <<dropped, connected, circuit, failures, task>>

\* _circuit_timeout is over.
CircuitTimer ==
  /\ circuit = "open"
  /\ circuit' = "expired"
  /\ UNCHANGED <<server, dropped, connected, failures, task>>

\* The process dies; it comes up again once connect() succeeds.
ClientRestart ==
  /\ server
  /\ dropped' = FALSE
  /\ connected' = TRUE
  /\ circuit' = "closed"
  /\ failures' = 0
  /\ task' = [t \in Tasks |-> IdleTask]
  /\ UNCHANGED server

ClientNext ==
  \/ \E t \in Tasks :
       \/ Begin(t) \/ PingOk(t) \/ PingFails(t) \/ ConnectOk(t) \/ ConnectFails(t)
       \/ WakeAgain(t) \/ GiveUp(t) \/ Apply(t) \/ Reply(t) \/ CommandFails(t)
  \/ ServerFails \/ ServerBack \/ CircuitTimer \/ ClientRestart

ClientSpec == ClientInit /\ [][ClientNext]_clientVars

\* An open circuit belongs to a client that knows it is not connected: nobody
\* reads "connected" while commands are being refused, although connections and
\* failures of several tasks overlap.
CircuitInv == circuit # "closed" => ~connected

\* The client as the rest of the process sees it: it becomes healthy only by a
\* connection that was verified, never on the strength of a dead server.
Health == INSTANCE RedisHealth WITH
  health <- IF ~Healthy THEN "down" ELSE IF server THEN "up" ELSE "failing"

HealthKept == Health!Spec
=============================================================================
