----------------------------- MODULE RedisGuards -----------------------------
(***************************************************************************)
(* Two users of the shared client whose answers decide whether an order is *)
(* placed: IdempotencyGuard (backend/app/core/hardening.py) with its two   *)
(* stores, and the durable emergency stop (operational_state.py).  All     *)
(* other commands are "other".                                             *)
(*                                                                         *)
(* One signal key is followed through one TTL window (300 s): reservations *)
(* do not expire.                                                          *)
(***************************************************************************)
EXTENDS RedisClient

VARIABLES
  op,        \* the command each task is executing, and the store it is about
  db,        \* the keys on the server: the reservation and the stop
  got,       \* the reply of the server to a reservation in flight
  local,     \* the key is in _local_cache
  holds,     \* the store that granted a task a reservation it has not used yet
  orders,    \* history: orders placed under a reservation of each store, in Redis
             \* counted as long as not crossed
  crossed,   \* history: a release removed another holder's key
  asked,     \* history: the last stop command to begin, or "cut" by a restart
  clean      \* history: it ran alone and was answered

vars == <<server, dropped, connected, circuit, failures, task,
          op, db, got, local, holds, orders, crossed, asked, clean>>

Stores == {"redis", "local"}
NoStore == "none"

ASSUME GuardConstants == IsFiniteSet(Tasks)

Commands == {"other", "reserve", "complete", "release", "activate", "clear"}
StopCommands == {"activate", "clear"}
NoOp == [kind |-> "other", store |-> NoStore]

TypeOK ==
  /\ ClientTypeOK
  /\ op \in [Tasks -> [kind : Commands, store : Stores \cup {NoStore}]]
  /\ db \in [order : BOOLEAN, stop : BOOLEAN]
  /\ got \in [Tasks -> BOOLEAN]
  /\ local \in BOOLEAN
  /\ holds \in [Tasks -> Stores \cup {NoStore}]
  /\ orders \in [Stores -> 0..2]
  /\ crossed \in BOOLEAN
  /\ asked \in StopCommands \cup {"cut"}
  /\ clean \in BOOLEAN

Init ==
  /\ ClientInit
  /\ op = [t \in Tasks |-> NoOp]
  /\ db = [order |-> FALSE, stop |-> FALSE]
  /\ got = [t \in Tasks |-> FALSE]
  /\ local = FALSE
  /\ holds = [t \in Tasks |-> NoStore]
  /\ orders = [s \in Stores |-> 0]
  /\ crossed = FALSE
  /\ asked = "clear"
  /\ clean = TRUE

guardVars == <<db, got, local, holds, orders, crossed>>
stopVars == <<asked, clean>>

InFlight(K) == {t \in Tasks : task[t].pc # "idle" /\ op[t].kind \in K}

(***************************************************************************)
(* Issuing a command: it starts, or an open circuit skips it.              *)
(***************************************************************************)
Issue(t, kind, store) ==
  \/ Begin(t) /\ op' = [op EXCEPT ![t] = [kind |-> kind, store |-> store]]
  \/ task[t].pc = "idle" /\ Refused /\ UNCHANGED <<clientVars, op>>

\* A read or a refresh of another component, among them the balance read of
\* validate_trade and the hourly refresh of the calendar.
Other(t) ==
  /\ holds[t] = NoStore
  /\ Begin(t)
  /\ op' = [op EXCEPT ![t] = NoOp]
  /\ UNCHANGED <<guardVars, stopVars>>

\* check_and_reserve: a healthy client asks Redis ...
ReserveRedis(t) ==
  /\ holds[t] = NoStore
  /\ Healthy
  /\ Begin(t)
  /\ op' = [op EXCEPT ![t] = [kind |-> "reserve", store |-> NoStore]]
  /\ UNCHANGED <<guardVars, stopVars>>

\* Mutant: the local store grants without keeping the key.
ReserveLocalForgetting(t) ==
  /\ task[t].pc = "idle"
  /\ holds[t] = NoStore
  /\ ~Healthy /\ ~local
  /\ holds' = [holds EXCEPT ![t] = "local"]
  /\ UNCHANGED <<clientVars, op, db, got, local, orders, crossed, stopVars>>

\* ... an unhealthy one grants the key from the memory of the process.
ReserveLocal(t) ==
  /\ task[t].pc = "idle"
  /\ holds[t] = NoStore
  /\ ~Healthy /\ ~local
  /\ local' = TRUE
  /\ holds' = [holds EXCEPT ![t] = "local"]
  /\ UNCHANGED <<clientVars, op, db, got, orders, crossed, stopVars>>

\* The holder's order is filled: mark_completed.
Fill(t) ==
  /\ holds[t] # NoStore
  /\ holds' = [holds EXCEPT ![t] = NoStore]
  /\ orders' = IF holds[t] = "redis" /\ crossed THEN orders
               ELSE [orders EXCEPT ![holds[t]] = IF @ < 2 THEN @ + 1 ELSE @]
  /\ Issue(t, "complete", NoStore)
  /\ UNCHANGED <<db, got, local, crossed, stopVars>>

\* The holder's order is rejected: mark_failed deletes the key in Redis, also when
\* the reservation is a local one.
Reject(t) ==
  /\ holds[t] # NoStore
  /\ holds' = [holds EXCEPT ![t] = NoStore]
  /\ Issue(t, "release", holds[t])
  /\ UNCHANGED <<db, got, local, orders, crossed, stopVars>>

\* activate_emergency_stop and clear_emergency_stop, after the process flag.
StopCommand(t, kind) ==
  /\ holds[t] = NoStore
  /\ Issue(t, kind, NoStore)
  /\ asked' = kind
  /\ clean' = (~Refused /\ InFlight(StopCommands) = {})
  /\ UNCHANGED guardVars

(***************************************************************************)
(* The command on its way.                                                 *)
(***************************************************************************)
\* Mutant: the reset of the stop leaves the key.
EffectKeyKept(o, d) ==
  [order |-> o.kind \in {"reserve", "complete"} \/ (d.order /\ o.kind # "release"),
   stop |-> o.kind = "activate" \/ d.stop]

\* set_nx and set leave the key there, delete removes it.
Effect(o, d) ==
  [order |-> o.kind \in {"reserve", "complete"} \/ (d.order /\ o.kind # "release"),
   stop |-> o.kind = "activate" \/ (d.stop /\ o.kind # "clear")]

Execute(t) ==
  /\ Apply(t)
  /\ db' = Effect(op[t], db)
  /\ got' = [got EXCEPT ![t] = (op[t].kind = "reserve" /\ ~db.order)]
  /\ crossed' = (crossed \/ (op[t].kind = "release" /\ op[t].store = "local" /\ db.order))
  /\ orders' = IF crossed' THEN [orders EXCEPT !["redis"] = 0] ELSE orders
  /\ UNCHANGED <<op, local, holds, stopVars>>

Answer(t) ==
  /\ Reply(t)
  /\ holds' = [holds EXCEPT ![t] = IF got[t] THEN "redis" ELSE NoStore]
  /\ got' = [got EXCEPT ![t] = FALSE]
  /\ op' = [op EXCEPT ![t] = NoOp]
  /\ UNCHANGED <<db, local, orders, crossed, stopVars>>

\* _execute returns None: a reservation is refused, whether or not the key is
\* there; nobody reads the result of the others.
NoAnswer(t) ==
  /\ CommandFails(t) \/ GiveUp(t)
  /\ got' = [got EXCEPT ![t] = FALSE]
  /\ op' = [op EXCEPT ![t] = NoOp]
  /\ clean' = (clean /\ op[t].kind \notin StopCommands)
  /\ UNCHANGED <<db, local, holds, orders, crossed, asked>>

Connection(t) ==
  /\ PingOk(t) \/ PingFails(t) \/ ConnectOk(t) \/ ConnectFails(t) \/ WakeAgain(t)
  /\ UNCHANGED <<op, guardVars, stopVars>>

Environment ==
  /\ ServerFails \/ ServerBack \/ CircuitTimer
  /\ UNCHANGED <<op, guardVars, stopVars>>

\* The memory of the process is lost; Redis keeps its keys (appendonly).
Restart ==
  /\ ClientRestart
  /\ local' = FALSE
  /\ holds' = [t \in Tasks |-> NoStore]
  /\ op' = [t \in Tasks |-> NoOp]
  /\ got' = [t \in Tasks |-> FALSE]
  /\ clean' = (clean /\ InFlight(StopCommands) = {})
  /\ orders' = [orders EXCEPT !["local"] = 0]
  /\ asked' = IF InFlight(StopCommands) = {} THEN asked ELSE "cut"
  /\ UNCHANGED <<db, crossed>>

TaskStep(t) == Connection(t) \/ Execute(t) \/ Answer(t) \/ NoAnswer(t)

Next ==
  \/ \E t \in Tasks :
       \/ Other(t) \/ ReserveRedis(t) \/ ReserveLocal(t) \/ Fill(t) \/ Reject(t)
       \/ \E kind \in StopCommands : StopCommand(t, kind)
       \/ TaskStep(t)
  \/ Environment \/ Restart

Spec == Init /\ [][Next]_vars

\* Every await of the client and of a broker has a timeout, and commands that do not
\* ask first whether the client is healthy keep coming: the balance is read for
\* every trade that is validated.
FairSpec ==
  /\ Spec
  /\ \A t \in Tasks : WF_vars(TaskStep(t))
  /\ WF_vars(Environment /\ CircuitTimer)
  /\ \A t \in Tasks : WF_vars(Fill(t) \/ Reject(t))
  /\ WF_vars(\E t \in Tasks : Other(t))

(***************************************************************************)
(* Properties.                                                             *)
(***************************************************************************)
\* No store admits a second order for a signal: neither a lost reply nor a
\* reconnect nor a release in flight makes it grant the key twice, unless a release
\* of a local reservation has removed a key that Redis had granted to another call.
\* (The memory of a new process is a new store.)
OneOrderPerStore ==
  \A s \in Stores :
    orders[s] + Cardinality({t \in Tasks : holds[t] = s}) <= 1 \/ (s = "redis" /\ crossed)

\* When the last stop command ran alone and was answered, the key says what was
\* asked for, also after a restart.
StopKept ==
  (clean /\ InFlight(StopCommands) = {}) => (db.stop <=> asked = "activate")

\* When the server stays up, the client becomes and stays healthy, although most
\* of its users do nothing while it is not.
Recovers == <>[]server => <>[]Healthy
=============================================================================
