--------------------------- MODULE EngineManager ---------------------------
(***************************************************************************)
(* The lifecycle of one user's trading engines:                            *)
(* backend/app/engines/trading.py, TradingEngineManager with the           *)
(* TradingEngine instances it creates, their tasks and the asyncio lock    *)
(* that start, stop and stop_all take.                                     *)
(*                                                                         *)
(* asyncio.Lock is first come, first served.  Everything between two       *)
(* suspending awaits is one action; what suspends is the lock, the gather  *)
(* over cancelled tasks and the database read of get_status.  An engine    *)
(* runs one strategy loop, the one the start endpoint asks for, and the    *)
(* position monitor.                                                       *)
(***************************************************************************)
EXTENDS Naturals, Sequences, FiniteSets

CONSTANTS
  Starts,      \* requests that call manager.start
  Stops,       \* requests that call manager.stop
  StopAlls,    \* callers of manager.stop_all: emergency stop and shutdown
  NoRequest,   \* the lock is free
  MaxEngines   \* bound: engines created in a behaviour

Requests == Starts \cup Stops \cup StopAlls
Engines == 1..MaxEngines
Tasks == {"loop", "monitor"}

ASSUME ManagerConstants ==
  /\ NoRequest \notin Requests
  /\ Starts \cap Stops = {} /\ Starts \cap StopAlls = {} /\ Stops \cap StopAlls = {}
  /\ MaxEngines \in Nat

VARIABLES
  slot,     \* manager._engines[user]: an engine, or 0
  made,     \* number of engines created so far
  running,  \* TradingEngine.is_running
  held,     \* whether TradingEngine._tasks still lists the tasks
  task,     \* the asyncio tasks of every engine
  lock,     \* holder of manager._lock
  queue,    \* requests waiting for it, in order of arrival
  req       \* the calls in flight

vars == <<slot, made, running, held, task, lock, queue, req>>

IdleRequest == [pc |-> "idle", target |-> 0]

RequestState == [pc : {"idle", "queued", "scheduled", "gather", "create", "status"},
                 target : 0..MaxEngines]

TypeOK ==
  /\ slot \in 0..MaxEngines
  /\ made \in 0..MaxEngines
  /\ running \in [Engines -> BOOLEAN]
  /\ held \in [Engines -> BOOLEAN]
  /\ task \in [Engines -> [Tasks -> {"none", "starting", "live", "cancelled", "done"}]]
  /\ lock \in Requests \cup {NoRequest}
  /\ queue \in Seq(Requests)
  /\ req \in [Requests -> RequestState]

Init ==
  /\ slot = 0
  /\ made = 0
  /\ running = [e \in Engines |-> FALSE]
  /\ held = [e \in Engines |-> FALSE]
  /\ task = [e \in Engines |-> [t \in Tasks |-> "none"]]
  /\ lock = NoRequest
  /\ queue = <<>>
  /\ req = [r \in Requests |-> IdleRequest]

Alive(e) == {t \in Tasks : task[e][t] \in {"starting", "live", "cancelled"}}

engineVars == <<slot, made, running, held, task>>

(***************************************************************************)
(* The lock.                                                               *)
(***************************************************************************)
Arrive(r) ==
  /\ req[r].pc = "idle"
  /\ req' = [req EXCEPT ![r].pc = "queued"]
  /\ queue' = Append(queue, r)
  /\ UNCHANGED <<engineVars, lock>>

\* r is the first in the queue and finds the lock free.
Acquire(r) ==
  /\ req[r].pc = "queued"
  /\ lock = NoRequest
  /\ queue # <<>>
  /\ Head(queue) = r
  /\ queue' = Tail(queue)

\* The call of r returns or raises, and releases the lock.
Release(r) ==
  /\ lock' = NoRequest
  /\ req' = [req EXCEPT ![r] = IdleRequest]

(***************************************************************************)
(* TradingEngine.stop up to its gather: is_running falls, every listed     *)
(* task is cancelled and the list is emptied.                              *)
(***************************************************************************)
\* Mutant: the list is emptied before the tasks in it are cancelled.
CancelTasksEmptied(e) ==
  IF running[e] \/ held[e]
  THEN /\ running' = [running EXCEPT ![e] = FALSE]
       /\ held' = [held EXCEPT ![e] = FALSE]
       /\ UNCHANGED task
  ELSE UNCHANGED <<running, held, task>>

CancelTasks(e) ==
  IF running[e] \/ held[e]
  THEN /\ running' = [running EXCEPT ![e] = FALSE]
       /\ held' = [held EXCEPT ![e] = FALSE]
       /\ task' = [task EXCEPT ![e] =
            [t \in Tasks |-> IF held[e] /\ t \in Alive(e) THEN "cancelled" ELSE @[t]]]
  ELSE UNCHANGED <<running, held, task>>

\* What gather waits for: every task of e has ended.
Gathered(e) == Alive(e) = {}

(***************************************************************************)
(* manager.start.                                                          *)
(***************************************************************************)
\* The user's engine is running: "Trading engine is already running".
StartRefused(r) ==
  /\ Acquire(r)
  /\ slot # 0
  /\ running[slot]
  /\ lock' = NoRequest
  /\ req' = [req EXCEPT ![r] = IdleRequest]
  /\ UNCHANGED engineVars

\* No engine, or one that does not run any more, which is stopped first.
StartLocked(r) ==
  /\ Acquire(r)
  /\ slot # 0 => ~running[slot]
  /\ lock' = r
  /\ req' = [req EXCEPT ![r] = [pc |-> "create", target |-> slot]]
  /\ IF slot # 0 THEN CancelTasks(slot) ELSE UNCHANGED <<running, held, task>>
  /\ UNCHANGED <<slot, made>>

\* Mutant: the engine that is replaced is not waited for.
StartCreatesAtOnce(r) ==
  LET e == made + 1 IN
  /\ req[r].pc = "create"
  /\ made < MaxEngines
  /\ made' = e
  /\ slot' = e
  /\ running' = [running EXCEPT ![e] = TRUE]
  /\ held' = [held EXCEPT ![e] = TRUE]
  /\ task' = [task EXCEPT ![e] = [loop |-> "starting", monitor |-> "live"]]
  /\ req' = [req EXCEPT ![r] = [pc |-> "status", target |-> e]]
  /\ UNCHANGED <<lock, queue>>

\* The new engine starts its tasks and takes the slot.
StartCreates(r) ==
  LET e == made + 1 IN
  /\ req[r].pc = "create"
  /\ req[r].target # 0 => Gathered(req[r].target)
  /\ made < MaxEngines
  /\ made' = e
  /\ slot' = e
  /\ running' = [running EXCEPT ![e] = TRUE]
  /\ held' = [held EXCEPT ![e] = TRUE]
  /\ task' = [task EXCEPT ![e] = [loop |-> "starting", monitor |-> "live"]]
  /\ req' = [req EXCEPT ![r] = [pc |-> "status", target |-> e]]
  /\ UNCHANGED <<lock, queue>>

\* Mutant: the lock is not released when engine.start raises.
StartRaisesLocked(r) ==
  /\ req[r].pc = "create"
  /\ req[r].target # 0 => Gathered(req[r].target)
  /\ req' = [req EXCEPT ![r] = IdleRequest]
  /\ UNCHANGED <<engineVars, lock, queue>>

\* The configuration is not active: engine.start raises before any task exists.
StartRaises(r) ==
  /\ req[r].pc = "create"
  /\ req[r].target # 0 => Gathered(req[r].target)
  /\ Release(r)
  /\ UNCHANGED <<engineVars, queue>>

(***************************************************************************)
(* manager.stop.                                                           *)
(***************************************************************************)
StopLocked(r) ==
  /\ Acquire(r)
  /\ lock' = r
  /\ slot' = 0
  /\ IF slot # 0
     THEN /\ CancelTasks(slot)
          /\ req' = [req EXCEPT ![r] = [pc |-> "gather", target |-> slot]]
     ELSE /\ req' = [req EXCEPT ![r] = [pc |-> "status", target |-> 0]]
          /\ UNCHANGED <<running, held, task>>
  /\ UNCHANGED made

\* Mutant: the call returns an answer of its own in place of the status.
StopGatheredAnswers(r) ==
  /\ req[r].pc = "gather"
  /\ Gathered(req[r].target)
  /\ req' = [req EXCEPT ![r].pc = "answered"]
  /\ UNCHANGED <<engineVars, lock, queue>>

StopGathered(r) ==
  /\ req[r].pc = "gather"
  /\ Gathered(req[r].target)
  /\ req' = [req EXCEPT ![r].pc = "status"]
  /\ UNCHANGED <<engineVars, lock, queue>>

\* get_status has read the open trades, or failed to.
StatusRead(r) ==
  /\ req[r].pc = "status"
  /\ Release(r)
  /\ UNCHANGED <<engineVars, queue>>

(***************************************************************************)
(* manager.stop_all: the map is emptied under the lock; the engines are    *)
(* stopped after its release, by tasks that gather has only scheduled.     *)
(***************************************************************************)
\* Mutant: the map is emptied before its engines are listed.
StopAllLockedEmptied(r) ==
  /\ Acquire(r)
  /\ slot' = 0
  /\ req' = [req EXCEPT ![r] = [pc |-> "scheduled", target |-> 0]]
  /\ UNCHANGED <<made, running, held, task, lock>>

StopAllLocked(r) ==
  /\ Acquire(r)
  /\ slot' = 0
  /\ req' = [req EXCEPT ![r] = [pc |-> "scheduled", target |-> slot]]
  /\ UNCHANGED <<made, running, held, task, lock>>

StopAllCancels(r) ==
  /\ req[r].pc = "scheduled"
  /\ IF req[r].target # 0
     THEN CancelTasks(req[r].target)
     ELSE UNCHANGED <<running, held, task>>
  /\ req' = [req EXCEPT ![r].pc = "gather"]
  /\ UNCHANGED <<slot, made, lock, queue>>

StopAllGathered(r) ==
  /\ req[r].pc = "gather"
  /\ req[r].target # 0 => Gathered(req[r].target)
  /\ req' = [req EXCEPT ![r] = IdleRequest]
  /\ UNCHANGED <<engineVars, lock, queue>>

(***************************************************************************)
(* The tasks of an engine.                                                 *)
(***************************************************************************)
SetTask(e, t, state) == task' = [task EXCEPT ![e][t] = state]

taskVars == <<slot, made, held, lock, queue, req>>

LoopReady(e) ==
  /\ task[e]["loop"] = "starting"
  /\ SetTask(e, "loop", "live")
  /\ UNCHANGED <<taskVars, running>>

\* The strategy or the broker cannot be had: the loop ends and takes the engine
\* down with it.
LoopInitFails(e) ==
  /\ task[e]["loop"] = "starting"
  /\ SetTask(e, "loop", "done")
  /\ running' = [running EXCEPT ![e] = FALSE]
  /\ UNCHANGED taskVars

\* A loop or monitor sees is_running fall at its next cycle, ...
TaskLeaves(e, t) ==
  /\ task[e][t] = "live"
  /\ ~running[e]
  /\ SetTask(e, t, "done")
  /\ UNCHANGED <<taskVars, running>>

\* ... or the cancellation reaches it at the await it is suspended in.
TaskCancelled(e, t) ==
  /\ task[e][t] = "cancelled"
  /\ SetTask(e, t, "done")
  /\ UNCHANGED <<taskVars, running>>

RequestStep(r) ==
  \/ r \in Starts /\ (StartRefused(r) \/ StartLocked(r) \/ StartCreates(r) \/ StartRaises(r))
  \/ r \in Stops /\ (StopLocked(r) \/ StopGathered(r))
  \/ r \in Starts \cup Stops /\ StatusRead(r)
  \/ r \in StopAlls /\ (StopAllLocked(r) \/ StopAllCancels(r) \/ StopAllGathered(r))

TaskStep(e) ==
  \/ LoopReady(e) \/ LoopInitFails(e)
  \/ \E t \in Tasks : TaskLeaves(e, t) \/ TaskCancelled(e, t)

Next ==
  \/ \E r \in Requests : Arrive(r) \/ RequestStep(r)
  \/ \E e \in Engines : TaskStep(e)

Spec == Init /\ [][Next]_vars

\* The event loop runs every task and every request that can go on.
FairSpec ==
  /\ Spec
  /\ \A r \in Requests : WF_vars(RequestStep(r))
  /\ \A e \in Engines : WF_vars(TaskStep(e))

(***************************************************************************)
(* Properties.                                                             *)
(***************************************************************************)
StoppedBy(e) == {r \in StopAlls : req[r].pc = "scheduled" /\ req[r].target = e}

\* No engine is left running out of reach: it is the one in the manager's map,
\* or a stop_all that took it out of the map is about to cancel it.
RunningReachable ==
  \A e \in Engines : running[e] => slot = e \/ StoppedBy(e) # {}

\* start, stop and stop_all never leave the tasks of an engine without its
\* is_running flag while the list that stop would cancel is already empty.
TasksCancellable ==
  \A e \in Engines : \A t \in Alive(e) : held[e] \/ task[e][t] = "cancelled"

TakenBy(e) ==
  {r \in StopAlls : req[r].pc \in {"scheduled", "gather"} /\ req[r].target = e}

\* Two engines of the user have tasks at the same time only while a stop_all that
\* took one of them out of the map has not returned: start waits for the tasks of
\* the engine it replaces, and stop keeps the lock until those of the engine it
\* removed have ended.
OneEngineAlive ==
  \A d, e \in Engines :
    Alive(d) # {} /\ Alive(e) # {} => d = e \/ TakenBy(d) # {} \/ TakenBy(e) # {}

\* A call that is past the lock and has not returned holds it; stop_all does not.
HoldsLock(r) == req[r].pc \in {"create", "status"} \/ (req[r].pc = "gather" /\ r \in Stops)

LockKept == \A r \in Requests : HoldsLock(r) => lock = r

\* Engines not created yet have neither flag nor tasks.
FutureIdle ==
  /\ slot <= made
  /\ \A e \in Engines : e > made => ~running[e] /\ Alive(e) = {}

\* While start waits to create an engine, the one it replaces stays in the map
\* and does not run.
ReplacedIdle ==
  \A r \in Requests : req[r].pc = "create" =>
    req[r].target = slot /\ (slot # 0 => ~running[slot])

\* What RunningReachable rests on.
ReachInv == LockKept /\ FutureIdle /\ ReplacedIdle /\ RunningReachable

\* What OneEngineAlive rests on: tasks belong to the engine in the map, to one
\* that a stop_all is ending, or to the one that a stop, holding the lock, has
\* removed and waits for.
Removing(r, e) == r \in Stops /\ req[r].pc = "gather" /\ req[r].target = e

AliveInv ==
  /\ LockKept /\ FutureIdle /\ ReplacedIdle
  /\ \A r \in Stops : req[r].pc = "gather" => slot = 0
  /\ \A e \in Engines : Alive(e) # {} =>
       slot = e \/ TakenBy(e) # {} \/ \E r \in Requests : Removing(r, e)

\* Every call of the manager returns: no holder of the lock waits for something
\* that waits for the lock.
CallsReturn == \A r \in Requests : []<>(req[r].pc = "idle")

\* An engine that left the map does not go on trading.
RemovedEngineEnds == \A e \in Engines : (made >= e /\ slot # e) ~> (Alive(e) = {})
=============================================================================
