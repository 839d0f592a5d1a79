------------------------ MODULE EngineManagerProofs ------------------------
(***************************************************************************)
(* Proofs about EngineManager, for every set of calls and every number of  *)
(* engines.  Both safety theorems rest on the lock: a call past it that    *)
(* has not returned holds it (LockKept), so that what start and stop read  *)
(* before they wait still holds when they go on.                           *)
(***************************************************************************)
EXTENDS EngineManager, TLAPS

\* TradingEngine.stop leaves the engine's state typed.
LEMMA CancelTypes ==
  ASSUME TypeOK, NEW e \in Engines, CancelTasks(e)
  PROVE  /\ running' \in [Engines -> BOOLEAN]
         /\ held' \in [Engines -> BOOLEAN]
         /\ task' \in [Engines -> [Tasks -> {"none", "starting", "live", "cancelled", "done"}]]
<1>1. CASE running[e] \/ held[e]
  <2> DEFINE new == [t \in Tasks |-> IF held[e] /\ t \in Alive(e) THEN "cancelled" ELSE task[e][t]]
  <2>1. /\ running' = [running EXCEPT ![e] = FALSE]
        /\ held' = [held EXCEPT ![e] = FALSE]
        /\ task' = [task EXCEPT ![e] = new]
    BY <1>1 DEF CancelTasks, TypeOK
  <2>2. new \in [Tasks -> {"none", "starting", "live", "cancelled", "done"}]
    BY DEF TypeOK
  <2> HIDE DEF new
  <2>3. QED
    BY <2>1, <2>2 DEF TypeOK
<1>2. CASE ~(running[e] \/ held[e])
  BY <1>2 DEF TypeOK, CancelTasks
<1>3. QED
  BY <1>1, <1>2

\* The steps of start, stop and stop_all keep the state typed.
LEMMA RequestTypes ==
  ASSUME TypeOK, NEW r \in Requests, Arrive(r) \/ RequestStep(r)
  PROVE  TypeOK'
<1>0. MaxEngines \in Nat /\ 0 \in 0..MaxEngines /\ Engines \subseteq 0..MaxEngines
  BY ManagerConstants DEF Engines
<1>1. \A pc \in {"idle", "queued", "scheduled", "gather", "create", "status"},
         e \in 0..MaxEngines : [pc |-> pc, target |-> e] \in RequestState
  BY DEF RequestState
<1>2. IdleRequest \in RequestState
  BY <1>0, <1>1 DEF IdleRequest
<1>3. req \in [Requests -> RequestState] /\ req[r] \in RequestState
  BY DEF TypeOK
<1>4. ASSUME NEW pc \in {"idle", "queued", "scheduled", "gather", "create", "status"}
      PROVE  [req EXCEPT ![r].pc = pc] \in [Requests -> RequestState]
  BY <1>3 DEF RequestState
<1>5. Acquire(r) => queue' \in Seq(Requests)
  BY DEF TypeOK, Acquire
<1>6. slot # 0 => slot \in Engines
  BY <1>0 DEF TypeOK, Engines
<1>7. CASE Arrive(r)
  BY <1>4, <1>7 DEF TypeOK, Arrive, engineVars
<1>8. CASE StartRefused(r)
  <2>1. req' \in [Requests -> RequestState]
    BY <1>2, <1>3, <1>8 DEF StartRefused
  <2>2. QED
    BY <1>5, <1>8, <2>1 DEF TypeOK, StartRefused, engineVars
<1>9. CASE StartLocked(r)
  <2>1. req' \in [Requests -> RequestState]
    <3>1. [pc |-> "create", target |-> slot] \in RequestState
      BY <1>1 DEF TypeOK
    <3>2. QED
      BY <1>3, <1>9, <3>1 DEF StartLocked
  <2>2. /\ running' \in [Engines -> BOOLEAN]
        /\ held' \in [Engines -> BOOLEAN]
        /\ task' \in [Engines -> [Tasks -> {"none", "starting", "live", "cancelled", "done"}]]
    <3>1. CASE slot # 0
      BY <1>6, <1>9, <3>1, CancelTypes DEF StartLocked
    <3>2. CASE slot = 0
      BY <1>9, <3>2 DEF StartLocked, TypeOK
    <3>3. QED
      BY <3>1, <3>2
  <2>3. QED
    BY <1>5, <1>9, <2>1, <2>2 DEF TypeOK, StartLocked
<1>10. CASE StartCreates(r)
  <2> DEFINE e == made + 1
  <2>1. e \in Engines /\ e \in 0..MaxEngines
    BY <1>0, <1>10 DEF TypeOK, StartCreates, Engines
  <2>2. req' \in [Requests -> RequestState]
    <3>1. [pc |-> "status", target |-> e] \in RequestState
      BY <1>1, <2>1
    <3>2. QED
      BY <1>3, <1>10, <3>1 DEF StartCreates
  <2>3. task' \in [Engines -> [Tasks -> {"none", "starting", "live", "cancelled", "done"}]]
    <3>1. [loop |-> "starting", monitor |-> "live"]
            \in [Tasks -> {"none", "starting", "live", "cancelled", "done"}]
      BY DEF Tasks
    <3>2. QED
      BY <1>10, <3>1 DEF StartCreates, TypeOK
  <2>4. QED
    BY <1>10, <2>1, <2>2, <2>3 DEF TypeOK, StartCreates
<1>11. CASE StartRaises(r) \/ StatusRead(r)
  <2>1. req' \in [Requests -> RequestState]
    BY <1>2, <1>3, <1>11 DEF StartRaises, StatusRead, Release
  <2>2. QED
    BY <1>11, <2>1 DEF TypeOK, StartRaises, StatusRead, Release, engineVars
<1>12. CASE StopLocked(r)
  <2>1. req' \in [Requests -> RequestState]
    <3>1. /\ [pc |-> "gather", target |-> slot] \in RequestState
          /\ [pc |-> "status", target |-> 0] \in RequestState
      BY <1>0, <1>1 DEF TypeOK
    <3>2. QED
      BY <1>3, <1>12, <3>1 DEF StopLocked
  <2>2. /\ running' \in [Engines -> BOOLEAN]
        /\ held' \in [Engines -> BOOLEAN]
        /\ task' \in [Engines -> [Tasks -> {"none", "starting", "live", "cancelled", "done"}]]
    <3>1. CASE slot # 0
      BY <1>6, <1>12, <3>1, CancelTypes DEF StopLocked
    <3>2. CASE slot = 0
      BY <1>12, <3>2 DEF StopLocked, TypeOK
    <3>3. QED
      BY <3>1, <3>2
  <2>3. QED
    BY <1>0, <1>5, <1>12, <2>1, <2>2 DEF TypeOK, StopLocked
<1>13. CASE StopGathered(r)
  BY <1>4, <1>13 DEF TypeOK, StopGathered, engineVars
<1>14. CASE StopAllLocked(r)
  <2>1. req' \in [Requests -> RequestState]
    <3>1. [pc |-> "scheduled", target |-> slot] \in RequestState
      BY <1>1 DEF TypeOK
    <3>2. QED
      BY <1>3, <1>14, <3>1 DEF StopAllLocked
  <2>2. QED
    BY <1>0, <1>5, <1>14, <2>1 DEF TypeOK, StopAllLocked
<1>15. CASE StopAllCancels(r)
  <2>1. req[r].target \in 0..MaxEngines
    BY <1>3 DEF RequestState
  <2>2. /\ running' \in [Engines -> BOOLEAN]
        /\ held' \in [Engines -> BOOLEAN]
        /\ task' \in [Engines -> [Tasks -> {"none", "starting", "live", "cancelled", "done"}]]
    <3>1. CASE req[r].target # 0
      <4>1. req[r].target \in Engines
        BY <1>0, <2>1, <3>1 DEF Engines
      <4>2. QED
        BY <1>15, <3>1, <4>1, CancelTypes DEF StopAllCancels
    <3>2. CASE req[r].target = 0
      BY <1>15, <3>2 DEF StopAllCancels, TypeOK
    <3>3. QED
      BY <3>1, <3>2
  <2>3. QED
    BY <1>4, <1>15, <2>2 DEF TypeOK, StopAllCancels
<1>16. CASE StopAllGathered(r)
  <2>1. req' \in [Requests -> RequestState]
    BY <1>2, <1>3, <1>16 DEF StopAllGathered
  <2>2. QED
    BY <1>16, <2>1 DEF TypeOK, StopAllGathered, engineVars
<1>17. QED
  BY <1>7, <1>8, <1>9, <1>10, <1>11, <1>12, <1>13, <1>14, <1>15, <1>16 DEF RequestStep

\* The steps of the tasks keep the state typed.
LEMMA TaskTypes ==
  ASSUME TypeOK, NEW e \in Engines, TaskStep(e)
  PROVE  TypeOK'
<1>1. ASSUME NEW t \in Tasks,
             NEW state \in {"none", "starting", "live", "cancelled", "done"}, SetTask(e, t, state)
      PROVE  task' \in [Engines -> [Tasks -> {"none", "starting", "live", "cancelled", "done"}]]
  BY <1>1 DEF TypeOK, SetTask
<1>2. "loop" \in Tasks
  BY DEF Tasks
<1>3. CASE LoopReady(e)
  BY <1>1, <1>2, <1>3 DEF TypeOK, LoopReady, taskVars
<1>4. CASE LoopInitFails(e)
  <2>1. task' \in [Engines -> [Tasks -> {"none", "starting", "live", "cancelled", "done"}]]
    BY <1>1, <1>2, <1>4 DEF LoopInitFails
  <2>2. QED
    BY <1>4, <2>1 DEF TypeOK, LoopInitFails, taskVars
<1>5. ASSUME NEW t \in Tasks, TaskLeaves(e, t) \/ TaskCancelled(e, t) PROVE TypeOK'
  BY <1>1, <1>5 DEF TypeOK, TaskLeaves, TaskCancelled, taskVars
<1>6. QED
  BY <1>3, <1>4, <1>5 DEF TaskStep

\* Every variable of the manager and of its engines keeps its type.
THEOREM TypeCorrect == Spec => []TypeOK
<1>1. Init => TypeOK
  BY ManagerConstants DEF Init, TypeOK, IdleRequest, RequestState, Engines, Tasks
<1>2. TypeOK /\ [Next]_vars => TypeOK'
  BY RequestTypes, TaskTypes DEF Next, vars, TypeOK
<1>3. QED
  BY <1>1, <1>2, PTL DEF Spec

\* TradingEngine.stop stops its own engine, starts none and ends no task at once.
LEMMA CancelEffect ==
  ASSUME TypeOK, NEW e \in Engines, CancelTasks(e)
  PROVE  /\ ~running'[e]
         /\ \A d \in Engines : running'[d] => running[d]
         /\ \A d \in Engines : Alive(d)' = Alive(d)
<1>1. CASE running[e] \/ held[e]
  <2> DEFINE new == [t \in Tasks |-> IF held[e] /\ t \in Alive(e) THEN "cancelled" ELSE task[e][t]]
  <2>1. /\ running' = [running EXCEPT ![e] = FALSE]
        /\ task' = [task EXCEPT ![e] = new]
    BY <1>1 DEF CancelTasks, TypeOK
  <2>2. {t \in Tasks : new[t] \in {"starting", "live", "cancelled"}} = Alive(e)
    BY DEF Alive
  <2> HIDE DEF new
  <2>3. \A d \in Engines : Alive(d)' = Alive(d)
    <3> SUFFICES ASSUME NEW d \in Engines PROVE Alive(d)' = Alive(d)
      OBVIOUS
    <3>1. CASE d = e
      <4>1. task'[e] = new
        BY <2>1 DEF TypeOK
      <4>2. Alive(e)' = {t \in Tasks : new[t] \in {"starting", "live", "cancelled"}}
        BY <4>1 DEF Alive
      <4>3. QED
        BY <2>2, <3>1, <4>2
    <3>2. CASE d # e
      BY <2>1, <3>2 DEF Alive, TypeOK
    <3>3. QED
      BY <3>1, <3>2
  <2>4. QED
    BY <2>1, <2>3 DEF TypeOK
<1>2. CASE ~(running[e] \/ held[e])
  BY <1>2 DEF CancelTasks, Alive
<1>3. QED
  BY <1>1, <1>2

\* A task of an engine neither touches the manager nor brings anything to life.
LEMMA TaskEffect ==
  ASSUME TypeOK, NEW e \in Engines, TaskStep(e)
  PROVE  /\ UNCHANGED <<slot, made, lock, req>>
         /\ \A d \in Engines : running'[d] => running[d]
         /\ \A d \in Engines : Alive(d)' \subseteq Alive(d)
<1>1. ASSUME NEW t \in Tasks, task[e][t] \in {"starting", "live", "cancelled"},
             NEW state \in {"live", "done"}, SetTask(e, t, state)
      PROVE  \A d \in Engines : Alive(d)' \subseteq Alive(d)
  BY <1>1 DEF SetTask, Alive, TypeOK
<1>2. "loop" \in Tasks
  BY DEF Tasks
<1>3. CASE LoopReady(e)
  BY <1>1, <1>2, <1>3 DEF LoopReady, taskVars
<1>4. CASE LoopInitFails(e)
  BY <1>1, <1>2, <1>4 DEF LoopInitFails, taskVars, TypeOK
<1>5. ASSUME NEW t \in Tasks, TaskLeaves(e, t) \/ TaskCancelled(e, t)
      PROVE  /\ UNCHANGED <<slot, made, lock, req>>
             /\ \A d \in Engines : running'[d] => running[d]
             /\ \A d \in Engines : Alive(d)' \subseteq Alive(d)
  BY <1>1, <1>5 DEF TaskLeaves, TaskCancelled, taskVars
<1>6. QED
  BY <1>3, <1>4, <1>5 DEF TaskStep

\* A call past the lock holds it until it returns.
LEMMA LockStep ==
  ASSUME TypeOK, LockKept, NEW r \in Requests, Arrive(r) \/ RequestStep(r)
  PROVE  LockKept'
<1>1. /\ req \in [Requests -> RequestState] /\ req[r] \in RequestState
      /\ NoRequest \notin Requests
      /\ Starts \cap Stops = {} /\ Starts \cap StopAlls = {} /\ Stops \cap StopAlls = {}
  BY ManagerConstants DEF TypeOK
<1>2. ASSUME lock' = lock, \A q \in Requests \ {r} : req'[q] = req[q],
             HoldsLock(r)' => HoldsLock(r)
      PROVE  LockKept'
  BY <1>2 DEF LockKept, HoldsLock
<1>3. ASSUME lock = NoRequest, \A q \in Requests \ {r} : req'[q] = req[q],
             HoldsLock(r)' => lock' = r
      PROVE  LockKept'
  BY <1>1, <1>3 DEF LockKept, HoldsLock
<1>4. ASSUME HoldsLock(r), \A q \in Requests \ {r} : req'[q] = req[q], ~HoldsLock(r)'
      PROVE  LockKept'
  BY <1>1, <1>4 DEF LockKept, HoldsLock
<1>5. CASE Arrive(r)
  BY <1>1, <1>2, <1>5 DEF Arrive, HoldsLock, RequestState
<1>6. CASE StartRefused(r)
  BY <1>1, <1>3, <1>6 DEF StartRefused, Acquire, HoldsLock, IdleRequest
<1>7. CASE StartLocked(r)
  BY <1>1, <1>3, <1>7 DEF StartLocked, Acquire
<1>8. CASE StartCreates(r)
  BY <1>1, <1>2, <1>8 DEF StartCreates, HoldsLock
<1>9. CASE StartRaises(r) \/ StatusRead(r)
  BY <1>1, <1>4, <1>9 DEF StartRaises, StatusRead, Release, HoldsLock, IdleRequest
<1>10. CASE StopLocked(r)
  BY <1>1, <1>3, <1>10 DEF StopLocked, Acquire
<1>11. CASE r \in Stops /\ StopGathered(r)
  BY <1>1, <1>2, <1>11 DEF StopGathered, HoldsLock
<1>12. CASE r \in StopAlls /\ StopAllLocked(r)
  BY <1>1, <1>3, <1>12 DEF StopAllLocked, Acquire, HoldsLock
<1>13. CASE r \in StopAlls /\ StopAllCancels(r)
  BY <1>1, <1>2, <1>13 DEF StopAllCancels, HoldsLock, RequestState
<1>14. CASE r \in StopAlls /\ StopAllGathered(r)
  BY <1>1, <1>2, <1>14 DEF StopAllGathered, HoldsLock, IdleRequest
<1>15. QED
  BY <1>5, <1>6, <1>7, <1>8, <1>9, <1>10, <1>11, <1>12, <1>13, <1>14 DEF RequestStep

\* manager.start replaces an engine that neither runs nor has tasks.
LEMMA CreateEffect ==
  ASSUME TypeOK, FutureIdle, ReplacedIdle, NEW r \in Requests, StartCreates(r)
  PROVE  /\ made' \in Engines /\ made' > made /\ slot' = made' /\ lock' = lock
         /\ slot # 0 => slot \in Engines /\ ~running[slot] /\ Alive(slot) = {}
         /\ \A e \in Engines : e # made' => running'[e] = running[e] /\ Alive(e)' = Alive(e)
<1> DEFINE new == made + 1
<1>1. /\ made' = new /\ slot' = new /\ lock' = lock
      /\ made \in Nat /\ new \in Engines
      /\ running' = [running EXCEPT ![new] = TRUE]
      /\ task' = [task EXCEPT ![new] = [loop |-> "starting", monitor |-> "live"]]
      /\ req[r].pc = "create"
      /\ req[r].target # 0 => Alive(req[r].target) = {}
  BY ManagerConstants DEF StartCreates, TypeOK, Engines, Gathered
<1>2. slot # 0 => slot \in Engines /\ ~running[slot] /\ Alive(slot) = {}
  <2>1. slot \in 0..MaxEngines /\ MaxEngines \in Nat
    BY ManagerConstants DEF TypeOK
  <2>2. slot # 0 => slot \in Engines
    BY <2>1 DEF Engines
  <2>3. req[r].target = slot /\ (slot # 0 => ~running[slot])
    BY <1>1 DEF ReplacedIdle
  <2>4. QED
    BY <1>1, <2>2, <2>3
<1>3. \A e \in Engines : e # new => running'[e] = running[e] /\ Alive(e)' = Alive(e)
  BY <1>1 DEF TypeOK, Alive
<1>4. QED
  BY <1>1, <1>2, <1>3

\* The engine that start replaces stays in the map, stopped, while start waits,
\* and engines that were not created yet stay idle.
LEMMA IdleStep ==
  ASSUME TypeOK, LockKept, FutureIdle, ReplacedIdle, NEW r \in Requests,
         Arrive(r) \/ RequestStep(r)
  PROVE  FutureIdle' /\ ReplacedIdle'
<1>1. /\ req \in [Requests -> RequestState] /\ req[r] \in RequestState
      /\ NoRequest \notin Requests
      /\ slot \in Nat /\ made \in Nat /\ 0 \in Nat
      /\ slot # 0 => slot \in Engines
      /\ \A e \in Engines : e \in Nat
  BY ManagerConstants DEF TypeOK, Engines
<1>2. ASSUME made' = made, slot' <= made,
             \A e \in Engines : running'[e] => running[e],
             \A e \in Engines : Alive(e)' = Alive(e)
      PROVE  FutureIdle'
  BY <1>2 DEF FutureIdle
<1>3. ASSUME slot' = slot, \A q \in Requests \ {r} : req'[q] = req[q],
             req'[r].pc # "create",
             \A e \in Engines : running'[e] => running[e]
      PROVE  ReplacedIdle'
  BY <1>1, <1>3 DEF ReplacedIdle
<1>4. ASSUME lock = NoRequest PROVE \A q \in Requests : req[q].pc # "create"
  BY <1>1, <1>4 DEF LockKept, HoldsLock
<1>5. ASSUME UNCHANGED <<slot, made, running, task>>, req'[r].pc # "create",
             \A q \in Requests \ {r} : req'[q] = req[q]
      PROVE  FutureIdle' /\ ReplacedIdle'
  BY <1>2, <1>3, <1>5 DEF FutureIdle, Alive
<1>6. CASE Arrive(r)
  BY <1>1, <1>5, <1>6 DEF Arrive, engineVars, RequestState
<1>7. CASE StartRefused(r) \/ StartRaises(r) \/ StatusRead(r) \/ StopAllGathered(r)
  BY <1>1, <1>5, <1>7 DEF StartRefused, StartRaises, StatusRead, StopAllGathered, Release,
     IdleRequest, engineVars
<1>8. CASE StopGathered(r)
  BY <1>1, <1>5, <1>8 DEF StopGathered, RequestState, engineVars
<1>9. CASE StartLocked(r)
  <2>1. /\ slot' = slot /\ made' = made /\ lock = NoRequest
        /\ req' = [req EXCEPT ![r] = [pc |-> "create", target |-> slot]]
    BY <1>9 DEF StartLocked, Acquire
  <2>2. /\ slot # 0 => ~running'[slot]
        /\ \A e \in Engines : running'[e] => running[e]
        /\ \A e \in Engines : Alive(e)' = Alive(e)
    <3>1. CASE slot # 0
      BY <1>1, <1>9, <3>1, CancelEffect DEF StartLocked
    <3>2. CASE slot = 0
      BY <1>9, <3>2 DEF StartLocked, Alive
    <3>3. QED
      BY <3>1, <3>2
  <2>3. ReplacedIdle'
    BY <1>1, <1>4, <2>1, <2>2 DEF ReplacedIdle
  <2>4. QED
    BY <1>2, <2>1, <2>2, <2>3 DEF FutureIdle
<1>10. CASE StartCreates(r)
  <2>1. ReplacedIdle'
    <3>1. /\ req[r].pc = "create" /\ req'[r].pc = "status"
          /\ \A q \in Requests \ {r} : req'[q] = req[q]
      BY <1>1, <1>10 DEF StartCreates
    <3>2. \A q \in Requests \ {r} : req[q].pc # "create"
      BY <3>1 DEF LockKept, HoldsLock
    <3>3. QED
      BY <3>1, <3>2 DEF ReplacedIdle
  <2>2. FutureIdle'
    BY <1>1, <1>10, CreateEffect DEF FutureIdle, Engines
  <2>3. QED
    BY <2>1, <2>2
<1>11. CASE StopLocked(r) \/ StopAllLocked(r)
  <2>1. /\ slot' = 0 /\ made' = made /\ lock = NoRequest
        /\ req'[r].pc # "create"
        /\ \A q \in Requests \ {r} : req'[q] = req[q]
    BY <1>1, <1>11 DEF StopLocked, StopAllLocked, Acquire
  <2>2. /\ \A e \in Engines : running'[e] => running[e]
        /\ \A e \in Engines : Alive(e)' = Alive(e)
    <3>1. CASE CancelTasks(slot) /\ slot # 0
      BY <1>1, <3>1, CancelEffect
    <3>2. CASE UNCHANGED <<running, held, task>>
      BY <3>2 DEF Alive
    <3>3. QED
      BY <1>11, <3>1, <3>2 DEF StopLocked, StopAllLocked
  <2>3. ReplacedIdle'
    BY <1>4, <2>1 DEF ReplacedIdle
  <2>4. QED
    BY <1>1, <1>2, <2>1, <2>2, <2>3
<1>12. CASE StopAllCancels(r)
  <2>1. /\ slot' = slot /\ made' = made /\ req'[r].pc # "create"
        /\ \A q \in Requests \ {r} : req'[q] = req[q]
    BY <1>1, <1>12 DEF StopAllCancels, RequestState
  <2>2. /\ \A e \in Engines : running'[e] => running[e]
        /\ \A e \in Engines : Alive(e)' = Alive(e)
    <3>1. CASE req[r].target # 0
      <4>1. req[r].target \in Engines
        BY <1>1, <3>1, ManagerConstants DEF RequestState, Engines
      <4>2. QED
        BY <1>12, <3>1, <4>1, CancelEffect DEF StopAllCancels
    <3>2. CASE req[r].target = 0
      BY <1>12, <3>2 DEF StopAllCancels, Alive
    <3>3. QED
      BY <3>1, <3>2
  <2>3. QED
    BY <1>2, <1>3, <2>1, <2>2 DEF FutureIdle
<1>13. QED
  BY <1>6, <1>7, <1>8, <1>9, <1>10, <1>11, <1>12 DEF RequestStep

\* No engine is ever left running out of reach of the manager: it is the one in
\* the map, or a stop_all that took it out is about to cancel it.
THEOREM EnginesReachable == Spec => []ReachInv
<1>1. Init => ReachInv
  BY DEF Init, ReachInv, LockKept, HoldsLock, FutureIdle, ReplacedIdle, RunningReachable,
     IdleRequest, Alive, Engines
<1>2. TypeOK /\ ReachInv /\ [Next]_vars => ReachInv'
  <2> SUFFICES ASSUME TypeOK, ReachInv, [Next]_vars PROVE ReachInv'
    OBVIOUS
  <2>1. ASSUME NEW r \in Requests, Arrive(r) \/ RequestStep(r) PROVE RunningReachable'
    <3>1. /\ req \in [Requests -> RequestState] /\ req[r] \in RequestState
          /\ slot # 0 => slot \in Engines
          /\ \A e \in Engines : e # 0
          /\ Starts \cap StopAlls = {} /\ Stops \cap StopAlls = {}
      BY ManagerConstants DEF TypeOK, Engines
    <3>2. ASSUME \A e \in Engines : running'[e] => running[e] /\ (slot = e => slot' = e),
                 \A q \in StopAlls : req[q].pc = "scheduled" => req'[q] = req[q]
          PROVE  RunningReachable'
      BY <3>2 DEF ReachInv, RunningReachable, StoppedBy
    <3>3. CASE Arrive(r) \/ StartRefused(r) \/ StartRaises(r) \/ StatusRead(r)
               \/ StopAllGathered(r) \/ StopGathered(r)
      <4>1. /\ UNCHANGED <<slot, running>>
            /\ \A q \in Requests \ {r} : req'[q] = req[q]
            /\ req[r].pc # "scheduled"
        BY <3>1, <3>3 DEF Arrive, StartRefused, StartRaises, StatusRead, StopAllGathered,
           StopGathered, Release, Acquire, engineVars
      <4>2. \A q \in StopAlls : q \in Requests
        BY DEF Requests
      <4>3. QED
        BY <3>2, <4>1, <4>2
    <3>4. CASE r \in Starts /\ StartLocked(r)
      <4>1. \A e \in Engines : running'[e] => running[e]
        <5>1. CASE slot # 0
          BY <3>1, <3>4, <5>1, CancelEffect DEF StartLocked
        <5>2. CASE slot = 0
          BY <3>4, <5>2 DEF StartLocked
        <5>3. QED
          BY <5>1, <5>2
      <4>2. slot' = slot /\ \A q \in Requests \ {r} : req'[q] = req[q]
        BY <3>1, <3>4 DEF StartLocked
      <4>3. \A q \in StopAlls : q \in Requests \ {r}
        BY <3>1, <3>4 DEF Requests
      <4>4. QED
        BY <3>2, <4>1, <4>2, <4>3
    <3>5. CASE r \in Starts /\ StartCreates(r)
      <4>1. \A q \in StopAlls : req'[q] = req[q]
        BY <3>1, <3>5 DEF StartCreates, Requests
      <4>2. /\ slot' = made'
            /\ slot # 0 => ~running[slot]
            /\ \A e \in Engines : e # made' => running'[e] = running[e]
        BY <3>5, CreateEffect DEF ReachInv
      <4>3. \A e \in Engines : running'[e] => e = slot' \/ (running[e] /\ e # slot)
        BY <3>1, <4>2
      <4>4. QED
        BY <4>1, <4>3 DEF ReachInv, RunningReachable, StoppedBy
    <3>6. CASE r \in Stops /\ StopLocked(r)
      <4>1. \A e \in Engines : running'[e] => running[e] /\ e # slot
        <5>1. CASE slot # 0
          BY <3>1, <3>6, <5>1, CancelEffect DEF StopLocked
        <5>2. CASE slot = 0
          BY <3>1, <3>6, <5>2 DEF StopLocked
        <5>3. QED
          BY <5>1, <5>2
      <4>2. \A q \in StopAlls : req'[q] = req[q]
        BY <3>1, <3>6 DEF StopLocked, Requests
      <4>3. QED
        BY <4>1, <4>2 DEF ReachInv, RunningReachable, StoppedBy
    <3>7. CASE r \in StopAlls /\ StopAllLocked(r)
      <4>1. /\ running' = running
            /\ req'[r].pc = "scheduled" /\ req'[r].target = slot
            /\ \A q \in Requests \ {r} : req'[q] = req[q]
        BY <3>1, <3>7 DEF StopAllLocked
      <4>2. \A e \in Engines : \A q \in StoppedBy(e) : q = r \/ q \in StoppedBy(e)'
        BY <4>1 DEF StoppedBy, Requests
      <4>3. req[r].pc # "scheduled"
        BY <3>7 DEF StopAllLocked, Acquire
      <4>4. QED
        BY <3>7, <4>1, <4>2, <4>3 DEF ReachInv, RunningReachable, StoppedBy
    <3>8. CASE r \in StopAlls /\ StopAllCancels(r)
      <4>1. /\ slot' = slot /\ req[r].pc = "scheduled"
            /\ \A q \in Requests \ {r} : req'[q] = req[q]
        BY <3>1, <3>8 DEF StopAllCancels
      <4>2. \A e \in Engines : running'[e] => running[e] /\ e # req[r].target
        <5>1. CASE req[r].target # 0
          <6>1. req[r].target \in Engines
            BY <3>1, <5>1, ManagerConstants DEF RequestState, Engines
          <6>2. QED
            BY <3>8, <5>1, <6>1, CancelEffect DEF StopAllCancels
        <5>2. CASE req[r].target = 0
          BY <3>1, <3>8, <5>2 DEF StopAllCancels
        <5>3. QED
          BY <5>1, <5>2
      <4>3. QED
        BY <4>1, <4>2 DEF ReachInv, RunningReachable, StoppedBy, Requests
    <3>9. QED
      BY <2>1, <3>3, <3>4, <3>5, <3>6, <3>7, <3>8 DEF RequestStep
  <2>2. ASSUME NEW r \in Requests, Arrive(r) \/ RequestStep(r) PROVE ReachInv'
    BY <2>1, <2>2, LockStep, IdleStep DEF ReachInv
  <2>3. ASSUME NEW e \in Engines, TaskStep(e) PROVE ReachInv'
    <3>1. /\ UNCHANGED <<slot, made, lock, req>>
          /\ \A d \in Engines : running'[d] => running[d]
          /\ \A d \in Engines : Alive(d)' \subseteq Alive(d)
      BY <2>3, TaskEffect
    <3>2. LockKept' /\ RunningReachable'
      BY <3>1 DEF ReachInv, LockKept, HoldsLock, RunningReachable, StoppedBy
    <3>3. FutureIdle'
      BY <3>1 DEF ReachInv, FutureIdle
    <3>4. ReplacedIdle'
      <4>1. slot # 0 => slot \in Engines
        BY ManagerConstants DEF TypeOK, Engines
      <4>2. QED
        BY <3>1, <4>1 DEF ReachInv, ReplacedIdle
    <3>5. QED
      BY <3>2, <3>3, <3>4 DEF ReachInv
  <2>4. CASE UNCHANGED vars
    BY <2>4 DEF vars, ReachInv, LockKept, HoldsLock, FutureIdle, ReplacedIdle,
       RunningReachable, StoppedBy, Alive
  <2>5. QED
    BY <2>2, <2>3, <2>4 DEF Next
<1>3. QED
  BY <1>1, <1>2, TypeCorrect, PTL DEF Spec

\* No engine is left running out of reach of a later stop: it is the one in the map of
\* the manager, or a stop_all is about to cancel it.
THEOREM RunningEnginesReachable == Spec => []RunningReachable
<1>1. ReachInv => RunningReachable
  BY DEF ReachInv
<1>2. QED
  BY <1>1, EnginesReachable, PTL

\* The user has tasks of two engines only while a stop_all ends one of them:
\* start waits for those it replaces, and stop gathers under the lock.
THEOREM OneEngineAtATime == Spec => []OneEngineAlive
<1>1. Init => AliveInv
  BY DEF Init, AliveInv, LockKept, HoldsLock, FutureIdle, ReplacedIdle, Removing,
     IdleRequest, Alive, Engines, Requests
<1>2. TypeOK /\ AliveInv /\ [Next]_vars => AliveInv'
  <2> SUFFICES ASSUME TypeOK, AliveInv, [Next]_vars PROVE AliveInv'
    OBVIOUS
  <2> DEFINE Gathering == \A r \in Stops : req[r].pc = "gather" => slot = 0
             Tasked == \A e \in Engines : Alive(e) # {} =>
                         slot = e \/ TakenBy(e) # {} \/ \E r \in Requests : Removing(r, e)
  <2>0. /\ req \in [Requests -> RequestState]
        /\ slot # 0 => slot \in Engines
        /\ \A e \in Engines : e # 0
        /\ NoRequest \notin Requests /\ Stops \subseteq Requests /\ StopAlls \subseteq Requests
        /\ Starts \cap Stops = {} /\ Starts \cap StopAlls = {} /\ Stops \cap StopAlls = {}
    BY ManagerConstants DEF TypeOK, Engines, Requests
  <2>1. ASSUME lock = NoRequest PROVE \A r \in Stops : req[r].pc # "gather"
    BY <2>0, <2>1 DEF AliveInv, LockKept, HoldsLock
  <2>2. ASSUME UNCHANGED <<slot, task>>, NEW r \in Requests,
               \A q \in Requests \ {r} : req'[q] = req[q],
               req[r].pc \notin {"scheduled", "gather"}, req'[r].pc \notin {"scheduled", "gather"}
        PROVE  Gathering' /\ Tasked'
    <3>1. \A q \in Requests, e \in Engines : Removing(q, e)' <=> Removing(q, e)
      BY <2>2 DEF Removing
    <3>4. \A e \in Engines : TakenBy(e)' = TakenBy(e)
      BY <2>0, <2>2 DEF TakenBy
    <3>2. \A e \in Engines : Alive(e)' = Alive(e)
      BY <2>2 DEF Alive
    <3>3. QED
      BY <2>0, <2>2, <3>1, <3>2, <3>4 DEF AliveInv
  <2>3. ASSUME NEW r \in Requests, Arrive(r) \/ RequestStep(r) PROVE Gathering' /\ Tasked'
    <3>1. CASE Arrive(r) \/ StartRefused(r) \/ StartRaises(r) \/ StatusRead(r)
      <4>1. UNCHANGED <<slot, task>> /\ \A q \in Requests \ {r} : req'[q] = req[q]
        BY <2>0, <3>1 DEF Arrive, StartRefused, StartRaises, StatusRead, Release, engineVars
      <4>2. req[r].pc \notin {"scheduled", "gather"}
        BY <3>1 DEF Arrive, StartRefused, StartRaises, StatusRead, Acquire
      <4>3. req'[r].pc \notin {"scheduled", "gather"}
        BY <2>0, <3>1 DEF Arrive, StartRefused, StartRaises, StatusRead, Release,
           IdleRequest, RequestState
      <4>4. QED
        BY <2>2, <4>1, <4>2, <4>3
    <3>2. CASE r \in Starts /\ StartLocked(r)
      <4>1. \A e \in Engines : Alive(e)' = Alive(e)
        <5>1. CASE slot # 0
          BY <2>0, <3>2, <5>1, CancelEffect DEF StartLocked
        <5>2. CASE slot = 0
          BY <3>2, <5>2 DEF StartLocked, Alive
        <5>3. QED
          BY <5>1, <5>2
      <4>2. slot' = slot /\ \A q \in Requests \ {r} : req'[q] = req[q]
        BY <2>0, <3>2 DEF StartLocked
      <4>3. r \notin Stops /\ r \notin StopAlls
        BY <2>0, <3>2
      <4>4. \A q \in Requests, e \in Engines : Removing(q, e)' <=> Removing(q, e)
        BY <4>2, <4>3 DEF Removing
      <4>5. \A e \in Engines : TakenBy(e)' = TakenBy(e)
        BY <2>0, <4>2, <4>3 DEF TakenBy
      <4>6. QED
        BY <2>0, <4>1, <4>2, <4>3, <4>4, <4>5 DEF AliveInv
    <3>3. CASE r \in Starts /\ StartCreates(r)
      <4>1. /\ slot' = made' /\ \A e \in Engines : e # made' => Alive(e)' = Alive(e)
            /\ slot # 0 => Alive(slot) = {}
        BY <3>3, CreateEffect DEF AliveInv
      <4>2. /\ \A q \in Requests \ {r} : req'[q] = req[q]
            /\ lock = r
        BY <2>0, <3>3 DEF StartCreates, AliveInv, LockKept, HoldsLock
      <4>3. \A q \in Stops : q # r /\ req[q].pc # "gather" /\ req'[q].pc # "gather"
        BY <2>0, <3>3, <4>2 DEF AliveInv, LockKept, HoldsLock
      <4>4. \A e \in Engines : TakenBy(e)' = TakenBy(e)
        BY <2>0, <3>3, <4>2 DEF TakenBy
      <4>5. \A e \in Engines : e # made' /\ Alive(e)' # {} => TakenBy(e)' # {}
        BY <2>0, <4>1, <4>3, <4>4 DEF AliveInv, Removing
      <4>6. QED
        BY <4>1, <4>3, <4>5
    <3>4. CASE r \in Stops /\ StopLocked(r)
      <4>1. /\ slot' = 0 /\ lock = NoRequest
            /\ \A q \in Requests \ {r} : req'[q] = req[q]
            /\ slot # 0 => req'[r].pc = "gather" /\ req'[r].target = slot
        BY <2>0, <3>4 DEF StopLocked, Acquire
      <4>2. \A e \in Engines : Alive(e)' = Alive(e)
        <5>1. CASE slot # 0
          BY <2>0, <3>4, <5>1, CancelEffect DEF StopLocked
        <5>2. CASE slot = 0
          BY <3>4, <5>2 DEF StopLocked, Alive
        <5>3. QED
          BY <5>1, <5>2
      <4>3. \A e \in Engines : Alive(e) # {} => e = slot \/ TakenBy(e)' # {}
        <5>1. \A e \in Engines : TakenBy(e)' = TakenBy(e)
          BY <2>0, <3>4, <4>1 DEF TakenBy
        <5>2. QED
          BY <2>1, <4>1, <5>1 DEF AliveInv, Removing
      <4>4. \A e \in Engines : e = slot => Removing(r, e)'
        BY <2>0, <3>4, <4>1 DEF Removing
      <4>5. Tasked'
        BY <4>2, <4>3, <4>4
      <4>6. QED
        BY <4>1, <4>5
    <3>5. CASE r \in Stops /\ StopGathered(r)
      <4>1. /\ slot' = slot /\ task' = task
            /\ req[r].pc = "gather" /\ Alive(req[r].target) = {}
            /\ req'[r].pc = "status" /\ \A q \in Requests \ {r} : req'[q] = req[q]
        BY <2>0, <3>5 DEF StopGathered, Gathered, engineVars, RequestState
      <4>2. \A e \in Engines : Alive(e)' = Alive(e)
        BY <4>1 DEF Alive
      <4>3. \A q \in Requests, e \in Engines :
              Alive(e) # {} /\ Removing(q, e) => Removing(q, e)'
        BY <4>1 DEF Removing
      <4>4. \A e \in Engines : TakenBy(e)' = TakenBy(e)
        BY <2>0, <3>5, <4>1 DEF TakenBy
      <4>5. QED
        BY <2>0, <4>1, <4>2, <4>3, <4>4 DEF AliveInv
    <3>6. CASE r \in StopAlls /\ StopAllLocked(r)
      <4>1. /\ slot' = 0 /\ task' = task /\ lock = NoRequest
            /\ req[r].pc = "queued"
            /\ req'[r].pc = "scheduled" /\ req'[r].target = slot
            /\ \A q \in Requests \ {r} : req'[q] = req[q]
        BY <2>0, <3>6 DEF StopAllLocked, Acquire
      <4>2. \A e \in Engines : Alive(e)' = Alive(e)
        BY <4>1 DEF Alive
      <4>3. \A e \in Engines : Alive(e) # {} => e = slot \/ TakenBy(e) # {}
        BY <2>1, <4>1 DEF AliveInv, Removing
      <4>4. \A e \in Engines : e = slot \/ TakenBy(e) # {} => TakenBy(e)' # {}
        <5>1. \A e \in Engines : TakenBy(e) \subseteq TakenBy(e)'
          BY <2>0, <4>1 DEF TakenBy
        <5>2. \A e \in Engines : e = slot => r \in TakenBy(e)'
          BY <3>6, <4>1 DEF TakenBy
        <5>3. QED
          BY <5>1, <5>2
      <4>5. QED
        BY <4>1, <4>2, <4>3, <4>4
    <3>7. CASE r \in StopAlls /\ StopAllCancels(r)
      <4>1. /\ slot' = slot
            /\ req[r].pc = "scheduled" /\ req'[r].pc = "gather"
            /\ req'[r].target = req[r].target
            /\ \A q \in Requests \ {r} : req'[q] = req[q]
        BY <2>0, <3>7 DEF StopAllCancels, RequestState
      <4>2. \A e \in Engines : Alive(e)' = Alive(e)
        <5>1. CASE req[r].target # 0
          <6>1. req[r].target \in Engines
            BY <2>0, <5>1, ManagerConstants DEF RequestState, Engines
          <6>2. QED
            BY <3>7, <5>1, <6>1, CancelEffect DEF StopAllCancels
        <5>2. CASE req[r].target = 0
          BY <3>7, <5>2 DEF StopAllCancels, Alive
        <5>3. QED
          BY <5>1, <5>2
      <4>3. \A e \in Engines : TakenBy(e)' = TakenBy(e)
        BY <2>0, <4>1 DEF TakenBy
      <4>4. \A q \in Requests, e \in Engines : Removing(q, e)' <=> Removing(q, e)
        BY <2>0, <3>7, <4>1 DEF Removing
      <4>5. QED
        BY <2>0, <3>7, <4>1, <4>2, <4>3, <4>4 DEF AliveInv
    <3>8. CASE r \in StopAlls /\ StopAllGathered(r)
      <4>1. /\ slot' = slot /\ task' = task
            /\ req[r].target # 0 => Alive(req[r].target) = {}
            /\ \A q \in Requests \ {r} : req'[q] = req[q]
        BY <2>0, <3>8 DEF StopAllGathered, Gathered, engineVars
      <4>2. \A e \in Engines : Alive(e)' = Alive(e)
        BY <4>1 DEF Alive
      <4>3. \A e \in Engines : Alive(e) # {} => TakenBy(e) \subseteq TakenBy(e)'
        BY <2>0, <4>1 DEF TakenBy
      <4>4. \A q \in Requests, e \in Engines : Removing(q, e) => Removing(q, e)'
        BY <2>0, <3>8, <4>1 DEF Removing
      <4>5. \A q \in Stops : req'[q].pc = "gather" => req[q].pc = "gather"
        BY <2>0, <3>8, <4>1
      <4>6. QED
        BY <4>1, <4>2, <4>3, <4>4, <4>5 DEF AliveInv
    <3>9. QED
      BY <2>3, <3>1, <3>2, <3>3, <3>4, <3>5, <3>6, <3>7, <3>8 DEF RequestStep
  <2>4. ASSUME NEW r \in Requests, Arrive(r) \/ RequestStep(r) PROVE AliveInv'
    BY <2>3, <2>4, LockStep, IdleStep DEF AliveInv
  <2>5. ASSUME NEW e \in Engines, TaskStep(e) PROVE AliveInv'
    <3>1. /\ UNCHANGED <<slot, made, lock, req>>
          /\ \A d \in Engines : running'[d] => running[d]
          /\ \A d \in Engines : Alive(d)' \subseteq Alive(d)
      BY <2>5, TaskEffect
    <3>2. LockKept' /\ Gathering'
      BY <3>1 DEF AliveInv, LockKept, HoldsLock
    <3>3. FutureIdle'
      BY <3>1 DEF AliveInv, FutureIdle
    <3>4. ReplacedIdle'
      BY <2>0, <3>1 DEF AliveInv, ReplacedIdle
    <3>5. Tasked'
      BY <3>1 DEF AliveInv, Removing, TakenBy
    <3>6. QED
      BY <3>2, <3>3, <3>4, <3>5 DEF AliveInv
  <2>6. CASE UNCHANGED vars
    BY <2>6 DEF vars, AliveInv, LockKept, HoldsLock, FutureIdle, ReplacedIdle, Removing,
       TakenBy, Alive
  <2>7. QED
    BY <2>4, <2>5, <2>6 DEF Next
<1>3. AliveInv => OneEngineAlive
  <2> SUFFICES ASSUME AliveInv, NEW d \in Engines, NEW e \in Engines,
                      Alive(d) # {}, Alive(e) # {},
                      TakenBy(d) = {}, TakenBy(e) = {}
               PROVE  d = e
    BY DEF OneEngineAlive
  <2>1. \A q, r \in Requests : Removing(q, d) /\ Removing(r, e) => d = e
    BY DEF AliveInv, LockKept, HoldsLock, Removing
  <2>2. \A r \in Requests : (Removing(r, d) \/ Removing(r, e)) => slot = 0
    BY DEF AliveInv, Removing
  <2>3. QED
    BY <2>1, <2>2 DEF AliveInv, Engines
<1>4. QED
  BY <1>1, <1>2, <1>3, TypeCorrect, PTL DEF Spec

\* TradingEngine.stop cancels what the list still holds before it empties it.
LEMMA CancelKeepsCancellable ==
  ASSUME TypeOK, TasksCancellable, NEW e \in Engines, CancelTasks(e)
  PROVE  TasksCancellable'
<1>1. CASE running[e] \/ held[e]
  <2> DEFINE new == [t \in Tasks |-> IF held[e] /\ t \in Alive(e) THEN "cancelled" ELSE task[e][t]]
  <2>1. /\ held' = [held EXCEPT ![e] = FALSE]
        /\ task' = [task EXCEPT ![e] = new]
    BY <1>1 DEF CancelTasks, TypeOK
  <2>2. \A t \in Tasks : new[t] \in {"starting", "live", "cancelled"} => new[t] = "cancelled"
    BY DEF TasksCancellable, Alive
  <2> HIDE DEF new
  <2> SUFFICES ASSUME NEW d \in Engines, NEW t \in Alive(d)'
                 PROVE  held'[d] \/ task'[d][t] = "cancelled"
    BY DEF TasksCancellable
  <2>4. CASE d = e
    <3>1. task'[d] = new
      BY <2>1, <2>4 DEF TypeOK
    <3>2. QED
      BY <2>2, <3>1 DEF Alive
  <2>5. CASE d # e
    <3>1. task'[d] = task[d] /\ held'[d] = held[d]
      BY <2>1, <2>5 DEF TypeOK
    <3>2. QED
      BY <3>1 DEF Alive, TasksCancellable
  <2>6. QED
    BY <2>4, <2>5
<1>2. CASE ~(running[e] \/ held[e])
  BY <1>2 DEF CancelTasks, TasksCancellable, Alive
<1>3. QED
  BY <1>1, <1>2

\* A call of the manager leaves no task beyond the reach of a stop.
LEMMA RequestKeepsCancellable ==
  ASSUME TypeOK, TasksCancellable, NEW r \in Requests, Arrive(r) \/ RequestStep(r)
  PROVE  TasksCancellable'
<1>1. slot # 0 => slot \in Engines
  BY ManagerConstants DEF TypeOK, Engines
<1>2. req[r].target # 0 => req[r].target \in Engines
  BY ManagerConstants DEF TypeOK, RequestState, Engines
<1>3. ASSUME UNCHANGED <<held, task>> PROVE TasksCancellable'
  BY <1>3 DEF TasksCancellable, Alive
<1>4. CASE StartLocked(r)
  BY <1>1, <1>3, <1>4, CancelKeepsCancellable DEF StartLocked
<1>5. CASE StopLocked(r)
  BY <1>1, <1>3, <1>5, CancelKeepsCancellable DEF StopLocked
<1>6. CASE StopAllCancels(r)
  BY <1>2, <1>3, <1>6, CancelKeepsCancellable DEF StopAllCancels
<1>7. CASE StartCreates(r)
  <2> DEFINE e == made + 1
  <2>1. /\ held' = [held EXCEPT ![e] = TRUE]
        /\ task' = [task EXCEPT ![e] = [loop |-> "starting", monitor |-> "live"]]
    BY <1>7 DEF StartCreates
  <2> HIDE DEF e
  <2>2. ASSUME NEW d \in Engines
        PROVE  held'[d] \/ (task'[d] = task[d] /\ held'[d] = held[d])
    BY <2>1 DEF TypeOK
  <2>3. QED
    BY <2>2 DEF TasksCancellable, Alive
<1>8. CASE \/ Arrive(r) \/ StartRefused(r) \/ StartRaises(r) \/ StatusRead(r) \/ StopGathered(r)
           \/ StopAllLocked(r) \/ StopAllGathered(r)
  BY <1>3, <1>8 DEF Arrive, StartRefused, StartRaises, StatusRead, StopGathered, StopAllLocked,
     StopAllGathered, engineVars
<1>9. QED
  BY <1>4, <1>5, <1>6, <1>7, <1>8 DEF RequestStep

\* A task that ends or is cancelled touches neither the list nor another task, and
\* a loop that becomes ready was not cancelled, so that it is listed.
LEMMA TaskKeepsCancellable ==
  ASSUME TypeOK, TasksCancellable, NEW e \in Engines, TaskStep(e)
  PROVE  TasksCancellable'
<1>1. ASSUME NEW t \in Tasks, NEW state \in {"live", "done"}, SetTask(e, t, state), held' = held,
             state = "live" => task[e][t] = "starting"
      PROVE  TasksCancellable'
  <2> SUFFICES ASSUME NEW d \in Engines, NEW s \in Alive(d)'
                 PROVE  held'[d] \/ task'[d][s] = "cancelled"
    BY DEF TasksCancellable
  <2>2. task' = [task EXCEPT ![e][t] = state] /\ s \in Tasks
    BY <1>1 DEF SetTask, Alive
  <2>3. CASE d = e /\ s = t
    BY <1>1, <2>2, <2>3 DEF Alive, TypeOK, TasksCancellable
  <2>4. CASE ~(d = e /\ s = t)
    <3>1. task'[d][s] = task[d][s]
      BY <2>2, <2>4 DEF TypeOK
    <3>2. QED
      BY <1>1, <2>2, <3>1 DEF Alive, TasksCancellable
  <2>5. QED
    BY <2>3, <2>4
<1>2. "loop" \in Tasks
  BY DEF Tasks
<1>3. CASE LoopReady(e)
  BY <1>1, <1>2, <1>3 DEF LoopReady, taskVars
<1>4. CASE LoopInitFails(e)
  BY <1>1, <1>2, <1>4 DEF LoopInitFails, taskVars
<1>5. ASSUME NEW t \in Tasks, TaskLeaves(e, t) \/ TaskCancelled(e, t) PROVE TasksCancellable'
  BY <1>1, <1>5 DEF TaskLeaves, TaskCancelled, taskVars
<1>6. QED
  BY <1>3, <1>4, <1>5 DEF TaskStep

\* No task of an engine is beyond the reach of TradingEngine.stop: while it lives it
\* is in the list that stop cancels, or it has been cancelled already.
THEOREM TasksStayCancellable == Spec => []TasksCancellable
<1>1. Init => TasksCancellable
  BY DEF Init, TasksCancellable, Alive
<1>2. TypeOK /\ TasksCancellable /\ [Next]_vars => TasksCancellable'
  <2> SUFFICES ASSUME TypeOK, TasksCancellable, [Next]_vars PROVE TasksCancellable'
    OBVIOUS
  <2>1. CASE UNCHANGED vars
    BY <2>1 DEF vars, TasksCancellable, Alive
  <2>2. QED
    BY <2>1, RequestKeepsCancellable, TaskKeepsCancellable DEF Next
<1>3. QED
  BY <1>1, <1>2, TypeCorrect, PTL DEF Spec
=============================================================================
