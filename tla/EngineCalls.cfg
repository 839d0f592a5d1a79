SPECIFICATION FairSpec
CONSTANTS
  Starts = {s1, s2}
  Stops = {p1, p2}
  StopAlls = {e1}
  NoRequest = NoRequest
  MaxEngines = 3
INVARIANTS
  TypeOK
  RunningReachable
  TasksCancellable
  OneEngineAlive
PROPERTIES
  CallsReturn
  RemovedEngineEnds
