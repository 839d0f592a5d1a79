----------------------------- MODULE RedisHealth -----------------------------
(***************************************************************************)
(* What the rest of the process may assume of the shared Redis client      *)
(* (backend/app/core/redis.py): the abstract specification that            *)
(* RedisClient implements and that OrderExecution is built on.             *)
(*   up       the client is healthy and the server answers                 *)
(*   failing  the client is healthy, but its next command fails            *)
(*   down     the client is unhealthy                                      *)
(***************************************************************************)
VARIABLE health

Init == health = "up"

\* The server stops answering; nobody has noticed.
Break == health = "up" /\ health' = "failing"

\* A command fails, of this component or of any other user of the client.
Notice == health' = "down"

\* The server answers again, or a command reconnects.
Recover == health' = "up"

Next == Break \/ Notice \/ Recover

Spec == Init /\ [][Next]_health
=============================================================================
