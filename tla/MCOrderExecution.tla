-------------------------- MODULE MCOrderExecution --------------------------
(***************************************************************************)
(* OrderExecution on small instances.                                      *)
(***************************************************************************)
EXTENDS OrderExecution, TLC

\* Loops, requests and close requests are interchangeable among themselves.
TaskSymmetry ==
  Permutations(Loops) \cup Permutations(Requests) \cup Permutations(CloseRequests)
    \cup Permutations(Symbols)
=============================================================================
