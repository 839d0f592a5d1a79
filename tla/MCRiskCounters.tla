--------------------------- MODULE MCRiskCounters ---------------------------
(***************************************************************************)
(* RiskCounters on small instances.                                        *)
(***************************************************************************)
EXTENDS RiskCounters, TLC

TaskSymmetry ==
  Permutations(CloseRequests) \cup Permutations(Checks) \cup Permutations(Users)
=============================================================================
