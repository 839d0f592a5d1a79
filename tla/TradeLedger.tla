----------------------------- MODULE TradeLedger -----------------------------
(***************************************************************************)
(* What the order path owes to its reader, without calls, tasks, sessions  *)
(* or faults: an order is filled once; its position leaves the broker once *)
(* and never comes back; its row is inserted once, and is closed only when *)
(* the position is gone.  OrderExecution implements this specification.    *)
(***************************************************************************)
CONSTANT Fills

VARIABLES
  filled,   \* orders the broker has filled
  held,     \* filled orders whose position the broker holds
  row       \* the trades table: "none", "open" or "closed"

ledger == <<filled, held, row>>

Init ==
  /\ filled = {}
  /\ held = {}
  /\ row = [f \in Fills |-> "none"]

Fill(f) ==
  /\ f \notin filled
  /\ filled' = filled \cup {f}
  /\ held' = held \cup {f}
  /\ UNCHANGED row

Insert(f) ==
  /\ f \in filled
  /\ row[f] = "none"
  /\ row' = [row EXCEPT ![f] = "open"]
  /\ UNCHANGED <<filled, held>>

Leave(f) ==
  /\ f \in held
  /\ held' = held \ {f}
  /\ UNCHANGED <<filled, row>>

Close(f) ==
  /\ row[f] = "open"
  /\ f \notin held
  /\ row' = [row EXCEPT ![f] = "closed"]
  /\ UNCHANGED <<filled, held>>

\* The paper broker lives in the memory of the process.
Forget ==
  /\ held' = {}
  /\ UNCHANGED <<filled, row>>

Next ==
  \/ \E f \in Fills : Fill(f) \/ Insert(f) \/ Leave(f) \/ Close(f)
  \/ Forget

Spec == Init /\ [][Next]_ledger
=============================================================================
