SPECIFICATION Spec
CONSTANTS
  Calls = {c1}
  Hooks = {h1, h2}
  Subs = {s1, s2}
  NoSub = none
  Outcomes = {"active", "past_due"}
  MaxRows = 2
  MaxEvents = 4
SYMMETRY Symmetry
CHECK_DEADLOCK FALSE
INVARIANTS
  BookedOnce
  BookedWhenOrderly
  StripeSync
