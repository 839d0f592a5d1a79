SPECIFICATION Spec
CONSTANTS
  Monitor = mon
  CloseRequests = {a1}
  Checks = {k1, k2}
  Users = {u1}
  Losses = {0, 1}
  LossLimit = 3
  DrawdownLoss = 2
  StreakLimit = 3
  MaxResults = 3
SYMMETRY TaskSymmetry
INVARIANTS
  TypeOK
  NoPhantomLoss
  ExactUnlessOverlapped
PROPERTIES
  PauseSurvives
  PauseHonoured
