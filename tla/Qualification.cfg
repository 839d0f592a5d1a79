SPECIFICATION EvidenceSpec
CONSTANTS
  Files = {f1, f2}
  NoFile = NoFile
  Walks = {w1, w2}
  Candidates = 2
  Length = 5
  PartLength = 4
  Train = 2
  Test = 1
  Step = 1
  Holdout = 1
  MinWindows = 2
  MaxImports = 2
  MaxRuns = 2
INVARIANTS
  Unseen
PROPERTIES
  AdmittedOnEvidence
SYMMETRY Symmetry
