SPECIFICATION ReplaySpec
CONSTANTS
  Conversations = {c1}
  Requests = {r1, r2}
  SourceKinds = {"observed", "counterfactual"}
  MaxRows = 8
SYMMETRY RequestSymmetry
INVARIANTS
  ReplayTypeOK
  CostIsNotOfReplayed
  ReplayIsHistory
\* every conversation may be full and every replay answered
CHECK_DEADLOCK FALSE
