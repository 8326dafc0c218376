SPECIFICATION Spec
CONSTANTS
  Conversations = {c1}
  Requests = {r1, r2}
  SourceKinds = {"observed", "counterfactual"}
INVARIANTS
  TurnIndexIsProjection
