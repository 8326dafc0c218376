SPECIFICATION Spec
CONSTANTS
  Conversations = {c1, c2}
  Requests = {r1, r2, r3}
  SourceKinds = {"observed", "counterfactual"}
SYMMETRY RequestSymmetry
INVARIANTS
  TypeOK
  MessageIsNewest
  StateMatchesNewestAnswer
  NeverOvercounts
  OnlyTurnAndStopDeadlock
PROPERTIES
  StopSticks
  ImplementsConversationLog
