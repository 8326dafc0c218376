SPECIFICATION Spec
CONSTANTS
  Policies = {p1, p2}
  Default = Default
  Absent = Absent
  Conversations = {c1, c2}
  Requests = {r1, r2}
  Traffic = {0}
  MaxDeployments = 3
SYMMETRY Symmetric
INVARIANTS
  DeployedIsSigned
  RolledBackHasTarget
  OnePolicyPerConversation
PROPERTIES
  RollbackPromotesTarget
\* every table may be full and every rollback answered
CHECK_DEADLOCK FALSE
