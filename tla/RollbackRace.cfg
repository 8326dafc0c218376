SPECIFICATION Spec
CONSTANTS
  Policies = {p1, p2}
  Default = Default
  Absent = Absent
  Conversations = {c1}
  Requests = {r1, r2}
  Traffic = {0}
  MaxDeployments = 3
PROPERTIES
  RollbackActivatesTarget
CHECK_DEADLOCK FALSE
