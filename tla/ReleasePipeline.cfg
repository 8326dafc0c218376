SPECIFICATION Spec
CONSTANTS
  Missing = Missing
  Agents = {a1}
  Bodies <- MCBodies
  Evidences <- MCEvidences
  MaxPolicies = 2
  MaxDecisions = 2
  Default = Default
  Absent = Absent
  Conversations = {c1}
  Traffic = {0}
  MaxDeployments = 2
  Builders = {b1, b2}
  Rollbacks = {k1}
SYMMETRY BuilderSymmetry
INVARIANTS
  AnswersAreEarned
  ReleaseTakesTwo
PROPERTIES
  ServingImplemented
\* every table may be full and every call answered
CHECK_DEADLOCK FALSE
