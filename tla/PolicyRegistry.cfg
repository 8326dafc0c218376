SPECIFICATION Spec
CONSTANTS
  Missing = Missing
  Agents = {a1, a2}
  Requests = {r1, r2}
  Bodies <- MCBodies
  Evidences <- MCEvidences
  MaxPolicies = 4
  MaxDecisions = 2
SYMMETRY RequestSymmetry
INVARIANTS
  TypeOK
  VersionsGapless
  NoOrphanPolicy
  ProtectedFieldsKept
  CandidatesAreValid
  TuningIsBounded
\* every call may have been made and every table may be full
CHECK_DEADLOCK FALSE
