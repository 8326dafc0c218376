SPECIFICATION Spec
CONSTANTS
  Tenants = {t1, t2}
  Requests = {r1, r2, r3}
  Values <- MCValues
  Stored <- MCStored
  Patches <- MCPatches
  Names = {0, 1}
SYMMETRY RequestSymmetry
INVARIANTS
  TrailEndsAtRow
PROPERTIES
  KillLiftedKnowingly
\* every call may have been answered
CHECK_DEADLOCK FALSE
