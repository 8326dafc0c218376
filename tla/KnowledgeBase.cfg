CONSTANTS
  Requests = {r1, r2}
  Tenants = {t1, t2}
  Projects = {p1, p2}
  Contents = {guide, note}
  guide = guide
  note = note
  price = price
  setup = setup
  Words = {price, setup}
  Text <- Texts
  Queries <- Asked
  ReadLimit = 2
  ContextK = 1
  MaxSources = 2
  MaxSnapshots = 2
SPECIFICATION Spec
SYMMETRY Symmetric
INVARIANTS
  VersionsGapless
  RetrievalIsConfined
  RetrievalIsRepeatable
  BestAreCited
PROPERTY DuplicatesStop
