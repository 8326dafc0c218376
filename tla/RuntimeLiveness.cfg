SPECIFICATION ClientsFairSpec
CONSTANTS
  r1 = r1
  r2 = r2
  r3 = r3
  alice = alice
  bob = bob
  Conversations = {c1}
  Requests = {r1, r2, r3}
  SourceKinds = {"observed", "counterfactual"}
  Clients = {alice, bob}
  Client <- MCClient
  Asks <- MCAsks
  PoolLimit = 2
INVARIANTS
  AnsweredIsRecorded
PROPERTIES
  EveryCallEnds
CHECK_DEADLOCK FALSE
