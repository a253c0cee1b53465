CONSTANTS
  None = None
  StorageType = "sql"
  FaultKinds = {"stardogCall", "storeRead", "storePartial", "storeBegin", "storeReplyLost"}
  MaxFaults = 1
  Workers = {w1, w2}
  Instances = {"g1", "g2"}
  Bindings = {"b1", "b2"}
  PlanIDs = {"shared", "own"}
  PlanName <- MCPlanName
  Servers = {"s1"}
  StardogURL = "s1"
  DbNames = {"d1", "d2"}
  UserNames = {"u1"}
  Passwords = {"k1"}
  Metas = {"m1"}
  Requests <- SharedRequests
  Configs <- AllPlans
  Serialized = TRUE
  ExistingDbs <- Nothing
  ExistingUsers <- Nothing
  Home <- HomeOnS1
  InstanceOf <- MCInstanceOf
SPECIFICATION RetrySpec
PROPERTIES
  RemovalSucceeds
  EveryRequestEnds
INVARIANTS
  LeaksBounded
