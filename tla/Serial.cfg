CONSTANTS
  None = None
  StorageType = "sql"
  FaultKinds = {"stardogCall", "storeBegin", "storePartial"}
  MaxFaults = 2
  Workers = {w1, w2}
  Instances = {"g1", "g2"}
  Bindings = {"b1", "b2"}
  PlanIDs = {"shared", "own", "missing"}
  PlanName <- MCPlanName
  Servers = {"s1"}
  StardogURL = "s1"
  DbNames = {"d1", "d2"}
  UserNames = {"u1", "u2"}
  Passwords = {"k1"}
  Metas = {"m1", "m2"}
  Requests <- MixedRequests
  Configs <- AllPlans
  Serialized = TRUE
  ExistingDbs <- Nothing
  ExistingUsers <- Nothing
  Home <- HomeOnS1
  InstanceOf <- MCInstanceOf
SPECIFICATION Spec
SYMMETRY WorkerSymmetry
INVARIANTS
  TypeOK
  DatabaseOwnership
  UserOwnership
  AnswersTrue
  LeaksBounded
