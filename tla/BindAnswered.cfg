CONSTANTS
  None = None
  StorageType = "sql"
  FaultKinds = {"storeWrite"}
  MaxFaults = 1
  Workers = {w1}
  Instances = {"g1"}
  Bindings = {"b1"}
  PlanIDs = {"shared", "own"}
  PlanName <- MCPlanName
  Servers = {"s1"}
  StardogURL = "s1"
  DbNames = {"d1", "d2"}
  UserNames = {"u1", "u2"}
  Passwords = {"k1"}
  Metas = {"m1"}
  Requests <- OneInstance
  Configs <- AllPlans
  Serialized = TRUE
  ExistingDbs <- Nothing
  ExistingUsers <- Nothing
  Home <- HomeOnS1
  InstanceOf <- MCInstanceOf
SPECIFICATION Spec
INVARIANTS
  BindAnswer
