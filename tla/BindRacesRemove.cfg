CONSTANTS
  None = None
  StorageType = "sql"
  FaultKinds = {}
  MaxFaults = 0
  Workers = {w1, w2}
  Instances = {"g1"}
  Bindings = {"b1"}
  PlanIDs = {"shared", "own"}
  PlanName <- MCPlanName
  Servers = {"s1"}
  StardogURL = "s1"
  DbNames = {"d1", "d2"}
  UserNames = {"u1", "u2"}
  Passwords = {"k1"}
  Metas = {"m1"}
  Requests <- OneInstance
  Configs <- AllPlans
  Serialized = FALSE
  ExistingDbs <- Nothing
  ExistingUsers <- Nothing
  Home <- HomeOnS1
  InstanceOf <- MCInstanceOf
SPECIFICATION Spec
INVARIANTS
  NoUserLeftBehind
