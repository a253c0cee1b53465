CONSTANTS
  None = None
  StorageType = "sql"
  FaultKinds <- AtomicFaults
  MaxFaults = 1
  Workers = {w1, w2}
  Instances = {"g1"}
  Bindings = {"b1"}
  PlanIDs = {"shared", "own", "missing"}
  PlanName <- MCPlanName
  Servers = {"s1"}
  StardogURL = "s1"
  DbNames = {"d1", "d2"}
  UserNames = {"u1", "u2"}
  Passwords = {"k1"}
  Metas = {"m1"}
  Requests <- RivalCreations
  Configs <- AllPlans
  Serialized = FALSE
  ExistingDbs <- Nothing
  ExistingUsers <- Nothing
  Home <- HomeOnS1
  InstanceOf <- MCInstanceOf
SPECIFICATION Spec
SYMMETRY WorkerSymmetry
PROPERTY
  ActsAtomically
