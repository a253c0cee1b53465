CONSTANTS
  None = None
  StorageType = "stardog"
  FaultKinds <- EveryFault
  MaxFaults = 2
  Workers = {w1, w2}
  Instances = {"g1"}
  Bindings = {"b1"}
  PlanIDs = {"shared", "own"}
  PlanName <- MCPlanName
  Servers = {"s1"}
  StardogURL = "s1"
  DbNames = {"d1", "dx"}
  UserNames = {"u1", "ux"}
  Passwords = {"k1"}
  Metas = {"m1"}
  Requests <- OneInstance
  Configs <- SomePlans
  Serialized = FALSE
  ExistingDbs <- ForeignDbs
  ExistingUsers <- ForeignUsers
  Home <- HomeOnS1
  InstanceOf <- MCInstanceOf
SPECIFICATION Spec
SYMMETRY WorkerSymmetry
INVARIANTS
  ForeignUntouched
