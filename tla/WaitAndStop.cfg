CONSTANTS
  Unset = Unset
  Configurations = {}
  VcapServices <- MCVcapServices
  BrokerDb = "metadata"
  FaultKinds = {}
  MaxFaults = 0
  Threads = {t1, t2}
  Main = t1
  Embedding = TRUE
  Goroutines = {h1}
  MaxIdle = 1
  MaxConnections = 3
  MaxListings = 0
SPECIFICATION ProcessFairSpec
CHECK_DEADLOCK FALSE
PROPERTY StopEndsWait
