CONSTANTS
  Unset = Unset
  Configurations <- MCConfigurations
  VcapServices <- MCVcapServices
  BrokerDb = "metadata"
  FaultKinds = {"storeWrite", "storeReplyLost", "sessionLost", "stardogCall",
                "stardogReplyLost", "listen", "accept", "restart"}
  MaxFaults = 2
  Threads = {t1, t2, t3}
  Main = t1
  Embedding = TRUE
  Goroutines = {h1, h2}
  MaxIdle = 1
  MaxConnections = 3
  MaxListings = 3
SPECIFICATION ProcessFairSpec
CHECK_DEADLOCK FALSE
INVARIANTS
  ProcessTypeOK
  ServesOnlyWhenReady
  WaitEndsAfterServe
  RefusedOnlyWhenDrained
PROPERTIES
  MetadataStaysPut
  GoodConfigurationServes
  StopReleasesOne
