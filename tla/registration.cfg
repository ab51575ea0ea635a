SPECIFICATION FairSpec
CONSTANTS
  Kinds <- ApiAndWorker
  Topologies <- OneTopology
  None = "none"
  URLs <- TwoURLs
  FirstURL = "http"
  MaxEdits = 1
  MaxFaults = 1
INVARIANTS
  TypeOK
  NoKeystoneLeak
  EndpointNeedsService
  ReadyMeansRegistered
  KeystoneConditionsCurrent
  NoTopologyLeak
PROPERTIES
  Settles
CHECK_DEADLOCK FALSE
