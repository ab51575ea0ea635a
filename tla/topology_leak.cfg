SPECIFICATION Spec
CONSTANTS
  Kinds <- OnlyVolume
  Topologies <- OneTopology
  None = "none"
  URLs <- OneURL
  FirstURL = "http"
  MaxEdits = 0
  MaxFaults = 0
INVARIANTS
  NoTopologyLeak
CHECK_DEADLOCK FALSE
