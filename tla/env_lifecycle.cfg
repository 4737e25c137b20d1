SPECIFICATION FairSpec
CONSTANTS
  ZID = {z1, z2, z3, z4}
  PlantedZID = {p1}
  Image = {"i1", "i2", "i3"}
  AllowedImage = {"i1", "i2"}
  Host = {"zrok", "self"}
  Port = {"443", "8443"}
  DefaultHost = "zrok"
  BlockedHost = {}
  AllowedAPIHost <- MCAllowedAPIHost
  AgentNetworkPolicy = TRUE
  UserSpec <- LifecycleSpecs
  None = None
  MaxEdits = 2
  FaultKind = {"token", "patch", "enable", "lost", "create", "undo", "record", "stale", "child", "status", "disable", "lostdisable", "delete", "plant", "disturb", "pod", "crash"}
  MaxFaults = 2
INVARIANTS IInv ForgetsOnlyByLoss
PROPERTIES Converges
CHECK_DEADLOCK FALSE
