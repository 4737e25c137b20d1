SPECIFICATION FairSpec
CONSTANTS
  ZID = {z1, z2, z3, z4}
  PlantedZID = {p1}
  Image = {"i1", "i2", "i3"}
  AllowedImage = {"i1", "i2"}
  Host = {"zrok", "self"}
  Port = {"443", "8443"}
  DefaultHost = "zrok"
  BlockedHost = {}
  AllowedAPIHost <- MCAllowedAPIHost
  AgentNetworkPolicy = FALSE
  UserSpec <- FaultSpecs
  None = None
  MaxEdits = 3
  FaultKind = {"patch", "stale", "create", "lostcreate", "secretlost", "record", "status", "crash"}
  MaxFaults = 2
PROPERTIES KeepsContract Recovers
CHECK_DEADLOCK FALSE
