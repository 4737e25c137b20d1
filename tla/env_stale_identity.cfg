SPECIFICATION FairSpec
CONSTANTS
  ZID = {z1, z2, z3, z4}
  PlantedZID = {p1}
  Image = {"i1", "i2", "i3"}
  AllowedImage = {"i1", "i2"}
  Host = {"zrok", "self"}
  Port = {"443", "8443"}
  DefaultHost = "zrok"
  BlockedHost = {}
  AllowedAPIHost <- MCAllowedAPIHost
  AgentNetworkPolicy = TRUE
  UserSpec <- OneSpec
  None = None
  MaxEdits = 1
  FaultKind = {"secretlost"}
  MaxFaults = 1
PROPERTIES AgentHasIdentity
CHECK_DEADLOCK FALSE
