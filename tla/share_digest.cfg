SPECIFICATION FairSpec
CONSTANTS
  Share = {s1}
  Env = {"e1"}
  Target = {"a", "a/", "b"}
  ForeignTarget = {"x"}
  normalizeTarget <- MCNormalize
  Backend = {"proxy"}
  Name = {"n1", "n2"}
  Opt = {"o1", "o2"}
  Auth = {}
  Token = {t1, t2, t3}
  PrivToken = {}
  ForeignToken = {f1}
  None = None
  UserSpec <- OptionSpecs
  ForeignName = {}
  RefusedTarget = {}
  RefusedBackend = {}
  ForeignEnv = {"e1"}
  MaxEdits = 2
  FaultKind = {"secret", "list", "status", "name", "release", "unshare", "unauthorized", "env", "unkey", "removed", "restart", "stall", "foreign"}
  MaxFaults = 2
PROPERTIES OptionsConverge Converges
CHECK_DEADLOCK FALSE
