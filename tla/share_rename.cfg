SPECIFICATION FairSpec
CONSTANTS
  Share = {s1}
  Env = {"e1"}
  Target = {"a", "a/", "b"}
  ForeignTarget = {"x"}
  normalizeTarget <- MCNormalize
  Backend = {"proxy"}
  Name = {"n1", "n2", "n3"}
  Opt = {"o1", "o2"}
  Auth = {}
  Token = {t1, t2, t3, t4}
  PrivToken = {}
  ForeignToken = {f1}
  None = None
  UserSpec <- RenameSpecs
  ForeignName = {}
  RefusedTarget = {}
  RefusedBackend = {}
  ForeignEnv = {}
  MaxEdits = 3
  FaultKind = {"name", "release", "status", "list", "env", "stall", "patch"}
  MaxFaults = 1
PROPERTIES ServedNameReclaimed
CHECK_DEADLOCK FALSE
