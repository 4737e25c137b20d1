SPECIFICATION FairSpec
CONSTANTS
  Share = {s1}
  Env = {"e1"}
  Target = {"a", "a/", "b"}
  ForeignTarget = {"x"}
  normalizeTarget <- MCNormalize
  Backend = {"proxy", "socks"}
  Name = {"n1", "n2"}
  Opt = {"o1", "o2"}
  Auth = {}
  Token = {t1, t2, t3}
  PrivToken = {}
  ForeignToken = {f1}
  None = None
  UserSpec <- FaultSpecs
  ForeignName = {}
  RefusedTarget = {}
  RefusedBackend = {"socks"}
  ForeignEnv = {"e1", None}
  MaxEdits = 2
  FaultKind = {"list", "status", "name", "release", "unshare", "create", "crash", "env", "restart", "stall", "foreign", "patch", "write"}
  MaxFaults = 2
INVARIANTS NoOrphans NoKeyLost
PROPERTIES ForeignUntouched Converges
CHECK_DEADLOCK FALSE
