SPECIFICATION Spec
CONSTANTS
  Share = {"s1", "s2"}
  Env = {"e1"}
  Target = {"a", "a/", "b"}
  ForeignTarget = {"x"}
  normalizeTarget <- MCNormalize
  Backend = {"proxy"}
  Name = {"n1", "n2"}
  Opt = {"o1", "o2"}
  Auth = {}
  Token = {t1, t2, t3, t4}
  PrivToken = {}
  ForeignToken = {f1}
  None = None
  UserSpec <- RivalSpecs
  ForeignName = {}
  RefusedTarget = {}
  RefusedBackend = {}
  ForeignEnv = {}
  MaxEdits = 2
  FaultKind = {}
  MaxFaults = 0
PROPERTIES ConflictOnSecond
CHECK_DEADLOCK FALSE
