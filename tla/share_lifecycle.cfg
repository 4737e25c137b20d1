SPECIFICATION FairSpec
CONSTANTS
  Share = {s1}
  Env = {"e1"}
  Target = {"a", "a/", "b", "c"}
  ForeignTarget = {"x"}
  normalizeTarget <- MCNormalize
  Backend = {"proxy"}
  Name = {"n1", "n2", "n3"}
  Opt = {"o1", "o2"}
  Auth = {}
  Token = {t1, t2, t3, t4, "p1"}
  PrivToken = {"p1"}
  ForeignToken = {f1}
  None = None
  UserSpec <- LifecycleSpecs
  ForeignName = {"n3"}
  RefusedTarget = {"c"}
  RefusedBackend = {}
  ForeignEnv = {}
  MaxEdits = 4
  FaultKind = {}
  MaxFaults = 0
INVARIANTS IInv EveryShareHeld ReservedBeforeRelease ReadyIsServed NoKeyLost RefusalReported
PROPERTIES Converges
CHECK_DEADLOCK FALSE
