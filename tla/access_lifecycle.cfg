SPECIFICATION FairSpec
CONSTANTS
  Access = {"a1", "a2"}
  Env = {"e1", "e2"}
  Frontend = {f1, f2, f3, f4, f5}
  ShareToken = {"s1", "s2", "s3"}
  LiveShare = {"s1", "s2"}
  Bind = {"b1"}
  AnyBind = "any"
  UserSpec <- MCSpecs
  None = None
  MaxEdits = 3
  FaultKind = {"status", "release", "create", "lost", "crash", "move", "env", "restart", "stall", "patch"}
  MaxFaults = 1
INVARIANTS IInv ForgetsOnlyByLoss OneAccessEach
PROPERTIES KeepsHolding Converges
CHECK_DEADLOCK FALSE
