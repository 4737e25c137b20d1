SPECIFICATION FairSpec
CONSTANTS
  Env = {"e1", "e2"}
  DefaultEnv = "e1"
  Label = {"n1", "n2"}
  Upstream = {"u1", "u2"}
  UserSpec <- MCSpecs
  UserShare <- MCShares
  None = None
  MaxEdits = 5
  FaultKind = {"write", "crash", "heal"}
  MaxFaults = 2
INVARIANTS IInv NothingMissed
PROPERTIES OthersUntouched Converges
CHECK_DEADLOCK FALSE
