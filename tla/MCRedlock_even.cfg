CONSTANTS
  Clients = {a, b}
  NoClient = NoClient
  Instances = {r1, r2}
  KeyExpiration = 2
  MaxRetries = 0
  RetryInterval = 1
  ExtendTtl = Undefined
  Undefined = Undefined
  HoldFactor = 1
  MaxDelay = 0
  TimerLag = 0
  MinAction = 1
  MaxAction = 1
  MaxFailures = 0
  FailingOps = {"set"}
  MaxQueue = 0
SPECIFICATION Spec
SYMMETRY Symmetry
INVARIANT NeverWaitsInVain
