CONSTANTS
  Clients = {a, b}
  NoClient = NoClient
  Instances = {r1}
  KeyExpiration = 30
  MaxRetries = 2
  RetryInterval = 15
  ExtendTtl = 20
  Undefined = Undefined
  HoldFactor = 2
  MaxDelay = 1
  TimerLag = 0
  MinAction = 0
  MaxAction = 61
  MaxFailures = 1
  FailingOps = {"set", "release"}
  MaxQueue = 1
SPECIFICATION Spec
INVARIANTS LeaseHeld DeletesOnlyOwnKey
PROPERTIES ImplementsMutex
