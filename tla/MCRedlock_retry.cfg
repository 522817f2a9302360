CONSTANTS
  Clients = {a}
  NoClient = NoClient
  Instances = {r1,r2,r3}
  KeyExpiration = 2
  MaxRetries = 1
  RetryInterval = 0
  ExtendTtl = Undefined
  Undefined = Undefined
  HoldFactor = 1
  MaxDelay = 0
  TimerLag = 0
  MinAction = 1
  MaxAction = 1
  MaxFailures = 2
  FailingOps = {"set"}
  MaxQueue = 0
SPECIFICATION Spec
INVARIANT QuorumBacked
