CONSTANTS
  Clients = {a}
  NoClient = NoClient
  Instances = {r1,r2,r3}
  KeyExpiration = 4
  MaxRetries = 2
  RetryInterval = 1
  ExtendTtl = Undefined
  Undefined = Undefined
  HoldFactor = 1
  MaxDelay = 1
  TimerLag = 0
  MinAction = 1
  MaxAction = 1
  MaxFailures = 3
  FailingOps = {"set"}
  MaxQueue = 0
SPECIFICATION FairSpec
INVARIANTS TypeOK FirstAttemptBacked FirstAttemptExhausted NeverWaitsInVain
PROPERTY LockReturns
