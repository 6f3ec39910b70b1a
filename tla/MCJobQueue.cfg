CONSTANTS
  k1 = k1
  k2 = k2
  k3 = k3
  None = None
  Keys <- MCKeys
  Unhandled <- MCUnhandled
  Workers = {w1, w2}
  MaxJobs = 3
  MaxAttempts = 2
  RetryDelay = 1
  LeaseTimeout = 1

SPECIFICATION FairSpec
INVARIANTS TypeOK KeysUnique AttemptsAccount AttemptsDistinct
PROPERTIES ImplementsLedger EveryJobEnds
