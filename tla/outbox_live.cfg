SPECIFICATION FairSpec
CONSTANTS
  i1 = i1  i2 = i2  p1 = p1  p2 = p2  s1 = s1  s2 = s2
  NoOwner = NoOwner
  NoIntent = NoIntent
  Intents <- TwoIntents
  PoolWorkers <- OnePool
  SyncCallers <- NoCaller
  Ids <- Workers
  WorkerId <- DistinctIds
  Reconcilable <- TwoIntents
  Faults <- FaultKinds
  MaxFaults = 2
  MaxAttempts = 6
PROPERTY EventuallyResolved
CHECK_DEADLOCK FALSE
