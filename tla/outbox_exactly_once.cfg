SPECIFICATION Spec
CONSTANTS
  i1 = i1  i2 = i2  p1 = p1  p2 = p2  s1 = s1  s2 = s2
  NoOwner = NoOwner
  NoIntent = NoIntent
  Intents <- OneIntent
  PoolWorkers <- TwoPool
  SyncCallers <- OneCaller
  Ids <- Workers
  WorkerId <- DistinctIds
  Reconcilable <- OneIntent
  Faults <- OnlyCrash
  MaxFaults = 3
  MaxAttempts = 4
INVARIANT AppliedAtMostOnce
CHECK_DEADLOCK FALSE
