SPECIFICATION FairSpec
CONSTANTS
  d1 = d1  d2 = d2  d3 = d3  c1 = c1  c2 = c2
  Procs = {d1, d2, d3}
  NoOne = noOne
  Clients = {c1, c2}
  MaxAttempts = 2
INVARIANTS
  DaemonTypeOK
  OneWorks
  ServingIsPublished
PROPERTIES
  ImplementsDuty
  OnlyStaleRemovalRobs
  LostDaemonFound
CHECK_DEADLOCK FALSE
