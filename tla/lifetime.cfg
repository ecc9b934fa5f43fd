SPECIFICATION Spec
CONSTANTS
  i1 = i1  k1 = k1  k2 = k2  k3 = k3  k4 = k4  o1 = o1  o2 = o2  c1 = c1  c2 = c2
  Issues = {i1}
  Adhoc = adhoc
  Orgs = {o1, o2}
  NoOrg = noOrg
  Keys = {k1, k2, k4}
  SourceOf <- Requests
  Callers = {c1, c2}
  MaxCases = 2
  MaxExecs = 2
  MaxSessions = 2
  NoKey = noKey
SYMMETRY StartSymmetry
INVARIANTS
  LifetimeTypeOK
  OneDelivery
  OnlyLastRuns
  KeyOpensOnce
  ClosedTogether
PROPERTIES
  NeverRevived
  ImplementsDeliveries
CHECK_DEADLOCK FALSE
