SPECIFICATION FairSpec
CONSTANTS
  home = home  p1 = p1  p2 = p2  c1 = c1  c2 = c2
  a0 = a0  a1 = a1  a2 = a2  a3 = a3
  Projects = {home, p1, p2}
  Primary = home
  Callers = {c1, c2}
  Apps = {a0, a1, a2, a3}
  PrimaryApp = a0
  Caps = {1, 2}
  NoApp = noApp
INVARIANTS
  PoolTypeOK
  OverCapOnlyWhileBusy
  StaleOnlyWhileUsed
PROPERTIES
  IdleReclaimed
  ImplementsHandles
