SPECIFICATION CompletionSpec
CONSTANTS
  o1 = o1  p1 = p1  t1 = t1  l1 = l1  c1 = c1  c2 = c2  k1 = k1  k2 = k2  d1 = d1
  Orchestrations = {o1}
  Projects = {p1}
  Tasks = {t1}
  EdgeIds = {}
  Home <- OneHome
  Absent = absent
  Unrouted = unrouted
  NoEdge = noEdge
  Removed = removed
  Lanes = {l1}
  Callers = {c1, c2}
  MaxProjects = 1
  MaxRepairs = 0
  Required <- NoStages
  MaxRevision = 10
  NoLane = noLane
  NoTask = noTask
  NoProject = noProject
  Keys = {k1, k2}
  Dims = {d1}
  Asked <- Rivals
  NoKey = noKey
SYMMETRY CallerSymmetry
INVARIANTS
  CompletionTypeOK
  Resumable
PROPERTIES
  ImplementsClosing
CHECK_DEADLOCK FALSE
