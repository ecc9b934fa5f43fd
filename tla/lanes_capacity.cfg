SPECIFICATION OpenedSpec
CONSTANTS
  o1 = o1
  o2 = o2
  p1 = p1
  p2 = p2
  t1 = t1
  t2 = t2
  t3 = t3
  l1 = l1
  l2 = l2
  l3 = l3
  e1 = e1
  e2 = e2
  e3 = e3
  c1 = c1
  c2 = c2
  Orchestrations = {o1, o2}
  Projects = {p1, p2}
  Tasks = {t1, t2, t3}
  EdgeIds = {}
  Home <- TwoHomes
  Absent = absent
  Unrouted = unrouted
  NoEdge = noEdge
  Removed = removed
  Lanes = {l1, l2, l3}
  Callers = {c1}
  MaxProjects = 1
  MaxRepairs = 1
  Required <- DefaultStages
  MaxRevision = 4
  NoLane = noLane
  NoTask = noTask
  NoProject = noProject
INVARIANTS
  TypeOK
PROPERTIES
  ImplementsSlots
CHECK_DEADLOCK FALSE
