\* A node or a pod is deleted while the watch is broken.
SPECIFICATION FairSpec
CONSTANTS
  n1 = n1
  n2 = n2
  p1 = p1
  p2 = p2
  Nodes = {n1}
  Pods = {p1}
  Home <- OneHome
  PodCriteria = TRUE
  Scenarios = {{"relist"}}
  MaxChanges = 1
PROPERTIES
  AlwaysSettles
