\* The annotation of a node changes while its pod stops being ready.
SPECIFICATION FairSpec
CONSTANTS
  n1 = n1
  n2 = n2
  p1 = p1
  p2 = p2
  Nodes = {n1}
  Pods = {p1}
  Home <- OneHome
  PodCriteria = TRUE
  Scenarios = {{"pod", "annotate"}}
  MaxChanges = 2
PROPERTIES
  AlwaysSettles
