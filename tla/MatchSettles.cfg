\* Criteria on nodes and pods; nodes flip while run() reads them; or anything happens.
SPECIFICATION FairSpec
CONSTANTS
  n1 = n1
  n2 = n2
  p1 = p1
  p2 = p2
  Nodes = {n1}
  Pods = {p1, p2}
  Home <- TwoHomes
  PodCriteria = TRUE
  Scenarios = {{"flip", "node", "pod"}, {"annotate", "node", "early", "relist"}}
  MaxChanges = 4
INVARIANTS
  EnabledByRecord
  MatchesAll
PROPERTIES
  MatchSettles
