\* A retry timer fires as Run() stops the child.
SPECIFICATION Spec
CONSTANTS
  n1 = n1
  n2 = n2
  Nodes = {n1, n2}
  Criteria = {"both", "one"}
  Selects <- Both
  Zones = {"z1", "z2"}
  Types = {"external", "internal"}
  Addresses <- AllAddresses
  Specs <- Edits
  FirstSpecs <- OneSpec
  NoSpec = NoSpec
  Children = {1, 2}
  MaxUID = 2
  FastLen = 2
  Scenarios = {{"dns", "down"}}
  MaxEvents = 2
INVARIANTS
  ChildrenCompleted
CHECK_DEADLOCK FALSE
