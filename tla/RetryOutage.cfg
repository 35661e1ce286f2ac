\* A retry runs between the restart and the bulk enable.
SPECIFICATION Spec
CONSTANTS
  n1 = n1
  n2 = n2
  Nodes = {n1, n2}
  Criteria = {"both", "one"}
  Selects <- Both
  Zones = {"z1", "z2"}
  Types = {"external", "internal"}
  Addresses <- AllAddresses
  Specs <- Edits
  FirstSpecs <- OneSpec
  NoSpec = NoSpec
  Children = {1, 2}
  MaxUID = 2
  FastLen = 2
  Scenarios = {{"dns", "edit"}}
  MaxEvents = 2
PROPERTIES
  NeverOutage
CHECK_DEADLOCK FALSE
