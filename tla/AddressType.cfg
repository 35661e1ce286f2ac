\* Only the address type of the spec changes.
SPECIFICATION Spec
CONSTANTS
  n1 = n1
  n2 = n2
  Nodes = {n1, n2}
  Criteria = {"both", "one"}
  Selects <- Both
  Zones = {"z1", "z2"}
  Types = {"external", "internal"}
  Addresses <- AllAddresses
  Specs <- AddressEdit
  FirstSpecs <- OneSpec
  NoSpec = NoSpec
  Children = {1, 2}
  MaxUID = 2
  FastLen = 2
  Scenarios = {{"address"}}
  MaxEvents = 1
INVARIANTS
  UpToDate
CHECK_DEADLOCK FALSE
