\* The informer misses a deletion.
SPECIFICATION Spec
CONSTANTS
  Pools = {"p", "q"}
  Instances = {x1, x2, x3}
  Specs <- Edits
  FirstSpecs <- PlainOnly
  NoSpec = NoSpec
  NoInstance = NoInstance
  Edited = {"p"}
  Registered = {"digitalocean", "cloudflare"}
  MaxUID = 3
  Scenarios = {{"delete", "missed"}}
  MaxEvents = 2
INVARIANTS
  NoTombstone
CHECK_DEADLOCK FALSE
