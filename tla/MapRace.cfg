\* A pool is added while another annotates a node.
SPECIFICATION Spec
CONSTANTS
  Pools = {"p", "q"}
  Instances = {x1, x2, x3}
  Specs <- Edits
  FirstSpecs <- PlainOnly
  NoSpec = NoSpec
  NoInstance = NoInstance
  Edited = {"p"}
  Registered = {"digitalocean", "cloudflare"}
  MaxUID = 3
  Scenarios = {{}}
  MaxEvents = 2
INVARIANTS
  NoRaces
CHECK_DEADLOCK FALSE
