\* The match controller is done before the pool has a provider.
SPECIFICATION Spec
CONSTANTS
  Pools = {"p", "q"}
  Instances = {x1, x2, x3}
  Specs <- Edits
  FirstSpecs <- PlainOnly
  NoSpec = NoSpec
  NoInstance = NoInstance
  Edited = {"p"}
  Registered = {"digitalocean", "cloudflare"}
  MaxUID = 3
  Scenarios = {{"early"}}
  MaxEvents = 2
INVARIANTS
  NodesAlwaysKept
CHECK_DEADLOCK FALSE
