\* Two pools are edited, deleted, created and shut down.
SPECIFICATION FairSpec
CONSTANTS
  Pools = {"p", "q"}
  Instances = {x1, x2, x3}
  Specs <- Edits
  FirstSpecs <- PlainOnly
  NoSpec = NoSpec
  NoInstance = NoInstance
  Edited = {"p"}
  Registered = {"digitalocean", "cloudflare"}
  MaxUID = 3
  Scenarios <- Changes
  MaxEvents = 2
INVARIANTS
  NoOrphans
  Serves
  NodesKept
PROPERTIES
  Finishes
CHECK_DEADLOCK FALSE
