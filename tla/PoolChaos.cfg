\* Any two events that touch the controller's maps, with a record to update; one node.
SPECIFICATION Spec
CONSTANTS
  ip1 = ip1
  ip2 = ip2
  n1 = n1
  n2 = n2
  NoIP = NoIP
  NoNode = NoNode
  IPs = {ip1, ip2}
  Nodes = {n1}
  IPLists <- TwoIPs
  DesiredIPs = {0, 1}
  DNSSpecs = {"ttl0"}
  CoolOff = FALSE
  Async = TRUE
  Events = {"edit", "stale", "lookup", "notFound", "assign", "lostAssign", "move", "cancel", "crash"}
  MaxEvents = 2
INVARIANTS
  TypeOK
  TrackedInPool
  NoPanic
