\* The controller crashes at any step and starts anew, or the pool is edited, or a call fails.
SPECIFICATION HSpec
CONSTANTS
  ip1 = ip1
  ip2 = ip2
  n1 = n1
  n2 = n2
  NoIP = NoIP
  NoNode = NoNode
  IPs = {ip1, ip2}
  Nodes = {n1, n2}
  IPLists <- OneIP
  DesiredIPs = {0, 2}
  DNSSpecs = {"none"}
  CoolOff = FALSE
  Async = TRUE
  Events = {"edit", "crash", "lookup", "notFound", "assign", "lostAssign", "create", "newIPs", "lostNewIPs", "status"}
  MaxEvents = 1
SYMMETRY Symmetric
INVARIANTS
  NoSteal
  NodesAccounted
  IPsAccounted
  StatusFresh
  ServedAnnotated
PROPERTIES
  KeepsPromise
  Strays
