\* The informer delivers the pool as it was before onNewIPs.
SPECIFICATION Spec
CONSTANTS
  ip1 = ip1
  ip2 = ip2
  n1 = n1
  n2 = n2
  NoIP = NoIP
  NoNode = NoNode
  IPs = {ip1, ip2}
  Nodes = {n1}
  IPLists <- NoneListed
  DesiredIPs = {1}
  DNSSpecs = {"none"}
  CoolOff = FALSE
  Async = TRUE
  Events = {"stale"}
  MaxEvents = 0
INVARIANTS
  AllocatesDesired
