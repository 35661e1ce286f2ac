\* The API server applies an update of the spec and its answer is lost.
SPECIFICATION Spec
CONSTANTS
  ip1 = ip1
  ip2 = ip2
  n1 = n1
  n2 = n2
  NoIP = NoIP
  NoNode = NoNode
  IPs = {ip1, ip2}
  Nodes = {n1}
  IPLists <- OneIP
  DesiredIPs = {2}
  DNSSpecs = {"none"}
  CoolOff = FALSE
  Async = TRUE
  Events = {"lostNewIPs"}
  MaxEvents = 2
INVARIANTS
  ClaimConsistent
