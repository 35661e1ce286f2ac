\* Any one call or action of a growing pool fails and is retried, or an IP is moved; nodes come and go.
SPECIFICATION Spec
CONSTANTS
  ip1 = ip1
  ip2 = ip2
  n1 = n1
  n2 = n2
  NoIP = NoIP
  NoNode = NoNode
  IPs = {ip1, ip2}
  Nodes = {n1, n2}
  IPLists <- OneIP
  DesiredIPs = {0, 2}
  DNSSpecs = {"none", "ttl60"}
  CoolOff = FALSE
  Async = TRUE
  Events = {"create", "newIPs", "dns", "lookup", "assign", "asyncFail", "move", "annotate", "lag"}
  MaxEvents = 1
SYMMETRY Symmetric
INVARIANTS
  DNSFresh
  AllocatedListed
  QueueSound
  ClaimConsistent
