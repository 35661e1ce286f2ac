\* Liveness with fewer IPs than nodes, crashes and a provider that fails.
SPECIFICATION FairSpec
CONSTANTS
  ip1 = ip1
  ip2 = ip2
  n1 = n1
  n2 = n2
  NoIP = NoIP
  NoNode = NoNode
  IPs = {ip1}
  Nodes = {n1, n2}
  IPLists <- OneIP
  DesiredIPs = {0}
  DNSSpecs = {"none"}
  CoolOff = TRUE
  Async = TRUE
  Events = {"crash", "lookup", "notFound", "assign", "lostAssign", "asyncFail", "move"}
  MaxEvents = 2
PROPERTIES
  LastNodeServed
