\* An action is answered for another node, and a lookup evicts that one.
SPECIFICATION Spec
CONSTANTS
  ip1 = ip1
  ip2 = ip2
  n1 = n1
  n2 = n2
  NoIP = NoIP
  NoNode = NoNode
  IPs = {ip1}
  Nodes = {n1, n2}
  IPLists <- OneIP
  DesiredIPs = {0}
  DNSSpecs = {"none"}
  CoolOff = FALSE
  Async = TRUE
  Events = {}
  MaxEvents = 0
INVARIANTS
  AnnotationTruth
