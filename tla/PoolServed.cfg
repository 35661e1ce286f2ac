\* Liveness: an asynchronous provider, and calls that fail and are retried.
SPECIFICATION FairSpec
CONSTANTS
  ip1 = ip1
  ip2 = ip2
  n1 = n1
  n2 = n2
  NoIP = NoIP
  NoNode = NoNode
  IPs = {ip1, ip2}
  Nodes = {n1, n2}
  IPLists <- TwoIPs
  DesiredIPs = {0}
  DNSSpecs = {"ttl0"}
  CoolOff = FALSE
  Async = TRUE
  Events = {"asyncFail", "dns", "status"}
  MaxEvents = 1
PROPERTIES
  NodesServed
  RecordComplete
