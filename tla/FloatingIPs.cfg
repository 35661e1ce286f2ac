\* Two pools share the provider; one thing goes wrong.
SPECIFICATION FairSpec
CONSTANTS
  c1 = c1
  c2 = c2
  ip1 = ip1
  ip2 = ip2
  Callers = {c1, c2}
  Manages <- OnePoolEach
  IPs = {ip1, ip2}
  Droplets = {d1, d2}
  Own = Own
  NoDroplet = NoDroplet
  Unknown = Unknown
  MaxActions = 2
  Scenarios <- Troubles
  MaxEvents = 1
INVARIANTS
  Tracked
  AnswersHold
PROPERTIES
  Settles
