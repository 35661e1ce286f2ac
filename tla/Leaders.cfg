\* Three replicas, one without credentials; signals, crashes and lost leases.
SPECIFICATION FairSpec
CONSTANTS
  r1 = r1
  r2 = r2
  r3 = r3
  Replicas = {r1, r2, r3}
  NoReplica = NoReplica
  Runs = {"flipCtrl", "nodednsCtrl"}
  Credentials <- WithCredentials
  Scenarios <- Troubles
  MaxEvents = 3
INVARIANTS
  ChildrenHoldLease
PROPERTIES
  SignalEnds
  SomeoneLeads
CHECK_DEADLOCK FALSE
