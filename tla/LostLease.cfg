\* A leader cannot renew its lease.
SPECIFICATION Spec
CONSTANTS
  r1 = r1
  r2 = r2
  r3 = r3
  Replicas = {r1, r2, r3}
  NoReplica = NoReplica
  Runs = {"flipCtrl", "nodednsCtrl"}
  Credentials <- WithCredentials
  Scenarios = {{"renew"}}
  MaxEvents = 1
INVARIANTS
  OneLeader
CHECK_DEADLOCK FALSE
