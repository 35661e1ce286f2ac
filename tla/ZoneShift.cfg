\* Someone else deletes a record of the zone between two pages.
SPECIFICATION Spec
CONSTANTS
  ip1 = ip1
  ip2 = ip2
  NoIP = NoIP
  APIs = {"digitalocean"}
  IPs = {ip1, ip2}
  TTLs = {30, 60}
  RecordIDs <- SixRecords
  FirstIDs <- FirstThree
  PerPage = 2
  Events = {"shift"}
  MaxEvents = 1
PROPERTIES
  KeepsPromise
CHECK_DEADLOCK FALSE
