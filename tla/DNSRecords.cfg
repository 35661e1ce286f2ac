\* Both providers, any records at the beginning; calls fail, are lost or interrupted.
SPECIFICATION FairSpec
CONSTANTS
  ip1 = ip1
  ip2 = ip2
  NoIP = NoIP
  APIs = {"digitalocean", "cloudflare"}
  IPs = {ip1, ip2}
  TTLs = {30, 60}
  RecordIDs <- SixRecords
  FirstIDs <- FirstTwo
  PerPage = 2
  Events = {"fail", "crash", "edit", "others"}
  MaxEvents = 2
INVARIANTS
  OnlyOwn
PROPERTIES
  KeepsPromise
  NoNeedlessWrite
  Converges
CHECK_DEADLOCK FALSE
