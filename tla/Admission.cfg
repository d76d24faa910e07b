SPECIFICATION FairSpec
CONSTANTS
  Requests = {r1, r2, r3}
  Hosts = {h1, h2, h3}
  MaxInFlight = 2
  Burst = 1
  IdleTicks = 2
  MaxTrackedHosts = 2
INVARIANTS LeasesAccounted
PROPERTIES CommitUnderLease LeasesReturn
