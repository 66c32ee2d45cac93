\* An alias and older and younger addresses of another host contest a name, among faults of every kind.
CONSTANTS
  h1 = h1
  h2 = h2
  c1 = c1
  c2 = c2
  c3 = c3
  Hosts = {h1, h2}
  Containers = {c1, c2, c3}
  HostOf <- FirstHasC1C3
  IntentsOf <- AliasOlder
  StartedAt <- Young
  NameOrder <- OneName
  Subdomain <- NoSubdomain
  MaxIndex = 3
  Absent = Absent
  NoHost = NoHost
  Orphan = Orphan
  AtStart = {c1, c2}
  MaxChanges = 2
  MaxStops = 1
  MaxOutages = 1
  MaxFailures = 1
  MaxHbFailures = 1
  MaxLags = 1
  MaxFaults = 3
SPECIFICATION FairSpec
INVARIANTS TypeOK Resolvable PlansFromTruth ApplyInv
PROPERTIES OthersRecordsRespected PassesExclude RegistryShared Converges
