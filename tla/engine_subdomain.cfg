\* A record of a name is removed while its owner has the same at a subdomain.
CONSTANTS
  h1 = h1
  h2 = h2
  c1 = c1
  c2 = c2
  c3 = c3
  Hosts = {h1, h2}
  Containers = {c1, c2}
  HostOf <- FirstHasC1C3
  IntentsOf <- ParentContested
  StartedAt <- Young
  NameOrder <- NameAndChild
  Subdomain <- ChildBelow
  MaxIndex = 2
  Absent = Absent
  NoHost = NoHost
  Orphan = Orphan
  AtStart = {c1, c2}
  MaxChanges = 1
  MaxStops = 0
  MaxOutages = 0
  MaxFailures = 0
  MaxHbFailures = 0
  MaxLags = 0
  MaxFaults = 1
SPECIFICATION Spec
PROPERTIES RemovesThatNameOnly
