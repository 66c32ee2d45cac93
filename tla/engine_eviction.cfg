\* Two daemons that live contest a name, and nothing fails.
CONSTANTS
  h1 = h1
  h2 = h2
  c1 = c1
  c2 = c2
  c3 = c3
  Hosts = {h1, h2}
  Containers = {c1, c2}
  HostOf <- FirstHasC1C3
  IntentsOf <- AliasOlder
  StartedAt <- Young
  NameOrder <- OneName
  Subdomain <- NoSubdomain
  MaxIndex = 2
  Absent = Absent
  NoHost = NoHost
  Orphan = Orphan
  AtStart = {c1, c2}
  MaxChanges = 0
  MaxStops = 0
  MaxOutages = 0
  MaxFailures = 0
  MaxHbFailures = 0
  MaxLags = 0
  MaxFaults = 0
SPECIFICATION Spec
PROPERTIES RemovesOwnOrOrphaned
