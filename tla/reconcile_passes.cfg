\* From labels to the registry: one name, two addresses, three names in circles, odd labels.
CONSTANTS
  Me = me
  Peer = peer
  Containers = {c1, c2}
  Former = c1
  PeerContainers = {p1}
  HostNames = {"n", "m1", "m2", "a", "b", "c"}
  IPTexts <- AddressTexts
  HostIP <- IPv4Only
  Seconds <- Numbers
  RecordTTL = 0
  Universes <- AllUniverses
  MaxActual = 2
  MaxPasses = 2
SPECIFICATION Spec
CHECK_DEADLOCK FALSE
INVARIANTS StaysConsistent StaleGone ComesToRest FilterIndependentOfOrder RegistryAsLabelled LabelsHeard
PROPERTIES EvictionsJustified WantedRecordsStay OneAliasClosesNoCycle
