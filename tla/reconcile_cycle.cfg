\* Two aliases wanted in the same pass.
CONSTANTS
  Me = me
  Peer = peer
  Containers = {c1, c2}
  Former = c1
  PeerContainers = {p1}
  HostNames = {"n", "m1", "m2", "a", "b", "c"}
  IPTexts <- AddressTexts
  HostIP <- IPv4Only
  Seconds <- Numbers
  RecordTTL = 0
  Universes <- OnlyCycles
  MaxActual = 1
  MaxPasses = 1
SPECIFICATION Spec
CHECK_DEADLOCK FALSE
INVARIANT NoCNAMECycle
