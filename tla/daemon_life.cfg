\* One daemon, started up to twice, through faults of every kind.
CONSTANTS
  Leases = {1, 2, 3, 4}
  NoLease = 0
  Forever = 99
  MaxFaults = 2
  MaxBoots = 2
  ReadyThreshold = 1
SPECIFICATION FairSpec
CHECK_DEADLOCK FALSE
INVARIANTS TypeOK ActiveIsPublished StopRemoves ReadyIsEarned DryRunKeepsRecords DaemonInv
PROPERTIES HostLeaves HeartbeatComesBack ReadyInTheEnd ShutdownEnds
