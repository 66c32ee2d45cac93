\* Two hosts, two lock keys taken in order.
CONSTANTS
  Hosts = {h1, h2}
  Keys <- TwoKeys
  Requests <- TwoRequests
  Leases = {l1, l2, l3, l4}
  NoLease = NoLease
  LockTimeout = 1000
  LockRetry = 500
  LeaseLoss = FALSE
SPECIFICATION Spec
SYMMETRY Symmetry
INVARIANTS TypeOK LockInv MutualExclusion
PROPERTIES OwnRelease LockImplemented
