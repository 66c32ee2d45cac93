\* Two hosts, one lock key: a lease that is kept alive is lost.
CONSTANTS
  Hosts = {h1, h2}
  Keys <- OneKey
  Requests <- OneRequest
  Leases = {l1, l2, l3}
  NoLease = NoLease
  LockTimeout = 1000
  LockRetry = 500
  LeaseLoss = TRUE
SPECIFICATION Spec
INVARIANT LiveLeaseExclusion
