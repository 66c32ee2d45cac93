\* Two hosts, one lock key, any lease may be lost.
CONSTANTS
  Hosts = {h1, h2}
  Keys <- OneKey
  Requests <- OneRequest
  Leases = {l1, l2, l3}
  NoLease = NoLease
  LockTimeout = 1000
  LockRetry = 500
  LeaseLoss = TRUE
SPECIFICATION FairSpec
INVARIANT NothingKeptAfterReturn
PROPERTIES TransactionReturns LockFreedAgain
