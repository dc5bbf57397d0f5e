\* Two replicas whose ticks overlap when the lease is lost, over one request.
CONSTANTS
  Keys = {k1}
  Branches = {k1}
  BranchOf <- MCOwnBranch
  Handlers = {h1}
  Reconcilers = {r1, r2}
  ArgocdReaders = {r1, r2}
  Nobody = Nobody
  NoKey = NoKey
  ListLimit = 1
  MaxPrs = 3
  Leftover = {k1}
  Ages = {"none", "recent", "old"}
  MaxDisturbances = 1
  GraceCoversWrite = TRUE
SPECIFICATION Spec
INVARIANTS SystemInv MergedIsMerged AppliedIsDeployed
PROPERTIES NoCancelUnderWrite
