\* A writer slower than the grace period: what cleans up behind it.
CONSTANTS
  Keys = {k1}
  Branches = {k1}
  BranchOf <- MCOwnBranch
  Handlers = {h1}
  Reconcilers = {r1}
  ArgocdReaders = {r1}
  Nobody = Nobody
  NoKey = NoKey
  ListLimit = 1
  MaxPrs = 3
  Leftover = {}
  Ages = {"none"}
  MaxDisturbances = 1
  GraceCoversWrite = FALSE
SPECIFICATION FairSpec
PROPERTIES OrphansAreClosed
