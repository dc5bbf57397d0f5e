\* One request under fairness: everything that must eventually happen.
CONSTANTS
  Keys = {k1}
  Branches = {k1}
  BranchOf <- MCOwnBranch
  Handlers = {h1}
  Reconcilers = {r1}
  ArgocdReaders = {r1}
  Nobody = Nobody
  NoKey = NoKey
  ListLimit = 1
  MaxPrs = 3
  Leftover = {}
  Ages = {"none"}
  MaxDisturbances = 1
  GraceCoversWrite = TRUE
SPECIFICATION FairSpec
PROPERTIES Settles ReviewIsSeen MergedIsApplied
