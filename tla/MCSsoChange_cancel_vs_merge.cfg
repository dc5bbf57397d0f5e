\* A cancel and a merge of the same pull request.
CONSTANTS
  Keys = {k1}
  Branches = {k1}
  BranchOf <- MCOwnBranch
  Handlers = {h1}
  Reconcilers = {r1}
  ArgocdReaders = {r1}
  Nobody = Nobody
  NoKey = NoKey
  ListLimit = 1
  MaxPrs = 2
  Leftover = {}
  Ages = {"none"}
  MaxDisturbances = 0
  GraceCoversWrite = TRUE
SPECIFICATION Spec
PROPERTIES CancelSparesMerged
