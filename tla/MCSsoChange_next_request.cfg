\* Two requests, a listing of one row, and an older pull request on the first one's branch.
CONSTANTS
  Keys = {k1, k2}
  Branches = {k1, k2}
  BranchOf <- MCOwnBranch
  Handlers = {h1}
  Reconcilers = {r1}
  ArgocdReaders = {}
  Nobody = Nobody
  NoKey = NoKey
  ListLimit = 1
  MaxPrs = 2
  Leftover = {k1}
  Ages = {"old"}
  MaxDisturbances = 1
  GraceCoversWrite = TRUE
SPECIFICATION Spec
INVARIANTS OneActive ActiveIsListed WorksOnOwnPr
