\* One request: a submitter and a canceller beside the reconciler of one replica,
\* with one failure, crash or meddling human.
CONSTANTS
  Keys = {k1}
  Branches = {k1}
  BranchOf <- MCOwnBranch
  Handlers = {h1, h2}
  Reconcilers = {r1}
  ArgocdReaders = {r1}
  Nobody = Nobody
  NoKey = NoKey
  ListLimit = 1
  MaxPrs = 2
  Leftover = {}
  Ages = {"none"}
  MaxDisturbances = 1
  GraceCoversWrite = TRUE
SPECIFICATION Spec
SYMMETRY MCHandlerSymmetry
INVARIANTS TypeOK Audited
PROPERTIES NoCancelUnderWrite ImplementsLifecycle
