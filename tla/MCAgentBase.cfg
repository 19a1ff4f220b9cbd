CONSTANTS
  t1 = t1
  t2 = t2
  t3 = t3
  Templates = {t1, t2}
  AuthBindings <- SameAuth
  Manifests <- TwoTemplates
  MaxReplicas = 1
  MaxGeneration = 4
  MaxFailures = 0
  MaxCrashes = 1
  MaxExecs = 0
  RemovalMayFail = FALSE
SPECIFICATION Spec
INVARIANT BaseMatchesTemplate
CHECK_DEADLOCK FALSE
