CONSTANTS
  t1 = t1
  t2 = t2
  t3 = t3
  Templates = {t1, t2}
  AuthBindings <- SameAuth
  Manifests <- TwoTemplates
  MaxReplicas = 1
  MaxGeneration = 2
  MaxFailures = 0
  MaxCrashes = 0
  MaxExecs = 0
  RemovalMayFail = TRUE
SPECIFICATION Spec
INVARIANT DurableAck
CHECK_DEADLOCK FALSE
