CONSTANTS
  t1 = t1
  t2 = t2
  t3 = t3
  Templates = {t1}
  AuthBindings <- SameAuth
  Manifests <- OneTemplate
  MaxReplicas = 1
  MaxGeneration = 4
  MaxFailures = 1
  MaxCrashes = 0
  MaxExecs = 0
  RemovalMayFail = FALSE
SPECIFICATION Spec
INVARIANT StoppedIsOff
