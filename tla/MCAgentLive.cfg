CONSTANTS
  t1 = t1
  t2 = t2
  t3 = t3
  Templates = {t1}
  AuthBindings <- SameAuth
  Manifests <- OneTemplate
  MaxReplicas = 1
  MaxGeneration = 2
  MaxFailures = 1
  MaxCrashes = 1
  MaxExecs = 0
  RemovalMayFail = FALSE
SPECIFICATION LiveSpec
PROPERTIES Settles DeletionCompletes
CHECK_DEADLOCK FALSE
