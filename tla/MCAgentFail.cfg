CONSTANTS
  t1 = t1
  t2 = t2
  t3 = t3
  Templates = {t1, t2}
  AuthBindings <- SameAuth
  Manifests <- TwoTemplates
  MaxReplicas = 1
  MaxGeneration = 3
  MaxFailures = 1
  MaxCrashes = 0
  MaxExecs = 0
  RemovalMayFail = FALSE
SPECIFICATION Spec
INVARIANTS TypeOK OwnedWork BackendRecorded ReportsTrue BaseMatchesTemplate
