CONSTANTS
  t1 = t1
  t2 = t2
  t3 = t3
  Templates = {t1, t2, t3}
  AuthBindings <- OtherAuth
  Manifests <- Rebound
  MaxReplicas = 1
  MaxGeneration = 3
  MaxFailures = 0
  MaxCrashes = 1
  MaxExecs = 1
  RemovalMayFail = FALSE
SPECIFICATION Spec
INVARIANTS RemovedForGood DurableAck AuthBindingsFixed SessionHoldsInstance
PROPERTIES AckedMonotonic
CHECK_DEADLOCK FALSE
