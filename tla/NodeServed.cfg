SPECIFICATION Spec
CONSTANTS
  t1 = t1
  t2 = t2
  Targets = {t1, t2}
  CaptureOnDelete = TRUE
  HasCaptureRepo = TRUE
  SingleConsumer = FALSE
  Faults <- ServedFaults
  MaxWrites = 0
  MaxMounts = 2
  MaxOrphans = 1
SYMMETRY Perms
INVARIANTS
  RunningStaysMounted
