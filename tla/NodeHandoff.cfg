SPECIFICATION Spec
CONSTANTS
  t1 = t1
  t2 = t2
  Targets = {t1, t2}
  CaptureOnDelete = TRUE
  HasCaptureRepo = TRUE
  SingleConsumer = TRUE
  Faults <- HandoffFaults
  MaxWrites = 2
  MaxMounts = 2
  MaxOrphans = 2
SYMMETRY Perms
INVARIANTS
  NoLoss
PROPERTIES
  ImplementsVolume
