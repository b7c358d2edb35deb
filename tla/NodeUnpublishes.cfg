SPECIFICATION LiveSpec
CONSTANTS
  t1 = t1
  t2 = t2
  Targets = {t1, t2}
  CaptureOnDelete = TRUE
  HasCaptureRepo = TRUE
  SingleConsumer = TRUE
  Faults <- TransientFaults
  MaxWrites = 1
  MaxMounts = 2
  MaxOrphans = 0
INVARIANTS
  UnpublishedMeansGone
PROPERTIES
  UnpublishCompletes
