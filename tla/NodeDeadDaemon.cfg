SPECIFICATION Spec
CONSTANTS
  t1 = t1
  t2 = t2
  Targets = {t1, t2}
  CaptureOnDelete = FALSE
  HasCaptureRepo = TRUE
  SingleConsumer = TRUE
  Faults = {"daemon"}
  MaxWrites = 1
  MaxMounts = 1
  MaxOrphans = 0
SYMMETRY Perms
INVARIANTS
  UnpublishedMeansGone
