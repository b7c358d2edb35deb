SPECIFICATION LiveSpec
CONSTANTS
  t1 = t1
  t2 = t2
  Targets = {t1, t2}
  CaptureOnDelete = FALSE
  HasCaptureRepo = TRUE
  SingleConsumer = TRUE
  Faults = {"mount"}
  MaxWrites = 1
  MaxMounts = 1
  MaxOrphans = 0
PROPERTIES
  UnpublishCompletes
