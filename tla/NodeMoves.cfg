SPECIFICATION Spec
CONSTANTS
  p1 = p1
  p2 = p2
  Pods1 = {p1}
  Pods2 = {p2}
  CaptureOnDelete = TRUE
  HasCaptureRepo = TRUE
  SingleConsumer = TRUE
  Faults = {}
  MaxWrites = 1
  MaxMounts = 1
  MaxOrphans = 0
INVARIANTS
  MoveKeepsData
