SPECIFICATION Spec
CONSTANTS
  Chars = {"/", ":", "@", "-", "a"}
  TagChars = {"-", "a"}
  TagLen = 1
  Latest <- Letter
  Rev <- Letter
  Pvcs <- Letter
  Digest <- SomeDigest
  RefChars = {"/", ":", "@", "a"}
  NameChars = {"/", "a"}
  MaxRef = 7
  MaxName = 2
CHECK_DEADLOCK FALSE
INVARIANTS
  ParseFollowsGrammar
  CaptureKeepsRepo
  SnapshotIsSeed
  TagIsName
