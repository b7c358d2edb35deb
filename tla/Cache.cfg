SPECIFICATION LiveSpec
CONSTANTS
  base = base
  top = top
  NoFile = NoFile
  TooLong = TooLong
  Pulls = {1, 2}
  Digests = {base, top}
  NChunks = 1
  Manifests <- SeedRevisions
  Faults = {"error", "corrupt", "short", "long", "stat", "power"}
INVARIANTS
  CacheIntact
  PulledIsSeed
  BlobsSealed
PROPERTIES
  PullsRecover
