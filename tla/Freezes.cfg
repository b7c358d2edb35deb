SPECIFICATION LiveSpec
CONSTANTS
  f1 = f1
  f2 = f2
  snap = snap
  Freezes <- TwoFreezes
  TagOf <- OneName
  Tags = {snap}
  Faults = {"io", "http", "cancel", "daemon", "hang"}
  Registries <- SoundRegistries
  MaxWrites = 2
INVARIANTS
  TypeOK
  ManifestsComplete
  SnapshotFaithful
PROPERTIES
  FreezeEnds
  ImplementsSnapshots
