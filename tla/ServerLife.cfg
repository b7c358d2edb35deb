SPECIFICATION LiveSpec
CONSTANTS
  N = 4
  Role = "all"
  NodeId <- Ids
  Clients = {"kubelet", "sidecar"}
  Calls <- SomeCalls
INVARIANTS
  TypeOK
  ServingReachable
  NeverUnimplemented
PROPERTIES
  AlwaysAnswered
