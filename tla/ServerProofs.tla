----------------------------- MODULE ServerProofs -----------------------------
(***************************************************************************)
(* Proofs about Server, for any number of processes and any role.          *)
(***************************************************************************)
EXTENDS Server, TLAPS

\* The time limits of a leaf that names no prover.
USE SMTT(30), ZenonT(30)

\* A process that is alone owns the path: what it found there it has removed,
\* and what is there now it has bound.
AloneOwns ==
  \A p \in Procs : p \in Alive /\ p \notin shared =>
    /\ \A q \in Alive : q = p
    /\ st[p] = "bind" => path = NoEntry
    /\ st[p] \in {"serving", "draining", "unlink"} => path = p

\* Processes and the path are only changed by processes (server.rs).
LEMMA ClientStep ==
  ASSUME NEW c \in Clients, Ask(c) \/ Dial(c) \/ Answer(c)
  PROVE  UNCHANGED <<st, path, shared>>
  BY DEF Ask, Dial, Answer, procVars

\* A process that is started is new, and goes no further than to stat.
LEMMA StartStep ==
  ASSUME TypeOK, NEW p \in Procs, Start(p)
  PROVE  /\ st[p] = "none"
         /\ st' = [st EXCEPT ![p] = "dead"] \/ st' = [st EXCEPT ![p] = "stat"]
         /\ UNCHANGED <<path, coVars>>
         /\ shared' = IF Alive = {} THEN shared ELSE shared \cup Alive \cup {p}
  BY Zenon DEF Start, Goto

\* The process that handles a request is one of them.
LEMMA HandlerIsProc == \A n \in 0..N : n # 0 => n \in Procs
  BY ServerAssumption DEF Procs

\* A start keeps the types: the new process handles no request yet.
LEMMA StartType ==
  ASSUME TypeOK, NEW p \in Procs, Start(p)
  PROVE  TypeOK'
  <1>1. st[p] = "none" /\ UNCHANGED <<path, req, at>>
    BY StartStep, Zenon DEF coVars
  <1>2. PICK new \in {"dead", "stat"} : st' = [st EXCEPT ![p] = new]
    BY StartStep, Zenon
  <1>3. \A c \in Clients : at[c] # 0 => at[c] \in Procs /\ at[c] # p
    BY <1>1, HandlerIsProc DEF TypeOK
  <1>4. shared' \subseteq Procs
    <2>1. Alive \subseteq Procs
      BY DEF Alive
    <2>2. shared \subseteq Procs
      BY DEF TypeOK
    <2>3. shared' \subseteq shared \cup Alive \cup {p}
      BY StartStep, ZenonT(30)
    <2> QED BY <2>1, <2>2, <2>3
  <1> QED BY <1>1, <1>2, <1>3, <1>4 DEF TypeOK

\* Every step keeps the types, and the requests in live servers.
LEMMA TypeStep == TypeOK /\ [Next]_vars => TypeOK'
  <1> SUFFICES ASSUME TypeOK, [Next]_vars PROVE TypeOK'
    OBVIOUS
  <1> USE ServerAssumption DEF TypeOK, Procs, Goto, NoEntry, procVars, coVars
  <1>1. ASSUME NEW p \in Procs, Start(p) PROVE TypeOK'
    BY <1>1, StartType
  <1>2. ASSUME NEW p \in Procs, StatPath(p) PROVE TypeOK'
    BY <1>2 DEF StatPath
  <1>3. ASSUME NEW p \in Procs, RemoveStale(p) PROVE TypeOK'
    BY <1>3 DEF RemoveStale
  <1>4. ASSUME NEW p \in Procs, Bind(p) PROVE TypeOK'
    BY <1>4 DEF Bind
  <1>5. ASSUME NEW p \in Procs, Signal(p) PROVE TypeOK'
    BY <1>5 DEF Signal
  <1>6. ASSUME NEW p \in Procs, Drain(p) PROVE TypeOK'
    BY <1>6 DEF Drain
  <1>7. ASSUME NEW p \in Procs, Unlink(p) PROVE TypeOK'
    BY <1>7 DEF Unlink
  <1>8. ASSUME NEW p \in Procs, Kill(p) PROVE TypeOK'
    BY <1>8 DEF Kill, Alive
  <1>9. ASSUME NEW c \in Clients, Ask(c) \/ Dial(c) \/ Answer(c) PROVE TypeOK'
    <2>1. CASE Ask(c) BY <2>1 DEF Ask
    <2>2. CASE Dial(c) BY <2>2 DEF Dial
    <2>3. CASE Answer(c) BY <2>3 DEF Answer
    <2> QED BY <1>9, <2>1, <2>2, <2>3
  <1>10. CASE UNCHANGED vars BY <1>10 DEF vars
  <1> QED BY <1>1, <1>2, <1>3, <1>4, <1>5, <1>6, <1>7, <1>8, <1>9, <1>10 DEF Next, Serve

\* Type correctness: a graceful stop waits for the requests it handles
\* (server.rs:84-88), for any number of processes and clients.
THEOREM TypeCorrect == Spec => []TypeOK
  <1>1. Init => TypeOK
    BY ServerAssumption DEF Init, TypeOK, Procs, NoEntry
  <1> QED BY <1>1, TypeStep, PTL DEF Spec

\* A start beside a live process leaves nobody alone.
LEMMA StartAlone ==
  ASSUME TypeOK, AloneOwns, NEW p \in Procs, Start(p)
  PROVE  AloneOwns'
  <1>1. st[p] = "none" /\ UNCHANGED path
    BY StartStep, Zenon
  <1>2. PICK new \in {"dead", "stat"} : st' = [st EXCEPT ![p] = new]
    BY StartStep, Zenon
  <1>3. Alive' \subseteq Alive \cup {p}
    BY <1>2 DEF Alive, TypeOK
  <1>4. CASE Alive = {}
    BY <1>1, <1>2, <1>3, <1>4 DEF AloneOwns, TypeOK
  <1>5. CASE Alive # {}
    <2>1. shared' = shared \cup Alive \cup {p}
      BY <1>5, StartStep, ZenonT(30)
    <2> QED BY <1>3, <2>1 DEF AloneOwns
  <1> QED BY <1>4, <1>5

\* Every step leaves the path to the process that is alone (server.rs:49-98).
LEMMA AloneStep == TypeOK /\ AloneOwns /\ [Next]_vars => AloneOwns'
  <1> SUFFICES ASSUME TypeOK, AloneOwns, [Next]_vars PROVE AloneOwns'
    OBVIOUS
  <1> USE ServerAssumption DEF TypeOK, AloneOwns, Alive, Goto, NoEntry, coVars
  <1>1. ASSUME NEW p \in Procs, Start(p) PROVE AloneOwns'
    BY <1>1, StartAlone
  <1>2. ASSUME NEW p \in Procs, StatPath(p) PROVE AloneOwns'
    BY <1>2 DEF StatPath
  <1>3. ASSUME NEW p \in Procs, RemoveStale(p) PROVE AloneOwns'
    BY <1>3 DEF RemoveStale
  <1>4. ASSUME NEW p \in Procs, Bind(p) PROVE AloneOwns'
    BY <1>4 DEF Bind
  <1>5. ASSUME NEW p \in Procs, Signal(p) PROVE AloneOwns'
    BY <1>5 DEF Signal
  <1>6. ASSUME NEW p \in Procs, Drain(p) PROVE AloneOwns'
    BY <1>6 DEF Drain
  <1>7. ASSUME NEW p \in Procs, Unlink(p) PROVE AloneOwns'
    BY <1>7 DEF Unlink
  <1>8. ASSUME NEW p \in Procs, Kill(p) PROVE AloneOwns'
    BY <1>8 DEF Kill
  <1>9. ASSUME NEW c \in Clients, Ask(c) \/ Dial(c) \/ Answer(c) PROVE AloneOwns'
    BY <1>9, ClientStep
  <1>10. CASE UNCHANGED vars BY <1>10 DEF vars
  <1> QED BY <1>1, <1>2, <1>3, <1>4, <1>5, <1>6, <1>7, <1>8, <1>9, <1>10 DEF Next, Serve

\* A server that never lived beside another is reachable for as long as it
\* serves, for any number of processes before and after it, stopped or killed at
\* any point, and whatever socket they left (server.rs:49-88).
THEOREM AloneIsReachable == Spec => []ServingReachable
  <1>1. Init => AloneOwns
    BY DEF Init, AloneOwns, Alive
  <1>2. TypeOK /\ AloneOwns => ServingReachable
    BY DEF AloneOwns, ServingReachable, Alive, TypeOK
  <1> QED BY <1>1, <1>2, TypeCorrect, AloneStep, PTL DEF Spec

-----------------------------------------------------------------------------
(* What clients ask for *)

\* A client has learnt of capabilities of its own service alone.
LearntRight ==
  /\ learned \in [Clients -> SUBSET {"CONTROLLER_SERVICE", "CREATE_DELETE_VOLUME",
                                     "CREATE_DELETE_SNAPSHOT", "STAGE_UNSTAGE_VOLUME"}]
  /\ "kubelet" \in Clients => learned["kubelet"] \subseteq {"STAGE_UNSTAGE_VOLUME"}
  /\ "sidecar" \in Clients => "STAGE_UNSTAGE_VOLUME" \notin learned["sidecar"]

\* What a client may call is implemented.
LEMMA CallableIsThere ==
  ASSUME LearntRight, NEW c \in Clients
  PROVE  Callable(c) \subseteq Implemented
  <1> USE ServerAssumption DEF LearntRight, Callable, Covers, Implemented, IdentityRPCs,
                               ControllerRPCs, NodeRPCs
  <1>1. CASE c = "kubelet" BY <1>1
  <1>2. CASE c = "sidecar" BY <1>2
  <1> QED BY <1>1, <1>2

\* What every client is asking for is implemented, and nothing was refused.
AsksRight ==
  /\ LearntRight
  /\ DOMAIN req = Clients
  /\ \A c \in Clients : req[c] # "none" => req[c] \in Implemented
  /\ \A c \in Clients : at[c] # 0 => req[c] # "none"
  /\ refused = {}

\* Every step keeps it so: a capability is learnt from the service that has it.
LEMMA AsksStep == TypeOK /\ AsksRight /\ [Next]_vars => AsksRight'
  <1> SUFFICES ASSUME TypeOK, AsksRight, [Next]_vars PROVE AsksRight'
    OBVIOUS
  <1>1. ASSUME NEW p \in Procs, Start(p) \/ StatPath(p) \/ RemoveStale(p) \/ Bind(p)
                 \/ Drain(p) \/ Unlink(p) \/ Signal(p)
        PROVE  UNCHANGED coVars
    BY <1>1, Zenon DEF Start, StatPath, RemoveStale, Bind, Drain, Unlink, Signal
  <1>2. CASE UNCHANGED coVars
    BY <1>2 DEF coVars, AsksRight, LearntRight
  <1>3. ASSUME NEW p \in Procs, Kill(p) PROVE AsksRight'
    BY <1>3 DEF Kill, AsksRight, LearntRight, TypeOK
  <1>4. ASSUME NEW c \in Clients, Ask(c) PROVE AsksRight'
    <2>1. PICK rpc \in Implemented : req' = [req EXCEPT ![c] = rpc]
      BY <1>4, CallableIsThere, Zenon DEF Ask, AsksRight
    <2>2. "none" \notin Implemented
      BY DEF Implemented, IdentityRPCs, ControllerRPCs, NodeRPCs
    <2> QED BY <1>4, <2>1, <2>2 DEF Ask, AsksRight, LearntRight
  <1>5. ASSUME NEW c \in Clients, Dial(c) PROVE AsksRight'
    BY <1>5 DEF Dial, AsksRight, LearntRight, TypeOK
  <1>6. ASSUME NEW c \in Clients, Answer(c) PROVE AsksRight'
    <2>1. LearntRight'
      BY <1>6, ServerAssumption DEF Answer, AsksRight, LearntRight, Heeds, Advertised,
           PluginCapabilities, ControllerCapabilities, NodeCapabilities
    <2>2. refused' = {}
      BY <1>6 DEF Answer, AsksRight
    <2> QED BY <1>6, <2>1, <2>2 DEF Answer, AsksRight, TypeOK
  <1>7. CASE UNCHANGED vars BY <1>2, <1>7 DEF vars, coVars
  <1> QED BY <1>1, <1>2, <1>3, <1>4, <1>5, <1>6, <1>7 DEF Next, Serve

\* A client that calls what it was told of is never answered Unimplemented, in
\* every role and across restarts (identity.rs, controller.rs:64-77, 227-285,
\* node.rs:97-118, 233-246).
THEOREM OfferedIsImplemented == Spec => []NeverUnimplemented
  <1>1. Init => AsksRight
    BY DEF Init, AsksRight, LearntRight
  <1>2. AsksRight => NeverUnimplemented
    BY DEF AsksRight, NeverUnimplemented
  <1> QED BY <1>1, <1>2, TypeCorrect, AsksStep, PTL DEF Spec

=============================================================================
