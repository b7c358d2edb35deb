-------------------------------- MODULE Server --------------------------------
(***************************************************************************)
(* The driver as a process: main (main.rs), the CSI socket from bind to    *)
(* removal (server.rs), which services answer on it (driver.rs), and what  *)
(* the plugin says of itself (identity.rs and the capability RPCs of       *)
(* controller.rs and node.rs).                                             *)
(*                                                                         *)
(* Processes are started one after the other by the container runtime, all *)
(* with the same endpoint, whose directory outlives them (deploy/).  Two   *)
(* of them may live at the same time, as when a pod is replaced before the *)
(* old one is gone; each works on the path as if it were alone.  The CO's  *)
(* clients call what they have learnt to be there and retry for ever.      *)
(***************************************************************************)
EXTENDS Naturals

CONSTANTS
  N,         \* number of processes started
  Role,      \* --role: "controller", "node" or "all"
  NodeId,    \* NodeId[p]: the --node-id of process p, "" when it is not given
  Clients,   \* who calls: "kubelet", "sidecar" (provisioner, snapshotter)
  Calls      \* bound on the RPCs they call

Procs == 1..N

Roles == {"controller", "node", "all"}

ServesController == Role \in {"controller", "all"}
ServesNode == Role \in {"node", "all"}

ASSUME ServerAssumption ==
  /\ N \in Nat \ {0}
  /\ Role \in Roles
  /\ DOMAIN NodeId = Procs
  /\ Clients \subseteq {"kubelet", "sidecar"}
  /\ "kubelet" \in Clients => ServesNode
  /\ "sidecar" \in Clients => ServesController

VARIABLES
  st,         \* where each process is
  path,       \* who bound the socket at the endpoint path: a process,
              \* 0 for one of an earlier life, N + 1 when nothing is there
  shared,     \* processes that lived at the same time as another
  req, at,    \* each client's request, and the process that handles it or 0
  learned,    \* capabilities each client has been told of
  refused     \* RPCs answered with Unimplemented

procVars == <<st, path, shared>>
coVars == <<req, at, learned, refused>>
vars == <<st, path, shared, req, at, learned, refused>>

NoEntry == N + 1
Alive == {p \in Procs : st[p] \notin {"none", "dead"}}

-----------------------------------------------------------------------------
(* What the plugin offers and what it says it offers. *)

IdentityRPCs == {"GetPluginInfo", "GetPluginCapabilities", "Probe"}

\* Handlers that do something; the others return Unimplemented.
ControllerRPCs ==
  {"ControllerGetCapabilities", "CreateVolume", "DeleteVolume", "CreateSnapshot",
   "DeleteSnapshot", "ValidateVolumeCapabilities"}
NodeRPCs ==
  {"NodeGetInfo", "NodeGetCapabilities", "NodeStageVolume", "NodeUnstageVolume",
   "NodePublishVolume", "NodeUnpublishVolume"}

\* What the router has, by role: identity always, the others as optional services.
Implemented ==
  IdentityRPCs \cup (IF ServesController THEN ControllerRPCs ELSE {})
               \cup (IF ServesNode THEN NodeRPCs ELSE {})

PluginCapabilities == {"CONTROLLER_SERVICE"}

\* Deviation: the snapshots are said to be listed.
ControllerCapabilitiesWithList ==
  {"CREATE_DELETE_VOLUME", "CREATE_DELETE_SNAPSHOT", "LIST_SNAPSHOTS"}

ControllerCapabilities == {"CREATE_DELETE_VOLUME", "CREATE_DELETE_SNAPSHOT"}

NodeCapabilities == {"STAGE_UNSTAGE_VOLUME"}

\* The capabilities an RPC answers with.
Advertised(rpc) ==
  CASE rpc = "GetPluginCapabilities" -> PluginCapabilities
    [] rpc = "ControllerGetCapabilities" -> ControllerCapabilities
    [] rpc = "NodeGetCapabilities" -> NodeCapabilities
    [] OTHER -> {}

\* The RPCs a capability lets the CO call (csi.proto).
Covers(cap) ==
  CASE cap = "CONTROLLER_SERVICE" ->
         {"ControllerGetCapabilities", "ValidateVolumeCapabilities"}
    [] cap = "CREATE_DELETE_VOLUME" -> {"CreateVolume", "DeleteVolume"}
    [] cap = "CREATE_DELETE_SNAPSHOT" -> {"CreateSnapshot", "DeleteSnapshot"}
    [] cap = "LIST_SNAPSHOTS" -> {"ListSnapshots"}
    [] cap = "STAGE_UNSTAGE_VOLUME" -> {"NodeStageVolume", "NodeUnstageVolume"}

\* Whose answers a client goes by: the kubelet uses the node service alone.
Heeds(c) ==
  IF c = "kubelet" THEN {"NodeGetCapabilities"}
                   ELSE {"GetPluginCapabilities", "ControllerGetCapabilities"}

\* What a client may call: the identity service, what every node plugin has to
\* have (kubelet), and what it has learnt of.
Callable(c) ==
  IdentityRPCs
    \cup (IF c = "kubelet" THEN {"NodeGetInfo", "NodeGetCapabilities",
                                 "NodePublishVolume", "NodeUnpublishVolume"} ELSE {})
    \cup UNION {Covers(cap) : cap \in learned[c]}

-----------------------------------------------------------------------------
Init ==
  /\ st = [p \in Procs |-> "none"]
  /\ path \in {0, NoEntry}
  /\ shared = {}
  /\ req = [c \in Clients |-> "none"]
  /\ at = [c \in Clients |-> 0]
  /\ learned = [c \in Clients |-> {}]
  /\ refused = {}

Goto(p, from, to) == st[p] = from /\ st' = [st EXCEPT ![p] = to]

\* The runtime starts a process, the last one when all others are gone; main
\* gives up at once when the node role has no node id.
Start(p) ==
  /\ \A q \in Procs : q < p => st[q] # "none"
  /\ p = N => Alive = {}
  /\ IF ServesNode /\ NodeId[p] = "" THEN Goto(p, "none", "dead")
                                     ELSE Goto(p, "none", "stat")
  /\ shared' = IF Alive = {} THEN shared ELSE shared \cup Alive \cup {p}
  /\ UNCHANGED <<path, coVars>>

\* Deviation: a socket that is there is waited for, not removed.
StatPathWaits(p) ==
  /\ Goto(p, "stat", IF path = NoEntry THEN "bind" ELSE "stat")
  /\ UNCHANGED <<path, shared, coVars>>

\* remove_if_socket, first half: is there anything at the path?
StatPath(p) ==
  /\ Goto(p, "stat", IF path = NoEntry THEN "bind" ELSE "remove")
  /\ UNCHANGED <<path, shared, coVars>>

\* Second half: what is there is removed, whatever it is; serve fails when it
\* is gone by then.
RemoveStale(p) ==
  /\ Goto(p, "remove", IF path = NoEntry THEN "dead" ELSE "bind")
  /\ path' = NoEntry
  /\ UNCHANGED <<shared, coVars>>

\* Deviation: the path is cleaned after the bind, not before it.
BindThenRemove(p) ==
  /\ \/ path = NoEntry /\ Goto(p, "bind", "serving") /\ UNCHANGED path
     \/ path # NoEntry /\ Goto(p, "bind", "dead") /\ UNCHANGED path
  /\ UNCHANGED <<shared, coVars>>

\* UnixListener::bind: EADDRINUSE when the path exists.
Bind(p) ==
  /\ \/ path = NoEntry /\ Goto(p, "bind", "serving") /\ path' = p
     \/ path # NoEntry /\ Goto(p, "bind", "dead") /\ UNCHANGED path
  /\ UNCHANGED <<shared, coVars>>

\* SIGTERM or SIGINT: handled once serving, deadly before.  The last process is
\* left alone.
Signal(p) ==
  /\ p < N
  /\ \/ Goto(p, "serving", "draining")
     \/ st[p] \in {"stat", "remove", "bind"} /\ st' = [st EXCEPT ![p] = "dead"]
  /\ UNCHANGED <<path, shared, coVars>>

\* Deviation: the requests being handled are not waited for.
DrainNever(p) ==
  /\ Goto(p, "draining", "unlink")
  /\ UNCHANGED <<path, shared, coVars>>

\* serve_with_incoming_shutdown returns when no request is being handled.
Drain(p) ==
  /\ \A c \in Clients : at[c] # p
  /\ Goto(p, "draining", "unlink")
  /\ UNCHANGED <<path, shared, coVars>>

\* The path is removed, whoever bound it, and main returns.
Unlink(p) ==
  /\ Goto(p, "unlink", "dead")
  /\ path' = NoEntry
  /\ UNCHANGED <<shared, coVars>>

\* The process dies, with the requests it handles; the socket file stays.
Kill(p) ==
  /\ p < N
  /\ p \in Alive
  /\ st' = [st EXCEPT ![p] = "dead"]
  /\ at' = [c \in Clients |-> IF at[c] = p THEN 0 ELSE at[c]]
  /\ UNCHANGED <<path, shared, req, learned, refused>>

Serve(p) ==
  StatPath(p) \/ RemoveStale(p) \/ Bind(p) \/ Drain(p) \/ Unlink(p)

-----------------------------------------------------------------------------
(* The clients *)

Ask(c) ==
  /\ req[c] = "none"
  /\ \E rpc \in Callable(c) \cap Calls : req' = [req EXCEPT ![c] = rpc]
  /\ UNCHANGED <<procVars, at, learned, refused>>

\* A connection is accepted by the process that bound the path, while it
\* serves; otherwise the client tries again.
Dial(c) ==
  /\ req[c] # "none" /\ at[c] = 0
  /\ path \in Procs /\ st[path] = "serving"
  /\ at' = [at EXCEPT ![c] = path]
  /\ UNCHANGED <<procVars, req, learned, refused>>

\* The handler returns.
Answer(c) ==
  /\ at[c] # 0
  /\ req' = [req EXCEPT ![c] = "none"]
  /\ at' = [at EXCEPT ![c] = 0]
  /\ learned' = IF req[c] \in Heeds(c)
                   THEN [learned EXCEPT ![c] = @ \cup Advertised(req[c])]
                   ELSE learned
  /\ refused' = IF req[c] \in Implemented THEN refused ELSE refused \cup {req[c]}
  /\ UNCHANGED procVars

-----------------------------------------------------------------------------
Next ==
  \/ \E p \in Procs : Start(p) \/ Serve(p) \/ Signal(p) \/ Kill(p)
  \/ \E c \in Clients : Ask(c) \/ Dial(c) \/ Answer(c)

Spec == Init /\ [][Next]_vars

\* A process runs on, a client retries, a handler returns.
Fairness ==
  /\ \A p \in Procs : WF_vars(Serve(p))
  /\ \A c \in Clients : WF_vars(Dial(c)) /\ WF_vars(Answer(c))

LiveSpec == Spec /\ Fairness

-----------------------------------------------------------------------------
(* Properties *)

\* Every variable keeps its type, and a request that is being handled is in a
\* process that has not gone on to its end (server.rs:84-88).
TypeOK ==
  /\ st \in [Procs -> {"none", "stat", "remove", "bind", "serving", "draining",
                       "unlink", "dead"}]
  /\ path \in 0..(N + 1)
  /\ shared \subseteq Procs
  /\ DOMAIN req = Clients
  /\ at \in [Clients -> 0..N]
  /\ \A c \in Clients : at[c] # 0 => st[at[c]] \in {"serving", "draining"}

\* A server that never lived beside another is reachable at the endpoint for
\* as long as it serves, whatever sockets earlier ones left (server.rs:49-88).
ServingReachable ==
  \A p \in Procs : st[p] = "serving" /\ p \notin shared => path = p

\* A client that calls what the plugin says it offers is never told that it
\* does not (identity.rs:28-43, controller.rs:64-77, node.rs:97-106).
NeverUnimplemented == refused = {}

\* Once a server has been started alone, every request is answered
\* (server.rs:37-90), also those whose first server died with them.
AlwaysAnswered ==
  \A c \in Clients : st[N] # "none" /\ req[c] # "none" ~> req[c] = "none"

=============================================================================
