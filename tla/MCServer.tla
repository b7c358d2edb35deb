------------------------------ MODULE MCServer ------------------------------
(***************************************************************************)
(* A bounded instance of Server for TLC.                                   *)
(***************************************************************************)
EXTENDS Server

\* The first process is started without its node id.
Ids == [p \in Procs |-> IF p = 1 THEN "" ELSE "node-a"]

\* The RPCs that tell a client something, and one of each further capability.
SomeCalls ==
  {"GetPluginCapabilities", "ControllerGetCapabilities", "CreateVolume",
   "ListSnapshots", "NodeGetInfo", "NodeGetCapabilities", "NodeStageVolume"}

=============================================================================
