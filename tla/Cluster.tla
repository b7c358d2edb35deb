------------------------------- MODULE Cluster -------------------------------
(***************************************************************************)
(* One volume on two nodes.  Each node has its own driver process, FUSE    *)
(* daemons and file system, hence its own upper and publish.json           *)
(* (driver.rs, node.rs); the nodes share the registry and with it the tag  *)
(* that captures of the volume are pushed to.  The plugin reports no       *)
(* topology, so the CO may publish the volume on either node once it has   *)
(* been unpublished from the other.                                        *)
(***************************************************************************)
EXTENDS Naturals, Sequences

CONSTANTS
  Pods1, Pods2,     \* target paths on the two nodes
  CaptureOnDelete, HasCaptureRepo, SingleConsumer, Faults, MaxWrites, MaxMounts,
  MaxOrphans

VARIABLES
  co1, pc1, cap1, targetDir1, stack1, sock1, orphan1, publishJson1, upper1, late1,
  co2, pc2, cap2, targetDir2, stack2, sock2, orphan2, publishJson2, upper2, late2,
  rev,      \* version of an upper in the newest pushed revision
  revFrom,  \* the node whose upper that is
  writer    \* the node of the last write, 0 before the first

vars1 == <<co1, pc1, cap1, targetDir1, stack1, sock1, orphan1, publishJson1, upper1, late1>>
vars2 == <<co2, pc2, cap2, targetDir2, stack2, sock2, orphan2, publishJson2, upper2, late2>>
vars == <<vars1, vars2, rev, revFrom, writer>>

Node1 == INSTANCE NodePlugin WITH
           Targets <- Pods1, co <- co1, pc <- pc1, cap <- cap1,
           targetDir <- targetDir1, stack <- stack1, sock <- sock1,
           orphan <- orphan1, publishJson <- publishJson1, upper <- upper1,
           late <- late1

Node2 == INSTANCE NodePlugin WITH
           Targets <- Pods2, co <- co2, pc <- pc2, cap <- cap2,
           targetDir <- targetDir2, stack <- stack2, sock <- sock2,
           orphan <- orphan2, publishJson <- publishJson2, upper <- upper2,
           late <- late2

Init ==
  /\ Node1!Init
  /\ Node2!Init
  /\ revFrom = 0
  /\ writer = 0

\* A step of the driver, its caller or its faults on the first node.
Step1 ==
  /\ Node1!Next
  /\ UNCHANGED vars2
  /\ writer' = IF upper1' # upper1 THEN 1 ELSE writer
  /\ revFrom' = IF Node1!LateArrives \/ \E t \in Pods1 : Node1!Push(t)
                  THEN 1 ELSE revFrom

\* The same on the second.
Step2 ==
  /\ Node2!Next
  /\ UNCHANGED vars1
  /\ writer' = IF upper2' # upper2 THEN 2 ELSE writer
  /\ revFrom' = IF Node2!LateArrives \/ \E t \in Pods2 : Node2!Push(t)
                  THEN 2 ELSE revFrom

Unpublished1 == \A t \in Pods1 : co1[t] = "idle"
Unpublished2 == \A t \in Pods2 : co2[t] = "idle"

\* One consumer at a time, on whichever node.
Next == (Step1 \/ Step2) /\ (Unpublished1' \/ Unpublished2')

Spec == Init /\ [][Next]_vars

-----------------------------------------------------------------------------
\* A volume that moves with its pod keeps what was written (README.md:40 of the
\* repository: "migratable"): once it is unpublished everywhere, the revision
\* its tag names (node.rs:284-298) is the upper of the node last written on.
MoveKeepsData ==
  CaptureOnDelete /\ Unpublished1 /\ Unpublished2 /\ writer # 0
  => /\ revFrom = writer
     /\ rev = IF writer = 1 THEN upper1 ELSE upper2

=============================================================================
