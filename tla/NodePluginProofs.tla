--------------------------- MODULE NodePluginProofs ---------------------------
(***************************************************************************)
(* Proofs about NodePlugin, for any set of target paths and any bounds.    *)
(***************************************************************************)
EXTENDS NodePlugin, SequenceTheorems, TLAPS

\* The time limits of a leaf that names no prover.
USE SMTT(30), ZenonT(30)

\* rspacefs-mount keeps the mount table well formed.
LEMMA MountedType ==
  ASSUME TypeOK, NEW t \in Targets, Mounted(t)
  PROVE  stack' \in [Targets -> Seq(BOOLEAN)] /\ sock' \in Targets \X Nat
  <1>1. stack[t] \in Seq(BOOLEAN) /\ Len(stack[t]) \in Nat
    BY DEF TypeOK
  <1>2. Append(stack[t], TRUE) \in Seq(BOOLEAN)
    BY <1>1
  <1> QED
    BY <1>1, <1>2 DEF Mounted, TypeOK

\* Unmounting pops the mount table (mount.rs:103-117).
LEMMA PopType ==
  ASSUME TypeOK, NEW t \in Targets, Unmounted(t)
  PROVE  /\ stack' \in [Targets -> Seq(BOOLEAN)]
         /\ Len(stack'[t]) = Len(stack[t]) - 1
         /\ \A u \in Targets \ {t} : stack'[u] = stack[u]
  <1>1. stack[t] \in Seq(BOOLEAN) /\ Len(stack[t]) \in Nat \ {0}
    BY DEF TypeOK, Unmounted
  <1>2. /\ SubSeq(stack[t], 1, Len(stack[t]) - 1) \in Seq(BOOLEAN)
        /\ Len(SubSeq(stack[t], 1, Len(stack[t]) - 1)) = Len(stack[t]) - 1
    BY <1>1
  <1> QED
    BY <1>1, <1>2 DEF TypeOK, Unmounted

\* A dead daemon leaves its mount in place (mount.rs:103-107).
LEMMA DeadType ==
  ASSUME TypeOK, NEW t \in Targets, NEW d \in 1..Len(stack[t]),
         stack' = [stack EXCEPT ![t][d] = FALSE]
  PROVE  /\ stack' \in [Targets -> Seq(BOOLEAN)]
         /\ \A u \in Targets : Len(stack'[u]) = Len(stack[u])
  <1>1. stack[t] \in Seq(BOOLEAN)
    BY DEF TypeOK
  <1>2. /\ [stack[t] EXCEPT ![d] = FALSE] \in Seq(BOOLEAN)
        /\ Len([stack[t] EXCEPT ![d] = FALSE]) = Len(stack[t])
    BY <1>1
  <1> QED
    BY <1>1, <1>2 DEF TypeOK

\* Nor does the end of the container take a mount away (deploy/node.yaml).
LEMMA CrashType ==
  ASSUME TypeOK, Crash
  PROVE  /\ stack' \in [Targets -> Seq(BOOLEAN)]
         /\ \A u \in Targets : Len(stack'[u]) = Len(stack[u])
         /\ \A u \in Targets : \A d \in 1..Len(stack'[u]) : ~stack'[u][d]
  <1> SUFFICES ASSUME NEW u \in Targets
               PROVE  /\ stack'[u] \in Seq(BOOLEAN) /\ Len(stack'[u]) = Len(stack[u])
                      /\ \A d \in 1..Len(stack'[u]) : ~stack'[u][d]
    BY DEF Crash
  <1>1. stack'[u] = [d \in 1..Len(stack[u]) |-> FALSE] /\ Len(stack[u]) \in Nat
    BY DEF Crash, TypeOK
  <1>2. stack'[u] \in Seq(BOOLEAN) /\ Len(stack'[u]) = Len(stack[u])
    BY <1>1
  <1> QED BY <1>1, <1>2

\* What outlives a handler is a process or a file operation on its target.
LEMMA OrphanType ==
  ASSUME TypeOK, NEW t \in Targets,
         UNCHANGED orphan \/ Outlives(t) \/ \E step \in ProcessSteps \cup FileSteps : Ends(step, t)
  PROVE  orphan' \subseteq (ProcessSteps \cup FileSteps) \X Targets
  <1>1. CASE UNCHANGED orphan BY <1>1 DEF TypeOK
  <1>2. CASE Outlives(t)
    <2>1. pc[t] \in ProcessSteps \cup FileSteps /\ orphan' = orphan \cup {<<pc[t], t>>}
      BY <1>2 DEF Outlives, ProcessSteps
    <2> QED BY <2>1 DEF TypeOK
  <1>3. CASE \E step \in ProcessSteps \cup FileSteps : Ends(step, t)
    BY <1>3 DEF Ends, TypeOK
  <1> QED BY <1>1, <1>2, <1>3

\* What ended handlers leave on its way to the registry is one of their captures
\* (registry.rs:427).
LEMMA LeftType ==
  ASSUME TypeOK, NEW S \in SUBSET Targets, LeaveRequests(S)
  PROVE  late' \subseteq Nat
  BY DEF TypeOK, LeaveRequests

\* What ends without its handler keeps every type.
LEMMA OrphanTyped ==
  ASSUME TypeOK, NEW t \in Targets, Orphan(t)
  PROVE  TypeOK'
  <1> USE DEF dataVars
  <1>1. CASE OrphanProcess(t)
    <2>1. orphan' \subseteq (ProcessSteps \cup FileSteps) \X Targets
      BY <1>1, OrphanType, ZenonT(30) DEF OrphanProcess, ProcessSteps
    <2>2. stack' \in [Targets -> Seq(BOOLEAN)] /\ sock' \in Targets \X Nat
      <3>1. CASE Mounted(t) BY <3>1, MountedType
      <3>2. CASE Unmounted(t) /\ UNCHANGED sock BY <3>2, PopType DEF TypeOK
      <3>3. CASE UNCHANGED <<stack, sock>> BY <3>3 DEF TypeOK
      <3> QED BY <1>1, <3>1, <3>2, <3>3, Zenon DEF OrphanProcess
    <2> QED BY <1>1, <2>1, <2>2, Zenon DEF OrphanProcess, TypeOK
  <1>2. CASE OrphanDir(t)
    <2>1. orphan' \subseteq (ProcessSteps \cup FileSteps) \X Targets
      BY <1>2, OrphanType, ZenonT(30) DEF OrphanDir, FileSteps
    <2>2. targetDir' \subseteq Targets
      BY <1>2 DEF OrphanDir, DirRemoved, TypeOK
    <2> QED BY <1>2, <2>1, <2>2, Zenon DEF OrphanDir, TypeOK
  <1>3. CASE OrphanState(t)
    <2>1. orphan' \subseteq (ProcessSteps \cup FileSteps) \X Targets
      BY <1>3 DEF OrphanState, Ends, FileSteps, TypeOK
    <2>2. publishJson' \in BOOLEAN
      BY <1>3, ZenonT(30) DEF OrphanState, StateRemoved, TypeOK
    <2> QED BY <1>3, <2>1, <2>2, Zenon DEF OrphanState, TypeOK
  <1> QED BY <1>1, <1>2, <1>3 DEF Orphan

\* One step keeps every type (all handlers, the kubelet and the faults).
LEMMA TypeStep == TypeOK /\ [Next]_vars => TypeOK'
  <1> SUFFICES ASSUME TypeOK, [Next]_vars PROVE TypeOK'
    OBVIOUS
  <1> USE NodeAssumption DEF TypeOK, Goto, PublishSteps, UnpublishSteps,
                             fsVars, dataVars
  <1>1. ASSUME NEW t \in Targets, NodePublishVolume(t) PROVE TypeOK'
    <2>1. CASE PullSeeds(t) BY <2>1 DEF PullSeeds
    <2>2. CASE CreateDirs(t)
      <3>1. pc' \in [Targets -> {"none"} \cup PublishSteps \cup UnpublishSteps]
        BY <2>2, ZenonT(30) DEF CreateDirs
      <3>2. targetDir' \subseteq Targets
        BY <2>2 DEF CreateDirs
      <3> QED BY <2>2, <3>1, <3>2 DEF CreateDirs
    <2>3. CASE Mount(t)
      <3>1. pc' \in [Targets -> {"none"} \cup PublishSteps \cup UnpublishSteps]
        BY <2>3, ZenonT(30) DEF Mount
      <3>2. stack' \in [Targets -> Seq(BOOLEAN)] /\ sock' \in Targets \X Nat
        BY <2>3, MountedType DEF Mount
      <3> QED BY <2>3, <3>1, <3>2 DEF Mount
    <2>4. CASE TruncateState(t) BY <2>4, ZenonT(60) DEF TruncateState
    <2>5. CASE WriteState(t) BY <2>5 DEF WriteState
    <2>6. CASE PersistFails(t)
      <3>1. pc' \in [Targets -> {"none"} \cup PublishSteps \cup UnpublishSteps]
        BY <2>6, ZenonT(30) DEF PersistFails
      <3> QED BY <2>6, <3>1 DEF PersistFails
    <2> QED BY <1>1, <2>1, <2>2, <2>3, <2>4, <2>5, <2>6, Zenon DEF NodePublishVolume
  <1>2. ASSUME NEW t \in Targets, NodeUnpublishVolume(t) PROVE TypeOK'
    <2>1. CASE LoadState(t)
      <3>1. PICK to \in {"capture", "none", "unmount"} : pc' = [pc EXCEPT ![t] = to]
        BY <2>1 DEF LoadState
      <3> QED BY <2>1, <3>1 DEF LoadState
    <2>2. CASE Capture(t) BY <2>2, ZenonT(60) DEF Capture
    <2>3. CASE Push(t) BY <2>3 DEF Push
    <2>4. CASE Unmount(t)
      <3>1. pc' \in [Targets -> {"none"} \cup PublishSteps \cup UnpublishSteps]
        BY <2>4, Zenon DEF Unmount
      <3>2. stack' \in [Targets -> Seq(BOOLEAN)]
        BY <2>4, PopType, Zenon DEF Unmount
      <3> QED BY <2>4, <3>1, <3>2 DEF Unmount
    <2>5. CASE RemoveDir(t) BY <2>5 DEF RemoveDir, DirRemoved
    <2>6. CASE RemoveState(t) BY <2>6, ZenonT(60) DEF RemoveState, StateRemoved
    <2> QED BY <1>2, <2>1, <2>2, <2>3, <2>4, <2>5, <2>6, Zenon DEF NodeUnpublishVolume
  <1>3. ASSUME NEW t \in Targets, Kubelet(t) PROVE TypeOK'
    <2>1. CASE CallPublish(t) BY <2>1 DEF CallPublish
    <2>2. CASE CallUnpublish(t) BY <2>2 DEF CallUnpublish
    <2>3. CASE Reply(t)
      <3>1. pc' \in [Targets -> {"none"} \cup PublishSteps \cup UnpublishSteps]
        BY <2>3, ZenonT(30) DEF Reply
      <3>2. co' \in [Targets -> {"idle", "publishing", "running", "unpublishing"}]
        BY <2>3, Zenon DEF Reply
      <3> QED BY <2>3, <3>1, <3>2 DEF Reply
    <2>4. CASE WorkloadWrite(t) BY <2>4 DEF WorkloadWrite
    <2> QED BY <1>3, <2>1, <2>2, <2>3, <2>4, Zenon DEF Kubelet
  <1>4. ASSUME NEW t \in Targets, Fault(t) PROVE TypeOK'
    <2>1. CASE FailStep(t)
      <3>1. pc' \in [Targets -> {"none"} \cup PublishSteps \cup UnpublishSteps]
        BY <2>1 DEF FailStep
      <3>2. late' \subseteq Nat
        BY <2>1, LeftType, Zenon DEF FailStep
      <3> QED BY <2>1, <3>1, <3>2 DEF FailStep
    <2>2. CASE Cancel(t)
      <3>1. late' \subseteq Nat
        BY <2>2, LeftType, Zenon DEF Cancel
      <3>2. orphan' \subseteq (ProcessSteps \cup FileSteps) \X Targets
        BY <2>2, OrphanType, Zenon DEF Cancel
      <3> QED BY <2>2, <3>1, <3>2 DEF Cancel
    <2>3. CASE Orphan(t) BY <2>3, OrphanTyped, Zenon
    <2>4. CASE DaemonDies(t) BY <2>4, DeadType DEF DaemonDies
    <2> QED BY <1>4, <2>1, <2>2, <2>3, <2>4, Zenon DEF Fault
  <1>5. CASE Crash
    <2>1. late' \subseteq Nat
      BY <1>5, LeftType DEF Crash
    <2>2. stack' \in [Targets -> Seq(BOOLEAN)]
      BY <1>5, CrashType
    <2> QED BY <1>5, <2>1, <2>2 DEF Crash
  <1>6. CASE Reboot
    <2>1. late' \subseteq Nat
      BY <1>6, LeftType DEF Reboot
    <2> QED BY <1>6, <2>1 DEF Reboot
  <1>7. CASE LateArrives BY <1>7 DEF LateArrives
  <1>8. CASE UNCHANGED vars BY <1>8 DEF vars
  <1> QED BY <1>1, <1>2, <1>3, <1>4, <1>5, <1>6, <1>7, <1>8, Zenon DEF Next

\* Type correctness of the node service for any number of target paths.
THEOREM TypeCorrect == Spec => []TypeOK
  <1>1. Init => TypeOK
    <2> SUFFICES ASSUME Init PROVE TypeOK
      OBVIOUS
    <2>1. <<>> \in Seq(BOOLEAN) /\ Len(<<>>) = 0
      OBVIOUS
    <2>2. sock \in Targets \X Nat
      BY DEF Init
    <2>3. stack \in [Targets -> Seq(BOOLEAN)]
      BY <2>1 DEF Init
    <2>5. /\ co \in [Targets -> {"idle", "publishing", "running", "unpublishing"}]
          /\ pc \in [Targets -> {"none"} \cup PublishSteps \cup UnpublishSteps]
          /\ cap \in [Targets -> Nat]
      BY DEF Init
    <2>6. targetDir \subseteq Targets /\ orphan \subseteq (ProcessSteps \cup FileSteps) \X Targets
      BY DEF Init
    <2>7. publishJson \in BOOLEAN /\ upper \in Nat /\ rev \in Nat /\ late \subseteq Nat
      BY Zenon DEF Init
    <2> QED
      BY <2>2, <2>3, <2>5, <2>6, <2>7 DEF TypeOK
  <1> QED BY <1>1, TypeStep, PTL DEF Spec

-----------------------------------------------------------------------------
(* A handler runs for a target only while the CO wants what it does. *)

\* The CO does not turn away from a call in flight (one call per target).
StepMatches ==
  \A t \in Targets :
    /\ pc[t] \in PublishSteps => co[t] = "publishing"
    /\ pc[t] \in UnpublishSteps => co[t] = "unpublishing"

\* Every step keeps handlers and CO together.
LEMMA StepMatchesStep ==
  TypeOK /\ StepMatches /\ [Next]_vars => StepMatches'
  <1> SUFFICES ASSUME TypeOK, StepMatches, [Next]_vars PROVE StepMatches'
    OBVIOUS
  <1> USE DEF StepMatches, TypeOK, Goto, PublishSteps, UnpublishSteps
  <1>1. ASSUME NEW t \in Targets, NodePublishVolume(t) PROVE StepMatches'
    BY <1>1 DEF NodePublishVolume, PullSeeds, CreateDirs, Mount,
                TruncateState, WriteState, PersistFails
  <1>2. ASSUME NEW t \in Targets, NodeUnpublishVolume(t) PROVE StepMatches'
    BY <1>2 DEF NodeUnpublishVolume, LoadState, Capture, Push, Unmount,
                RemoveDir, RemoveState
  <1>3. ASSUME NEW t \in Targets, Kubelet(t) PROVE StepMatches'
    BY <1>3 DEF Kubelet, CallPublish, CallUnpublish, Reply, WorkloadWrite
  <1>4. ASSUME NEW t \in Targets, Fault(t) PROVE StepMatches'
    BY <1>4 DEF Fault, FailStep, Cancel, Orphan, OrphanProcess, OrphanDir, OrphanState,
                DaemonDies
  <1>5. CASE Crash BY <1>5 DEF Crash
  <1>6. CASE Reboot BY <1>6 DEF Reboot
  <1>7. CASE LateArrives \/ UNCHANGED vars BY <1>7 DEF LateArrives, vars
  <1> QED BY <1>1, <1>2, <1>3, <1>4, <1>5, <1>6, <1>7 DEF Next

\* No handler runs at first.
LEMMA StepMatchesInit == Init => StepMatches
  BY ZenonT(30) DEF Init, StepMatches, PublishSteps, UnpublishSteps

(* captureOnDelete *)

\* One pod uses the volume at a time.
OneConsumer ==
  \A t, u \in Targets : co[t] # "idle" /\ co[u] # "idle" => t = u

\* A workload runs only once publish.json is complete.
StateKept ==
  \A t \in Targets : co[t] = "running" \/ pc[t] = "published" => publishJson

\* A capture that has been taken is of the whole upper.
CaptureFresh ==
  \A t \in Targets : pc[t] = "push" => cap[t] = upper

\* The upper has been pushed: before a workload runs, once an unpublish is
\* past its push, and while an unpublish is tried again without publish.json.
UpperPushed ==
  \A t \in Targets :
    \/ co[t] = "publishing"
    \/ pc[t] \in {"unmount", "rmdir", "rmstate", "unpublished"}
    \/ co[t] = "unpublishing" /\ ~publishJson
    => rev = upper

\* A push whose handler is gone carries the whole upper, as long as nobody has
\* been given the volume again.
LateFresh ==
  \A v \in late : v = upper /\ \A t \in Targets : co[t] \in {"idle", "unpublishing"}

\* Only processes outlive their handlers.
NoFileWork == \A o \in orphan : o[1] \in ProcessSteps

HandoffInv ==
  /\ OneConsumer /\ StateKept /\ CaptureFresh /\ UpperPushed /\ LateFresh /\ NoFileWork
  /\ NoLoss

\* What HandoffKeepsData has to assume.
NoHandoffFault == {"persist", "read", "linger", "reboot", "stray"} \cap Faults = {}

\* One consumer stays one: the CO publishes when all targets are idle.
LEMMA OneConsumerStep ==
  ASSUME SingleConsumer, TypeOK, StepMatches, OneConsumer, [Next]_vars
  PROVE  OneConsumer'
  <1> USE DEF OneConsumer, StepMatches, TypeOK, Goto, PublishSteps, UnpublishSteps
  <1>1. ASSUME NEW t \in Targets, Kubelet(t) PROVE OneConsumer'
    BY <1>1 DEF Kubelet, CallPublish, CallUnpublish, Reply, WorkloadWrite
  <1>2. CASE Reboot BY <1>2 DEF Reboot
  <1>3. CASE UNCHANGED co BY <1>3
  <1>4. ASSUME NEW t \in Targets,
               NodePublishVolume(t) \/ NodeUnpublishVolume(t) \/ Fault(t)
        PROVE  UNCHANGED co
    BY <1>4 DEF NodePublishVolume, PullSeeds, CreateDirs, Mount, TruncateState,
                WriteState, PersistFails, NodeUnpublishVolume, LoadState, Capture,
                Push, Unmount, RemoveDir, RemoveState, Fault, FailStep, Cancel,
                Orphan, OrphanProcess, OrphanDir, OrphanState, DaemonDies
  <1>5. CASE Crash BY <1>5 DEF Crash
  <1>6. CASE LateArrives BY <1>6 DEF LateArrives
  <1> QED BY <1>1, <1>2, <1>3, <1>4, <1>5, <1>6 DEF Next, vars

\* An unpublish that ends at its push leaves a request that carries the whole
\* upper, and nobody else has the volume (node.rs:211-215).
LEMMA LeftFresh ==
  ASSUME TypeOK, StepMatches, OneConsumer, CaptureFresh, LateFresh,
         NEW S \in SUBSET Targets, LeaveRequests(S), UNCHANGED <<co, upper>>
  PROVE  LateFresh'
  <1>1. ASSUME NEW u \in S, pc[u] = "push"
        PROVE  cap[u] = upper /\ \A t \in Targets : co[t] \in {"idle", "unpublishing"}
    <2>1. co[u] = "unpublishing"
      BY <1>1 DEF StepMatches, UnpublishSteps
    <2> QED BY <1>1, <2>1, ZenonT(30) DEF TypeOK, OneConsumer, CaptureFresh
  <1>2. \A v \in late' : v \in late \/ \E u \in S : pc[u] = "push" /\ v = cap[u]
    BY DEF LeaveRequests
  <1> QED BY <1>1, <1>2 DEF LateFresh

\* So it is when an unpublish fails, is cancelled or dies with the process.
LEMMA EndedFresh ==
  ASSUME TypeOK, StepMatches, OneConsumer, CaptureFresh, LateFresh,
         Crash \/ \E t \in Targets : FailStep(t) \/ Cancel(t)
  PROVE  LateFresh'
  <1>1. CASE Crash BY <1>1, LeftFresh DEF Crash
  <1>2. ASSUME NEW t \in Targets, FailStep(t) PROVE LateFresh'
    <2>1. LeaveRequests({t}) /\ UNCHANGED <<co, upper>> BY <1>2 DEF FailStep
    <2>2. {t} \in SUBSET Targets OBVIOUS
    <2> QED BY <2>1, <2>2, LeftFresh
  <1>3. ASSUME NEW t \in Targets, Cancel(t) PROVE LateFresh'
    <2>1. LeaveRequests({t}) /\ UNCHANGED <<co, upper>> BY <1>3 DEF Cancel
    <2>2. {t} \in SUBSET Targets OBVIOUS
    <2> QED BY <2>1, <2>2, LeftFresh
  <1> QED BY <1>1, <1>2, <1>3

\* No file operation comes to outlive its handler (tokio::fs).
LEMMA FileWorkStep ==
  ASSUME "linger" \notin Faults, TypeOK, NoFileWork, [Next]_vars
  PROVE  NoFileWork'
  <1> USE DEF fsVars
  <1>1. CASE orphan' \subseteq orphan BY <1>1 DEF NoFileWork
  <1>2. ASSUME NEW t \in Targets, Cancel(t) PROVE NoFileWork'
    <2>1. CASE Outlives(t)
      <3>1. pc[t] \in ProcessSteps /\ orphan' = orphan \cup {<<pc[t], t>>}
        BY <2>1 DEF Outlives, ProcessSteps
      <3> QED BY <3>1 DEF NoFileWork
    <2> QED BY <1>1, <1>2, <2>1 DEF Cancel
  <1>3. ASSUME NEW t \in Targets, Orphan(t) PROVE orphan' \subseteq orphan
    <2>1. <<"persist", t>> \notin orphan
      BY DEF NoFileWork, ProcessSteps
    <2> QED BY <1>3, <2>1 DEF Orphan, OrphanProcess, OrphanDir, OrphanState, Ends
  <1>4. ASSUME NEW t \in Targets, NodePublishVolume(t) \/ NodeUnpublishVolume(t)
                 \/ Kubelet(t) \/ FailStep(t) \/ DaemonDies(t)
        PROVE  UNCHANGED orphan
    BY <1>4 DEF NodePublishVolume, PullSeeds, CreateDirs, Mount, TruncateState,
                WriteState, PersistFails, NodeUnpublishVolume, LoadState, Capture,
                Push, Unmount, RemoveDir, RemoveState, Kubelet, CallPublish,
                CallUnpublish, Reply, WorkloadWrite, FailStep, DaemonDies
  <1>5. CASE Crash \/ Reboot \/ LateArrives \/ UNCHANGED vars
    BY <1>1, <1>5 DEF Crash, Reboot, LateArrives, vars
  <1> QED BY <1>1, <1>2, <1>3, <1>4, <1>5 DEF Next, Fault

\* Every step keeps the pushed revision up with the upper when publish.json is
\* always written and read and the node does not reboot (node.rs:182-231).
LEMMA HandoffStep ==
  ASSUME SingleConsumer, CaptureOnDelete, "persist" \notin Faults, "read" \notin Faults,
         "reboot" \notin Faults, "stray" \notin Faults,
         TypeOK, StepMatches, HandoffInv, OneConsumer', NoFileWork', [Next]_vars
  PROVE  HandoffInv'
  <1>0. ASSUME Crash \/ \E t \in Targets : FailStep(t) \/ Cancel(t) PROVE LateFresh'
    BY <1>0, EndedFresh DEF HandoffInv
  <1> USE DEF HandoffInv, OneConsumer, StateKept, CaptureFresh, UpperPushed,
              LateFresh, NoLoss, StepMatches, TypeOK, Goto, PublishSteps, UnpublishSteps,
              dataVars
  <1>1. ASSUME NEW t \in Targets, NodePublishVolume(t) PROVE HandoffInv'
    <2>1. CASE PullSeeds(t) BY <2>1 DEF PullSeeds
    <2>2. CASE CreateDirs(t) BY <2>2 DEF CreateDirs
    <2>3. CASE Mount(t) BY <2>3 DEF Mount
    <2>4. CASE TruncateState(t) BY <2>4, ZenonT(60) DEF TruncateState
    <2>5. CASE WriteState(t) BY <2>5 DEF WriteState
    <2> QED BY <1>1, <2>1, <2>2, <2>3, <2>4, <2>5 DEF NodePublishVolume, PersistFails
  <1>2. ASSUME NEW t \in Targets, NodeUnpublishVolume(t) PROVE HandoffInv'
    <2>1. CASE LoadState(t) BY <2>1 DEF LoadState
    <2>2. CASE Capture(t)
      <3>1. CASE Reachable
        <4>1. /\ pc' = [pc EXCEPT ![t] = "push"]
              /\ cap' = [cap EXCEPT ![t] = upper]
              /\ pc[t] = "capture"
              /\ UNCHANGED <<co, publishJson, upper, rev, late>>
          BY <2>2, <3>1 DEF Capture
        <4>2. CaptureFresh'
          BY <4>1
        <4>3. (OneConsumer /\ StateKept /\ UpperPushed /\ LateFresh /\ NoLoss)'
          BY <4>1
        <4> QED BY <4>2, <4>3
      <3>2. CASE ~Reachable BY <2>2, <3>2 DEF Capture
      <3> QED BY <3>1, <3>2
    <2>3. CASE Push(t) BY <2>3 DEF Push
    <2>4. CASE Unmount(t) BY <2>4 DEF Unmount
    <2>5. CASE RemoveDir(t) BY <2>5 DEF RemoveDir
    <2>6. CASE RemoveState(t)
      <3>1. rev = upper /\ \A u \in Targets : u # t => co[u] = "idle"
        BY <2>6 DEF RemoveState
      <3>2. /\ pc' = [pc EXCEPT ![t] = "unpublished"] /\ pc[t] = "rmstate"
            /\ UNCHANGED <<co, cap, upper, rev, late>>
        BY <2>6 DEF RemoveState
      <3> QED BY <3>1, <3>2
    <2> QED BY <1>2, <2>1, <2>2, <2>3, <2>4, <2>5, <2>6 DEF NodeUnpublishVolume
  <1>3. ASSUME NEW t \in Targets, Kubelet(t) PROVE HandoffInv'
    <2>1. CASE CallPublish(t) BY <2>1 DEF CallPublish
    <2>2. CASE CallUnpublish(t) BY <2>2 DEF CallUnpublish
    <2>3. CASE Reply(t)
      <3>1. CASE pc[t] = "published"
        <4>1. late = {} BY <3>1, ZenonT(30)
        <4> QED BY <2>3, <3>1, <4>1 DEF Reply
      <3>2. CASE pc[t] = "unpublished"
        <4>1. rev = upper /\ \A u \in Targets : u # t => co[u] = "idle"
          BY <3>2
        <4>2. /\ pc' = [pc EXCEPT ![t] = "none"] /\ co' = [co EXCEPT ![t] = "idle"]
              /\ UNCHANGED <<cap, publishJson, upper, rev, late>>
          BY <2>3, <3>2 DEF Reply
        <4>3. \A u \in Targets : co'[u] = "idle" /\ pc'[u] # "push" /\ pc'[u] # "published"
          BY <4>1, <4>2
        <4>4. (StateKept /\ CaptureFresh)'
          BY <4>3
        <4>5. (UpperPushed /\ NoLoss)'
          BY <4>1, <4>2
        <4>6. LateFresh'
          BY <4>2, <4>3
        <4> QED BY <4>4, <4>5, <4>6
      <3> QED BY <2>3, <3>1, <3>2 DEF Reply
    <2>4. CASE WorkloadWrite(t)
      <3>1. late = {} /\ \A u \in Targets : u # t => co[u] = "idle"
        BY <2>4, ZenonT(30) DEF WorkloadWrite
      <3>2. co[t] = "running" /\ publishJson /\ pc[t] = "none"
        BY <2>4, Zenon DEF WorkloadWrite
      <3>3. UNCHANGED <<co, pc, cap, publishJson, rev, late>>
        BY <2>4 DEF WorkloadWrite
      <3>4. \A u \in Targets : co[u] # "publishing" /\ pc[u] \notin UnpublishSteps
        BY <3>1, <3>2, ZenonT(30)
      <3>5. (OneConsumer /\ StateKept /\ LateFresh /\ NoLoss)'
        BY <3>1, <3>2, <3>3
      <3>6. CaptureFresh'
        BY <3>3, <3>4
      <3>7. UpperPushed'
        BY <3>2, <3>3, <3>4
      <3> QED BY <3>5, <3>6, <3>7
    <2> QED BY <1>3, <2>1, <2>2, <2>3, <2>4 DEF Kubelet
  <1>4. ASSUME NEW t \in Targets, Fault(t) PROVE HandoffInv'
    <2>1. CASE FailStep(t)
      <3>1. LateFresh' BY <1>0, <2>1
      <3> QED BY <2>1, <3>1 DEF FailStep
    <2>2. CASE Cancel(t)
      <3>1. LateFresh' BY <1>0, <2>2
      <3> QED BY <2>2, <3>1 DEF Cancel
    <2>3. CASE Orphan(t)
      <3>1. ~OrphanState(t)
        BY ZenonT(60) DEF NoFileWork, ProcessSteps, OrphanState, Ends
      <3>2. UNCHANGED <<co, pc, cap, dataVars>>
        BY <2>3, <3>1, Zenon DEF Orphan, OrphanProcess, OrphanDir
      <3> QED BY <3>2
    <2>4. CASE DaemonDies(t) BY <2>4 DEF DaemonDies
    <2> QED BY <1>4, <2>1, <2>2, <2>3, <2>4 DEF Fault
  <1>5. CASE Crash
    <2>1. LateFresh' BY <1>0, <1>5
    <2> QED BY <1>5, <2>1 DEF Crash
  <1>6. CASE LateArrives BY <1>6 DEF LateArrives
  <1>7. CASE UNCHANGED vars BY <1>7 DEF vars
  <1> QED BY <1>1, <1>2, <1>3, <1>4, <1>5, <1>6, <1>7 DEF Next, Reboot

\* With one consumer at a time, a volume with captureOnDelete is unpublished
\* everywhere only when its whole upper has been pushed (node.rs:206-215).  The
\* theorem assumes that publish.json is always written and can always be read
\* (both errors are dropped), that no file operation outlives its handler, that
\* the node does not reboot and that the registry handles what ended handlers sent
\* before the volume is published again.  It allows every other fault: failing
\* steps, failing removals of the target and of publish.json, cancelled calls
\* with the mount or unmount processes they leave, crashes and dead daemons.
THEOREM HandoffKeepsData ==
  ASSUME SingleConsumer, NoHandoffFault
  PROVE  Spec => []NoLoss
  <1>1. CASE ~CaptureOnDelete
    <2>1. NoLoss
      BY <1>1 DEF NoLoss
    <2> QED BY <2>1, PTL
  <1>2. CASE CaptureOnDelete
    <2>1. Init => HandoffInv
      BY DEF Init, HandoffInv, OneConsumer, StateKept, CaptureFresh, UpperPushed,
             LateFresh, NoFileWork, NoLoss
    <2>2. TypeOK /\ StepMatches /\ HandoffInv /\ [Next]_vars => HandoffInv'
      <3>1. /\ "persist" \notin Faults /\ "read" \notin Faults /\ "linger" \notin Faults
            /\ "reboot" \notin Faults /\ "stray" \notin Faults
        BY DEF NoHandoffFault
      <3> QED BY <1>2, <3>1, OneConsumerStep, FileWorkStep, HandoffStep DEF HandoffInv
    <2>3. HandoffInv => NoLoss
      BY DEF HandoffInv
    <2> QED BY <2>1, <2>2, <2>3, TypeCorrect, StepMatchesInit, StepMatchesStep,
               PTL DEF Spec
  <1> QED BY <1>1, <1>2

\* A step of the node service is a step of the abstract volume, or none.
LEMMA VolumeStep ==
  ASSUME SingleConsumer, "reboot" \notin Faults,
         TypeOK, StepMatches, HandoffInv, [Next]_vars
  PROVE  [Volume!Next]_(Volume!vars)
  <1> USE DEF Volume!Next, Volume!vars, dataVars
  <1>1. ASSUME NEW t \in Targets, CallPublish(t)
        PROVE  Volume!Attach(t) \/ UNCHANGED <<co, upper, rev>>
    BY <1>1 DEF CallPublish, Volume!Attach, Volume!Become, TypeOK
  <1>2. ASSUME NEW t \in Targets, CallUnpublish(t)
        PROVE  Volume!Stop(t) \/ UNCHANGED <<co, upper, rev>>
    BY <1>2 DEF CallUnpublish, Volume!Stop, Volume!Become, TypeOK
  <1>3. ASSUME NEW t \in Targets, Reply(t)
        PROVE  Volume!Start(t) \/ Volume!Release(t)
    BY <1>3 DEF Reply, Goto, Volume!Start, Volume!Release, Volume!Become,
                HandoffInv, UpperPushed, StepMatches, PublishSteps, UnpublishSteps
  <1>4. ASSUME NEW t \in Targets, WorkloadWrite(t) PROVE Volume!Write(t)
    BY <1>4 DEF WorkloadWrite, Volume!Write
  <1>5. ASSUME NEW t \in Targets, Push(t) PROVE Volume!Capture
    <2>1. pc[t] = "push" /\ co[t] = "unpublishing" /\ cap[t] = upper
      BY <1>5 DEF Push, Goto, StepMatches, UnpublishSteps, HandoffInv, CaptureFresh
    <2>2. \A u \in Targets : co[u] # "running"
      BY <2>1 DEF HandoffInv, OneConsumer
    <2> QED BY <1>5, <2>1, <2>2 DEF Push, Volume!Capture
  <1>6. CASE LateArrives
    BY <1>6 DEF LateArrives, Volume!Capture, HandoffInv, LateFresh
  <1>7. ASSUME NEW t \in Targets,
               \/ NodePublishVolume(t)
               \/ LoadState(t) \/ Capture(t) \/ Unmount(t) \/ RemoveDir(t) \/ RemoveState(t)
               \/ Fault(t)
        PROVE  UNCHANGED <<co, upper, rev>>
    BY <1>7 DEF NodePublishVolume, PullSeeds, CreateDirs, Mount, TruncateState,
                WriteState, PersistFails, LoadState, Capture, Unmount, RemoveDir,
                RemoveState, Fault, FailStep, Cancel, Orphan, OrphanProcess,
                OrphanDir, OrphanState, DaemonDies
  <1>8. CASE Crash \/ UNCHANGED vars BY <1>8 DEF Crash, vars
  <1> QED
    BY <1>1, <1>2, <1>3, <1>4, <1>5, <1>6, <1>7, <1>8
    DEF Next, Reboot, NodeUnpublishVolume, Kubelet

\* With captureOnDelete and under the assumptions of HandoffKeepsData the node
\* service implements the abstract volume (node.rs:120-298): its handlers, with
\* their retries, cancellations, crashes and late requests, amount to atomic
\* captures of a volume nobody is writing to, and to releases that wait for them.
THEOREM NodeImplementsVolume ==
  ASSUME SingleConsumer, CaptureOnDelete, NoHandoffFault
  PROVE  Spec => ImplementsVolume
  <1>0. /\ "persist" \notin Faults /\ "read" \notin Faults /\ "linger" \notin Faults
        /\ "reboot" \notin Faults /\ "stray" \notin Faults
    BY DEF NoHandoffFault
  <1>1. Init => HandoffInv /\ Volume!Init
    BY DEF Init, HandoffInv, OneConsumer, StateKept, CaptureFresh, UpperPushed,
           LateFresh, NoFileWork, NoLoss, Volume!Init
  <1>2. TypeOK /\ StepMatches /\ HandoffInv /\ [Next]_vars => HandoffInv'
    BY <1>0, OneConsumerStep, FileWorkStep, HandoffStep DEF HandoffInv
  <1>3. TypeOK /\ StepMatches /\ HandoffInv /\ [Next]_vars => [Volume!Next]_(Volume!vars)
    BY <1>0, VolumeStep
  <1> QED BY <1>1, <1>2, <1>3, TypeCorrect, StepMatchesInit, StepMatchesStep, PTL
          DEF Spec, ImplementsVolume, Volume!Spec

-----------------------------------------------------------------------------
(* What a published target looks like *)

\* A target about to be answered OK, or answered OK, has a mount.
HasMount ==
  \A t \in Targets :
    co[t] = "running" \/ pc[t] \in {"persist", "persisting", "published"}
    => t \in targetDir /\ stack[t] # <<>>

\* What still unmounts or removes a target does so for the pod that left it.
LeftByUnpublish ==
  \A t \in Targets :
    <<"unmount", t>> \in orphan \/ <<"rmdir", t>> \in orphan
    => co[t] \in {"idle", "unpublishing"}

\* rspacefs-mount puts a live daemon on top of its target.
LEMMA MountedTop ==
  ASSUME TypeOK, NEW t \in Targets, Mounted(t)
  PROVE  /\ t \in targetDir /\ stack'[t] # <<>>
         /\ Len(stack'[t]) = Len(stack[t]) + 1 /\ stack'[t][Len(stack'[t])]
         /\ \A u \in Targets \ {t} : stack'[u] = stack[u]
  <1>1. stack[t] \in Seq(BOOLEAN) /\ stack'[t] = Append(stack[t], TRUE)
    BY Zenon DEF TypeOK, Mounted
  <1>2. /\ Len(stack'[t]) = Len(stack[t]) + 1
        /\ stack'[t][Len(stack[t]) + 1] = TRUE
    BY <1>1
  <1>3. Len(stack'[t]) # 0
    BY <1>1, <1>2
  <1>4. stack'[t] # <<>>
    BY <1>3
  <1>5. t \in targetDir /\ \A u \in Targets \ {t} : stack'[u] = stack[u]
    BY DEF TypeOK, Mounted, CanMount, Exists
  <1> QED BY <1>2, <1>4, <1>5

\* The handlers and the kubelet change nothing of what outlived a handler.
LEMMA OrphanSame ==
  ASSUME NEW t \in Targets,
         NodePublishVolume(t) \/ NodeUnpublishVolume(t) \/ Kubelet(t) \/ FailStep(t)
           \/ DaemonDies(t)
  PROVE  UNCHANGED orphan
  BY DEF NodePublishVolume, PullSeeds, CreateDirs, Mount, TruncateState,
         WriteState, PersistFails, NodeUnpublishVolume, LoadState, Capture, Push,
         Unmount, RemoveDir, RemoveState, Kubelet, CallPublish, CallUnpublish, Reply,
         WorkloadWrite, FailStep, DaemonDies, fsVars

\* The kubelet publishes at a path only when nothing is left to do there.
LEMMA LeftByUnpublishStep ==
  ASSUME "reuse" \notin Faults, TypeOK, StepMatches, LeftByUnpublish, [Next]_vars
  PROVE  LeftByUnpublish'
  <1> USE DEF LeftByUnpublish, TypeOK
  <1>1. CASE UNCHANGED co /\ orphan' \subseteq orphan BY <1>1
  <1>2. ASSUME NEW t \in Targets, NodePublishVolume(t) \/ NodeUnpublishVolume(t)
                 \/ FailStep(t) \/ DaemonDies(t)
        PROVE  UNCHANGED <<co, orphan>>
    BY <1>2, OrphanSame, ZenonT(30)
    DEF NodePublishVolume, PullSeeds, CreateDirs, Mount, TruncateState,
        WriteState, PersistFails, NodeUnpublishVolume, LoadState, Capture, Push,
        Unmount, RemoveDir, RemoveState, FailStep, DaemonDies
  <1>3. ASSUME NEW t \in Targets, Kubelet(t) PROVE LeftByUnpublish'
    <2>0. UNCHANGED orphan
      BY <1>3, OrphanSame
    <2>1. CASE CallPublish(t)
      <3>1. co[t] = "publishing" \/ \A o \in orphan : o[2] # t
        BY <2>1 DEF CallPublish
      <3>2. <<"unmount", t>> \notin orphan /\ <<"rmdir", t>> \notin orphan
        BY <3>1, Zenon
      <3> QED BY <2>0, <2>1, <3>2 DEF CallPublish
    <2>2. CASE CallUnpublish(t) BY <2>0, <2>2 DEF CallUnpublish
    <2>3. CASE Reply(t)
      BY <2>0, <2>3, ZenonT(30) DEF Reply, Goto, StepMatches, PublishSteps, UnpublishSteps
    <2>4. CASE WorkloadWrite(t) BY <1>1, <2>0, <2>4 DEF WorkloadWrite
    <2> QED BY <1>3, <2>1, <2>2, <2>3, <2>4 DEF Kubelet
  <1>4. ASSUME NEW t \in Targets, Cancel(t) PROVE LeftByUnpublish'
    <2>1. CASE Outlives(t)
      <3>1. orphan' = orphan \cup {<<pc[t], t>>} /\ UNCHANGED co
        BY <1>4, <2>1 DEF Cancel, Outlives
      <3>2. pc[t] \in {"unmount", "rmdir"} => co[t] = "unpublishing"
        BY DEF StepMatches, UnpublishSteps
      <3> QED BY <3>1, <3>2
    <2> QED BY <1>1, <1>4, <2>1 DEF Cancel
  <1>5. ASSUME NEW t \in Targets, Orphan(t) PROVE LeftByUnpublish'
    <2>1. UNCHANGED co
      BY <1>5 DEF Orphan, OrphanProcess, OrphanDir, OrphanState
    <2>2. orphan' \subseteq orphan \cup {<<"persisting", t>>}
      BY <1>5 DEF Orphan, OrphanProcess, OrphanDir, OrphanState, Ends
    <2> QED BY <2>1, <2>2
  <1>6. CASE Crash \/ Reboot \/ LateArrives \/ UNCHANGED vars
    BY <1>6 DEF Crash, Reboot, LateArrives, vars, fsVars
  <1> QED BY <1>1, <1>2, <1>3, <1>4, <1>5, <1>6 DEF Next, Fault

\* A step that changes the mounts and the directory of one target only, which has
\* no workload and is not about to have one.
LEMMA ElsewhereMounted ==
  ASSUME HasMount, NEW t \in Targets, UNCHANGED co, co[t] # "running",
         pc'[t] \notin {"persist", "persisting", "published"},
         \A u \in Targets \ {t} : /\ pc'[u] = pc[u] /\ stack'[u] = stack[u]
                                  /\ u \in targetDir => u \in targetDir'
  PROVE  HasMount'
  BY DEF HasMount

\* A step that takes no mount and no directory away.
LEMMA MountsStay ==
  ASSUME HasMount, targetDir \subseteq targetDir',
         \A u \in Targets : stack[u] # <<>> => stack'[u] # <<>>,
         \A u \in Targets : co'[u] = "running"
                              \/ pc'[u] \in {"persist", "persisting", "published"}
                            => \/ co[u] = "running"
                               \/ pc[u] \in {"persist", "persisting", "published"}
                               \/ u \in targetDir' /\ stack'[u] # <<>>
  PROVE  HasMount'
  BY DEF HasMount

\* Every step keeps the mounts of running targets.
LEMMA HasMountStep ==
  ASSUME TypeOK, StepMatches, HasMount, LeftByUnpublish, [Next]_vars
  PROVE  HasMount'
  <1> USE DEF StepMatches, TypeOK, Goto, PublishSteps, UnpublishSteps, fsVars
  <1>1. ASSUME NEW t \in Targets, NodePublishVolume(t) PROVE HasMount'
    <2>1. CASE PullSeeds(t) BY <2>1 DEF PullSeeds, HasMount
    <2>2. CASE CreateDirs(t) BY <2>2 DEF CreateDirs, HasMount
    <2>3. CASE Mount(t)
      <3>1. CASE Mounted(t)
        <4>1. /\ t \in targetDir /\ stack'[t] # <<>>
              /\ \A u \in Targets \ {t} : stack'[u] = stack[u]
          BY <3>1, MountedTop
        <4>2. /\ UNCHANGED <<co, targetDir>>
              /\ \A u \in Targets \ {t} : pc'[u] = pc[u]
          BY <2>3 DEF Mount
        <4> QED BY <4>1, <4>2 DEF HasMount
      <3>2. CASE Goto(t, "mount", "none") /\ UNCHANGED <<stack, sock>>
        BY <2>3, <3>2 DEF Mount, HasMount
      <3> QED BY <2>3, <3>1, <3>2 DEF Mount
    <2>4. CASE TruncateState(t) BY <2>4 DEF TruncateState, HasMount
    <2>5. CASE WriteState(t) BY <2>5 DEF WriteState, HasMount
    <2>6. CASE PersistFails(t) BY <2>6 DEF PersistFails, HasMount
    <2> QED BY <1>1, <2>1, <2>2, <2>3, <2>4, <2>5, <2>6 DEF NodePublishVolume
  <1>2. ASSUME NEW t \in Targets, NodeUnpublishVolume(t) PROVE HasMount'
    <2>1. UNCHANGED co /\ co[t] = "unpublishing"
      BY <1>2 DEF NodeUnpublishVolume, LoadState, Capture, Push, Unmount, RemoveDir,
                  RemoveState
    <2>2. /\ pc'[t] \notin {"persist", "persisting", "published"}
          /\ \A u \in Targets \ {t} : pc'[u] = pc[u]
      BY <1>2 DEF NodeUnpublishVolume, LoadState, Capture, Push, Unmount, RemoveDir,
                  RemoveState
    <2>3. \A u \in Targets \ {t} : stack'[u] = stack[u]
      BY <1>2 DEF NodeUnpublishVolume, LoadState, Capture, Push, Unmount, Unmounted,
                  RemoveDir, RemoveState
    <2>4. \A u \in Targets \ {t} : u \in targetDir => u \in targetDir'
      BY <1>2 DEF NodeUnpublishVolume, LoadState, Capture, Push, Unmount,
                  RemoveDir, DirRemoved, RemoveState
    <2> QED BY <2>1, <2>2, <2>3, <2>4, ElsewhereMounted, ZenonT(30)
  <1>3. ASSUME NEW t \in Targets, Kubelet(t) PROVE HasMount'
    <2> USE DEF HasMount
    <2>1. CASE CallPublish(t) BY <2>1 DEF CallPublish
    <2>2. CASE CallUnpublish(t) BY <2>2 DEF CallUnpublish
    <2>3. CASE Reply(t) BY <2>3 DEF Reply
    <2>4. CASE WorkloadWrite(t) BY <2>4 DEF WorkloadWrite
    <2> QED BY <1>3, <2>1, <2>2, <2>3, <2>4 DEF Kubelet
  <1>4. ASSUME NEW t \in Targets, FailStep(t) PROVE HasMount'
    BY <1>4 DEF FailStep, HasMount
  <1>5. ASSUME NEW t \in Targets, Cancel(t) PROVE HasMount'
    BY <1>5 DEF Cancel, HasMount
  <1>6. ASSUME NEW t \in Targets, Orphan(t) PROVE HasMount'
    <2>1. UNCHANGED <<co, pc>>
      BY <1>6 DEF Orphan, OrphanProcess, OrphanDir, OrphanState
    <2>2. CASE OrphanProcess(t)
      <3>1. CASE Mounted(t)
        BY <2>1, <2>2, <3>1, MountedTop, MountsStay DEF OrphanProcess
      <3>2. CASE <<"unmount", t>> \in orphan /\ Unmounted(t)
        <4>1. co[t] \in {"idle", "unpublishing"}
          BY <3>2, Zenon DEF LeftByUnpublish
        <4>2. pc'[t] \notin {"persist", "persisting", "published"}
          BY <2>1, <4>1
        <4>3. UNCHANGED targetDir /\ \A u \in Targets \ {t} : stack'[u] = stack[u]
          BY <2>2, <3>2 DEF OrphanProcess, Unmounted
        <4> QED BY <2>1, <4>1, <4>2, <4>3, ElsewhereMounted
      <3>3. CASE UNCHANGED stack
        BY <2>1, <2>2, <3>3 DEF OrphanProcess, HasMount
      <3> QED BY <2>2, <3>1, <3>2, <3>3 DEF OrphanProcess, Ends
    <2>3. CASE OrphanDir(t)
      <3>1. CASE targetDir \subseteq targetDir'
        BY <2>1, <2>3, <3>1 DEF OrphanDir, HasMount
      <3>2. CASE <<"rmdir", t>> \in orphan /\ DirRemoved(t)
        <4>1. co[t] \in {"idle", "unpublishing"}
          BY <3>2, Zenon DEF LeftByUnpublish
        <4>2. pc'[t] \notin {"persist", "persisting", "published"}
          BY <2>1, <4>1
        <4>3. /\ UNCHANGED stack
              /\ \A u \in Targets \ {t} : u \in targetDir => u \in targetDir'
          BY <2>3, <3>2 DEF OrphanDir, DirRemoved
        <4> QED BY <2>1, <4>1, <4>2, <4>3, ElsewhereMounted, Zenon
      <3> QED BY <2>3, <3>1, <3>2 DEF OrphanDir, Ends
    <2>4. CASE OrphanState(t)
      BY <2>1, <2>4 DEF OrphanState, HasMount
    <2> QED BY <1>6, <2>2, <2>3, <2>4 DEF Orphan
  <1>7. ASSUME NEW t \in Targets, DaemonDies(t) PROVE HasMount'
    <2>1. \A u \in Targets : stack[u] # <<>> => stack'[u] # <<>>
      BY <1>7, DeadType DEF DaemonDies
    <2> QED BY <1>7, <2>1, MountsStay DEF DaemonDies
  <1>8. CASE Crash
    <2>1. \A u \in Targets : stack[u] # <<>> => stack'[u] # <<>>
      BY <1>8, CrashType
    <2> QED BY <1>8, <2>1, MountsStay, ZenonT(30) DEF Crash
  <1>9. CASE Reboot BY <1>9 DEF Reboot, HasMount
  <1>10. CASE LateArrives \/ UNCHANGED vars BY <1>10 DEF LateArrives, vars, HasMount
  <1> QED BY <1>1, <1>2, <1>3, <1>4, <1>5, <1>6, <1>7, <1>8, <1>9, <1>10
          DEF Next, Fault

\* As long as no target path is published again before what an earlier pod's
\* handlers left there has ended, a target answered OK by NodePublishVolume keeps
\* its mount and its directory until its own unpublish or a reboot, under every
\* fault: overlapping targets, cancelled calls with what they leave behind, dead
\* daemons, crashes, and errors returned or dropped (node.rs:177-191, 217-231).
THEOREM RunningIsMounted ==
  ASSUME "reuse" \notin Faults
  PROVE  Spec => []RunningStaysMounted
  <1>1. Init => HasMount /\ LeftByUnpublish
    BY DEF Init, HasMount, LeftByUnpublish
  <1>2. HasMount => RunningStaysMounted
    BY DEF HasMount, RunningStaysMounted
  <1>3. /\ TypeOK /\ StepMatches /\ LeftByUnpublish /\ [Next]_vars => LeftByUnpublish'
        /\ TypeOK /\ StepMatches /\ HasMount /\ LeftByUnpublish /\ [Next]_vars => HasMount'
    BY LeftByUnpublishStep, HasMountStep
  <1> QED BY <1>1, <1>2, <1>3, TypeCorrect, StepMatchesInit, StepMatchesStep,
             PTL DEF Spec

-----------------------------------------------------------------------------
(* What an unpublished target looks like *)

\* No daemon serves the target.
Unserved(t) == \A d \in 1..Len(stack[t]) : ~stack[t][d]

\* Targets nobody is using: not published, about to be mounted, or unmounted.
Unused(t) ==
  \/ co[t] = "idle"
  \/ co[t] = "publishing" /\ pc[t] \in {"none", "pull", "mkdir", "mount"}
  \/ pc[t] \in {"rmdir", "rmstate", "unpublished"}

\* Nothing outlives its handler, a target has one mount at most, on its
\* directory, and none that is served while nobody uses it.
UnservedInv ==
  /\ orphan = {}
  /\ \A t \in Targets :
       /\ Len(stack[t]) <= 1
       /\ stack[t] # <<>> => t \in targetDir
       /\ Unused(t) => Unserved(t)

\* What UnservedInv says of one target.
UnservedAt(t) ==
  Len(stack[t]) <= 1 /\ (stack[t] # <<>> => t \in targetDir) /\ (Unused(t) => Unserved(t))

\* The empty mount table serves nobody.
LEMMA EmptyStack ==
  ASSUME TypeOK, NEW t \in Targets
  PROVE  /\ stack[t] = <<>> <=> Len(stack[t]) = 0
         /\ stack[t] = <<>> => Unserved(t)
  <1>1. stack[t] \in Seq(BOOLEAN)
    BY DEF TypeOK
  <1>2. stack[t] = <<>> <=> Len(stack[t]) = 0
    BY <1>1
  <1> QED BY <1>2 DEF Unserved

\* A mount of a table that holds one at most is the only one.
LEMMA OnlyMount ==
  ASSUME NEW s \in Seq(BOOLEAN), NEW d \in 1..Len(s), Len(s) <= 1
  PROVE  Len(s) = 1 /\ d = 1 /\ s # <<>>
  <1>0. Len(s) \in Nat
    OBVIOUS
  <1>1. ASSUME NEW k \in Nat, d \in 1..k, k <= 1 PROVE k = 1 /\ d = 1
    BY <1>1
  <1>2. Len(s) = 1 /\ d = 1
    BY <1>0, <1>1, Zenon
  <1>3. s # <<>>
    BY <1>2
  <1> QED BY <1>2, <1>3

\* A step on one target, the others as they were.
LEMMA UnservedElsewhere ==
  ASSUME UnservedInv, NEW t \in Targets, orphan' = {}, UnservedAt(t)',
         \A u \in Targets \ {t} : /\ UNCHANGED <<co[u], pc[u], stack[u]>>
                                  /\ u \in targetDir => u \in targetDir'
  PROVE  UnservedInv'
  <1> SUFFICES ASSUME NEW u \in Targets PROVE UnservedAt(u)'
    BY DEF UnservedInv, UnservedAt
  <1>1. CASE u = t BY <1>1
  <1>2. CASE u # t
    <2>1. UnservedAt(u)
      BY DEF UnservedInv, UnservedAt
    <2> QED BY <1>2, <2>1 DEF UnservedAt, Unused, Unserved
  <1> QED BY <1>1, <1>2

\* A handler that neither mounts nor unmounts.
LEMMA UnservedOutside ==
  ASSUME TypeOK, UnservedInv, NEW t \in Targets, UNCHANGED <<stack, orphan>>,
         Unused(t)' => Unused(t) \/ Unserved(t),
         targetDir' = targetDir \/ targetDir' = targetDir \cup {t}
           \/ (stack[t] = <<>> /\ targetDir' = targetDir \ {t}),
         \A u \in Targets \ {t} : UNCHANGED <<co[u], pc[u]>>
  PROVE  UnservedInv'
  <1>1. UnservedAt(t)'
    BY DEF UnservedInv, UnservedAt, Unserved
  <1> QED BY <1>1, UnservedElsewhere DEF UnservedInv

\* No publish mounts a target twice while handlers are not dropped: it is tried
\* again only when it failed before its mount, or the crash that cut it short
\* killed the daemon, and a mount that nobody serves cannot be mounted on
\* (node.rs:168-180).
LEMMA UnservedStep ==
  ASSUME "cancel" \notin Faults, TypeOK, TypeOK', StepMatches, UnservedInv, [Next]_vars
  PROVE  UnservedInv'
  <1> USE DEF Goto, fsVars
  <1>1. ASSUME NEW t \in Targets, Mount(t) PROVE UnservedInv'
    <2>1. CASE Mounted(t)
      <3>1. Unserved(t) /\ Len(stack[t]) <= 1 /\ co[t] = "publishing" /\ orphan = {}
        BY <1>1 DEF Mount, UnservedInv, Unused, StepMatches, TypeOK,
           PublishSteps, UnpublishSteps
      <3>2. Len(stack[t]) = 0
        BY <2>1, <3>1, EmptyStack DEF Mounted, CanMount, Exists, TopDead, Unserved
      <3>3. /\ t \in targetDir /\ Len(stack'[t]) = 1
            /\ \A u \in Targets \ {t} : stack'[u] = stack[u]
        <4>1. /\ t \in targetDir /\ Len(stack'[t]) = Len(stack[t]) + 1
              /\ \A u \in Targets \ {t} : stack'[u] = stack[u]
          BY <2>1, MountedTop
        <4> QED BY <3>2, <4>1
      <3>4. /\ pc' = [pc EXCEPT ![t] = "persist"]
            /\ UNCHANGED <<co, targetDir, orphan>>
        BY <1>1, <2>1 DEF Mount, Mounted
      <3>5. UnservedAt(t)'
        BY <3>1, <3>3, <3>4 DEF UnservedAt, Unused, StepMatches, TypeOK,
           PublishSteps, UnpublishSteps
      <3> QED BY <3>1, <3>3, <3>4, <3>5, UnservedElsewhere
    <2>2. CASE UNCHANGED stack
      <3>1. /\ UNCHANGED <<co, targetDir, orphan>> /\ (Unused(t)' => Unused(t))
            /\ \A u \in Targets \ {t} : pc'[u] = pc[u]
        BY <1>1, <2>2 DEF Mount, Unused, StepMatches, TypeOK, PublishSteps
      <3> QED BY <2>2, <3>1, UnservedOutside
    <2> QED BY <1>1, <2>1, <2>2 DEF Mount
  <1>2. ASSUME NEW t \in Targets, Unmount(t) PROVE UnservedInv'
    <2>0. /\ UNCHANGED <<co, targetDir, orphan>> /\ co[t] = "unpublishing"
          /\ \A u \in Targets \ {t} : pc'[u] = pc[u]
      BY <1>2 DEF Unmount, StepMatches, TypeOK,
         PublishSteps, UnpublishSteps
    <2>1. CASE ~Exists(t) /\ UNCHANGED stack
      <3>1. Unserved(t)
        BY <2>1, EmptyStack DEF UnservedInv, Exists, TopDead, Unserved
      <3> QED BY <2>0, <2>1, <3>1, UnservedOutside
    <2>2. CASE Unmounted(t)
      <3>1. Len(stack'[t]) = 0 /\ \A u \in Targets \ {t} : stack'[u] = stack[u]
        <4>1. /\ Len(stack'[t]) = Len(stack[t]) - 1
              /\ \A u \in Targets \ {t} : stack'[u] = stack[u]
          BY <2>2, PopType, Zenon
        <4>2. Len(stack[t]) \in Nat /\ Len(stack[t]) <= 1
          BY DEF UnservedInv, TypeOK
        <4>3. Len(stack[t]) # 0
          BY <2>2, EmptyStack DEF Unmounted
        <4>4. \A k \in Nat : k <= 1 /\ k # 0 => k - 1 = 0
          OBVIOUS
        <4> QED BY <4>1, <4>2, <4>3, <4>4, Zenon
      <3>2. stack'[t] = <<>>
        BY <3>1 DEF TypeOK
      <3>3. UnservedAt(t)'
        BY <3>1, <3>2 DEF UnservedAt, Unserved
      <3> QED BY <2>0, <3>1, <3>3, UnservedElsewhere, ZenonT(30) DEF UnservedInv
    <2>3. CASE stack[t] = <<>> /\ UNCHANGED stack
      BY <2>0, <2>3, EmptyStack, UnservedOutside, ZenonT(30)
    <2> QED BY <1>2, <2>1, <2>2, <2>3, ZenonT(30) DEF Unmount
  <1>3. ASSUME NEW t \in Targets, PullSeeds(t) \/ CreateDirs(t) \/ TruncateState(t)
                 \/ WriteState(t) \/ PersistFails(t)
        PROVE  UnservedInv'
    <2>1. UNCHANGED <<co, stack, orphan>> /\ \A u \in Targets \ {t} : pc'[u] = pc[u]
      BY <1>3 DEF PullSeeds, CreateDirs, TruncateState, WriteState, PersistFails, StepMatches, TypeOK,
         PublishSteps, UnpublishSteps
    <2>2. Unused(t)' => Unused(t)
      BY <1>3 DEF PullSeeds, CreateDirs, TruncateState, WriteState, PersistFails, Unused, StepMatches, TypeOK,
         PublishSteps, UnpublishSteps
    <2>3. targetDir' = targetDir \/ targetDir' = targetDir \cup {t}
      BY <1>3 DEF PullSeeds, CreateDirs, TruncateState, WriteState, PersistFails
    <2> QED BY <2>1, <2>2, <2>3, UnservedOutside
  <1>4. ASSUME NEW t \in Targets, LoadState(t) \/ Capture(t) \/ Push(t) \/ RemoveDir(t)
                 \/ RemoveState(t)
        PROVE  UnservedInv'
    <2>1. UNCHANGED <<co, stack, orphan>> /\ \A u \in Targets \ {t} : pc'[u] = pc[u]
      BY <1>4 DEF LoadState, Capture, Push, RemoveDir, RemoveState, StepMatches, TypeOK,
         PublishSteps, UnpublishSteps
    <2>2. Unused(t)' => Unused(t)
      BY <1>4 DEF LoadState, Capture, Push, RemoveDir, RemoveState, Unused, StepMatches, TypeOK,
         PublishSteps, UnpublishSteps
    <2>3. targetDir' = targetDir \/ (stack[t] = <<>> /\ targetDir' = targetDir \ {t})
      BY <1>4 DEF LoadState, Capture, Push, RemoveDir, DirRemoved, RemoveState
    <2> QED BY <2>1, <2>2, <2>3, UnservedOutside
  <1>5. ASSUME NEW t \in Targets, Kubelet(t) PROVE UnservedInv'
    <2>1. /\ UNCHANGED <<targetDir, stack, orphan>>
          /\ \A u \in Targets \ {t} : UNCHANGED <<co[u], pc[u]>>
      <3>1. CASE CallPublish(t) BY <3>1 DEF CallPublish
      <3>2. CASE CallUnpublish(t) BY <3>2 DEF CallUnpublish
      <3>3. CASE Reply(t) BY <3>3 DEF Reply, StepMatches, TypeOK,
                               PublishSteps, UnpublishSteps
      <3>4. CASE WorkloadWrite(t) BY <3>4 DEF WorkloadWrite
      <3> QED BY <1>5, <3>1, <3>2, <3>3, <3>4 DEF Kubelet
    <2>2. Unused(t)' => Unused(t)
      <3>1. CASE CallPublish(t) BY <3>1 DEF CallPublish, Unused
      <3>2. CASE CallUnpublish(t) BY <3>2 DEF CallUnpublish, Unused
      <3>3. CASE Reply(t) BY <3>3 DEF Reply, Unused, StepMatches, TypeOK,
                               PublishSteps, UnpublishSteps
      <3>4. CASE WorkloadWrite(t) BY <3>4 DEF WorkloadWrite, Unused
      <3> QED BY <1>5, <3>1, <3>2, <3>3, <3>4 DEF Kubelet
    <2> QED BY <2>1, <2>2, UnservedOutside, ZenonT(30)
  <1>6. ASSUME NEW t \in Targets, FailStep(t) PROVE UnservedInv'
    <2>1. pc' = [pc EXCEPT ![t] = "none"] /\ UNCHANGED <<co, targetDir, stack, orphan>>
      BY <1>6 DEF FailStep
    <2>2. Unused(t)' => Unused(t)
      BY <1>6, <2>1 DEF FailStep, FallibleSteps, Unused, StepMatches, TypeOK,
         PublishSteps, UnpublishSteps
    <2> QED BY <2>1, <2>2, UnservedOutside
  <1>7. ASSUME NEW t \in Targets, DaemonDies(t) PROVE UnservedInv'
    <2>1. PICK d \in 1..Len(stack[t]) : stack' = [stack EXCEPT ![t][d] = FALSE]
      BY <1>7, Zenon DEF DaemonDies
    <2>2. \A u \in Targets : Len(stack'[u]) = Len(stack[u])
      BY <2>1, DeadType
    <2>3. UNCHANGED <<co, pc, targetDir, orphan>>
      BY <1>7 DEF DaemonDies
    <2>4. UnservedAt(t)'
      <3>1. stack[t] \in Seq(BOOLEAN) /\ Len(stack[t]) <= 1
        BY DEF UnservedInv, TypeOK
      <3>2. Len(stack[t]) = 1 /\ d = 1 /\ stack[t] # <<>>
        BY <3>1, OnlyMount, Zenon
      <3>3. ~stack'[t][1] /\ Len(stack'[t]) = 1 /\ t \in targetDir
        BY <2>1, <2>2, <3>2 DEF UnservedInv, TypeOK
      <3> QED BY <2>3, <3>3 DEF UnservedAt, Unserved
    <2> QED BY <2>1, <2>3, <2>4, UnservedElsewhere DEF UnservedInv
  <1>8. CASE Crash
    <2>1. \A u \in Targets : Len(stack'[u]) = Len(stack[u]) /\ Unserved(u)'
      BY <1>8, CrashType DEF Unserved
    <2>2. \A u \in Targets : stack'[u] # <<>> => stack[u] # <<>>
      BY <2>1
    <2> QED BY <1>8, <2>1, <2>2 DEF Crash, UnservedInv
  <1>9. CASE Reboot
    <2>1. orphan' = {} /\ \A u \in Targets : stack'[u] = <<>>
      BY <1>9 DEF Reboot
    <2> QED BY <2>1 DEF UnservedInv, Unserved
  <1>10. CASE LateArrives \/ UNCHANGED vars
    BY <1>10 DEF LateArrives, vars, UnservedInv, Unused, Unserved
  <1>11. ASSUME NEW t \in Targets, Orphan(t) PROVE FALSE
    BY <1>11, ZenonT(30) DEF UnservedInv, Orphan, OrphanProcess, OrphanDir, OrphanState, Ends
  <1> QED BY <1>1, <1>2, <1>3, <1>4, <1>5, <1>6, <1>7, <1>8, <1>9, <1>10, <1>11, Zenon
          DEF Next, NodePublishVolume, NodeUnpublishVolume, Fault, Cancel

\* As long as no call is cancelled, no daemon serves a target whose unpublish was
\* answered OK (node.rs:217-231), under every other fault: overlapping targets,
\* dead daemons, crashes, reboots, and errors returned or dropped.
THEOREM UnpublishedIsUnserved ==
  ASSUME "cancel" \notin Faults
  PROVE  Spec => [](\A t \in Targets : co[t] = "idle" => Unserved(t))
  <1>1. Init => UnservedInv
    BY DEF Init, UnservedInv, Unserved
  <1>2. UnservedInv => \A t \in Targets : co[t] = "idle" => Unserved(t)
    BY DEF UnservedInv, Unused
  <1>3. TypeOK /\ TypeOK' /\ StepMatches /\ UnservedInv /\ [Next]_vars => UnservedInv'
    BY UnservedStep
  <1> QED BY <1>1, <1>2, <1>3, TypeCorrect, StepMatchesInit, StepMatchesStep,
             PTL DEF Spec

\* Every mount is served, and the directory of an unpublished target removed.
CleanedUp ==
  \A t \in Targets :
    /\ stack[t] # <<>> => ~TopDead(t)
    /\ co[t] = "idle" \/ pc[t] \in {"rmstate", "unpublished"} => t \notin targetDir

\* A target that nobody uses has no mount.
LEMMA UnusedUnmounted ==
  ASSUME TypeOK, UnservedInv, CleanedUp, NEW t \in Targets, Unused(t)
  PROVE  stack[t] = <<>>
  <1>1. Unserved(t)
    BY Zenon DEF UnservedInv
  <1>2. Len(stack[t]) \in Nat /\ (stack[t] = <<>> <=> Len(stack[t]) = 0)
    BY EmptyStack DEF TypeOK
  <1>3. stack[t] # <<>> => Len(stack[t]) \in 1..Len(stack[t])
    BY <1>2
  <1> QED BY <1>1, <1>3, Zenon DEF CleanedUp, TopDead, Unserved

\* Every step keeps unpublished targets clean while handlers run to their end,
\* daemons live until they are unmounted and remove_dir does not fail.
LEMMA CleanedUpStep ==
  ASSUME "crash" \notin Faults, "daemon" \notin Faults, "rmdir" \notin Faults,
         "cancel" \notin Faults, TypeOK, StepMatches, UnservedInv, CleanedUp, [Next]_vars
  PROVE  CleanedUp'
  <1> USE DEF CleanedUp, TopDead, StepMatches, TypeOK, Goto, PublishSteps,
              UnpublishSteps, fsVars
  <1>1. ASSUME NEW t \in Targets, NodePublishVolume(t) PROVE CleanedUp'
    <2>1. CASE PullSeeds(t) BY <2>1 DEF PullSeeds
    <2>2. CASE CreateDirs(t)
      <3>1. UNCHANGED <<co, stack>> /\ co[t] = "publishing"
        BY <2>2 DEF CreateDirs
      <3>2. /\ \A u \in Targets \ {t} : pc'[u] = pc[u]
            /\ pc'[t] \in {"mount", "none"}
        BY <2>2 DEF CreateDirs
      <3>3. targetDir' \subseteq targetDir \cup {t}
        BY <2>2 DEF CreateDirs
      <3> QED BY <3>1, <3>2, <3>3
    <2>3. CASE Mount(t)
      <3>1. UNCHANGED <<co, targetDir>> /\ co[t] = "publishing"
        BY <2>3 DEF Mount
      <3>2. /\ \A u \in Targets \ {t} : pc'[u] = pc[u]
            /\ pc'[t] \in {"persist", "none"}
        BY <2>3 DEF Mount
      <3>3. CASE Mounted(t)
        <4>1. /\ stack'[t] # <<>> /\ stack'[t][Len(stack'[t])]
              /\ \A u \in Targets \ {t} : stack'[u] = stack[u]
          BY <3>3, MountedTop
        <4> QED BY <3>1, <3>2, <4>1, ZenonT(30)
      <3>4. CASE UNCHANGED stack
        BY <3>1, <3>2, <3>4
      <3> QED BY <2>3, <3>3, <3>4 DEF Mount
    <2>4. CASE TruncateState(t) BY <2>4 DEF TruncateState
    <2>5. CASE WriteState(t) BY <2>5 DEF WriteState
    <2>6. CASE PersistFails(t) BY <2>6 DEF PersistFails
    <2> QED BY <1>1, <2>1, <2>2, <2>3, <2>4, <2>5, <2>6, Zenon DEF NodePublishVolume
  <1>2. ASSUME NEW t \in Targets, NodeUnpublishVolume(t) PROVE CleanedUp'
    <2>1. CASE LoadState(t) BY <2>1 DEF LoadState
    <2>2. CASE Capture(t) BY <2>2 DEF Capture
    <2>3. CASE Push(t) BY <2>3 DEF Push
    <2>4. CASE Unmount(t)
      <3>1. CASE UNCHANGED stack BY <2>4, <3>1 DEF Unmount
      <3>2. CASE Unmounted(t)
        <4>1. Len(stack'[t]) = 0 /\ \A u \in Targets \ {t} : stack'[u] = stack[u]
          BY <3>2, PopType DEF UnservedInv, Unmounted
        <4>2. stack'[t] = <<>>
          BY <3>2, <4>1, PopType
        <4>3. /\ UNCHANGED <<co, targetDir>> /\ co[t] = "unpublishing"
              /\ pc'[t] \in {"rmdir", "none"} /\ \A u \in Targets \ {t} : pc'[u] = pc[u]
          BY <2>4 DEF Unmount
        <4> QED BY <4>1, <4>2, <4>3
      <3> QED BY <2>4, <3>1, <3>2 DEF Unmount
    <2>5. CASE RemoveDir(t)
      <3>1. stack[t] = <<>>
        BY <2>5, UnusedUnmounted DEF RemoveDir, Unused
      <3>2. targetDir' = targetDir \ {t}
        BY <2>5, <3>1 DEF RemoveDir, DirRemoved
      <3> QED BY <2>5, <3>2 DEF RemoveDir
    <2>6. CASE RemoveState(t) BY <2>6 DEF RemoveState
    <2> QED BY <1>2, <2>1, <2>2, <2>3, <2>4, <2>5, <2>6 DEF NodeUnpublishVolume
  <1>3. ASSUME NEW t \in Targets, Kubelet(t) PROVE CleanedUp'
    <2>1. CASE CallPublish(t) BY <2>1 DEF CallPublish
    <2>2. CASE CallUnpublish(t) BY <2>2 DEF CallUnpublish
    <2>3. CASE Reply(t) BY <2>3 DEF Reply
    <2>4. CASE WorkloadWrite(t) BY <2>4 DEF WorkloadWrite
    <2> QED BY <1>3, <2>1, <2>2, <2>3, <2>4 DEF Kubelet
  <1>4. ASSUME NEW t \in Targets, Fault(t) PROVE CleanedUp'
    <2>1. CASE FailStep(t) BY <2>1 DEF FailStep
    <2>2. ~Orphan(t)
      BY DEF UnservedInv, Orphan, OrphanProcess, OrphanDir, OrphanState, Ends
    <2> QED BY <1>4, <2>1, <2>2 DEF Fault, Cancel, DaemonDies
  <1>5. CASE Reboot BY <1>5 DEF Reboot
  <1>6. CASE LateArrives \/ UNCHANGED vars BY <1>6 DEF LateArrives, vars
  <1> QED BY <1>1, <1>2, <1>3, <1>4, <1>5, <1>6 DEF Next, Crash

\* When moreover the driver does not crash, daemons live until they are unmounted
\* and remove_dir, whose error is dropped, does not fail, an unpublish answered OK
\* has removed mount and directory, for overlapping targets too and across reboots
\* (node.rs:217-227).
THEOREM UnpublishedIsGone ==
  ASSUME {"cancel", "crash", "daemon", "rmdir"} \cap Faults = {}
  PROVE  Spec => []UnpublishedMeansGone
  <1>0. /\ "cancel" \notin Faults /\ "crash" \notin Faults
        /\ "daemon" \notin Faults /\ "rmdir" \notin Faults
    OBVIOUS
  <1>1. Init => UnservedInv /\ CleanedUp
    BY DEF Init, UnservedInv, Unserved, CleanedUp
  <1>2. TypeOK /\ UnservedInv /\ CleanedUp => UnpublishedMeansGone
    BY UnusedUnmounted DEF Unused, CleanedUp, UnpublishedMeansGone
  <1>3. /\ TypeOK /\ TypeOK' /\ StepMatches /\ UnservedInv /\ [Next]_vars => UnservedInv'
        /\ TypeOK /\ StepMatches /\ UnservedInv /\ CleanedUp /\ [Next]_vars => CleanedUp'
    BY <1>0, UnservedStep, CleanedUpStep
  <1> QED BY <1>1, <1>2, <1>3, TypeCorrect, StepMatchesInit, StepMatchesStep,
             PTL DEF Spec

=============================================================================
