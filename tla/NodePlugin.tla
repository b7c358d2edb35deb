------------------------------ MODULE NodePlugin ------------------------------
(***************************************************************************)
(* The node service of the driver for one volume on one node:              *)
(* NodePublishVolume and NodeUnpublishVolume of node.rs with the mounter   *)
(* of mount.rs, run step by step against the FUSE daemons, the kubelet and *)
(* the node's file system.                                                 *)
(*                                                                         *)
(* A handler is a tokio task; between two of its awaits another handler    *)
(* may run, the caller may give up (tonic drops the handler's future), the *)
(* process may crash and the node may reboot.  What a dropped handler was  *)
(* waiting for goes on without it: a child process, or a file operation in *)
(* tokio's blocking pool.  Every file the driver keeps is named after the  *)
(* volume alone (driver.rs), so the handlers of two target paths share     *)
(* publish.json, the control socket and the upper.                         *)
(***************************************************************************)
EXTENDS Naturals, Sequences, FiniteSets

CONSTANTS
  Targets,          \* target paths: one per pod that uses the volume
  CaptureOnDelete,  \* the captureOnDelete parameter of the volume
  HasCaptureRepo,   \* resolved_capture_repo() is Some: captureRepo or a seed
  SingleConsumer,   \* the CO publishes one target at a time
  Faults,           \* what may go wrong, see FaultKinds
  MaxWrites,        \* bound on the writes to the upper
  MaxMounts,        \* bound on mounts stacked on one target; with 1,
                    \* rspacefs-mount refuses a target already mounted
  MaxOrphans        \* bound on the operations that outlive their handlers

\* Steps of a handler that may return an error for reasons of their own.
FallibleSteps == {"pull", "mkdir", "mount", "capture", "push", "unmount"}

\* Errors the handlers log or drop: the operation has failed, and they go on.
IgnoredErrors == {"persist", "read", "rmdir", "rmstate"}

\* linger: a file operation may outlive its handler, as a process may;
\* late: the registry may handle a push whose caller is gone, before the CO
\* publishes the volume again; stray: at any time;
\* reuse: a target path may be published again while an operation on it from
\* an earlier pod is still to end (the kubelet's paths hold the pod's UID).
FaultKinds ==
  FallibleSteps \cup IgnoredErrors \cup
    {"cancel", "linger", "crash", "reboot", "daemon", "late", "stray", "reuse"}

ASSUME NodeAssumption ==
  /\ CaptureOnDelete \in BOOLEAN
  /\ HasCaptureRepo \in BOOLEAN
  /\ SingleConsumer \in BOOLEAN
  /\ Faults \subseteq FaultKinds
  /\ MaxWrites \in Nat
  /\ MaxMounts \in Nat \ {0}
  /\ MaxOrphans \in Nat

VARIABLES
  co,          \* what the CO (kubelet) wants of each target
  pc,          \* where the handler serving each target is
  cap,         \* the version the handler's capture returned
  targetDir,   \* target paths whose directory exists
  stack,       \* FUSE mounts on each target, TRUE: the daemon is alive
  sock,        \* <<t, d>>: control.sock belongs to mount d of target t
  orphan,      \* <<step, t>>: what that step waits for outlived its handler
  publishJson, \* load_state finds a readable publish.json
  upper,       \* version of the writable upper
  rev,         \* version of the upper in the newest pushed revision
  late         \* versions in manifest PUTs whose handler has ended

fsVars == <<targetDir, stack, sock, orphan>>
dataVars == <<publishJson, upper, rev, late>>
vars ==
  <<co, pc, cap, targetDir, stack, sock, orphan, publishJson, upper, rev, late>>

PublishSteps == {"pull", "mkdir", "mount", "persist", "persisting", "published"}
UnpublishSteps ==
  {"load", "capture", "push", "unmount", "rmdir", "rmstate", "unpublished"}

\* Steps whose work goes on when the handler is dropped: a child process
\* (no kill_on_drop), a call of tokio::fs.
ProcessSteps == {"mount", "unmount"}
FileSteps == {"mkdir", "persist", "persisting", "rmdir", "rmstate"}

Init ==
  /\ co = [t \in Targets |-> "idle"]
  /\ pc = [t \in Targets |-> "none"]
  /\ cap = [t \in Targets |-> 0]
  /\ targetDir = {}
  /\ stack = [t \in Targets |-> <<>>]
  /\ sock \in Targets \X {0}
  /\ orphan = {}
  /\ publishJson = FALSE
  /\ upper = 0
  /\ rev = 0
  /\ late = {}

-----------------------------------------------------------------------------
(* The file system and the daemons, as the driver sees them. *)

\* The top mount of t has lost its daemon.
TopDead(t) == stack[t] # <<>> /\ ~stack[t][Len(stack[t])]

\* Path::exists(): false as well when stat fails, as it does on a mount whose
\* daemon is gone ("transport endpoint is not connected").
Exists(t) == t \in targetDir /\ ~TopDead(t)

\* A connect to control.sock is accepted.
Reachable ==
  /\ sock[2] \in 1..Len(stack[sock[1]])
  /\ stack[sock[1]][sock[2]]

\* rspacefs-mount does not fail for a reason known beforehand.
CanMount(t) == Exists(t) /\ Len(stack[t]) < MaxMounts

\* rspacefs-mount succeeds on t: one more mount, whose daemon owns control.sock.
Mounted(t) ==
  /\ CanMount(t)
  /\ stack' = [stack EXCEPT ![t] = Append(@, TRUE)]
  /\ sock' = <<t, Len(stack[t]) + 1>>

\* fusermount3 -u succeeds on t, whether or not the daemon is alive.
Unmounted(t) ==
  /\ stack[t] # <<>>
  /\ stack' = [stack EXCEPT ![t] = SubSeq(@, 1, Len(@) - 1)]

\* remove_dir of t: an error, as when something is mounted there, is dropped.
DirRemoved(t) ==
  \/ stack[t] = <<>> /\ targetDir' = targetDir \ {t}
  \/ (stack[t] # <<>> \/ "rmdir" \in Faults) /\ UNCHANGED targetDir

\* remove_file of publish.json: an error is dropped.
StateRemoved ==
  \/ publishJson' = FALSE
  \/ "rmstate" \in Faults /\ UNCHANGED publishJson

Goto(t, from, to) == pc[t] = from /\ pc' = [pc EXCEPT ![t] = to]

-----------------------------------------------------------------------------
(* NodePublishVolume *)

\* Every seed is pulled into the lowers directory.
PullSeeds(t) ==
  /\ Goto(t, "pull", "mkdir")
  /\ UNCHANGED <<co, cap, fsVars, dataVars>>

\* create_dir_all of the upper and of the target; the latter fails when the
\* target cannot be stat'ed.
CreateDirs(t) ==
  /\ \/ ~TopDead(t) /\ Goto(t, "mkdir", "mount") /\ targetDir' = targetDir \cup {t}
     \/ TopDead(t) /\ Goto(t, "mkdir", "none") /\ UNCHANGED targetDir
  /\ UNCHANGED <<co, cap, stack, sock, orphan, dataVars>>

\* rspacefs-mount exits: mounted, or refused.
Mount(t) ==
  /\ \/ Goto(t, "mount", "persist") /\ Mounted(t)
     \/ Goto(t, "mount", "none") /\ ~CanMount(t) /\ UNCHANGED <<stack, sock>>
  /\ UNCHANGED <<co, cap, targetDir, orphan, dataVars>>

\* persist_state, first half: tokio::fs::write truncates publish.json.
TruncateState(t) ==
  /\ Goto(t, "persist", "persisting")
  /\ publishJson' = FALSE
  /\ UNCHANGED <<co, cap, fsVars, upper, rev, late>>

\* persist_state, second half: the context is written.
WriteState(t) ==
  /\ Goto(t, "persisting", "published")
  /\ publishJson' = TRUE
  /\ UNCHANGED <<co, cap, fsVars, upper, rev, late>>

\* An error of persist_state is logged and the publish goes on.
PersistFails(t) ==
  /\ "persist" \in Faults
  /\ Goto(t, "persist", "published") \/ Goto(t, "persisting", "published")
  /\ UNCHANGED <<co, cap, fsVars, dataVars>>

-----------------------------------------------------------------------------
(* NodeUnpublishVolume *)

\* load_state, and freeze_on_unpublish up to the resolution of its repo.  A
\* publish.json that cannot be read or parsed is taken for none.
LoadState(t) ==
  /\ \/ /\ ~publishJson \/ ~CaptureOnDelete \/ "read" \in Faults
        /\ Goto(t, "load", "unmount")
     \/ /\ publishJson /\ CaptureOnDelete
        /\ Goto(t, "load", IF HasCaptureRepo THEN "capture" ELSE "none")
  /\ UNCHANGED <<co, cap, fsVars, dataVars>>

\* Deviation: a capture that fails is logged and the unmount goes ahead.
CaptureBestEffort(t) ==
  /\ IF Reachable
       THEN Goto(t, "capture", "push") /\ cap' = [cap EXCEPT ![t] = upper]
       ELSE Goto(t, "capture", "unmount") /\ UNCHANGED cap
  /\ UNCHANGED <<co, fsVars, dataVars>>

\* Deviation: the last write is not yet in what is captured.
CaptureUnflushed(t) ==
  /\ IF Reachable
       THEN Goto(t, "capture", "push") /\ cap' = [cap EXCEPT ![t] = IF upper = 0 THEN 0 ELSE upper - 1]
       ELSE Goto(t, "capture", "none") /\ UNCHANGED cap
  /\ UNCHANGED <<co, fsVars, dataVars>>

\* capture-layer over the control socket.
Capture(t) ==
  /\ IF Reachable
       THEN Goto(t, "capture", "push") /\ cap' = [cap EXCEPT ![t] = upper]
       ELSE Goto(t, "capture", "none") /\ UNCHANGED cap
  /\ UNCHANGED <<co, fsVars, dataVars>>

\* push_revision moves the capture tag to the captured version.
Push(t) ==
  /\ Goto(t, "push", "unmount")
  /\ rev' = cap[t]
  /\ UNCHANGED <<co, cap, fsVars, publishJson, upper, late>>

\* Deviation: no early return when the target does not exist.
UnmountStrict(t) ==
  /\ \/ Exists(t) /\ Unmounted(t) /\ Goto(t, "unmount", "rmdir")
     \/ /\ ~Exists(t) \/ stack[t] = <<>>
        /\ Goto(t, "unmount", "none") /\ UNCHANGED stack
  /\ UNCHANGED <<co, cap, targetDir, sock, orphan, dataVars>>

\* Deviation: fusermount3 is spawned and its exit not waited for.
UnmountSpawned(t) ==
  /\ Goto(t, "unmount", "rmdir")
  /\ orphan' = IF Exists(t) THEN orphan \cup {<<"unmount", t>>} ELSE orphan
  /\ UNCHANGED <<co, cap, targetDir, stack, sock, dataVars>>

\* Mounter::unmount: nothing to do, the top mount goes away with its daemon,
\* or fusermount3, fusermount and umount all fail.
Unmount(t) ==
  /\ \/ ~Exists(t) /\ Goto(t, "unmount", "rmdir") /\ UNCHANGED stack
     \/ Exists(t) /\ Unmounted(t) /\ Goto(t, "unmount", "rmdir")
     \/ /\ Exists(t) /\ stack[t] = <<>> /\ Goto(t, "unmount", "none")
        /\ UNCHANGED stack
  /\ UNCHANGED <<co, cap, targetDir, sock, orphan, dataVars>>

RemoveDir(t) ==
  /\ Goto(t, "rmdir", "rmstate")
  /\ DirRemoved(t)
  /\ UNCHANGED <<co, cap, stack, sock, orphan, dataVars>>

RemoveState(t) ==
  /\ Goto(t, "rmstate", "unpublished")
  /\ StateRemoved
  /\ UNCHANGED <<co, cap, fsVars, upper, rev, late>>

\* The handlers of S end; the registry may still have to handle their last
\* request, and whether it does nobody waits to hear.
LeaveRequests(S) ==
  late' \in {late, late \cup {cap[t] : t \in {u \in S : "late" \in Faults
                                                     /\ pc[u] = "push"}}}

\* Deviation: a failed rspacefs-mount is logged and the publish goes on.
FailStepButMount(t) ==
  /\ pc[t] \in FallibleSteps \cap Faults
  /\ pc[t] = "unmount" => Exists(t)
  /\ pc' = [pc EXCEPT ![t] = IF @ = "mount" THEN "persist" ELSE "none"]
  /\ LeaveRequests({t})
  /\ UNCHANGED <<co, cap, fsVars, publishJson, upper, rev>>

\* A step returns an error: the handler ends and the CO learns of it.
FailStep(t) ==
  /\ pc[t] \in FallibleSteps \cap Faults
  /\ pc[t] = "unmount" => Exists(t)
  /\ pc' = [pc EXCEPT ![t] = "none"]
  /\ LeaveRequests({t})
  /\ UNCHANGED <<co, cap, fsVars, publishJson, upper, rev>>

-----------------------------------------------------------------------------
(* The CO.  It has one call per target in flight, retries what failed or   *)
(* timed out, and may turn from publishing to unpublishing (pod deleted).  *)

CallPublish(t) ==
  /\ pc[t] = "none"
  /\ \/ co[t] = "publishing"
     \/ /\ co[t] = "idle"
        /\ SingleConsumer => \A u \in Targets : co[u] = "idle"
        /\ late = {} \/ "stray" \in Faults
        /\ (\A o \in orphan : o[2] # t) \/ "reuse" \in Faults
  /\ co' = [co EXCEPT ![t] = "publishing"]
  /\ pc' = [pc EXCEPT ![t] = "pull"]
  /\ UNCHANGED <<cap, fsVars, dataVars>>

CallUnpublish(t) ==
  /\ pc[t] = "none"
  /\ co[t] # "idle"
  /\ co' = [co EXCEPT ![t] = "unpublishing"]
  /\ pc' = [pc EXCEPT ![t] = "load"]
  /\ UNCHANGED <<cap, fsVars, dataVars>>

\* The OK of a handler reaches the CO.
Reply(t) ==
  /\ \/ Goto(t, "published", "none") /\ co' = [co EXCEPT ![t] = "running"]
     \/ Goto(t, "unpublished", "none") /\ co' = [co EXCEPT ![t] = "idle"]
  /\ UNCHANGED <<cap, fsVars, dataVars>>

\* The workload writes through the mount it was given.
WorkloadWrite(t) ==
  /\ co[t] = "running"
  /\ stack[t] # <<>> /\ Exists(t)
  /\ upper < MaxWrites
  /\ upper' = upper + 1
  /\ UNCHANGED <<co, pc, cap, fsVars, publishJson, rev, late>>

-----------------------------------------------------------------------------
(* Faults *)

\* What the handler of t waits for goes on when the handler is dropped.
Outlives(t) ==
  /\ \/ pc[t] = "mount"
     \/ pc[t] = "unmount" /\ Exists(t)
     \/ pc[t] \in FileSteps /\ "linger" \in Faults
  /\ Cardinality(orphan) < MaxOrphans
  /\ orphan' = orphan \cup {<<pc[t], t>>}

\* The call times out and the handler's future is dropped: before what it is
\* about to wait for was begun, or while it waits.
Cancel(t) ==
  /\ "cancel" \in Faults
  /\ pc[t] # "none"
  /\ pc' = [pc EXCEPT ![t] = "none"]
  /\ (pc[t] # "persisting" /\ UNCHANGED orphan) \/ Outlives(t)
  /\ LeaveRequests({t})
  /\ UNCHANGED <<co, cap, targetDir, stack, sock, publishJson, upper, rev>>

\* An operation nobody waits for ends.
Ends(step, t) == <<step, t>> \in orphan /\ orphan' = orphan \ {<<step, t>>}

\* rspacefs-mount, or the unmounters in turn, succeed or fail.
OrphanProcess(t) ==
  /\ \/ Ends("mount", t) /\ Mounted(t)
     \/ Ends("unmount", t) /\ Unmounted(t) /\ UNCHANGED sock
     \/ /\ \/ Ends("mount", t) /\ (~CanMount(t) \/ "mount" \in Faults)
           \/ Ends("unmount", t) /\ (stack[t] = <<>> \/ "unmount" \in Faults)
        /\ UNCHANGED <<stack, sock>>
  /\ UNCHANGED <<co, pc, cap, targetDir, dataVars>>

\* create_dir_all or remove_dir of the target.
OrphanDir(t) ==
  /\ \/ Ends("mkdir", t) /\ targetDir' = IF TopDead(t) THEN targetDir ELSE targetDir \cup {t}
     \/ Ends("rmdir", t) /\ DirRemoved(t)
  /\ UNCHANGED <<co, pc, cap, stack, sock, dataVars>>

\* The write or the removal of publish.json.
OrphanState(t) ==
  /\ \/ /\ <<"persist", t>> \in orphan /\ publishJson' = FALSE
        /\ orphan' = (orphan \ {<<"persist", t>>}) \cup {<<"persisting", t>>}
     \/ Ends("persisting", t) /\ publishJson' = TRUE
     \/ /\ "persist" \in Faults /\ (Ends("persist", t) \/ Ends("persisting", t))
        /\ UNCHANGED publishJson
     \/ Ends("rmstate", t) /\ StateRemoved
  /\ UNCHANGED <<co, pc, cap, targetDir, stack, sock, upper, rev, late>>

Orphan(t) == OrphanProcess(t) \/ OrphanDir(t) \/ OrphanState(t)

\* The driver process dies, and with it what runs in its container
\* (deploy/node.yaml): the daemons, rspacefs-mount and the unmounters.  The
\* mounts stay in the mount table.
Crash ==
  /\ "crash" \in Faults
  /\ pc' = [t \in Targets |-> "none"]
  /\ stack' = [t \in Targets |-> [d \in 1..Len(stack[t]) |-> FALSE]]
  /\ orphan' = {}
  /\ LeaveRequests(Targets)
  /\ UNCHANGED <<co, cap, targetDir, sock, publishJson, upper, rev>>

\* A FUSE daemon dies; its mount stays in the mount table.
DaemonDies(t) ==
  /\ "daemon" \in Faults
  /\ \E d \in 1..Len(stack[t]) :
       stack[t][d] /\ stack' = [stack EXCEPT ![t][d] = FALSE]
  /\ UNCHANGED <<co, pc, cap, targetDir, sock, orphan, dataVars>>

\* The node reboots: no process and no mount survives, every file does, and
\* the kubelet publishes again for the pods that were running.
Reboot ==
  /\ "reboot" \in Faults
  /\ \E t \in Targets : co[t] # "idle"
  /\ co' = [t \in Targets |-> IF co[t] = "running" THEN "publishing" ELSE co[t]]
  /\ pc' = [t \in Targets |-> "none"]
  /\ stack' = [t \in Targets |-> <<>>]
  /\ orphan' = {}
  /\ LeaveRequests(Targets)
  /\ UNCHANGED <<cap, targetDir, sock, publishJson, upper, rev>>

\* The registry handles a request whose handler is gone: the tag moves.
LateArrives ==
  /\ \E v \in late : rev' = v /\ late' = late \ {v}
  /\ UNCHANGED <<co, pc, cap, fsVars, publishJson, upper>>

-----------------------------------------------------------------------------
NodePublishVolume(t) ==
  \/ PullSeeds(t) \/ CreateDirs(t) \/ Mount(t)
  \/ TruncateState(t) \/ WriteState(t) \/ PersistFails(t)

NodeUnpublishVolume(t) ==
  \/ LoadState(t) \/ Capture(t) \/ Push(t)
  \/ Unmount(t) \/ RemoveDir(t) \/ RemoveState(t)

Kubelet(t) == CallPublish(t) \/ CallUnpublish(t) \/ Reply(t) \/ WorkloadWrite(t)

Fault(t) == FailStep(t) \/ Cancel(t) \/ Orphan(t) \/ DaemonDies(t)

Next ==
  \/ \E t \in Targets :
       NodePublishVolume(t) \/ NodeUnpublishVolume(t) \/ Kubelet(t) \/ Fault(t)
  \/ Crash
  \/ Reboot
  \/ LateArrives

Spec == Init /\ [][Next]_vars

-----------------------------------------------------------------------------
(* Fairness: the runtime runs every handler on, and the kubelet retries an *)
(* unpublish for ever.  A step that can fail for a passing reason does not *)
(* fail every time it is tried, hence the strong fairness.                 *)

RetryUnpublish(t) == co[t] = "unpublishing" /\ CallUnpublish(t)

Fairness ==
  \A t \in Targets :
    /\ WF_vars(NodePublishVolume(t))
    /\ WF_vars(NodeUnpublishVolume(t))
    /\ WF_vars(RetryUnpublish(t))
    /\ WF_vars(Reply(t))
    /\ WF_vars(Orphan(t))
    /\ SF_vars(Capture(t))
    /\ SF_vars(Push(t))
    /\ SF_vars(Unmount(t))

LiveSpec == Spec /\ Fairness

-----------------------------------------------------------------------------
(* Properties *)

\* Every variable keeps the type of the state it stands for.
TypeOK ==
  /\ co \in [Targets -> {"idle", "publishing", "running", "unpublishing"}]
  /\ pc \in [Targets -> {"none"} \cup PublishSteps \cup UnpublishSteps]
  /\ cap \in [Targets -> Nat]
  /\ targetDir \subseteq Targets
  /\ stack \in [Targets -> Seq(BOOLEAN)]
  /\ sock \in Targets \X Nat
  /\ orphan \subseteq (ProcessSteps \cup FileSteps) \X Targets
  /\ publishJson \in BOOLEAN
  /\ upper \in Nat
  /\ rev \in Nat
  /\ late \subseteq Nat

\* captureOnDelete (node.rs:206-215): when every target has been unpublished,
\* the newest pushed revision holds everything that was written.
NoLoss ==
  CaptureOnDelete /\ (\A t \in Targets : co[t] = "idle") => rev = upper

\* An unpublish answered OK (node.rs:217-231) leaves neither a mount nor the
\* directory at its target path.
UnpublishedMeansGone ==
  \A t \in Targets : co[t] = "idle" => t \notin targetDir /\ stack[t] = <<>>

\* A workload that runs on a target answered OK by NodePublishVolume keeps its
\* mount, whoever serves it: no other handler's retry, no unpublish and nothing
\* that outlived a handler unmounts it or removes the directory under it
\* (node.rs:177-191, 217-231).
RunningStaysMounted ==
  \A t \in Targets : co[t] = "running" => stack[t] # <<>> /\ t \in targetDir

\* The volume as its consumers and the registry see it.
Volume == INSTANCE DataVolume WITH
            Consumers <- Targets, use <- co, written <- upper, captured <- rev

\* With captureOnDelete the node service is a single-consumer volume whose
\* captures are atomic and whose release waits for them (node.rs:120-231): what
\* several handlers, retries and late requests do to the registry's tag is, at
\* every step, a capture of the current upper that no workload is writing to.
ImplementsVolume == Volume!Spec

\* A pod's deletion gets done: the kubelet's unpublish, retried, is at last
\* answered OK (node.rs:194-231, mount.rs:103-117).
UnpublishCompletes ==
  \A t \in Targets : co[t] = "unpublishing" ~> co[t] = "idle"

=============================================================================
