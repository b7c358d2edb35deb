------------------------------ MODULE FreezePush ------------------------------
(***************************************************************************)
(* freeze_and_push of freeze.rs, as CreateSnapshot (controller.rs) and the *)
(* capture at unpublish (node.rs) run it on one volume: the capture over   *)
(* the control socket (control.rs) into the volume's one staging file, and *)
(* the upload of blob, config and manifest to the registry (registry.rs).  *)
(*                                                                         *)
(* A layer digest is the version of the upper it was taken from: the same  *)
(* version always gives the same blob, another version another one.        *)
(***************************************************************************)
EXTENDS Naturals

CONSTANTS
  Freezes,       \* calls of freeze_and_push on the volume
  Tags,          \* tags of target_ref: snapshot names, or the PVC name
  TagOf,         \* the tag each call pushes to
  Faults,        \* what may go wrong, see FaultKinds
  Registries,    \* kinds of registry the driver may meet, see Kinds
  MaxWrites      \* bound on the versions of the upper

FaultKinds == {"io", "http", "cancel", "daemon", "hang"}

\* Does the registry compare an uploaded blob with its digest, refuse a manifest
\* whose blobs it lacks, reclaim blobs no manifest refers to?
Kinds == [verifies : BOOLEAN, checks : BOOLEAN, collects : BOOLEAN]

ASSUME FreezeAssumption ==
  /\ TagOf \in [Freezes -> Tags]
  /\ Faults \subseteq FaultKinds
  /\ Registries \subseteq Kinds
  /\ MaxWrites \in Nat

Versions == 0..MaxWrites

\* Contents of a file or of a request body that are no complete capture.
Mixed == MaxWrites + 1
Contents == Versions \cup {Mixed}

\* The staging file or a blob is absent; a call has no answer yet.
None == MaxWrites + 2

ConfigBlob == MaxWrites + 3

VARIABLES
  upper,     \* version of the live upper
  daemon,    \* the FUSE daemon answers on control.sock
  staging,   \* what capture.tar.zst holds
  writing,   \* calls whose capture the daemon is writing
  clash,     \* those of them that met another one in the staging file
  pc,        \* where each call is
  since,     \* version of the upper when the call came in
  digest,    \* cap.digest: the version the daemon says it captured
  bytes,     \* layer_bytes: what was read back from the staging file
  registry,  \* the kind of registry of this deployment
  blobs,     \* content the registry stores under each digest
  manifests, \* <<tag, layer>> pairs whose manifest the registry stores
  answer     \* layer of the reference returned to the caller

callVars == <<since, digest, bytes>>
registryVars == <<registry, blobs, manifests>>
captureVars == <<staging, writing, clash>>
vars == <<upper, daemon, staging, writing, clash, pc, since, digest, bytes,
          registry, blobs, manifests, answer>>

Init ==
  /\ upper = 0
  /\ daemon = TRUE
  /\ staging = None
  /\ writing = {}
  /\ clash = {}
  /\ pc = [f \in Freezes |-> "idle"]
  /\ since = [f \in Freezes |-> 0]
  /\ digest = [f \in Freezes |-> 0]
  /\ bytes = [f \in Freezes |-> None]
  /\ registry \in Registries
  /\ blobs = [d \in Versions \cup {ConfigBlob} |-> None]
  /\ manifests = {}
  /\ answer = [f \in Freezes |-> None]

Goto(f, from, to) == pc[f] = from /\ pc' = [pc EXCEPT ![f] = to]

Fail(f) == pc' = [pc EXCEPT ![f] = "failed"]

\* The registry has a blob of that digest, or a manifest that refers to it.
Stored(d) == blobs[d] # None
Referenced(d) == \E m \in manifests : d \in {m[2], ConfigBlob}

-----------------------------------------------------------------------------
(* The call and its capture *)

\* CreateSnapshot, or freeze_on_unpublish, with the target resolved.
Call(f) ==
  /\ Goto(f, "idle", "connect")
  /\ since' = [since EXCEPT ![f] = upper]
  /\ UNCHANGED <<upper, daemon, captureVars, digest, bytes, registryVars, answer>>

\* Deviation: a complete staging file found in place is pushed again.
ConnectReusing(f) ==
  /\ \/ /\ staging \in Versions
        /\ Goto(f, "connect", "read")
        /\ digest' = [digest EXCEPT ![f] = staging]
        /\ UNCHANGED captureVars
     \/ /\ daemon /\ staging \notin Versions
        /\ Goto(f, "connect", "capture")
        /\ digest' = [digest EXCEPT ![f] = upper]
        /\ staging' = Mixed
        /\ clash' = IF writing = {} THEN clash \ {f} ELSE clash \cup writing \cup {f}
        /\ writing' = writing \cup {f}
     \/ /\ ~daemon /\ staging \notin Versions
        /\ pc[f] = "connect" /\ Fail(f)
        /\ UNCHANGED <<digest, captureVars>>
  /\ UNCHANGED <<upper, daemon, since, bytes, registryVars, answer>>

\* capture-layer is sent.  The daemon fixes the version and starts the staging
\* file anew; with nobody behind the socket the call fails.
Connect(f) ==
  /\ \/ /\ daemon
        /\ Goto(f, "connect", "capture")
        /\ digest' = [digest EXCEPT ![f] = upper]
        /\ staging' = Mixed
        /\ clash' = IF writing = {} THEN clash \ {f} ELSE clash \cup writing \cup {f}
        /\ writing' = writing \cup {f}
     \/ /\ ~daemon
        /\ pc[f] = "connect" /\ Fail(f)
        /\ UNCHANGED <<digest, captureVars>>
  /\ UNCHANGED <<upper, daemon, since, bytes, registryVars, answer>>

\* The daemon has written the capture: the call gets its answer, unless it has
\* been given up.  Captures that met in the file may leave a mixture.
Captured(f) ==
  /\ f \in writing
  /\ writing' = writing \ {f}
  /\ \/ staging' = digest[f]
     \/ f \in clash /\ staging' = Mixed
  /\ pc' = [pc EXCEPT ![f] = IF @ = "capture" THEN "read" ELSE @]
  /\ UNCHANGED <<upper, daemon, clash, callVars, registryVars, answer>>

-----------------------------------------------------------------------------
(* push_revision *)

\* The staging file is read back.  The size guard rejects every other length
\* than the reported one, and lets pass what happens to have it.
ReadStaging(f) ==
  /\ \/ /\ staging # None
        /\ Goto(f, "read", "head")
        /\ bytes' = [bytes EXCEPT ![f] = staging]
     \/ /\ staging # digest[f]
        /\ pc[f] = "read" /\ Fail(f)
        /\ UNCHANGED bytes
  /\ UNCHANGED <<upper, daemon, captureVars, since, digest, registryVars, answer>>

\* Deviation: any other status than "not found" counts as "already there".
HeadLayerLenient(f) ==
  /\ \/ Goto(f, "head", IF Stored(digest[f]) THEN "config" ELSE "put")
     \/ "http" \in Faults /\ Goto(f, "head", "config")
  /\ UNCHANGED <<upper, daemon, captureVars, callVars, registryVars, answer>>

\* blob_exists for the layer: an upload is saved when the registry has it; a
\* status that is no success counts as "not there".
HeadLayer(f) ==
  /\ \/ Goto(f, "head", IF Stored(digest[f]) THEN "config" ELSE "put")
     \/ "http" \in Faults /\ Goto(f, "head", "put")
  /\ UNCHANGED <<upper, daemon, captureVars, callVars, registryVars, answer>>

\* POST and PUT of the layer under cap.digest.
PutLayer(f) ==
  /\ \/ /\ registry.verifies => bytes[f] = digest[f]
        /\ Goto(f, "put", "config")
        /\ blobs' = [blobs EXCEPT ![digest[f]] = bytes[f]]
     \/ /\ registry.verifies /\ bytes[f] # digest[f]
        /\ pc[f] = "put" /\ Fail(f)
        /\ UNCHANGED blobs
  /\ UNCHANGED <<upper, daemon, captureVars, callVars, registry, manifests, answer>>

\* push_blob of the empty config.
PutConfig(f) ==
  /\ Goto(f, "config", "manifest")
  /\ blobs' = [blobs EXCEPT ![ConfigBlob] = ConfigBlob]
  /\ UNCHANGED <<upper, daemon, captureVars, callVars, registry, manifests, answer>>

\* PUT of the manifest under the tag.
PutManifest(f) ==
  /\ \/ /\ registry.checks => Stored(digest[f]) /\ Stored(ConfigBlob)
        /\ Goto(f, "manifest", "cleanup")
        /\ manifests' = manifests \cup {<<TagOf[f], digest[f]>>}
     \/ /\ registry.checks /\ ~(Stored(digest[f]) /\ Stored(ConfigBlob))
        /\ pc[f] = "manifest" /\ Fail(f)
        /\ UNCHANGED manifests
  /\ UNCHANGED <<upper, daemon, captureVars, callVars, registry, blobs, answer>>

\* Deviation: the answer is computed from the bytes read, not from the manifest.
CleanupFromBytes(f) ==
  /\ Goto(f, "cleanup", "done")
  /\ staging' = None
  /\ answer' = [answer EXCEPT ![f] = bytes[f]]
  /\ UNCHANGED <<upper, daemon, writing, clash, callVars, registryVars>>

\* Deviation: the registry is asked, after the push, what the tag points to.
CleanupByTag(f) ==
  /\ Goto(f, "cleanup", "done")
  /\ staging' = None
  /\ \E m \in manifests : m[1] = TagOf[f] /\ answer' = [answer EXCEPT ![f] = m[2]]
  /\ UNCHANGED <<upper, daemon, writing, clash, callVars, registryVars>>

\* The staging file is removed, whoever wrote it, and the call answers.
Cleanup(f) ==
  /\ Goto(f, "cleanup", "done")
  /\ staging' = None
  /\ answer' = [answer EXCEPT ![f] = digest[f]]
  /\ UNCHANGED <<upper, daemon, writing, clash, callVars, registryVars>>

-----------------------------------------------------------------------------
(* The workload, the daemon, the registry and failures *)

\* The workload writes through the mount.
Write ==
  /\ daemon /\ upper < MaxWrites
  /\ upper' = upper + 1
  /\ UNCHANGED <<daemon, captureVars, pc, callVars, registryVars, answer>>

\* Deviation: an end of file on the socket is read past.
DaemonStopsUnnoticed ==
  /\ "daemon" \in Faults /\ daemon
  /\ daemon' = FALSE
  /\ writing' = {}
  /\ UNCHANGED <<upper, staging, clash, pc, callVars, registryVars, answer>>

\* The daemon goes away (an unpublish, or a crash) and with it the answers it
\* owes: read_line returns 0.
DaemonStops ==
  /\ "daemon" \in Faults /\ daemon
  /\ daemon' = FALSE
  /\ writing' = {}
  /\ pc' = [f \in Freezes |-> IF pc[f] = "capture" THEN "failed" ELSE pc[f]]
  /\ UNCHANGED <<upper, staging, clash, callVars, registryVars, answer>>

\* The volume is published again.
DaemonStarts ==
  /\ ~daemon
  /\ daemon' = TRUE
  /\ UNCHANGED <<upper, captureVars, pc, callVars, registryVars, answer>>

\* An error of the file system or of the daemon, or of the registry.
StepFails(f) ==
  /\ \/ "io" \in Faults /\ pc[f] \in {"connect", "capture", "read"}
     \/ "http" \in Faults /\ pc[f] \in {"head", "put", "config", "manifest"}
  /\ Fail(f)
  /\ UNCHANGED <<upper, daemon, captureVars, callVars, registryVars, answer>>

\* The daemon or the registry does not answer: neither the socket nor the HTTP
\* client has a timeout, so the call waits.
Hang(f) ==
  /\ "hang" \in Faults
  /\ pc[f] \in {"capture", "head", "put", "config", "manifest"}
  /\ pc' = [pc EXCEPT ![f] = "hung"]
  /\ UNCHANGED <<upper, daemon, captureVars, callVars, registryVars, answer>>

\* The deadline of the caller ends the wait; the call's future is dropped.
GiveUp(f) ==
  /\ pc[f] = "hung" /\ Fail(f)
  /\ UNCHANGED <<upper, daemon, captureVars, callVars, registryVars, answer>>

\* The caller gives up, or the driver dies; the daemon goes on writing.  What
\* the call had done so far stays.
Cancel(f) ==
  /\ "cancel" \in Faults
  /\ pc[f] \notin {"idle", "done", "failed"}
  /\ Fail(f)
  /\ UNCHANGED <<upper, daemon, captureVars, callVars, registryVars, answer>>

\* rspace_registry reclaims a blob no manifest references.
CollectGarbage ==
  /\ registry.collects
  /\ \E d \in DOMAIN blobs :
       /\ Stored(d) /\ ~Referenced(d)
       /\ blobs' = [blobs EXCEPT ![d] = None]
  /\ UNCHANGED <<upper, daemon, captureVars, pc, callVars, registry, manifests, answer>>

Freeze(f) ==
  \/ Call(f) \/ Connect(f) \/ Captured(f)
  \/ ReadStaging(f) \/ HeadLayer(f) \/ PutLayer(f) \/ PutConfig(f)
  \/ PutManifest(f) \/ Cleanup(f)

Next ==
  \/ \E f \in Freezes : Freeze(f) \/ StepFails(f) \/ Hang(f) \/ GiveUp(f) \/ Cancel(f)
  \/ Write \/ DaemonStops \/ DaemonStarts \/ CollectGarbage

Spec == Init /\ [][Next]_vars

\* The runtime runs every call on, the daemon finishes the captures it starts
\* and the registry answers, unless they hang; callers have a deadline.
LiveSpec == Spec /\ \A f \in Freezes : WF_vars(Freeze(f)) /\ WF_vars(GiveUp(f))

-----------------------------------------------------------------------------
(* Properties *)

\* Every variable keeps the type of the state it stands for.
TypeOK ==
  /\ upper \in Versions
  /\ daemon \in BOOLEAN
  /\ staging \in Contents \cup {None}
  /\ writing \subseteq Freezes
  /\ clash \subseteq Freezes
  /\ pc \in [Freezes -> {"idle", "connect", "capture", "read", "head", "put",
                         "config", "manifest", "cleanup", "hung", "done", "failed"}]
  /\ since \in [Freezes -> Versions]
  /\ digest \in [Freezes -> Versions]
  /\ bytes \in [Freezes -> Contents \cup {None}]
  /\ registry \in Registries
  /\ blobs \in [Versions \cup {ConfigBlob} -> Contents \cup {None, ConfigBlob}]
  /\ manifests \subseteq Tags \X Versions
  /\ answer \in [Freezes -> Versions \cup {None}]

\* push_revision (registry.rs:363-443) never leaves a manifest in the registry
\* whose config is missing or whose layer is not the blob it names, whatever
\* call is cut short and whatever other calls did to the staging file.
ManifestsComplete ==
  \A m \in manifests : blobs[m[2]] = m[2] /\ Stored(ConfigBlob)

\* A reference returned by freeze_and_push (freeze.rs:20-48) can be pulled, and
\* what it gives is the upper as it was at some moment of the call: never an
\* older one that another call staged, never a mixture.
SnapshotFaithful ==
  \A f \in Freezes : answer[f] # None =>
    /\ <<TagOf[f], answer[f]>> \in manifests
    /\ blobs[answer[f]] = answer[f]
    /\ since[f] <= answer[f] /\ answer[f] <= upper

\* The part of the code each state of a call belongs to: before the capture is
\* asked for, up to the manifest, and after it.  One that hangs has failed.
Stage ==
  [idle |-> "idle", connect |-> "begun", capture |-> "taken", read |-> "taken",
   head |-> "taken", put |-> "taken", config |-> "taken", manifest |-> "taken",
   cleanup |-> "stored", done |-> "done", hung |-> "failed", failed |-> "failed"]

Progress == [f \in Freezes |-> Stage[pc[f]]]

\* What a pull of the reference gives is the layer it names.
Pullable == {m \in manifests : blobs[m[2]] = m[2] /\ Stored(ConfigBlob)}

Snapshots == INSTANCE SnapshotStore WITH
  Calls <- Freezes,
  NameOf <- TagOf,
  Absent <- None,
  written <- upper,
  call <- Progress,
  copy <- digest,
  stored <- Pullable,
  answered <- answer

\* freeze_and_push (freeze.rs:20-48, registry.rs:363-443) is, for its callers and
\* for whoever pulls, a copy taken at one moment and stored in one step: calls
\* that share the staging file, uploads cut short and garbage collection neither
\* show in what can be pulled nor take anything away from it.
ImplementsSnapshots == Snapshots!Spec

\* No call waits for ever: one whose daemon goes away is answered with an error
\* (control.rs:83-85).
FreezeEnds ==
  \A f \in Freezes : pc[f] = "connect" ~> pc[f] \in {"done", "failed"}

=============================================================================
