# A verification project for rspacefs-csi

rspacefs-csi is a CSI driver: a process that a container orchestrator (CO, here the
kubelet and its sidecars) calls over gRPC to create, mount, capture and remove data
volumes. A volume is a writable *upper* directory over read-only *lower* layers pulled
from an OCI registry; a FUSE daemon (`rspacefs-mount`) serves the merged view.

The driver keeps almost no state in memory. Its state is in files, in the mount table, in
daemons and in a registry, and its handlers are async tasks that are interleaved,
retried, dropped in the middle by a caller that gave up, and lost when the process dies.
That is what this project models. Paths like `node.rs:227` are under
`src/crates/rspacefs-csi/src/`.

## 1. Inventory

| Component | State | Operations that change it | Interacts with |
|---|---|---|---|
| Node service, `node.rs` | target directories, `publish.json`, upper directory | `node_publish_volume`, `node_unpublish_volume` (stage and unstage do nothing) | kubelet, mounter, registry client, freeze |
| Mounter, `mount.rs` | mount table, daemons | `mount`, `unmount` | `rspacefs-mount`, `fusermount3`/`fusermount`/`umount` |
| Freeze, `freeze.rs`, `control.rs` | `capture.tar.zst`, one per volume | `freeze_and_push`, `capture` | daemon, registry client |
| Registry client, push, `registry.rs` | blobs and manifests in the registry | `push_revision`, `push_blob` | registry |
| Registry client, pull, `registry.rs` | lowers directory, one per volume | `pull_layers`, `pull_blob_to` | registry, file system |
| Controller service, `controller.rs` | none of its own | `create_snapshot` (a freeze); `create_volume` only validates and answers; `delete_*` do nothing | freeze, registry client |
| Parameters, `params.rs` | none | pure: `parse`, `to_volume_context`, `resolved_capture_repo` | controller and node service |
| Configuration, `driver.rs` | none | pure: every path is a function of the volume id | all |
| References and tags, `registry.rs:64`, `params.rs:175`, `node.rs:302` | none | pure string functions: `Reference::parse`, `resolved_capture_repo`, `sanitize_tag`, `snapshot_target` | registry client, freeze |
| gRPC server, `server.rs`, `main.rs` | CSI socket | bind, remove, shut down | CO |
| Identity service, `identity.rs` | none | constant answers | CO |

What makes it hard:

- **Shared names.** `publish.json`, the control socket, the staging file, the lowers
  directory and the upper are named after the volume alone. Handlers of two target paths,
  a snapshot and an unpublish, a call and its retry all meet there, without a lock.
- **Best effort.** Errors of `persist_state`, `load_state`, `remove_dir`, `remove_file` are
  dropped or logged, and the call goes on to answer OK.
- **Retries.** The CO repeats whatever failed or timed out. What the earlier try has done,
  and what it left running (an `rspacefs-mount`, an unmounter, a file operation in tokio's
  blocking pool, a capture in the daemon), is still there.
- **Looking before acting.** `exists()`, `try_exists()`, the HEAD of a blob, the size of the
  staging file: each is a check whose answer may be stale, or mean something else.

What should hold, per component:

- Node service: nothing written is lost at hand-off with captureOnDelete; OK for an
  unpublish means that mount and directory are gone; a running pod keeps its mount; an
  unpublish succeeds at last.
- Freeze and push: a reference that is answered can be pulled and is the upper as it was
  during the call; no incomplete manifest; the same name gives the same snapshot; every
  call ends.
- Pull: a blob under its final name is verified content, and nobody writes to it; what is
  mounted is the seed, with its layers in the right order; a pull that is tried again
  succeeds at last, whatever earlier ones left behind.
- Server: whoever has been started alone can be reached; what is offered is implemented;
  every request is answered at last.
- Names: a capture goes where the seed came from; a snapshot id is a seed; tags are tags.
- Across nodes: what was written goes with the volume.
- Provisioning: parameters survive the round trip through the volume context; a clone shows
  what was frozen; captures of different volumes do not overwrite each other.

`PROJECT.json` lists the hazards, each at its line.

## 2. Modules

| Module | What |
|---|---|
| `NodePlugin` | node service and mounter, one volume on one node |
| `DataVolume` | abstract: what a captureOnDelete volume promises its consumers |
| `Cluster` | two instances of `NodePlugin` that share a registry |
| `FreezePush` | freezes of one volume: control socket, staging file, push |
| `SnapshotStore` | abstract: what freezing a volume promises its callers and whoever pulls |
| `LowerCache` | pulls into one volume's lowers directory |
| `Provision` | controller service, parameters and volume context; volumes, snapshots and clones from creation to deletion |
| `Server` | the driver as a process: start, socket, services, shutdown, and the clients that find out what it offers |
| `Names` | references, repositories and tags, as strings |
| `MCNodePlugin`, `MCFreezePush`, `MCLowerCache`, `MCProvision`, `MCServer`, `MCNames` | instances for TLC: fault sets, registries, manifests, classes, symmetry |
| `NodePluginProofs`, `FreezePushProofs`, `LowerCacheProofs`, `ProvisionProofs`, `ServerProofs`, `NamesProofs` | theorems and proofs |
| `NatRecursion` | induction and recursion up to a number, for the proofs about loops |

How they fit together: `Provision` takes a call as one step, which `NodePlugin`, `FreezePush`
and `LowerCache` take apart. `NodePlugin` in turn takes `freeze_and_push` as a capture and a
push and `pull_layers` as one step, and relies on what `FreezePush` and `LowerCache` show of
them. Both, and `Provision`, take references for granted, which is what `Names` is about.
`Server` has the RPCs as names and shows that calls reach a handler.

A definition called a *deviation* in its comment is a plausible mistake in the code. It is
used by no specification; put in the place of the definition after it, it must break
a property, which shows that the property says something about the code.

### NodePlugin

A handler is a program counter per target, `pc`, and an action per await of the source.
`co` is what the kubelet wants of a target and what it has been told: it has one call per
target in flight, retries, and may turn from publishing to unpublishing when the pod is
deleted.

| State | Stands for |
|---|---|
| `targetDir`, `stack` | the target directories; per target the mounts stacked on it, each with its daemon alive or dead |
| `sock` | which daemon owns `control.sock`: the one that mounted last |
| `orphan` | operations whose handler was dropped and that go on: a process (`rspacefs-mount`, the unmounters), which tokio does not kill, or a call of `tokio::fs` in its blocking pool |
| `publishJson` | there is a `publish.json` that can be read and parsed |
| `upper`, `rev`, `cap` | versions: of the upper, of the newest pushed revision, of a capture on its way |
| `late` | versions in manifest PUTs that the registry has still to handle, though their handler is gone |

| Actions | Source |
|---|---|
| `PullSeeds`, `CreateDirs`, `Mount`, `TruncateState`, `WriteState`, `PersistFails` | `node_publish_volume`, `persist_state` |
| `LoadState`, `Capture`, `Push`, `Unmount`, `RemoveDir`, `RemoveState` | `node_unpublish_volume`, `load_state`, `freeze_on_unpublish`, `unmount` |
| `FailStep` | the `?` of a step |
| `LateArrives` | the registry handles such a PUT (external) |
| `CallPublish`, `CallUnpublish`, `Reply`, `WorkloadWrite` | kubelet and pod (external) |
| `Cancel`, `OrphanProcess`, `OrphanDir`, `OrphanState` | a call given up, and what its steps had begun coming to its end |
| `Crash`, `DaemonDies`, `Reboot` | faults (external); a crash takes the daemons with it, which run in the driver's container (`deploy/node.yaml`) |

Two facts about the outside matter. `Path::exists()` is false when `stat` fails, as it does
on a mount whose daemon is dead (`Exists`). And `rspacefs-mount` may or may not mount
over a mount: with `MaxMounts` = 1 it refuses, with 2 it stacks once. `mount.rs` itself has no
such check, so `CanMount` and `Mounted` are external. The passing runs have it stack.

Four errors do not end a handler: a failed write of `publish.json` (`PersistFails`), a failed
read or parse of it (`LoadState`), and failed removals of the directory (`DirRemoved`) and of
the file (`StateRemoved`). Each is a fault of its own.

The constant `Faults` says what may go wrong; `SingleConsumer` says that the CO publishes
one target at a time, as the repository's README promises for this driver's volumes
("one pod uses it at a time"). The code does not enforce it.

A push whose handler ended without an answer may be handled later: with fault `"late"` before
the kubelet publishes the volume again, with `"stray"` at any time. A dropped handler always
may leave a process behind, at most `MaxOrphans` at a time; with `"linger"` it may leave a file
operation too. With `"reuse"` a target path may be published for a new pod while such a leftover
of an earlier one is about; the kubelet's target paths contain the UID of the pod.

### DataVolume and the refinement

`DataVolume` is what a consumer and a reader of the registry can see: a volume is attached to
one consumer, written, captured in one step while nobody writes, and released only when the
newest revision is what it holds. `NodePlugin!ImplementsVolume` is its specification under the
mapping `use <- co`, `written <- upper`, `captured <- rev`. Mounts, sockets, `publish.json`,
handlers, retries and failures are all stutters; a `Push` and a `LateArrives` have to be a
`Capture`, so it is not enough that the right version is there in the end: no tag may move,
at any time, to anything but the current upper of a volume at rest.

### Cluster

Two nodes, each an instance of `NodePlugin` with files, daemons and kubelet of its own
(`driver.rs:48-69`: all paths are under the node's data directory), and one registry. The
plugin reports no topology (`identity.rs:33`, `node.rs:93`), so the CO may publish on either
node, on one at a time.

### FreezePush

Calls of `freeze_and_push`, from `create_snapshot` or from an unpublish. A digest is the
version of the upper it was taken from, so "the content under this digest" is an equation
between numbers; `Mixed` is content that is no complete capture. `writing` and `clash`
are captures the daemon is writing and those of them that met in the file: the daemon goes
on with a capture whose caller has given up. `ReadStaging` is the size guard: a file that
is not what was captured may pass it or not.

Three things depend on the registry, and `registry` is one of the kinds in `Registries`: does
it compare an uploaded blob with its digest (as the OCI distribution specification asks),
refuse a manifest whose blobs it lacks, collect blobs no manifest refers to? What the driver
itself does for the truth of a blob is only the length check, so the theorems assume the
first. `Hang` is a daemon or a registry that never answers: the driver sets no timeout, and
`GiveUp`, the deadline of the caller, is what ends the call.

### SnapshotStore and the refinement

`SnapshotStore` is a store without a daemon, a staging file, uploads or garbage: a call takes
a copy of what has been written, stores it in one step, and answers with it. Calls do not
meet; they may end without an answer at any point. `FreezePush!ImplementsSnapshots` is its
specification under the mapping `written <- upper`, `copy <- digest`, `answered <- answer`,
`call <- Progress` (the part of the code a call is in) and `stored <- Pullable`: the
manifests whose layer and config are there and true. So `Take` has to be the moment the daemon is
asked, the PUT of the manifest has to add one pullable reference and nothing else may, no
upload or garbage collection may change what can be pulled, and the answer has to be the
call's own copy, not the one another call left under the same tag.

### LowerCache

Two pulls of a digest can have one partial file open, each at its own offset, and neither a
rename nor a removal closes it: `fd` is the name that the file a pull writes to has by now.
Content is `NChunks` chunks, or `TooLong`, since nothing stops a stream that goes on; `hash`
and `n` are about the chunks *received*, which is what the code hashes, `blob` and `partial`
about what the files *hold*. The tag may point to any of `Manifests` whenever it is resolved.
`Check` takes a failed look-up for absence, as `unwrap_or(false)` does, so a cached blob may be
fetched again. `spoiled` remembers the digests that two pulls fetched at once or whose cached
blob a power loss hit: for those the code guarantees nothing, and the properties say so. After
`CalmDown` nothing fails any more; it makes "the retries succeed at last" a statement about
what earlier failures left behind.

### Server

Processes `1..N` are started by the container runtime, all with one endpoint. A process goes
through `main` and `serve` in the steps another process can get in between: stat, remove,
bind, serve, drain, unlink. It may be signalled, killed, or started while an older one is
alive; `shared` remembers those that were. The last process is started alone and left alone,
so that a liveness property can be stated. The kubelet and a sidecar call what the
capabilities they have been told of allow (`Covers`, from `csi.proto`), beyond what every
plugin must have, and repeat a call whose server died.

| Actions and operators | Source |
|---|---|
| `Start` | `main.rs:80-113` |
| `StatPath`, `RemoveStale`, `Bind`, `Signal`, `Drain`, `Unlink` | `serve`, `remove_if_socket`, `shutdown_signal` |
| `Implemented`, `ServesController`, `ServesNode` | the router, `Role` |
| `Advertised` | the three RPCs that report capabilities |
| `Kill`, `Ask`, `Dial`, `Answer` | runtime and clients (external), `node_get_info` |

### Names

A string is a sequence of characters, of which `/`, `:`, `@` and `-` are told apart.
`Parse` is `Reference::parse`; `ResolvedCaptureRepo`, `SnapshotRepo`, `SanitizeTag`,
`TargetRef` and `PushedRef` are the strings that the freezes put together. `rfind` twice, for
the last `/` and then for the last `:` behind it, is `TagAt`: a `:` behind which there is
neither. The behaviours spell out every pair of a reference and a name up to their bounds.

### Provision

The calls of both services, each in one step, on several volume names that are created,
used, deleted and created again. What happens inside a call is left to the other modules;
what travels from one call to the next is here: the volume context (`pv`), `publish.json`
(in `mnt`), the upper that outlives its volume (`upper`), the tags of the registry (`tags`).

| Operators and actions | Source |
|---|---|
| `Parse`, `ParseOk`, `Split`, `Join`, `SetKeys`, `ToVolumeContext`, `ResolvedCaptureRepo` | `params.rs`. A parameter map is a record with the keys that are given; a seed parameter is a sequence of references and separators. |
| `CreateVolume`, `WithSource`, `DeleteVolume`, `CreateSnapshot`, `SnapshotTarget`, `DeleteSnapshot` | `controller.rs` |
| `NodePublishVolume`, `EffectiveAccessMode`, `SpecOf`, `Lowers`, `UpperOf`, `NodeUnpublishVolume` | `node.rs`, `mount.rs` |
| `LayersOf`, `PushRevision`, `PushedRef` | `registry.rs`: a reference has a tag, and a digest if it is pinned |
| `View`, `Write`, `MoveSeed` | merged view, pod, registry (external) |

A layer is what it says of one file: a version, or 0 for nothing. `View` is the topmost
layer that has the file; the first seed is the top (`mount.rs:35`). `pv[n].class`,
`pv[n].source` and the `frozen` records are read by the properties only. `TagOf` is
`sanitize_tag`, as a function from names to tags. The answer of a `CreateSnapshot` may be
lost, or be that of a call the CO has given up: the push has been done all the same.
The upper is kept at an unmount, whatever the lifecycle; what `rspacefs-mount` does with an
ephemeral one is not part of this repository.

## 3. Runs

All runs have two pods, freezes, pulls, volumes or clients at least, the least with which
anything shared can go wrong, and a retry is always possible. Bounds: `MaxWrites` versions
of the upper (one or two: an old one and a newer one; none where nothing depends on them),
`MaxMounts`, `MaxOrphans`, `NChunks`, four
processes (an old one, two that may overlap and the last), references of seven characters
(`h:p/r:t` with one character each) and names one longer than a tag. No run has a state
constraint.

| Run | Shows | Distinct states |
|---|---|---|
| `NodeHandoff` | `NoLoss`, `ImplementsVolume` for one consumer at a time; all faults but a `publish.json` that cannot be written or read, file operations that outlive their call, a reboot and a push delayed past the next publish; two leftovers at a time | 471,455 |
| `NodeServed` | `RunningStaysMounted` for two consumers; all faults but the reuse of a path with leftovers | 945,179 |
| `NodeUnpublishes` | `UnpublishCompletes`, `UnpublishedMeansGone` with failures that pass; everything is removed that is to be removed, no call is given up, no process dies | 608 |
| `Freezes` | `ManifestsComplete`, `SnapshotFaithful`, `ImplementsSnapshots`, `FreezeEnds`; two freezes, all faults, a registry that verifies blobs and one that also checks manifests and collects garbage | 325,296 |
| `VolumeLife` | `MountedAsAsked`, `CloneOfWholeShowsSource`, `CaptureStays`; a seeded and an empty class, both captured, and one that is refused; snapshots go to the repository of the captures and the seed | 686,500 |
| `Cache` | `PulledIsSeed`, `CacheIntact`, `BlobsSealed`, `PullsRecover`; two pulls at once, all faults | 266,462 |
| `ServerLife` | `ServingReachable`, `NeverUnimplemented`, `AlwaysAnswered`; role `all` | 18,566 |
| `Names` | `ParseFollowsGrammar`, `CaptureKeepsRepo`, `SnapshotIsSeed`, `TagIsName` | 152,915 |

`Names` stops when its strings are at their bounds; that is its only reason for not checking
deadlock.

### Where the code and what is said of it part

| Run | What TLC finds |
|---|---|
| `NodeDeadDaemon` | With a dead daemon, `unmount` takes the target for absent (`mount.rs:104`); the unpublish answers OK with mount and directory in place. |
| `NodeMountFails` | After a failed `rspacefs-mount` the target is a plain directory; every unpublish fails, because there is nothing to unmount (`mount.rs:109`). |
| `CloneOfSeeded` | A snapshot holds the upper alone, and `create_volume` puts it below the seeds of the class (`controller.rs:99`): a clone, of the same class, of a volume whose file was written shows the file of the seed. |
| `NodeMoves` | A pod writes on one node and its unpublish captures that. The next pod is on the other node, where the upper is new and empty (`node.rs:137`) and the lowers are the seeds; its unpublish captures that upper, and the tag moves to a revision without the write. |

### Assumptions that cannot be dropped

The properties below hold under the assumptions of their runs or the exceptions they state.
When an assumption is lifted in the `.cfg`, or an exception in the property, TLC answers with
the trace described.

- `NoLoss` with `"persist"` or `"read"`: a publish that cannot write `publish.json` is answered
  OK (`node.rs:183`), and an unpublish that cannot read or parse it goes on as if there were
  none (`node.rs:263-264`); it unmounts without the capture that captureOnDelete promises
  (`src/README.md:97`: "Freeze the upper and push it as a new registry revision before unmount").
- `NoLoss` with `"linger"`: the write of a publish that was given up truncates `publish.json`
  (`node.rs:259`) after the retry was answered and the pod has written.
- `NoLoss` and `ImplementsVolume` with `"late"`, `"stray"` and `"cancel"`: the PUT of an
  unpublish that was given up reaches the registry after the volume was used and captured
  again, and moves the tag back (`registry.rs:427`).
- `NoLoss` with `SingleConsumer` FALSE: of two pods on one node, the first to go removes the
  `publish.json` of both (`node.rs:227`); the second is unmounted without a capture.
- `NoLoss` with `"crash"` and `"reboot"`: after a reboot a pod that has written is published
  again; the driver dies between truncating and writing `publish.json` (`node.rs:259`), and
  the pod's unpublish finds no context.
- `RunningStaysMounted` with `"reuse"`: an unmounter left by the unpublish of an earlier pod
  (`mount.rs:109-121`) unmounts what the next pod at the same path was given.
- `RunningStaysMounted` says that the mount is there, not that it is served: a daemon that dies,
  by itself or with the driver, leaves a running pod with a mount that fails every access, and
  the driver has no code that would notice.
- `UnpublishedMeansGone` with `"cancel"` or `"crash"`: the `rspacefs-mount` of a publish that
  was given up mounts after the unpublish has been answered; or a publish that had mounted is
  tried again, stacks a second mount, and an unpublish removes one. After a crash daemons are
  dead, as in `NodeDeadDaemon`. With `"rmdir"`: the error of `remove_dir` is dropped
  (`node.rs:226`).
- `UnpublishCompletes` with `"daemon"`, `"crash"`, `"cancel"`, `"reboot"` or with
  `HasCaptureRepo` FALSE: the capture needs a live daemon and a repo; an unpublish dropped
  between unmounting and removing `publish.json` will never find a daemon again. With two
  consumers, the daemon that owns the control socket may be unmounted first.
- `UnpublishCompletes` with `"rmdir"` or `"rmstate"`: a directory or a `publish.json` is left by
  an unpublish that was answered OK (`node.rs:226-227`). When the next publish there fails in
  its pull, before anything is mounted, its unpublish has nothing to unmount or no daemon to
  capture from, and fails for ever.
- `CloneOfWholeShowsSource` for a source with lowers and a class without seed: the clone has
  the frozen upper and nothing of what was below it.
- `CaptureStays` with a `TagOf` that gives two names one tag, or a name the tag of a seed:
  one overwrites the other (`node.rs:302`).
- A volume of a class with captureOnDelete, no captureRepo and no seed can be created and
  published and never unpublished (`node.rs:275`); `--capture-registry` is not asked.
- `delete_volume` leaves the upper (`controller.rs:133`): a volume created again under its
  name starts with the old writes, so no property compares a first mount with its seeds.
- The doc comments say that without a captureRepo a freeze goes to the seed's repository
  (`params.rs:20-21`: "Defaults to the first seed's registry+repo"). The capture at an unpublish
  does that (`resolved_capture_repo`); `snapshot_target` does not (`controller.rs:288-307`): it
  takes the captureRepo of the snapshot class, or `<capture-registry>/pvcs/<volume>`
  (`driver.rs:42-45`), or refuses. `Provision!SnapshotTarget` and `Names!SnapshotRepo` follow
  the code.
- A `create_snapshot` repeated with its name freezes again (`controller.rs:159`) and answers
  with another id; each id stays what it was.
- `CacheIntact` for a digest that two pulls fetch at once: one renames a partial file that the
  other has just truncated (`registry.rs:355`). For one hit by a power loss: the rename is not
  preceded by a sync (`registry.rs:357`). Later pulls find the name and take it as it is.
- `SnapshotFaithful` with a registry that does not verify: a staging file that another freeze
  has replaced or written into, and that has the expected length, is uploaded under the wrong
  digest (`registry.rs:374`). With one that collects garbage and does not check manifests: the
  blob that was uploaded, or that the HEAD found (`registry.rs:286`), is gone when the manifest
  arrives.
- `ServingReachable` for servers that overlap: the new one removes the socket of the old one
  (`server.rs:94`), or the old one, on its way out, that of the new one (`server.rs:88`),
  which goes on serving where nobody can reach it.
- `CaptureKeepsRepo` for a seed with both a tag and a digest, which the doc comment of
  `Reference` does not allow: `parse` takes `repo:tag` for the repository,
  `resolved_capture_repo` takes `repo`.
- `CaptureKeepsRepo` says nothing of an explicit `captureRepo`. One without a `/` is accepted
  by `create_volume` and makes every unpublish fail, when the target is parsed; one with a tag
  gives a repository with a `:` in it.

### Fairness

`NodePlugin!Fairness`: the runtime runs every handler on and what a handler left behind comes to
its end (weak fairness); the kubelet retries an unpublish for ever (weak; it does not have to publish
anything). Strong fairness of `Capture`, `Push` and `Unmount` says that a step that
can fail for a passing reason does not fail every time it is tried. `FreezePush!LiveSpec`:
every call that can go on does, and callers have a deadline. The driver sets no timeout on
the daemon or the registry (`control.rs:69`, `registry.rs:191`), so without that deadline a
call that hangs does not end. `LowerCache!LiveSpec`: a pull runs on, and the kubelet repeats a
publish until it has succeeded. `Server!Fairness`: a process runs on, a client tries again, a
handler returns; nobody has to start, stop or call anything.

## 4. Proofs

For any sets of targets, freezes, pulls, digests, manifests, volumes, processes and
strings, and any bounds:

| Theorem | Property | Assumes |
|---|---|---|
| `NodePluginProofs!HandoffKeepsData` | `NoLoss` | `SingleConsumer`; `NoHandoffFault`: none of `"persist"`, `"read"`, `"linger"`, `"reboot"`, `"stray"` |
| `NodeImplementsVolume` | `ImplementsVolume` | the same, and captureOnDelete |
| `RunningIsMounted` | `RunningStaysMounted` | no `"reuse"` |
| `UnpublishedIsUnserved` | no live mount at a target whose unpublish was answered | no `"cancel"` |
| `UnpublishedIsGone` | `UnpublishedMeansGone` | none of `"cancel"`, `"crash"`, `"daemon"`, `"rmdir"` |
| `FreezePushProofs!TypeCorrect` | `TypeOK` | |
| `RegistryStaysComplete` | `ManifestsComplete` | `RegistryIsSound`: blobs are verified; manifests are checked or no garbage is collected |
| `SnapshotsAreFaithful` | `SnapshotFaithful` | the same |
| `FreezesImplementSnapshots` | `ImplementsSnapshots` | the same |
| `LowerCacheProofs!SeedIsMounted` | `PulledIsSeed` | |
| `CacheIsVerified` | `CacheIntact` | |
| `CachedBlobsAreSealed` | `BlobsSealed` | |
| `ProvisionProofs!TypeCorrect` | `TypeOK` | |
| `RoundTrip` | `Parse(ToVolumeContext(p)) = p`, and it is accepted | `IsParams`: `p` has the type of `PvcParams` |
| `ContextFaithful` | `MountedAsAsked` | |
| `ClonesShow` | `CloneOfWholeShowsSource` | |
| `CapturesStay` | `CaptureStays` | `TagsApart`: tags do not collide |
| `ServerProofs!TypeCorrect` | `TypeOK` | |
| `AloneIsReachable` | `ServingReachable` | |
| `OfferedIsImplemented` | `NeverUnimplemented` | |
| `NamesProofs!ParsedByGrammar` | `ParseFollowsGrammar` | |
| `CapturesGoHome` | `CaptureKeepsRepo` | |
| `SnapshotsAreSeeds` | `SnapshotIsSeed` | |
| `TagsAreNames` | `TagIsName` | |

The types of `NodePlugin` and `LowerCache` are proved as well (`TypeCorrect`), as the ground the
other proofs stand on. Besides these only the named `ASSUME`s on the constants are used. The longest is that of
`Provision`: a seed parameter is made of references and separators, a `captureRepo` of a
snapshot class is a repository, and the values that stand for "by tag", "separator" and
"not set" are different from those that are none of these.

The inductive invariants:

- **Hand-off.** `NoLoss` speaks of the end. In between, what keeps the writes safe is either
  `publish.json` (a running pod has one: `StateKept`) or the registry (`UpperPushed`: before
  a pod runs, past the push, and while an unpublish is tried again after it had removed
  the file). `CaptureFresh` closes the gap between capture and push, and needs that nobody
  else writes (`OneConsumer`). `LateFresh` does the same for the pushes left behind by
  handlers that ended there: they carry the whole upper, and nobody has the volume. `NoFileWork`:
  only processes outlive their handlers, so nobody but a handler touches `publish.json`.
- **Refinement.** `VolumeStep`: with that invariant a `Push` or a `LateArrives` is a `Capture`
  of the abstract volume, an unpublish answered OK a `Release`, and every other step but the
  kubelet's and the pod's leaves what the mapping sees as it was.
- **Mounted.** `HasMount` extends the claim back to the moment after the mount.
  `LeftByUnpublish`: an unmounter or a `remove_dir` that outlived its handler belongs to an
  unpublish, and no pod is given its target before it has ended; that is where `"reuse"` is
  needed.
- **Gone.** `UnservedInv`: without dropped handlers nothing outlives one and a target has one
  mount at most, since a publish that is tried again has not mounted, or finds its mount dead
  and `create_dir_all` fails; a target nobody uses may have a dead mount, never a live one. That
  is `UnpublishedIsUnserved`, which has no run of its own. With `CleanedUp` (mounts are live,
  so `exists()` means what the code takes it to mean, and `remove_dir` has worked) it is
  `UnpublishedMeansGone`.
- **Registry.** `BlobsTrue`: under a digest there is its content or nothing. Without manifest
  checks, `UploadsDone` says that a call finds what it, or the HEAD, has seen.
  `AnswerInv` carries the version captured from the daemon's answer to the caller's.
- **Store of snapshots.** `SnapshotStep`: `ManifestsComplete` before and after a step makes what
  can be pulled the same as the manifests (`AllPullable`), which only `PutManifest` adds to. A
  step that moves a call within one stage is a stutter (`Moves`), and an error, a hang or a
  daemon that goes is a `Fail` of the calls it hits, at once.
- **Seed.** `Progress`: the layers done and the layers to go are the manifest from its top
  down, and no step takes a blob out of the cache (`BlobsStay`).
- **Cache.** `Writing`: only a pull that streams has a file open. `Received`: what was received
  is in the partial file, good as long as the hash is, and that is the file the pull writes to;
  so no blob is open for writing. That needs `Solo`: a digest that is not spoiled has one pull
  fetching it.
- **Captures.** `CaptureStays` follows from `TypeOK` step by step: a push moves one tag
  (`PushKeepsTags`), to the upper of a mounted volume, which exists.
- **Context.** `LifeInv`: a snapshot id is pinned to the layer that was frozen (`SnapsPinned`), a
  volume's context is what `to_volume_context` makes of its class and source
  (`ContextsKept`), and a mount and its `publish.json` come from that context (`MountsKept`).
  `MountedAsAsked` then is `RoundTrip`: every key separately, and for the seeds `SplitJoin`, that
  splitting a joined list gives the list back. What a clone shows follows from the pin: its
  one lower is the frozen upper (`LowersOfPinned`, `Views`).
- **Loops.** `Split` and `Lowers` are recursive functions over the positions of a sequence. That
  such a function exists is `UpToRecursion`, what it computes is shown with `UpToInduction`, both
  in `NatRecursion`; they speak of sets and functions, not of operators, so that the provers
  can use them. `Least`, the well-ordering of the naturals, is what they rest on.
- **Server.** `AloneOwns`: a process that never met another is the only one alive, and from
  its bind on the path is its own. `AsksRight`: capabilities are learnt from the service that
  has them, so what is asked for is implemented.
- **Names.** No induction: each property holds of every pair of strings. `FirstIsFirst`, from
  the well-ordering of the naturals, says what `find` finds. `JoinOfParts` and `PartsOfJoin`
  say that cutting and joining undo each other at the first `@` or `/` and at the tag's `:`.
  `SplitCases` gives the three forms of a reference, and `ParseTagged` and `ParseDigest` that
  what is put together as `name:tag` or `name@digest` comes apart there again.

Every safety property that a passing run checks is proved. Only model-checked are the
liveness properties `UnpublishCompletes`, `FreezeEnds`, `PullsRecover` and `AlwaysAnswered`,
since the prover handles neither fairness nor `ENABLED`. `MoveKeepsData` and
`CloneShowsSource` do not hold.

## 5. Not modelled

- The CSI bindings (generated) and the deployment manifests (static; what they say of where
  sockets and daemons live is used in `Server` and `NodePlugin`).
- Answers without state: name, version and probe, the unsupported RPCs beyond their being
  unimplemented, `validate_volume_capabilities`, empty arguments, capacity.
- Parsing of arguments and of the endpoint, and logging.
- Time: a timeout is a call that may be given up at any moment.
- In `FreezePush` a request whose caller has gone is handled at once or never; that it may be
  handled later is in `NodePlugin` (`late`), where the tag matters. A file write that goes on
  in tokio's blocking pool after its task was dropped is modelled in `NodePlugin`, for
  `publish.json` and the directories. In `LowerCache` it is not: a pull that is stopped writes
  nothing more, although the last chunk may still be on its way to the partial file.
- The line protocol of the control socket beyond a request, an answer and its absence.
- A volume's whole life across nodes: `Cluster` has the node service of two nodes without the
  controller's calls, `Provision` has those with one node.
- The layered file system, FUSE and the registry beyond what the driver sees of them.
