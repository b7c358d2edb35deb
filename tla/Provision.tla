------------------------------ MODULE Provision ------------------------------
(***************************************************************************)
(* The life of volumes, snapshots and clones across the two services:      *)
(* CreateVolume and CreateSnapshot of controller.rs, the volume context    *)
(* that carries the parameters of a StorageClass to the node (params.rs),  *)
(* and what NodePublishVolume mounts and NodeUnpublishVolume captures      *)
(* because of it.  Both services run on one host (role all).               *)
(*                                                                         *)
(* A call is one step: what happens inside one is the subject of           *)
(* NodePlugin, FreezePush and LowerCache.  A layer is what it says of one  *)
(* file: a version of it, or 0 for nothing.                                *)
(***************************************************************************)
EXTENDS Naturals, Sequences

CONSTANTS
  Names,            \* names of volumes, which are their ids
  SnapNames,        \* names of snapshots
  TagOf,            \* sanitize_tag: names to tags
  Repos,            \* repositories, <capture_registry>/pvcs/<id> among them
  PvcRepo,          \* a volume's <capture_registry>/pvcs/<id>
  CaptureRegistry,  \* --capture-registry is given
  Classes,          \* parameters of the StorageClasses
  SnapClasses,      \* parameters of the VolumeSnapshotClasses
  Seeds,            \* references of the data artifacts there are at first
  MaxVersion,       \* bound on the versions of the file
  Sep,              \* a separator in a seed parameter
  ByTag,            \* the pin of a reference without digest
  None              \* no such thing

Tags == {TagOf[n] : n \in Names \cup SnapNames} \cup {r.tag : r \in Seeds}

\* References: by tag, or pinned to a digest.
Refs == [repo : Repos, tag : Tags, pin : Nat \cup {ByTag}]

\* The parameters of a class are any map; a seed parameter is made of references
\* and separators, and what is captured goes to a repository.
ASSUME ProvisionAssumption ==
  /\ TagOf \in [Names \cup SnapNames -> Tags]
  /\ PvcRepo \in [Names -> Repos]
  /\ CaptureRegistry \in BOOLEAN
  /\ Seeds \subseteq [repo : Repos, tag : Tags, pin : {ByTag}]
  /\ MaxVersion \in Nat \ {0}
  /\ \A c \in Classes : "seed" \in DOMAIN c => c.seed \in Seq(Refs \cup {Sep})
  /\ \A c \in SnapClasses : "captureRepo" \in DOMAIN c => c.captureRepo \in Repos
  /\ ByTag \notin Nat /\ Sep \notin Refs
  /\ None \notin Refs \cup {"empty", "ro", "rwo", "rwx"}
                     \cup {"persistent", "ephemeral", "ephemeral-then-persistent"}

VARIABLES
  pv,       \* what the CO keeps of each volume: its context, and the request
  snaps,    \* what the CO keeps of each snapshot: its id, and what was frozen
  tags,     \* the registry: the layers of the manifest each tag points to
  upper,    \* the upper directory of each volume name, None if there is none
  mnt,      \* what is mounted of each volume, with its publish.json
  version   \* the newest version of the file anywhere

vars == <<pv, snaps, tags, upper, mnt, version>>

-----------------------------------------------------------------------------
(* params.rs *)

Get(m, k, default) == IF k \in DOMAIN m THEN m[k] ELSE default

\* The spellings AccessMode::parse and Lifecycle::parse accept, up to case and
\* surrounding space; a mode or lifecycle is named by its flag (as_flag).
AccessMode ==
  [empty |-> "empty", ro |-> "ro", readonly |-> "ro", rwo |-> "rwo",
   readwriteonce |-> "rwo", rwx |-> "rwx", readwritemany |-> "rwx"]

Lifecycle ==
  [s \in {"persistent", "ephemeral", "ephemeral-then-persistent",
           "ephemeralthenpersistent"} |->
     IF s = "ephemeralthenpersistent" THEN "ephemeral-then-persistent" ELSE s]

\* PvcParams::parse accepts m.
ParseOk(m) ==
  /\ "accessMode" \in DOMAIN m => m.accessMode \in DOMAIN AccessMode
  /\ "lifecycle" \in DOMAIN m => m.lifecycle \in DOMAIN Lifecycle

\* split and filter: what is between the separators, if anything is.
Split(s) ==
  LET upto[i \in 0..Len(s)] ==
        IF i = 0 THEN <<>>
        ELSE IF s[i] = Sep THEN upto[i - 1] ELSE Append(upto[i - 1], s[i])
  IN upto[Len(s)]

\* What PvcParams::parse makes of it.
Parse(m) ==
  [seeds |-> Split(Get(m, "seed", <<>>)),
   mode |-> IF "accessMode" \in DOMAIN m THEN AccessMode[m.accessMode] ELSE None,
   lifecycle |-> IF "lifecycle" \in DOMAIN m THEN Lifecycle[m.lifecycle] ELSE None,
   owner |-> Get(m, "owner", None),
   capture |-> Get(m, "captureOnDelete", "false") \in {"true", "1"},
   repo |-> Get(m, "captureRepo", None)]

\* seeds.join(","): a separator between every two.
Join(seeds) ==
  [i \in 1..(2 * Len(seeds) - 1) |->
     IF i % 2 = 1 THEN seeds[(i + 1) \div 2] ELSE Sep]

\* The keys of the context: seeds if there are any, captureOnDelete if it is
\* on, the others if they are set.
SetKeys(p, all) ==
  {k \in DOMAIN all :
     CASE k = "seed" -> p.seeds # <<>>
       [] k = "captureOnDelete" -> p.capture
       [] OTHER -> all[k] # None}

\* Deviation: one seed is written, where there may be several.
ToVolumeContextFirstSeed(p) ==
  LET all == [seed |-> IF p.seeds = <<>> THEN <<>> ELSE <<p.seeds[1]>>,
              accessMode |-> p.mode,
              lifecycle |-> p.lifecycle, owner |-> p.owner,
              captureOnDelete |-> "true", captureRepo |-> p.repo]
  IN [k \in SetKeys(p, all) |-> all[k]]

\* PvcParams::to_volume_context: only what is set gets a key.
ToVolumeContext(p) ==
  LET all == [seed |-> Join(p.seeds), accessMode |-> p.mode,
              lifecycle |-> p.lifecycle, owner |-> p.owner,
              captureOnDelete |-> "true", captureRepo |-> p.repo]
  IN [k \in SetKeys(p, all) |-> all[k]]

\* PvcParams::resolved_capture_repo: captureRepo, or the first seed without its
\* tag or digest.
ResolvedCaptureRepo(p) ==
  IF p.repo # None THEN p.repo
  ELSE IF p.seeds # <<>> THEN p.seeds[1].repo ELSE None

-----------------------------------------------------------------------------
(* The registry: a tag points to the manifest pushed last, a digest to one *)
(* manifest for ever.  A manifest pushed by the driver has its tag for a   *)
(* title and one layer, so its digest stands for the two together.         *)

TagRef(repo, tag) == [repo |-> repo, tag |-> tag, pin |-> ByTag]

\* The layers of a reference, top first; <<>> if there is no such manifest.
LayersOf(ref) ==
  IF ref.pin = ByTag THEN tags[<<ref.repo, ref.tag>>] ELSE <<ref.pin>>

\* push_revision of one captured layer.
PushRevision(ref, layer) ==
  tags' = [tags EXCEPT ![<<ref.repo, ref.tag>>] = <<layer>>]

\* Deviation: push_revision answers with the reference it was given.
PushedRefByTag(ref, layer) == ref

\* The canonical reference push_revision answers with, which has the digest.
PushedRef(ref, layer) == [ref EXCEPT !.pin = layer]

-----------------------------------------------------------------------------
(* controller.rs *)

\* The seeds of a new volume: those of its class, then the source snapshot.
WithSource(p, source) ==
  IF source = None THEN p ELSE [p EXCEPT !.seeds = Append(@, source)]

\* create_volume for a class, from a snapshot or from none.  The CO keeps the
\* context that is answered; request and frozen are for the properties.
CreateVolume(n, class, s) ==
  LET source == IF s = None THEN None ELSE snaps[s].id
      p == WithSource(Parse(class), source)
  IN /\ pv[n] = None
     /\ s # None => snaps[s] # None
     /\ ParseOk(class)
     /\ \A i \in 1..Len(p.seeds) : LayersOf(p.seeds[i]) # <<>>
     /\ pv' = [pv EXCEPT ![n] =
          [ctx |-> ToVolumeContext(p), class |-> class, source |-> source,
           frozen |-> IF s = None THEN None ELSE snaps[s].frozen]]
     /\ UNCHANGED <<snaps, tags, upper, mnt, version>>

\* delete_volume: nothing but the answer.
DeleteVolume(n) ==
  /\ pv[n] # None /\ mnt[n] = None
  /\ pv' = [pv EXCEPT ![n] = None]
  /\ UNCHANGED <<snaps, tags, upper, mnt, version>>

\* Deviation: the tag is made of the volume's name.
SnapshotTargetByVolume(class, n, s) ==
  IF "captureRepo" \in DOMAIN class THEN TagRef(class.captureRepo, TagOf[n])
  ELSE IF CaptureRegistry THEN TagRef(PvcRepo[n], TagOf[n]) ELSE None

\* snapshot_target, None for its error.
SnapshotTarget(class, n, s) ==
  IF "captureRepo" \in DOMAIN class THEN TagRef(class.captureRepo, TagOf[s])
  ELSE IF CaptureRegistry THEN TagRef(PvcRepo[n], TagOf[s]) ELSE None

-----------------------------------------------------------------------------
(* node.rs *)

\* effective_access_mode
EffectiveAccessMode(p, readonly) ==
  IF readonly THEN "ro"
  ELSE IF p.mode # None THEN p.mode
  ELSE IF p.seeds = <<>> THEN "empty" ELSE "rwo"

\* The MountSpec for parameters p.
SpecOf(p, readonly) ==
  [seeds |-> p.seeds,
   mode |-> EffectiveAccessMode(p, readonly),
   lifecycle |-> IF p.lifecycle = None THEN "persistent" ELSE p.lifecycle,
   owner |-> p.owner]

\* The layers of every seed, in the order of the seeds.
Lowers(seeds) ==
  LET upto[i \in 0..Len(seeds)] ==
        IF i = 0 THEN <<>> ELSE upto[i - 1] \o LayersOf(seeds[i])
  IN upto[Len(seeds)]

\* Deviation: the upper is left to be made by somebody else.
UpperOfAsIs(n) == upper[n]

\* The upper directory of n after create_dir_all.
UpperOf(n) == IF upper[n] = None THEN 0 ELSE upper[n]

\* What a pod sees of the file: the topmost layer that has it.
View(top, lowers) ==
  LET all == <<top>> \o lowers
      having == {i \in 1..Len(all) : all[i] # 0}
  IN IF having = {} THEN 0
     ELSE all[CHOOSE i \in having : \A j \in having : i <= j]

\* node_publish_volume
NodePublishVolume(n, readonly) ==
  LET p == Parse(pv[n].ctx)
  IN /\ pv[n] # None /\ mnt[n] = None
     /\ ParseOk(pv[n].ctx)
     /\ \A i \in 1..Len(p.seeds) : LayersOf(p.seeds[i]) # <<>>
     /\ upper' = [upper EXCEPT ![n] = UpperOf(n)]
     /\ mnt' = [mnt EXCEPT ![n] =
          [spec |-> SpecOf(p, readonly), readonly |-> readonly,
           lowers |-> Lowers(p.seeds), publishJson |-> pv[n].ctx]]
     /\ UNCHANGED <<pv, snaps, tags, version>>

\* node_unpublish_volume: freeze_on_unpublish if the context asks for it, which
\* fails without a repository; then the unmount.
NodeUnpublishVolume(n) ==
  /\ mnt[n] # None
  /\ LET p == Parse(mnt[n].publishJson)
         repo == ResolvedCaptureRepo(p)
     IN \/ p.capture /\ repo # None /\ PushRevision(TagRef(repo, TagOf[n]), upper[n])
        \/ ~p.capture /\ UNCHANGED tags
  /\ mnt' = [mnt EXCEPT ![n] = None]
  /\ UNCHANGED <<pv, snaps, upper, version>>

-----------------------------------------------------------------------------
\* create_snapshot of a mounted volume.  The answer may get lost: the CO asks
\* again, and what was pushed stays.
CreateSnapshot(s, n, class) ==
  LET target == SnapshotTarget(class, n, s)
  IN /\ mnt[n] # None
     /\ target # None
     /\ PushRevision(target, upper[n])
     /\ \/ /\ snaps[s] = None
           /\ snaps' = [snaps EXCEPT ![s] =
                [id |-> PushedRef(target, upper[n]),
                 frozen |-> [view |-> View(upper[n], mnt[n].lowers),
                             whole |-> mnt[n].lowers = <<>>]]]
        \/ UNCHANGED snaps
     /\ UNCHANGED <<pv, upper, mnt, version>>

\* delete_snapshot: nothing but the answer.
DeleteSnapshot(s) ==
  /\ snaps[s] # None
  /\ snaps' = [snaps EXCEPT ![s] = None]
  /\ UNCHANGED <<pv, tags, upper, mnt, version>>

\* The pod writes the file.
Write(n) ==
  /\ mnt[n] # None /\ mnt[n].spec.mode # "ro"
  /\ version < MaxVersion
  /\ version' = version + 1
  /\ upper' = [upper EXCEPT ![n] = version + 1]
  /\ UNCHANGED <<pv, snaps, tags, mnt>>

\* Somebody pushes a new revision of a seed.
MoveSeed(r) ==
  /\ version < MaxVersion
  /\ version' = version + 1
  /\ PushRevision(r, version + 1)
  /\ UNCHANGED <<pv, snaps, upper, mnt>>

-----------------------------------------------------------------------------
Init ==
  /\ pv = [n \in Names |-> None]
  /\ snaps = [s \in SnapNames |-> None]
  /\ tags = [x \in Repos \X Tags |-> IF TagRef(x[1], x[2]) \in Seeds THEN <<1>> ELSE <<>>]
  /\ upper = [n \in Names |-> None]
  /\ mnt = [n \in Names |-> None]
  /\ version = 1

Next ==
  \/ \E n \in Names :
       \/ \E class \in Classes, s \in SnapNames \cup {None} : CreateVolume(n, class, s)
       \/ DeleteVolume(n)
       \/ \E readonly \in BOOLEAN : NodePublishVolume(n, readonly)
       \/ NodeUnpublishVolume(n)
       \/ Write(n)
       \/ \E s \in SnapNames, class \in SnapClasses : CreateSnapshot(s, n, class)
  \/ \E s \in SnapNames : DeleteSnapshot(s)
  \/ \E r \in Seeds : MoveSeed(r)

Spec == Init /\ [][Next]_vars

-----------------------------------------------------------------------------
(* Properties *)

Mounted == {n \in Names : mnt[n] # None}

\* Every variable keeps its type, and what is mounted has an upper directory to
\* write to and to capture (node.rs:153).
TypeOK ==
  /\ DOMAIN pv = Names /\ DOMAIN mnt = Names /\ DOMAIN snaps = SnapNames
  /\ tags \in [Repos \X Tags -> Seq(Nat)]
  /\ upper \in [Names -> Nat \cup {None}]
  /\ \A n \in Mounted : upper[n] \in Nat
  /\ version \in Nat

\* The volume context loses nothing on its way (params.rs:152-173, node.rs:132):
\* the node accepts what CreateVolume answered, it mounts what class and source
\* snapshot ask for, and publish.json asks for a capture, to the same repository,
\* if and only if the class does.
MountedAsAsked ==
  \A n \in Names :
    LET asked == WithSource(Parse(pv[n].class), pv[n].source)
    IN /\ pv[n] # None => ParseOk(pv[n].ctx)
       /\ mnt[n] # None => /\ mnt[n].spec = SpecOf(asked, mnt[n].readonly)
                           /\ Parse(mnt[n].publishJson) = asked

\* What the last unpublish captured stays where it was pushed (node.rs:280-296),
\* whatever other volumes capture and snapshots push: the tag of a volume moves
\* only when that volume is unpublished, and then to what it held.
CaptureStays ==
  [][\A n \in Names, repo \in Repos :
       LET tag == <<repo, TagOf[n]>>
       IN tags'[tag] # tags[tag] =>
            n \in Mounted /\ mnt'[n] = None /\ tags'[tag] = <<upper[n]>>]_vars

\* "Attach a copy" (controller.rs:93-101): until it is written to, a clone shows
\* what the volume showed when it was frozen.
CloneShowsSource ==
  \A n \in Mounted :
    pv[n].source # None /\ upper[n] = 0
      => View(upper[n], mnt[n].lowers) = pv[n].frozen.view

\* The same where the frozen upper is all there is: the volume was mounted
\* without lowers, and the class of the clone has no seeds of its own.
CloneOfWholeShowsSource ==
  \A n \in Mounted :
    pv[n].source # None /\ upper[n] = 0
      /\ pv[n].frozen.whole /\ Parse(pv[n].class).seeds = <<>>
      => View(upper[n], mnt[n].lowers) = pv[n].frozen.view

=============================================================================
