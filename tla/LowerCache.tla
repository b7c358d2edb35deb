------------------------------ MODULE LowerCache ------------------------------
(***************************************************************************)
(* pull_layers and pull_blob_to of registry.rs: the lowers directory of one *)
(* volume, a cache of layer blobs that NodePublishVolume fills from the     *)
(* registry before it mounts.                                               *)
(*                                                                          *)
(* A blob is pulled in Chunks.  Two pulls of one digest open the same       *)
(* <digest>.blob.partial, each with its own offset, and neither a rename    *)
(* nor a removal closes what is open: a pull writes to the file it opened,  *)
(* whatever name that file has by then.  The digest is computed over what   *)
(* the stream delivers, not over what the file holds.                       *)
(***************************************************************************)
EXTENDS Naturals, Sequences, SequencesExt

CONSTANTS
  Pulls,      \* calls of pull_layers for the volume's seed
  Digests,    \* layer digests
  Manifests,  \* manifests the seed's tag may point to: layers, base first
  NoFile,     \* what a name stands for when there is no file
  TooLong,    \* what a file holds that goes on after its last chunk
  NChunks,    \* chunks per blob
  Faults      \* what may go wrong, see FaultKinds

\* error: a call or a file operation fails, or the caller gives up; corrupt,
\* short, long: the stream delivers something else, too little or too much;
\* stat: a cached blob cannot be looked up; power: the node loses power.
FaultKinds == {"error", "corrupt", "short", "long", "stat", "power"}

ASSUME CacheAssumption ==
  /\ Manifests \subseteq Seq(Digests)
  /\ NChunks \in Nat \ {0}
  /\ Faults \subseteq FaultKinds
  /\ "power" \in Faults => "error" \in Faults

Chunks == 1..NChunks

\* What a file holds: "good" where it is as its digest has it, "bad" where it is
\* wrong, a hole or not there; or more than there are chunks.
Contents == [Chunks -> {"good", "bad"}] \cup {TooLong}

ASSUME FileAssumption ==
  /\ NoFile \notin Contents
  /\ TooLong \notin [Chunks -> {"good", "bad"}]

VARIABLES
  calm,     \* nothing goes wrong any more
  blob,     \* what <digest>.blob holds
  partial,  \* what <digest>.blob.partial holds
  spoiled,  \* digests that two pulls fetched at once, or whose cached blob
            \* a power loss emptied
  pc,       \* where each pull is
  resolved, \* the manifest it fetched
  todo,     \* layers to go, top first
  paths,    \* blobs to mount, top first
  fd,       \* the name the file it writes has now: "partial", "blob", or "gone"
            \* when it has lost its name; "none" when it writes no file
  n,        \* chunks received of the current layer
  hash      \* the chunks received are those of the digest

fileVars == <<blob, partial, spoiled>>
pullVars == <<resolved, todo, paths, fd, n, hash>>
vars == <<calm, blob, partial, spoiled, pc, resolved, todo, paths, fd, n, hash>>

Active(p) == pc[p] \in {"resolve", "check", "open", "stream", "rename"}

\* The pull found no blob of the digest, or could not look, and is fetching it.
Fetching(p, d) == pc[p] \in {"open", "stream", "rename"} /\ Head(todo[p]) = d

Intact(file) == file = [k \in Chunks |-> "good"]

Empty == [k \in Chunks |-> "bad"]

Init ==
  /\ calm = FALSE
  /\ blob = [d \in Digests |-> NoFile]
  /\ partial = [d \in Digests |-> NoFile]
  /\ spoiled = {}
  /\ pc = [p \in Pulls |-> "idle"]
  /\ resolved = [p \in Pulls |-> <<>>]
  /\ todo = [p \in Pulls |-> <<>>]
  /\ paths = [p \in Pulls |-> <<>>]
  /\ fd = [p \in Pulls |-> "none"]
  /\ n = [p \in Pulls |-> 0]
  /\ hash = [p \in Pulls |-> TRUE]

May(fault) == fault \in Faults /\ ~calm

Goto(p, from, to) == pc[p] = from /\ pc' = [pc EXCEPT ![p] = to]

\* The pull has a file of the digest open.
Writes(p, d) == fd[p] # "none" /\ Head(todo[p]) = d

\* What the pulls write to once the partial file of d is removed, or renamed to
\* the blob, which loses its name if there was one.
Removed(d) ==
  [p \in Pulls |-> IF Writes(p, d) /\ fd[p] = "partial" THEN "gone" ELSE fd[p]]
Renamed(d) ==
  [p \in Pulls |-> IF ~Writes(p, d) THEN fd[p]
                   ELSE IF fd[p] = "partial" THEN "blob" ELSE "gone"]

\* pull_blob_to returns: its file and its hasher are dropped.  The others write
\* to what files says.
Close(p, files) ==
  /\ fd' = [files EXCEPT ![p] = "none"]
  /\ n' = [n EXCEPT ![p] = 0]
  /\ hash' = [hash EXCEPT ![p] = TRUE]

\* pull_layers returns an error, or is dropped.
Abort(p, files) ==
  /\ pc' = [pc EXCEPT ![p] = "idle"]
  /\ resolved' = [resolved EXCEPT ![p] = <<>>]
  /\ todo' = [todo EXCEPT ![p] = <<>>]
  /\ paths' = [paths EXCEPT ![p] = <<>>]
  /\ Close(p, files)

-----------------------------------------------------------------------------
(* pull_layers *)

\* NodePublishVolume pulls, for the first time or again.
Start(p) ==
  /\ ~Active(p)
  /\ pc' = [pc EXCEPT ![p] = "resolve"]
  /\ resolved' = [resolved EXCEPT ![p] = <<>>]
  /\ paths' = [paths EXCEPT ![p] = <<>>]
  /\ UNCHANGED <<calm, fileVars, todo, fd, n, hash>>

\* Deviation: the layers are kept in manifest order.
ResolveBaseFirst(p) ==
  /\ \E m \in Manifests :
       \/ /\ m # <<>> /\ Goto(p, "resolve", "check")
          /\ resolved' = [resolved EXCEPT ![p] = m]
          /\ todo' = [todo EXCEPT ![p] = m]
          /\ UNCHANGED <<paths, fd, n, hash>>
       \/ m = <<>> /\ ~calm /\ pc[p] = "resolve" /\ Abort(p, fd)
  /\ UNCHANGED <<calm, fileVars>>

\* fetch_manifest and parse_layers: the layers of what the tag points to by now,
\* top first; none is an error.
Resolve(p) ==
  /\ \E m \in Manifests :
       \/ /\ m # <<>> /\ Goto(p, "resolve", "check")
          /\ resolved' = [resolved EXCEPT ![p] = m]
          /\ todo' = [todo EXCEPT ![p] = Reverse(m)]
          /\ UNCHANGED <<paths, fd, n, hash>>
       \/ m = <<>> /\ ~calm /\ pc[p] = "resolve" /\ Abort(p, fd)
  /\ UNCHANGED <<calm, fileVars>>

\* The blob of the next layer is in place.
TakeLayer(p) ==
  /\ paths' = [paths EXCEPT ![p] = Append(@, Head(todo[p]))]
  /\ todo' = [todo EXCEPT ![p] = Tail(@)]

\* Nothing keeps other pulls from fetching the same layer.
MeetOthers(p) ==
  LET d == Head(todo[p]) IN
  spoiled' = IF \E q \in Pulls \ {p} : Fetching(q, d) THEN spoiled \cup {d} ELSE spoiled

\* try_exists of the next layer's blob, where an error counts as absent; no next
\* layer, and the pull is done.
Check(p) ==
  /\ \/ /\ todo[p] = <<>>
        /\ Goto(p, "check", "done") /\ UNCHANGED <<todo, paths, spoiled>>
     \/ /\ todo[p] # <<>> /\ blob[Head(todo[p])] # NoFile
        /\ Goto(p, "check", "check") /\ TakeLayer(p) /\ UNCHANGED spoiled
     \/ /\ todo[p] # <<>> /\ (blob[Head(todo[p])] = NoFile \/ May("stat"))
        /\ Goto(p, "check", "open") /\ MeetOthers(p) /\ UNCHANGED <<todo, paths>>
  /\ UNCHANGED <<calm, blob, partial, resolved, fd, n, hash>>

\* The partial file becomes the blob, whoever wrote it last.
Rename(p) ==
  LET d == Head(todo[p]) IN
  /\ pc[p] = "rename"
  /\ \/ /\ partial[d] # NoFile
        /\ Goto(p, "rename", "check") /\ TakeLayer(p)
        /\ blob' = [blob EXCEPT ![d] = partial[d]]
        /\ partial' = [partial EXCEPT ![d] = NoFile]
        /\ fd' = Renamed(d)
        /\ UNCHANGED <<resolved, n, hash>>
     \/ partial[d] = NoFile /\ Abort(p, fd) /\ UNCHANGED <<blob, partial>>
  /\ UNCHANGED <<calm, spoiled>>

-----------------------------------------------------------------------------
(* pull_blob_to *)

\* Deviation: a partial file left behind is appended to, as if the pull resumed.
OpenResuming(p) ==
  LET d == Head(todo[p]) IN
  /\ Goto(p, "open", "stream")
  /\ \/ /\ partial[d] = NoFile /\ partial' = [partial EXCEPT ![d] = Empty]
        /\ n' = [n EXCEPT ![p] = 0]
     \/ /\ partial[d] # NoFile /\ UNCHANGED partial
        /\ \E k \in 0..NChunks : n' = [n EXCEPT ![p] = k]
  /\ fd' = [fd EXCEPT ![p] = "partial"]
  /\ hash' = [hash EXCEPT ![p] = TRUE]
  /\ UNCHANGED <<calm, blob, spoiled, resolved, todo, paths>>

\* Deviation: the partial file has to be new (create_new).
OpenExclusive(p) ==
  LET d == Head(todo[p]) IN
  /\ pc[p] = "open"
  /\ \/ /\ partial[d] = NoFile
        /\ Goto(p, "open", "stream")
        /\ partial' = [partial EXCEPT ![d] = Empty]
        /\ fd' = [fd EXCEPT ![p] = "partial"]
        /\ n' = [n EXCEPT ![p] = 0]
        /\ hash' = [hash EXCEPT ![p] = TRUE]
        /\ UNCHANGED <<resolved, todo, paths>>
     \/ partial[d] # NoFile /\ Abort(p, fd) /\ UNCHANGED partial
  /\ UNCHANGED <<calm, blob, spoiled>>

\* Deviation: the blob is downloaded under its final name.
OpenInPlace(p) ==
  LET d == Head(todo[p]) IN
  /\ Goto(p, "open", "stream")
  /\ blob' = [blob EXCEPT ![d] = Empty]
  /\ fd' = [fd EXCEPT ![p] = "blob"]
  /\ n' = [n EXCEPT ![p] = 0]
  /\ hash' = [hash EXCEPT ![p] = TRUE]
  /\ UNCHANGED <<calm, partial, spoiled, resolved, todo, paths>>

\* The GET succeeds and File::create makes or truncates the partial file.
Open(p) ==
  LET d == Head(todo[p]) IN
  /\ Goto(p, "open", "stream")
  /\ partial' = [partial EXCEPT ![d] = Empty]
  /\ fd' = [fd EXCEPT ![p] = "partial"]
  /\ n' = [n EXCEPT ![p] = 0]
  /\ hash' = [hash EXCEPT ![p] = TRUE]
  /\ UNCHANGED <<calm, blob, spoiled, resolved, todo, paths>>

\* What the stream may deliver next; past the end there is nothing good.
Delivered(p) ==
  IF n[p] = NChunks THEN {"bad"}
                    ELSE IF May("corrupt") THEN {"good", "bad"} ELSE {"good"}

\* The file with chunk k written; only a truncation takes away what is too much.
With(file, k, c) ==
  IF file = TooLong \/ k > NChunks THEN TooLong ELSE [file EXCEPT ![k] = c]

\* write_all at the pull's own offset; what has lost its name nobody reads.
Write(p, c) ==
  LET d == Head(todo[p]) IN
  /\ partial' = IF fd[p] = "partial" THEN [partial EXCEPT ![d] = With(@, n[p] + 1, c)]
                                     ELSE partial
  /\ blob' = IF fd[p] = "blob" THEN [blob EXCEPT ![d] = With(@, n[p] + 1, c)] ELSE blob

\* The stream delivers a chunk, which is hashed and written, however many have
\* come before; one past the end stands for any number.
Chunk(p) ==
  /\ pc[p] = "stream"
  /\ n[p] < NChunks \/ (n[p] = NChunks /\ May("long"))
  /\ \E c \in Delivered(p) :
       /\ Write(p, c)
       /\ hash' = [hash EXCEPT ![p] = @ /\ c = "good"]
  /\ n' = [n EXCEPT ![p] = @ + 1]
  /\ UNCHANGED <<calm, spoiled, pc, resolved, todo, paths, fd>>

\* The stream ends, early perhaps; on a mismatch the partial file is removed, and
\* an error of the removal dropped.
Verify(p) ==
  LET d == Head(todo[p]) IN
  /\ pc[p] = "stream"
  /\ n[p] >= NChunks \/ May("short")
  /\ \/ /\ n[p] = NChunks /\ hash[p]
        /\ Goto(p, "stream", "rename") /\ Close(p, fd)
        /\ UNCHANGED <<partial, resolved, todo, paths>>
     \/ /\ ~(n[p] = NChunks /\ hash[p])
        /\ \/ partial' = [partial EXCEPT ![d] = NoFile] /\ Abort(p, Removed(d))
           \/ May("error") /\ UNCHANGED partial /\ Abort(p, fd)
  /\ UNCHANGED <<calm, blob, spoiled>>

-----------------------------------------------------------------------------
(* Failures and the world outside *)

\* An error of the registry or the file system, a call given up, a crash.
Stop(p) ==
  /\ May("error")
  /\ Active(p)
  /\ Abort(p, fd)
  /\ UNCHANGED <<calm, fileVars>>

\* Nothing goes wrong from now on, and the tag points to a manifest with layers.
CalmDown ==
  /\ ~calm
  /\ calm' = TRUE
  /\ UNCHANGED <<pc, fileVars, pullVars>>

\* The node loses power: names survive, but no file was ever synced and a cached
\* blob may have lost its content (a partial file may too, but is truncated
\* before it is used again).  What was running is stopped (Stop) before.
PowerLoss ==
  /\ May("power")
  /\ \E lost \in SUBSET {d \in Digests : blob[d] # NoFile} :
       /\ blob' = [d \in Digests |-> IF d \in lost THEN Empty ELSE blob[d]]
       /\ spoiled' = spoiled \cup lost
  /\ \A p \in Pulls : ~Active(p)
  /\ UNCHANGED <<calm, partial, pc, pullVars>>

PullLayers(p) ==
  Start(p) \/ Resolve(p) \/ Check(p) \/ Open(p) \/ Chunk(p) \/ Verify(p) \/ Rename(p)

Next ==
  \/ \E p \in Pulls : PullLayers(p) \/ Stop(p)
  \/ PowerLoss \/ CalmDown

Spec == Init /\ [][Next]_vars

\* A pull runs on, and the kubelet repeats a publish until it succeeds.
LiveSpec == Spec /\ \A p \in Pulls : WF_vars(pc[p] # "done" /\ PullLayers(p))

-----------------------------------------------------------------------------
(* Properties *)

\* Every variable keeps the type of the state it stands for.
TypeOK ==
  /\ calm \in BOOLEAN
  /\ blob \in [Digests -> Contents \cup {NoFile}]
  /\ partial \in [Digests -> Contents \cup {NoFile}]
  /\ spoiled \subseteq Digests
  /\ pc \in [Pulls -> {"idle", "resolve", "check", "open", "stream", "rename", "done"}]
  /\ resolved \in [Pulls -> Seq(Digests)]
  /\ todo \in [Pulls -> Seq(Digests)]
  /\ paths \in [Pulls -> Seq(Digests)]
  /\ fd \in [Pulls -> {"none", "partial", "blob", "gone"}]
  /\ n \in [Pulls -> 0..(NChunks + 1)]
  /\ hash \in [Pulls -> BOOLEAN]

\* A blob under its final name is the content of its digest ("verified
\* previously", registry.rs:347-358), whatever was left by pulls that failed,
\* were cut short or got corrupt data, unless two pulls ever fetched it at once
\* or it was emptied by a power loss: its own history decides, not that of
\* other layers.
CacheIntact ==
  \A d \in Digests \ spoiled : blob[d] # NoFile => Intact(blob[d])

\* What NodePublishVolume hands to rspacefs-mount (node.rs:141-151) is the seed:
\* the layers of one manifest the tag pointed to, all of them, the top one
\* first (registry.rs:252-253), each with its blob in the cache.
PulledIsSeed ==
  \A p \in Pulls : pc[p] = "done" =>
    /\ Len(paths[p]) = Len(resolved[p])
    /\ \A i \in 1..Len(paths[p]) :
         /\ paths[p][i] = resolved[p][Len(resolved[p]) + 1 - i]
         /\ blob[paths[p][i]] # NoFile

\* A cached blob, which a daemon may have mounted, is sealed: no pull has the file
\* open for writing any more, not even under the name it had before the rename,
\* also when it is fetched again because it could not be looked up
\* (registry.rs:350-358, 459), unless two pulls ever fetched it at once.
BlobsSealed ==
  \A d \in Digests \ spoiled, p \in Pulls : Writes(p, d) => fd[p] # "blob"

\* What failed, cut off or competing pulls leave behind never keeps a later one
\* from its end (registry.rs:351, 459): once calls are no longer given up,
\* streams are no longer damaged and the seed has layers, every pull succeeds.
PullsRecover ==
  \A p \in Pulls : calm ~> pc[p] = "done"

=============================================================================
