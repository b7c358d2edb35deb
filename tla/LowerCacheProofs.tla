--------------------------- MODULE LowerCacheProofs ---------------------------
(***************************************************************************)
(* What LowerCache guarantees for every number of pulls, layers and chunks. *)
(***************************************************************************)
EXTENDS LowerCache, TLAPS

\* The time limits of a leaf that names no prover.
USE SMTT(30), ZenonT(30)

\* The head and the tail of the layers to go, and the layers done with one more.
LEMMA Layers ==
  ASSUME NEW s \in Seq(Digests), s # <<>>
  PROVE  /\ Len(s) \in Nat \ {0}
         /\ Head(s) \in Digests /\ Head(s) = s[1]
         /\ Tail(s) \in Seq(Digests) /\ Len(Tail(s)) = Len(s) - 1
         /\ \A i \in 1..Len(Tail(s)) : Tail(s)[i] = s[i + 1]
  OBVIOUS

\* Appending a layer leaves the earlier ones in place.
LEMMA Extended ==
  ASSUME NEW s \in Seq(Digests), NEW d \in Digests
  PROVE  /\ Append(s, d) \in Seq(Digests) /\ Len(Append(s, d)) = Len(s) + 1
         /\ \A i \in 1..Len(s) : Append(s, d)[i] = s[i]
         /\ Append(s, d)[Len(s) + 1] = d
  OBVIOUS

\* Reverse (the .rev() of parse_layers) mirrors the positions.
LEMMA Reversed ==
  ASSUME NEW s \in Seq(Digests)
  PROVE  /\ Reverse(s) \in Seq(Digests) /\ Len(Reverse(s)) = Len(s)
         /\ \A i \in 1..Len(s) : Reverse(s)[i] = s[Len(s) + 1 - i]
  BY DEF Reverse

\* A pull that has a layer in hand has one to go.
InHand ==
  \A p \in Pulls : pc[p] \in {"open", "stream", "rename"} => todo[p] # <<>>

\* A pull that has a file open is streaming to it, and the name it has is there.
Writing ==
  \A p \in Pulls : fd[p] # "none" =>
    /\ pc[p] = "stream"
    /\ fd[p] = "partial" => partial[Head(todo[p])] # NoFile
    /\ fd[p] = "blob" => blob[Head(todo[p])] # NoFile

Typed == TypeOK /\ InHand /\ Writing

FileNames == {"none", "partial", "blob", "gone"}

\* An empty file, and a file with a chunk more, are files.
LEMMA FileTypes ==
  /\ Empty \in Contents /\ Empty # NoFile
  /\ \A file \in Contents, k \in 1..(NChunks + 1), c \in {"good", "bad"} :
       With(file, k, c) \in Contents /\ With(file, k, c) # NoFile
  <1>1. Empty \in Contents
    BY DEF Empty, Contents
  <1>2. ASSUME NEW file \in Contents, NEW k \in 1..(NChunks + 1), NEW c \in {"good", "bad"}
        PROVE  With(file, k, c) \in Contents
    <2>1. CASE file = TooLong \/ k > NChunks
      BY <2>1 DEF With, Contents
    <2>2. CASE file # TooLong /\ ~(k > NChunks)
      <3>1. file \in [Chunks -> {"good", "bad"}]
        BY <2>2 DEF Contents
      <3>2. With(file, k, c) = [file EXCEPT ![k] = c]
        BY <2>2 DEF With
      <3> QED BY <3>1, <3>2, Zenon DEF Contents
    <2> QED BY <2>1, <2>2
  <1> QED BY <1>1, <1>2, FileAssumption

\* The types hold before the first pull.
LEMMA TypeInit == Init => Typed
  <1> SUFFICES ASSUME Init PROVE Typed
    OBVIOUS
  <1>1. calm \in BOOLEAN /\ spoiled \subseteq Digests /\ hash \in [Pulls -> BOOLEAN]
    BY Zenon DEF Init
  <1> QED BY <1>1, CacheAssumption DEF Init, Typed, TypeOK, InHand, Writing

\* Renaming or removing a partial file leaves every pull with a file, named or not.
LEMMA FileMoves ==
  ASSUME Typed, NEW d \in Digests
  PROVE  Removed(d) \in [Pulls -> FileNames] /\ Renamed(d) \in [Pulls -> FileNames]
  BY DEF Typed, TypeOK, FileNames, Removed, Renamed

\* A pull that ends with an error keeps the types.
LEMMA AbortTyped ==
  ASSUME Typed, NEW p \in Pulls, NEW files \in [Pulls -> FileNames], Abort(p, files)
  PROVE  /\ pc' = [pc EXCEPT ![p] = "idle"]
         /\ pc' \in [Pulls -> {"idle", "resolve", "check", "open", "stream", "rename", "done"}]
         /\ resolved' \in [Pulls -> Seq(Digests)]
         /\ todo' \in [Pulls -> Seq(Digests)] /\ todo' = [todo EXCEPT ![p] = <<>>]
         /\ paths' \in [Pulls -> Seq(Digests)]
         /\ fd' \in [Pulls -> FileNames] /\ fd' = [files EXCEPT ![p] = "none"]
         /\ n' \in [Pulls -> 0..(NChunks + 1)]
         /\ hash' \in [Pulls -> BOOLEAN]
         /\ InHand'
  BY CacheAssumption DEF Typed, TypeOK, Abort, Close, InHand, FileNames

\* The pulls that have a file open go on as before, and the files are as before.
LEMMA WritingKept ==
  ASSUME Typed, UNCHANGED <<blob, partial>>,
         \A q \in Pulls : fd'[q] # "none" =>
           pc'[q] = pc[q] /\ todo'[q] = todo[q] /\ fd'[q] = fd[q]
  PROVE  Writing'
  BY DEF Typed, Writing

\* So does one that leaves the files alone.
LEMMA AbortStays ==
  ASSUME Typed, NEW p \in Pulls, Abort(p, fd), UNCHANGED <<calm, blob, partial, spoiled>>
  PROVE  Typed'
  <1>1. fd \in [Pulls -> FileNames]
    BY DEF Typed, TypeOK, FileNames
  <1>2. TypeOK' /\ InHand'
    BY <1>1, AbortTyped DEF Typed, TypeOK, FileNames
  <1>3. Writing'
    <2>1. /\ pc' = [pc EXCEPT ![p] = "idle"] /\ todo' = [todo EXCEPT ![p] = <<>>]
          /\ fd' = [fd EXCEPT ![p] = "none"]
      BY <1>1, AbortTyped, Zenon
    <2>2. \A q \in Pulls : fd'[q] # "none" =>
            pc'[q] = pc[q] /\ todo'[q] = todo[q] /\ fd'[q] = fd[q]
      BY <1>1, <2>1 DEF Typed, TypeOK
    <2> QED BY <2>2, WritingKept
  <1> QED BY <1>2, <1>3 DEF Typed

\* Every step keeps the types: Head and Tail are taken of no empty sequence, and
\* what is written to is there.
LEMMA TypeNext == Typed /\ [Next]_vars => Typed'
  <1> SUFFICES ASSUME Typed, [Next]_vars PROVE Typed'
    OBVIOUS
  <1> USE CacheAssumption DEF Typed, TypeOK, fileVars, pullVars
  <1>0. fd \in [Pulls -> FileNames]
    BY DEF FileNames
  <1>1. ASSUME NEW p \in Pulls, Start(p) PROVE Typed'
    BY <1>1 DEF Start, Active, InHand, Writing
  <1>2. ASSUME NEW p \in Pulls, Resolve(p) PROVE Typed'
    <2>1. PICK m \in Manifests :
            \/ /\ m # <<>> /\ Goto(p, "resolve", "check")
               /\ resolved' = [resolved EXCEPT ![p] = m]
               /\ todo' = [todo EXCEPT ![p] = Reverse(m)]
               /\ UNCHANGED <<paths, fd, n, hash>>
            \/ Abort(p, fd)
      BY <1>2, Zenon DEF Resolve
    <2>2. UNCHANGED <<calm, blob, partial, spoiled>>
      BY <1>2 DEF Resolve
    <2>3. CASE Abort(p, fd)
      BY <2>2, <2>3, AbortStays
    <2>4. CASE ~Abort(p, fd)
      <3>1. m \in Seq(Digests) /\ Reverse(m) \in Seq(Digests)
        BY Reversed
      <3>2. /\ pc[p] = "resolve" /\ pc' = [pc EXCEPT ![p] = "check"]
            /\ resolved' = [resolved EXCEPT ![p] = m]
            /\ todo' = [todo EXCEPT ![p] = Reverse(m)]
            /\ UNCHANGED <<paths, fd, n, hash>>
        BY <2>1, <2>4, Zenon DEF Goto
      <3>3. TypeOK'
        BY <2>2, <3>1, <3>2
      <3>4. InHand'
        BY <3>2 DEF InHand
      <3>5. fd[p] = "none"
        BY <3>2 DEF Writing
      <3>6. \A q \in Pulls : fd'[q] # "none" =>
              pc'[q] = pc[q] /\ todo'[q] = todo[q] /\ fd'[q] = fd[q]
        BY <3>2, <3>5
      <3>7. Writing'
        BY <2>2, <3>6, WritingKept
      <3> QED BY <3>3, <3>4, <3>7
    <2> QED BY <2>3, <2>4
  <1>3. ASSUME NEW p \in Pulls, Check(p) PROVE Typed'
    <2>1. CASE TakeLayer(p) /\ todo[p] # <<>> /\ pc' = [pc EXCEPT ![p] = "check"]
      <3>1. Tail(todo[p]) \in Seq(Digests) /\ Append(paths[p], Head(todo[p])) \in Seq(Digests)
        BY <2>1, Layers, Extended
      <3>2. spoiled' \subseteq Digests
        BY <1>3, <2>1, Layers DEF Check, MeetOthers
      <3> QED BY <1>3, <2>1, <3>1, <3>2 DEF Check, TakeLayer, Goto, InHand, Writing
    <2>2. CASE UNCHANGED <<todo, paths>>
      <3>1. spoiled' \subseteq Digests
        BY <1>3, Layers DEF Check, MeetOthers
      <3> QED BY <1>3, <2>2, <3>1, Zenon DEF Check, Goto, InHand, Writing
    <2> QED BY <1>3, <2>1, <2>2 DEF Check, Goto
  <1>4. ASSUME NEW p \in Pulls, Open(p) PROVE Typed'
    <2>1. todo[p] # <<>> /\ Head(todo[p]) \in Digests
      BY <1>4, Layers DEF Open, Goto, InHand
    <2>2. partial' = [partial EXCEPT ![Head(todo[p])] = Empty]
      BY <1>4 DEF Open
    <2>3. TypeOK'
      BY <1>4, <2>1, <2>2, FileTypes DEF Open, Goto
    <2> QED BY <1>4, <2>1, <2>2, <2>3, FileTypes DEF Open, Goto, InHand, Writing
  <1>5. ASSUME NEW p \in Pulls, Chunk(p) PROVE Typed'
    <2>1. PICK c \in {"good", "bad"} :
            Write(p, c) /\ hash' = [hash EXCEPT ![p] = @ /\ c = "good"]
      BY <1>5, Zenon DEF Chunk, Delivered
    <2>2. todo[p] # <<>> /\ Head(todo[p]) \in Digests
      BY <1>5, Layers DEF Chunk, InHand
    <2>3. n[p] + 1 \in 1..(NChunks + 1) /\ n' \in [Pulls -> 0..(NChunks + 1)]
      BY <1>5 DEF Chunk
    <2>4. /\ partial' \in [Digests -> Contents \cup {NoFile}]
          /\ \A e \in Digests : partial[e] # NoFile => partial'[e] # NoFile
      <3>1. CASE fd[p] = "partial"
        <4>1. partial[Head(todo[p])] \in Contents
          BY <2>2, <3>1 DEF Writing
        <4>2. partial' = [partial EXCEPT ![Head(todo[p])] = With(partial[Head(todo[p])], n[p] + 1, c)]
          BY <2>1, <3>1 DEF Write
        <4> QED BY <2>2, <2>3, <4>1, <4>2, FileTypes
      <3>2. CASE fd[p] # "partial"
        BY <2>1, <3>2 DEF Write
      <3> QED BY <3>1, <3>2
    <2>5. /\ blob' \in [Digests -> Contents \cup {NoFile}]
          /\ \A e \in Digests : blob[e] # NoFile => blob'[e] # NoFile
      <3>1. CASE fd[p] = "blob"
        <4>1. blob[Head(todo[p])] \in Contents
          BY <2>2, <3>1 DEF Writing
        <4>2. blob' = [blob EXCEPT ![Head(todo[p])] = With(blob[Head(todo[p])], n[p] + 1, c)]
          BY <2>1, <3>1 DEF Write
        <4> QED BY <2>2, <2>3, <4>1, <4>2, FileTypes
      <3>2. CASE fd[p] # "blob"
        BY <2>1, <3>2 DEF Write
      <3> QED BY <3>1, <3>2
    <2>6. hash' \in [Pulls -> BOOLEAN]
      BY <2>1
    <2>7. UNCHANGED <<calm, spoiled, pc, resolved, todo, paths, fd>>
      BY <1>5 DEF Chunk
    <2>8. Writing'
      <3> SUFFICES ASSUME NEW q \in Pulls, fd[q] # "none"
                   PROVE  /\ pc[q] = "stream"
                          /\ fd[q] = "partial" => partial'[Head(todo[q])] # NoFile
                          /\ fd[q] = "blob" => blob'[Head(todo[q])] # NoFile
        BY <2>7 DEF Writing
      <3>1. pc[q] = "stream" /\ Head(todo[q]) \in Digests
        BY Layers DEF Writing, InHand
      <3> QED BY <2>4, <2>5, <3>1 DEF Writing
    <2> QED BY <2>3, <2>4, <2>5, <2>6, <2>7, <2>8 DEF InHand
  <1>6. ASSUME NEW p \in Pulls, Verify(p) PROVE Typed'
    <2>1. todo[p] # <<>> /\ Head(todo[p]) \in Digests
      BY <1>6, Layers DEF Verify, InHand
    <2>2. UNCHANGED <<calm, blob, spoiled>>
      BY <1>6 DEF Verify
    <2>3. CASE UNCHANGED partial /\ Abort(p, fd)
      BY <2>2, <2>3, AbortStays
    <2>4. CASE /\ partial' = [partial EXCEPT ![Head(todo[p])] = NoFile]
               /\ Abort(p, Removed(Head(todo[p])))
      <3>1. /\ TypeOK' /\ InHand' /\ pc' = [pc EXCEPT ![p] = "idle"]
            /\ todo' = [todo EXCEPT ![p] = <<>>]
            /\ fd' = [Removed(Head(todo[p])) EXCEPT ![p] = "none"]
        BY <2>1, <2>2, <2>4, FileMoves, AbortTyped, Zenon DEF FileNames
      <3> QED BY <2>1, <2>2, <2>4, <3>1 DEF Writing, Removed, Writes
    <2>5. CASE Goto(p, "stream", "rename") /\ Close(p, fd) /\ UNCHANGED <<partial, resolved, todo, paths>>
      BY <2>1, <2>2, <2>5 DEF Goto, Close, InHand, Writing
    <2> QED BY <1>6, <2>3, <2>4, <2>5, Zenon DEF Verify
  <1>7. ASSUME NEW p \in Pulls, Rename(p) PROVE Typed'
    <2>1. todo[p] # <<>> /\ Head(todo[p]) \in Digests
      BY <1>7, Layers DEF Rename, InHand
    <2>2. Tail(todo[p]) \in Seq(Digests) /\ Append(paths[p], Head(todo[p])) \in Seq(Digests)
      BY <2>1, Layers, Extended
    <2>3. CASE Abort(p, fd) /\ UNCHANGED <<blob, partial>>
      BY <1>7, <2>3, AbortStays, Zenon DEF Rename
    <2>4. CASE ~(Abort(p, fd) /\ UNCHANGED <<blob, partial>>)
      <3>1. /\ pc[p] = "rename" /\ pc' = [pc EXCEPT ![p] = "check"]
            /\ paths' = [paths EXCEPT ![p] = Append(paths[p], Head(todo[p]))]
            /\ todo' = [todo EXCEPT ![p] = Tail(todo[p])]
            /\ partial[Head(todo[p])] # NoFile
            /\ blob' = [blob EXCEPT ![Head(todo[p])] = partial[Head(todo[p])]]
            /\ partial' = [partial EXCEPT ![Head(todo[p])] = NoFile]
            /\ fd' = Renamed(Head(todo[p]))
            /\ UNCHANGED <<calm, spoiled, resolved, n, hash>>
        BY <1>7, <2>4 DEF Rename, Goto, TakeLayer
      <3>2. TypeOK'
        BY <2>1, <2>2, <3>1, FileMoves DEF FileNames
      <3>3. InHand'
        BY <3>1 DEF InHand
      <3>4. fd[p] = "none"
        BY <3>1 DEF Writing
      <3>5. Writing'
        <4> SUFFICES ASSUME NEW q \in Pulls, fd'[q] # "none"
                     PROVE  /\ pc'[q] = "stream"
                            /\ fd'[q] = "partial" => partial'[Head(todo'[q])] # NoFile
                            /\ fd'[q] = "blob" => blob'[Head(todo'[q])] # NoFile
          BY DEF Writing
        <4>1. fd[q] # "none" /\ q # p
          BY <3>1, <3>4 DEF Renamed, Writes
        <4>2. pc'[q] = "stream" /\ todo'[q] = todo[q] /\ Head(todo[q]) \in Digests
          BY <3>1, <4>1, Layers DEF Writing, InHand
        <4>3. CASE Head(todo[q]) = Head(todo[p])
          BY <2>1, <3>1, <4>1, <4>2, <4>3 DEF Renamed, Writes
        <4>4. CASE Head(todo[q]) # Head(todo[p])
          <5>1. fd'[q] = fd[q]
            BY <3>1, <4>4 DEF Renamed, Writes
          <5>2. /\ partial'[Head(todo[q])] = partial[Head(todo[q])]
                /\ blob'[Head(todo[q])] = blob[Head(todo[q])]
            BY <2>1, <3>1, <4>2, <4>4
          <5> QED BY <4>1, <4>2, <5>1, <5>2 DEF Writing
        <4> QED BY <4>3, <4>4
      <3> QED BY <3>2, <3>3, <3>5
    <2> QED BY <2>3, <2>4
  <1>8. ASSUME NEW p \in Pulls, Stop(p) PROVE Typed'
    <2>1. Abort(p, fd) /\ UNCHANGED <<calm, blob, partial, spoiled>>
      BY <1>8 DEF Stop
    <2> QED BY <2>1, AbortStays
  <1>9. CASE CalmDown
    BY <1>9, Zenon DEF CalmDown, InHand, Writing
  <1>10. CASE PowerLoss
    <2>1. PICK lost \in SUBSET {d \in Digests : blob[d] # NoFile} :
            /\ blob' = [d \in Digests |-> IF d \in lost THEN Empty ELSE blob[d]]
            /\ spoiled' = spoiled \cup lost
      BY <1>10, ZenonT(30) DEF PowerLoss
    <2>2. blob' \in [Digests -> Contents \cup {NoFile}]
      BY <2>1, FileTypes
    <2>3. \A p \in Pulls : fd[p] = "none"
      BY <1>10 DEF PowerLoss, Active, Writing
    <2> QED BY <1>10, <2>1, <2>2, <2>3 DEF PowerLoss, InHand, Writing
  <1>11. CASE UNCHANGED vars
    BY <1>11 DEF vars, InHand, Writing
  <1> QED BY <1>1, <1>2, <1>3, <1>4, <1>5, <1>6, <1>7, <1>8, <1>9, <1>10, <1>11, Zenon
          DEF Next, PullLayers

\* Every variable of pull_layers and of its directory keeps its type.
THEOREM TypeCorrect == Spec => []TypeOK
  <1>1. Typed => TypeOK
    BY DEF Typed
  <1> QED BY TypeInit, TypeNext, <1>1, PTL DEF Spec

-----------------------------------------------------------------------------
(* The seed is what is mounted *)

\* The layers done, then the layers to go, are the manifest from its top down.
Split(r, done, go) ==
  /\ Len(done) + Len(go) = Len(r)
  /\ \A i \in 1..Len(done) : done[i] = r[Len(r) + 1 - i]
  /\ \A i \in 1..Len(go) : go[i] = r[Len(r) + 1 - Len(done) - i]

\* A pull is somewhere in the middle of its manifest, and what it is done with is
\* in the cache.
Progress ==
  \A p \in Pulls : pc[p] \in {"check", "open", "stream", "rename", "done"} =>
    /\ Split(resolved[p], paths[p], todo[p])
    /\ \A i \in 1..Len(paths[p]) : blob[paths[p][i]] # NoFile
    /\ pc[p] = "done" => Len(todo[p]) = 0

\* A pull that is not in a manifest has none behind it.
AtStart ==
  \A p \in Pulls : pc[p] \in {"idle", "resolve"} => paths[p] = <<>>

SeedInv == Typed /\ Progress /\ AtStart

\* No step takes a blob out of the cache.
LEMMA BlobsStay ==
  ASSUME Typed, [Next]_vars, NEW d \in Digests, blob[d] # NoFile
  PROVE  blob'[d] # NoFile
  <1> USE DEF fileVars
  <1>1. ASSUME NEW p \in Pulls, Rename(p) PROVE blob'[d] # NoFile
    BY <1>1 DEF Rename, Typed, TypeOK
  <1>2. ASSUME NEW p \in Pulls, Chunk(p) PROVE blob'[d] # NoFile
    <2>1. PICK c \in {"good", "bad"} : Write(p, c)
      BY <1>2, Zenon DEF Chunk, Delivered
    <2>2. n[p] + 1 \in 1..(NChunks + 1) /\ blob[d] \in Contents
      BY <1>2, CacheAssumption DEF Chunk, Typed, TypeOK
    <2>3. CASE fd[p] = "blob" /\ Head(todo[p]) = d
      <3>1. blob'[d] = With(blob[d], n[p] + 1, c)
        BY <2>1, <2>3 DEF Write, Typed, TypeOK
      <3> QED BY <2>2, <3>1, FileTypes
    <2>4. CASE ~(fd[p] = "blob" /\ Head(todo[p]) = d)
      BY <2>1, <2>4 DEF Write, Typed, TypeOK
    <2> QED BY <2>3, <2>4
  <1>3. ASSUME PowerLoss PROVE blob'[d] # NoFile
    <2>1. PICK lost : blob' = [e \in Digests |-> IF e \in lost THEN Empty ELSE blob[e]]
      BY <1>3, Zenon DEF PowerLoss
    <2> QED BY <2>1, FileTypes
  <1>4. CASE UNCHANGED blob
    BY <1>4
  <1>5. ASSUME NEW p \in Pulls, PullLayers(p), ~Rename(p), ~Chunk(p) PROVE UNCHANGED blob
    BY <1>5 DEF PullLayers, Start, Resolve, Check, Open, Verify
  <1>6. (\E p \in Pulls : Stop(p)) \/ CalmDown \/ UNCHANGED vars => UNCHANGED blob
    BY DEF Stop, CalmDown, vars
  <1> QED BY <1>1, <1>2, <1>3, <1>4, <1>5, <1>6 DEF Next

\* The layers of a manifest just resolved are all still to go.
LEMMA SplitStart ==
  ASSUME NEW r \in Seq(Digests)
  PROVE  Split(r, <<>>, Reverse(r))
  BY Reversed DEF Split

\* Moving the next layer from to-go to done keeps the manifest split in two.
LEMMA SplitTake ==
  ASSUME NEW r \in Seq(Digests), NEW done \in Seq(Digests), NEW go \in Seq(Digests),
         Split(r, done, go), go # <<>>
  PROVE  Split(r, Append(done, Head(go)), Tail(go))
  <1>1. /\ Len(go) \in Nat \ {0} /\ Len(done) \in Nat /\ Len(r) \in Nat
        /\ Len(Append(done, Head(go))) = Len(done) + 1 /\ Len(Tail(go)) = Len(go) - 1
    BY Layers, Extended
  <1>2. ASSUME NEW i \in 1..(Len(done) + 1)
        PROVE  Append(done, Head(go))[i] = r[Len(r) + 1 - i]
    <2>1. CASE i \in 1..Len(done)
      BY <2>1, Layers, Extended DEF Split
    <2>2. CASE i = Len(done) + 1
      <3>1. Head(go) = r[Len(r) + 1 - Len(done) - 1]
        BY <1>1, Layers DEF Split
      <3>2. Len(r) + 1 - Len(done) - 1 = Len(r) + 1 - i
        BY <1>1, <2>2
      <3> QED BY <2>2, <3>1, <3>2, Layers, Extended
    <2> QED BY <1>1, <2>1, <2>2
  <1>3. ASSUME NEW i \in 1..(Len(go) - 1)
        PROVE  Tail(go)[i] = r[Len(r) + 1 - (Len(done) + 1) - i]
    <2>1. Tail(go)[i] = go[i + 1] /\ i + 1 \in 1..Len(go)
      BY <1>1, Layers
    <2>2. Len(r) + 1 - Len(done) - (i + 1) = Len(r) + 1 - (Len(done) + 1) - i
      BY <1>1
    <2> QED BY <2>1, <2>2 DEF Split
  <1>4. (Len(done) + 1) + (Len(go) - 1) = Len(r)
    <2>1. Len(done) + Len(go) = Len(r)
      BY Zenon DEF Split
    <2> QED BY <1>1, <2>1
  <1> HIDE DEF Split
  <1> DEFINE done2 == Append(done, Head(go))
             go2 == Tail(go)
  <1>5. Len(done2) = Len(done) + 1 /\ Len(go2) = Len(go) - 1
    BY <1>1
  <1>6. \A i \in 1..Len(done2) : done2[i] = r[Len(r) + 1 - i]
    BY <1>2, <1>5
  <1>7. \A i \in 1..Len(go2) : go2[i] = r[Len(r) + 1 - Len(done2) - i]
    BY <1>3, <1>5
  <1>8. Len(done2) + Len(go2) = Len(r)
    BY <1>4, <1>5
  <1> HIDE DEF done2, go2
  <1>9. Split(r, done2, go2)
    BY <1>6, <1>7, <1>8, Zenon DEF Split
  <1> QED BY <1>9 DEF done2, go2

\* A pull that takes the next layer keeps its place in the manifest.
LEMMA TakeProgress ==
  ASSUME SeedInv, NEW p \in Pulls, TakeLayer(p), todo[p] # <<>>,
         pc[p] \in {"check", "rename"}, UNCHANGED resolved,
         blob' \in [Digests -> Contents \cup {NoFile}],
         \A d \in Digests : blob[d] # NoFile => blob'[d] # NoFile,
         blob'[Head(todo[p])] # NoFile
  PROVE  /\ Split(resolved'[p], paths'[p], todo'[p])
         /\ \A i \in 1..Len(paths'[p]) : blob'[paths'[p][i]] # NoFile
  <1> USE DEF SeedInv, Typed, TypeOK
  <1>1. paths'[p] = Append(paths[p], Head(todo[p])) /\ todo'[p] = Tail(todo[p])
    BY DEF TakeLayer
  <1>2. Split(resolved[p], paths[p], todo[p])
    BY DEF Progress
  <1>3. Split(resolved'[p], paths'[p], todo'[p])
    BY <1>1, <1>2, SplitTake
  <1>4. ASSUME NEW i \in 1..Len(paths'[p]) PROVE blob'[paths'[p][i]] # NoFile
    <2>1. /\ Len(paths'[p]) = Len(paths[p]) + 1 /\ Len(paths[p]) \in Nat
          /\ paths'[p][Len(paths[p]) + 1] = Head(todo[p])
          /\ \A j \in 1..Len(paths[p]) : paths'[p][j] = paths[p][j]
      BY <1>1, Layers, Extended
    <2>2. CASE i = Len(paths[p]) + 1
      BY <2>1, <2>2
    <2>3. CASE i \in 1..Len(paths[p])
      <3>1. paths[p][i] \in Digests /\ blob[paths[p][i]] # NoFile
        BY <2>3 DEF Progress
      <3> QED BY <2>1, <2>3, <3>1
    <2> QED BY <2>1, <2>2, <2>3
  <1> QED BY <1>3, <1>4

\* A pull that keeps its place keeps its progress.
LEMMA StayProgress ==
  ASSUME SeedInv, [Next]_vars, NEW p \in Pulls, UNCHANGED <<resolved[p], paths[p], todo[p]>>,
         pc[p] \in {"check", "open", "stream", "rename", "done"}
  PROVE  /\ Split(resolved'[p], paths'[p], todo'[p])
         /\ \A i \in 1..Len(paths'[p]) : blob'[paths'[p][i]] # NoFile
  <1> USE DEF SeedInv, Typed, TypeOK
  <1>1. ASSUME NEW i \in 1..Len(paths[p]) PROVE blob'[paths[p][i]] # NoFile
    <2>1. paths[p][i] \in Digests /\ blob[paths[p][i]] # NoFile
      BY <1>1 DEF Progress
    <2> QED BY <2>1, BlobsStay
  <1>2. Split(resolved[p], paths[p], todo[p])
    BY DEF Progress
  <1> QED BY <1>1, <1>2

\* No pull has a place in a manifest at first.
LEMMA SeedInit == Init => SeedInv
  BY TypeInit DEF Init, SeedInv, Progress, AtStart

\* Every step leaves every pull at a place of its manifest.
LEMMA SeedNext == SeedInv /\ [Next]_vars => SeedInv'
  <1> SUFFICES ASSUME SeedInv, [Next]_vars PROVE SeedInv'
    OBVIOUS
  <1> DEFINE Placed(q) ==
        /\ pc'[q] \in {"check", "open", "stream", "rename", "done"} =>
             /\ Split(resolved'[q], paths'[q], todo'[q])
             /\ \A i \in 1..Len(paths'[q]) : blob'[paths'[q][i]] # NoFile
             /\ pc'[q] = "done" => Len(todo'[q]) = 0
        /\ pc'[q] \in {"idle", "resolve"} => paths'[q] = <<>>
  <1>1. Typed /\ Typed'
    BY TypeNext DEF SeedInv
  <1> USE DEF TypeOK, Typed, fileVars, pullVars
  <1>2. ASSUME NEW q \in Pulls, UNCHANGED <<pc[q], resolved[q], paths[q], todo[q]>>
        PROVE  Placed(q)
    <2>1. CASE pc[q] \in {"check", "open", "stream", "rename", "done"}
      BY <1>2, <2>1, StayProgress DEF SeedInv, Progress
    <2>2. CASE pc[q] \in {"idle", "resolve"}
      BY <1>2, <2>2 DEF SeedInv, AtStart
    <2> QED BY <1>1, <2>1, <2>2
  <1>3. ASSUME NEW p \in Pulls, NEW files, Abort(p, files) PROVE Placed(p)
    BY <1>1, <1>3 DEF Abort
  <1>4. ASSUME NEW p \in Pulls, Start(p) PROVE Placed(p)
    BY <1>1, <1>4 DEF Start
  <1>5. ASSUME NEW p \in Pulls, Resolve(p) PROVE Placed(p)
    <2>1. CASE Abort(p, fd)
      BY <1>3, <2>1
    <2>2. CASE ~Abort(p, fd)
      <3>1. PICK m \in Manifests :
              /\ pc[p] = "resolve" /\ pc' = [pc EXCEPT ![p] = "check"]
              /\ resolved' = [resolved EXCEPT ![p] = m]
              /\ todo' = [todo EXCEPT ![p] = Reverse(m)] /\ UNCHANGED paths
        BY <1>5, <2>2, Zenon DEF Resolve, Goto
      <3>2. paths[p] = <<>>
        BY <3>1 DEF SeedInv, AtStart
      <3>3. m \in Seq(Digests)
        BY CacheAssumption
      <3>4. Split(m, <<>>, Reverse(m))
        BY <3>3, SplitStart
      <3>5. \A i \in 1..Len(paths'[p]) : blob'[paths'[p][i]] # NoFile
        BY <3>1, <3>2
      <3>6. pc'[p] = "check" /\ resolved'[p] = m /\ todo'[p] = Reverse(m) /\ paths'[p] = <<>>
        BY <1>1, <3>1, <3>2
      <3> QED BY <3>4, <3>5, <3>6
    <2> QED BY <2>1, <2>2
  <1>6. ASSUME NEW p \in Pulls, Check(p) PROVE Placed(p)
    <2>1. CASE TakeLayer(p) /\ todo[p] # <<>> /\ blob[Head(todo[p])] # NoFile
               /\ Goto(p, "check", "check")
      <3>1. Head(todo[p]) \in Digests
        BY <1>1, <2>1, Layers
      <3>2. \A d \in Digests : blob[d] # NoFile => blob'[d] # NoFile
        BY <1>1, BlobsStay
      <3> QED BY <1>1, <1>6, <2>1, <3>1, <3>2, TakeProgress DEF Check, Goto
    <2>2. CASE UNCHANGED <<todo, paths>> /\ (Goto(p, "check", "done") => todo[p] = <<>>)
      <3>1. pc[p] = "check" /\ UNCHANGED resolved /\ pc'[p] \in {"open", "done", "check"}
        BY <1>1, <1>6 DEF Check, Goto
      <3>2. pc'[p] = "done" => Len(todo'[p]) = 0
        BY <1>1, <1>6, <2>2 DEF Check, Goto
      <3> QED BY <1>1, <2>2, <3>1, <3>2, StayProgress
    <2>3. Goto(p, "check", "done") => todo[p] = <<>>
      BY <1>1, <1>6 DEF Check, Goto
    <2> QED BY <1>6, <2>1, <2>2, <2>3 DEF Check
  <1>7. ASSUME NEW p \in Pulls, Open(p) \/ Chunk(p) PROVE Placed(p)
    <2>1. /\ pc[p] \in {"open", "stream"} /\ pc'[p] = "stream"
          /\ UNCHANGED <<resolved, todo, paths>>
      BY <1>1, <1>7 DEF Open, Chunk, Goto
    <2> QED BY <2>1, StayProgress
  <1>8. ASSUME NEW p \in Pulls, Verify(p) PROVE Placed(p)
    <2>1. CASE Goto(p, "stream", "rename") /\ UNCHANGED <<resolved, todo, paths>>
      <3>1. pc[p] = "stream" /\ pc'[p] = "rename"
        BY <1>1, <2>1 DEF Goto
      <3> QED BY <2>1, <3>1, StayProgress
    <2> QED BY <1>3, <1>8, <2>1 DEF Verify
  <1>9. ASSUME NEW p \in Pulls, Rename(p) PROVE Placed(p)
    <2>1. CASE ~Abort(p, fd)
      <3>1. /\ pc[p] = "rename" /\ pc'[p] = "check" /\ TakeLayer(p) /\ UNCHANGED resolved
            /\ partial[Head(todo[p])] # NoFile
            /\ blob' = [blob EXCEPT ![Head(todo[p])] = partial[Head(todo[p])]]
        BY <1>1, <1>9, <2>1 DEF Rename, Goto
      <3>2. todo[p] # <<>> /\ Head(todo[p]) \in Digests
        BY <1>1, <3>1, Layers DEF InHand
      <3>3. \A d \in Digests : blob[d] # NoFile => blob'[d] # NoFile
        BY <1>1, BlobsStay
      <3>4. blob'[Head(todo[p])] # NoFile
        BY <1>1, <3>1, <3>2
      <3> QED BY <1>1, <3>1, <3>2, <3>3, <3>4, TakeProgress
    <2> QED BY <1>3, <2>1
  <1>10. ASSUME NEW p \in Pulls, Stop(p) PROVE Placed(p)
    BY <1>3, <1>10 DEF Stop
  <1>11. ASSUME NEW p \in Pulls, PullLayers(p) \/ Stop(p), NEW q \in Pulls, q # p
         PROVE  UNCHANGED <<pc[q], resolved[q], paths[q], todo[q]>>
    BY <1>1, <1>11, ZenonT(60) DEF PullLayers, Start, Resolve, Check, TakeLayer, Open, Chunk, Verify,
       Rename, Stop, Abort, Close, Goto
  <1>12. ASSUME NEW q \in Pulls, CalmDown \/ PowerLoss \/ UNCHANGED vars
         PROVE  UNCHANGED <<pc[q], resolved[q], paths[q], todo[q]>>
    BY <1>12 DEF CalmDown, PowerLoss, vars
  <1>13. ASSUME NEW p \in Pulls, PullLayers(p) \/ Stop(p) PROVE Placed(p)
    BY <1>4, <1>5, <1>6, <1>7, <1>8, <1>9, <1>10, <1>13, ZenonT(30) DEF PullLayers
  <1> HIDE DEF Placed
  <1>14. \A q \in Pulls : Placed(q)
    BY <1>2, <1>11, <1>12, <1>13, ZenonT(30) DEF Next
  <1> QED BY <1>1, <1>14 DEF SeedInv, Progress, AtStart, Placed

\* What pull_layers returns is the seed, top layer first, with every blob in
\* the cache: however the tag moves, whatever fails and however many pulls of
\* the volume run at once.
THEOREM SeedIsMounted == Spec => []PulledIsSeed
  <1>1. SeedInv => PulledIsSeed
    BY DEF SeedInv, Typed, TypeOK, Progress, Split, PulledIsSeed
  <1> QED BY SeedInit, SeedNext, <1>1, PTL DEF Spec

-----------------------------------------------------------------------------
(* A layer that one pull at a time fetches is what its name says *)

\* Digests that are not spoiled are fetched by one pull at a time.
Solo ==
  \A d \in Digests \ spoiled : \A p, q \in Pulls :
    Fetching(p, d) /\ Fetching(q, d) => p = q

\* What was received of a digest is in the partial file, good as long as the hash
\* is, and the pull writes to that file.
ReceivedBy(p, d) ==
  /\ pc[p] = "stream" =>
       /\ fd[p] = "partial"
       /\ hash[p] => /\ partial[d] # TooLong
                     /\ \A k \in Chunks : k <= n[p] => partial[d][k] = "good"
  /\ pc[p] = "rename" => partial[d] # NoFile /\ Intact(partial[d])

Received ==
  \A d \in Digests \ spoiled : \A p \in Pulls : Fetching(p, d) => ReceivedBy(p, d)

CacheInv == Typed /\ Solo /\ Received /\ CacheIntact

Kept == Solo' /\ Received' /\ CacheIntact'

\* A step leaves the files of the other digests alone.
OthersSame(d) ==
  \A e \in Digests : e # d => blob'[e] = blob[e] /\ partial'[e] = partial[e]

\* A step of another pull, on digest d, changes nothing of this one; it may give
\* the file it writes another name if that is a file of d.
SamePull(q, d) ==
  /\ pc'[q] = pc[q] /\ todo'[q] = todo[q] /\ n'[q] = n[q] /\ hash'[q] = hash[q]
  /\ ~Writes(q, d) => fd'[q] = fd[q]

\* The empty cache is intact.
LEMMA CacheInit == Init => CacheInv
  BY TypeInit DEF Init, CacheInv, Solo, Received, CacheIntact, Fetching

\* While a pull fetches a digest alone, another pull's layer is another one, and
\* what is said of it stays true.
LEMMA OtherPulls ==
  ASSUME CacheInv, NEW p \in Pulls, NEW d \in Digests, Fetching(p, d), UNCHANGED spoiled,
         OthersSame(d), NEW q \in Pulls, q # p, SamePull(q, d),
         NEW e \in Digests \ spoiled, Fetching(q, e)
  PROVE  e # d /\ ReceivedBy(q, e)'
  <1>1. e # d
    BY DEF CacheInv, Solo
  <1>2. ReceivedBy(q, e)
    BY DEF CacheInv, Received
  <1>3. partial'[e] = partial[e]
    BY <1>1 DEF OthersSame
  <1>4. fd'[q] = fd[q]
    BY <1>1 DEF SamePull, Writes, Fetching
  <1>5. pc'[q] = pc[q] /\ n'[q] = n[q] /\ hash'[q] = hash[q]
    BY DEF SamePull
  <1> QED BY <1>1, <1>2, <1>3, <1>4, <1>5 DEF ReceivedBy, Intact

\* A step of a pull on its own layer keeps what is said of the cache when it
\* keeps what is said of that layer.
LEMMA LocalStep ==
  ASSUME CacheInv, NEW p \in Pulls, NEW d \in Digests, Fetching(p, d), UNCHANGED spoiled,
         OthersSame(d), \A q \in Pulls : q # p => SamePull(q, d),
         \A e \in Digests : Fetching(p, e)' => e = d,
         d \notin spoiled /\ Fetching(p, d)' => ReceivedBy(p, d)',
         d \notin spoiled /\ blob'[d] # NoFile => Intact(blob'[d])
  PROVE  Kept
  <1>1. \A q \in Pulls, e \in Digests : q # p => (Fetching(q, e)' <=> Fetching(q, e))
    BY DEF SamePull, Fetching
  <1>2. Solo'
    BY <1>1 DEF CacheInv, Solo
  <1>3. Received'
    <2> SUFFICES ASSUME NEW e \in Digests \ spoiled, NEW q \in Pulls, Fetching(q, e)'
                 PROVE  ReceivedBy(q, e)'
      BY DEF Received
    <2>1. CASE q = p
      BY <2>1
    <2>2. CASE q # p
      BY <1>1, <2>2, OtherPulls
    <2> QED BY <2>1, <2>2
  <1>4. CacheIntact'
    BY DEF CacheInv, CacheIntact, OthersSame, Intact
  <1> QED BY <1>2, <1>3, <1>4 DEF Kept

\* A step that touches no file and no layer being fetched changes nothing.
LEMMA SameAll ==
  ASSUME CacheInv, UNCHANGED <<blob, partial, spoiled, pc, todo, fd, n, hash>>
  PROVE  Kept
  BY DEF CacheInv, Solo, Received, ReceivedBy, CacheIntact, Intact, Fetching, Kept

\* Nor does a pull that gives up a layer, or has none in hand.
LEMMA QuietStep ==
  ASSUME CacheInv, NEW p \in Pulls, UNCHANGED <<blob, partial, spoiled>>,
         pc'[p] \notin {"open", "stream", "rename"},
         \A q \in Pulls : q # p => UNCHANGED <<pc[q], todo[q], fd[q], n[q], hash[q]>>
  PROVE  Kept
  <1>1. \A q \in Pulls, e \in Digests : Fetching(q, e)' => q # p /\ Fetching(q, e)
    BY DEF Fetching
  <1>2. Solo'
    BY <1>1 DEF CacheInv, Solo
  <1>3. CacheIntact'
    BY DEF CacheInv, CacheIntact, Intact
  <1>4. Received'
    <2> SUFFICES ASSUME NEW e \in Digests \ spoiled, NEW q \in Pulls, Fetching(q, e)'
                 PROVE  ReceivedBy(q, e)'
      BY DEF Received
    <2>1. q # p /\ ReceivedBy(q, e)
      BY <1>1 DEF CacheInv, Received
    <2> QED BY <2>1 DEF ReceivedBy, Intact
  <1> QED BY <1>2, <1>3, <1>4 DEF Kept

\* File::create truncates the partial file of the layer in hand.
LEMMA OpenKeeps ==
  ASSUME CacheInv, NEW p \in Pulls, Open(p), Typed'
  PROVE  Kept
  <1> USE DEF CacheInv, Typed, TypeOK
  <1>0. PICK d \in Digests : d = Head(todo[p])
    BY Layers DEF Open, Goto, InHand
  <1>1. /\ pc[p] = "open" /\ pc' = [pc EXCEPT ![p] = "stream"]
        /\ partial' = [partial EXCEPT ![d] = Empty] /\ fd' = [fd EXCEPT ![p] = "partial"]
        /\ n' = [n EXCEPT ![p] = 0] /\ hash' = [hash EXCEPT ![p] = TRUE]
        /\ UNCHANGED <<blob, todo, spoiled>>
    BY <1>0 DEF Open, Goto
  <1>2. Fetching(p, d) /\ \A e \in Digests : Fetching(p, e)' => e = d
    BY <1>0, <1>1 DEF Fetching
  <1>3. OthersSame(d) /\ \A q \in Pulls : q # p => SamePull(q, d)
    BY <1>1 DEF OthersSame, SamePull
  <1>4. ReceivedBy(p, d)'
    <2>1. partial'[d] = Empty /\ Empty # TooLong
      BY <1>1, FileAssumption DEF Empty
    <2> QED BY <1>1, <2>1, CacheAssumption DEF ReceivedBy, Chunks
  <1>5. d \notin spoiled /\ blob'[d] # NoFile => Intact(blob'[d])
    BY <1>1 DEF CacheIntact
  <1> QED BY <1>1, <1>2, <1>3, <1>4, <1>5, LocalStep, Zenon

\* A chunk goes to the partial file, and its goodness into the hash.
LEMMA ChunkKeeps ==
  ASSUME CacheInv, NEW p \in Pulls, Chunk(p), Typed'
  PROVE  Kept
  <1> USE DEF CacheInv, Typed, TypeOK
  <1>0. PICK d \in Digests : d = Head(todo[p])
    BY Layers DEF Chunk, InHand
  <1>1. PICK c \in Delivered(p) :
          Write(p, c) /\ hash' = [hash EXCEPT ![p] = hash[p] /\ c = "good"]
    BY Zenon DEF Chunk
  <1>2. /\ pc[p] = "stream" /\ n' = [n EXCEPT ![p] = n[p] + 1] /\ n[p] \in 0..NChunks
        /\ UNCHANGED <<pc, todo, fd, spoiled>>
    BY CacheAssumption DEF Chunk
  <1>3. Fetching(p, d) /\ \A e \in Digests : Fetching(p, e)' => e = d
    BY <1>0, <1>2 DEF Fetching
  <1>4. OthersSame(d) /\ \A q \in Pulls : q # p => SamePull(q, d)
    BY <1>0, <1>1, <1>2 DEF OthersSame, SamePull, Write
  <1>5. ASSUME d \notin spoiled
        PROVE  ReceivedBy(p, d)' /\ UNCHANGED blob
    <2>1. ReceivedBy(p, d)
      BY <1>3, <1>5 DEF Received
    <2>2. fd[p] = "partial" /\ UNCHANGED blob
          /\ partial'[d] = With(partial[d], n[p] + 1, c)
      BY <1>0, <1>1, <1>2, <2>1 DEF ReceivedBy, Write
    <2>3. ASSUME hash'[p]
          PROVE  /\ partial'[d] # TooLong
                 /\ \A k \in Chunks : k <= n'[p] => partial'[d][k] = "good"
      <3>1. c = "good" /\ hash[p]
        BY <1>1, <2>3, ZenonT(30)
      <3>2. n[p] < NChunks /\ n[p] + 1 \in Chunks
        BY <1>1, <1>2, <3>1, CacheAssumption DEF Delivered, Chunks
      <3>3. /\ partial[d] # TooLong /\ partial[d] # NoFile
            /\ \A k \in Chunks : k <= n[p] => partial[d][k] = "good"
        BY <1>0, <1>2, <2>1, <2>2, <3>1 DEF ReceivedBy, Writing
      <3>4. partial[d] \in [Chunks -> {"good", "bad"}]
        BY <3>3 DEF Contents
      <3>5. partial'[d] = [partial[d] EXCEPT ![n[p] + 1] = c]
        BY <1>2, <2>2, <3>2, <3>3, CacheAssumption DEF With
      <3>6. partial'[d] # TooLong
        <4>1. partial'[d] \in [Chunks -> {"good", "bad"}]
          BY <3>1, <3>2, <3>4, <3>5
        <4> QED BY <4>1, FileAssumption
      <3>7. \A k \in Chunks : k <= n'[p] => partial'[d][k] = "good"
        BY <1>2, <3>1, <3>2, <3>3, <3>4, <3>5 DEF Chunks
      <3> QED BY <3>6, <3>7
    <2> QED BY <1>2, <2>2, <2>3 DEF ReceivedBy
  <1>6. d \notin spoiled /\ blob'[d] # NoFile => Intact(blob'[d])
    BY <1>5 DEF CacheIntact
  <1> QED BY <1>2, <1>3, <1>4, <1>5, <1>6, LocalStep, Zenon

\* Only a complete and good partial file passes the digest comparison.
LEMMA VerifyKeeps ==
  ASSUME CacheInv, NEW p \in Pulls, Verify(p), Typed'
  PROVE  Kept
  <1> USE DEF CacheInv, Typed, TypeOK
  <1>0. PICK d \in Digests : d = Head(todo[p])
    BY Layers DEF Verify, InHand
  <1>1. pc[p] = "stream" /\ UNCHANGED <<blob, spoiled>>
    BY DEF Verify
  <1>2. Fetching(p, d)
    BY <1>0, <1>1 DEF Fetching
  <1>3. d \notin spoiled => ReceivedBy(p, d)
    BY <1>2 DEF Received
  <1>4. d \notin spoiled /\ blob'[d] # NoFile => Intact(blob'[d])
    BY <1>1 DEF CacheIntact
  <1>5. CASE n[p] = NChunks /\ hash[p] /\ Goto(p, "stream", "rename") /\ Close(p, fd)
             /\ UNCHANGED <<partial, resolved, todo, paths>>
    <2>1. /\ pc'[p] = "rename" /\ \A q \in Pulls : q # p => SamePull(q, d)
          /\ \A e \in Digests : Fetching(p, e)' => e = d
      BY <1>0, <1>5 DEF Goto, Close, SamePull, Fetching
    <2>2. OthersSame(d)
      BY <1>1, <1>5 DEF OthersSame
    <2>3. ASSUME d \notin spoiled PROVE ReceivedBy(p, d)'
      <3>1. /\ partial[d] # TooLong /\ partial[d] # NoFile
            /\ \A k \in Chunks : partial[d][k] = "good"
        BY <1>0, <1>1, <1>3, <1>5, <2>3, CacheAssumption DEF ReceivedBy, Chunks, Writing
      <3>2. partial[d] \in [Chunks -> {"good", "bad"}]
        BY <3>1 DEF Contents
      <3>3. Intact(partial[d])
        BY <3>1, <3>2 DEF Intact
      <3> QED BY <1>5, <2>1, <3>1, <3>3 DEF ReceivedBy
    <2> QED BY <1>1, <1>2, <1>4, <2>1, <2>2, <2>3, LocalStep, ZenonT(30)
  <1>6. CASE partial' = [partial EXCEPT ![d] = NoFile] /\ Abort(p, Removed(d))
    <2>1. /\ pc'[p] = "idle" /\ \A q \in Pulls : q # p => SamePull(q, d)
      BY <1>6 DEF Abort, Close, SamePull, Removed
    <2>2. OthersSame(d)
      BY <1>1, <1>6 DEF OthersSame
    <2>3. \A e \in Digests : ~Fetching(p, e)'
      BY <2>1 DEF Fetching
    <2> QED BY <1>1, <1>2, <1>4, <2>1, <2>2, <2>3, LocalStep, Zenon
  <1>7. CASE UNCHANGED partial /\ Abort(p, fd)
    BY <1>1, <1>7, QuietStep, ZenonT(30) DEF Abort, Close
  <1> QED BY <1>0, <1>5, <1>6, <1>7 DEF Verify

\* The rename gives a digest an intact blob.
LEMMA RenameKeeps ==
  ASSUME CacheInv, NEW p \in Pulls, Rename(p), Typed'
  PROVE  Kept
  <1> USE DEF CacheInv, Typed, TypeOK
  <1>0. PICK d \in Digests : d = Head(todo[p])
    BY Layers, Zenon DEF Rename, InHand
  <1>1. pc[p] = "rename" /\ UNCHANGED spoiled /\ Fetching(p, d)
    BY <1>0 DEF Rename, Fetching
  <1>2. d \notin spoiled => ReceivedBy(p, d)
    BY <1>1 DEF Received
  <1>3. CASE /\ pc' = [pc EXCEPT ![p] = "check"] /\ TakeLayer(p)
             /\ blob' = [blob EXCEPT ![d] = partial[d]]
             /\ partial' = [partial EXCEPT ![d] = NoFile]
             /\ fd' = Renamed(d) /\ UNCHANGED <<n, hash>>
    <2>1. pc'[p] = "check" /\ \A q \in Pulls : q # p => SamePull(q, d)
      BY <1>3 DEF TakeLayer, SamePull, Renamed
    <2>2. OthersSame(d)
      BY <1>3 DEF OthersSame
    <2>3. \A e \in Digests : ~Fetching(p, e)'
      BY <2>1 DEF Fetching
    <2>4. d \notin spoiled => Intact(blob'[d])
      BY <1>1, <1>2, <1>3 DEF ReceivedBy
    <2> QED BY <1>1, <2>1, <2>2, <2>3, <2>4, LocalStep, ZenonT(30)
  <1>4. CASE Abort(p, fd) /\ UNCHANGED <<blob, partial>>
    BY <1>1, <1>4, QuietStep, ZenonT(30) DEF Abort, Close
  <1> QED BY <1>0, <1>3, <1>4 DEF Rename, Goto

\* A pull that finds no blob, or cannot look, starts to fetch it: alone, or the
\* digest is spoiled.
LEMMA MeetKeeps ==
  ASSUME CacheInv, NEW p \in Pulls, pc[p] = "check", todo[p] # <<>>,
         pc' = [pc EXCEPT ![p] = "open"], MeetOthers(p),
         UNCHANGED <<blob, partial, todo, fd, n, hash>>
  PROVE  Kept
  <1> USE DEF CacheInv, Typed, TypeOK
  <1>0. PICK d \in Digests : d = Head(todo[p])
    BY Layers
  <1>1. /\ spoiled \subseteq spoiled'
        /\ d \notin spoiled' => \A q \in Pulls : q # p => ~Fetching(q, d)
    BY <1>0 DEF MeetOthers
  <1>2. /\ \A q \in Pulls, e \in Digests : q # p => (Fetching(q, e)' <=> Fetching(q, e))
        /\ \A e \in Digests : Fetching(p, e)' => e = d
    BY <1>0 DEF Fetching
  <1>3. Solo'
    <2> SUFFICES ASSUME NEW e \in Digests \ spoiled', NEW q \in Pulls, NEW r \in Pulls,
                        Fetching(q, e)', Fetching(r, e)'
                 PROVE  q = r
      BY DEF Solo
    <2>1. e \notin spoiled
      BY <1>1
    <2>2. CASE q # p /\ r # p
      BY <1>2, <2>1, <2>2 DEF Solo
    <2>3. CASE e = d
      BY <1>1, <1>2, <2>3, ZenonT(30)
    <2> QED BY <1>2, <2>2, <2>3
  <1>4. CacheIntact'
    BY <1>1 DEF CacheIntact, Intact
  <1>5. Received'
    <2> SUFFICES ASSUME NEW e \in Digests \ spoiled', NEW q \in Pulls, Fetching(q, e)'
                 PROVE  ReceivedBy(q, e)'
      BY DEF Received
    <2>1. CASE q = p
      BY <2>1 DEF ReceivedBy
    <2>2. CASE q # p
      <3>1. ReceivedBy(q, e) /\ pc'[q] = pc[q]
        BY <1>1, <1>2, <2>2 DEF Received
      <3> QED BY <3>1 DEF ReceivedBy, Intact
    <2> QED BY <2>1, <2>2
  <1> QED BY <1>3, <1>4, <1>5 DEF Kept

\* A power loss empties blobs, which are spoiled by it, while no pull runs.
LEMMA PowerKeeps ==
  ASSUME CacheInv, PowerLoss
  PROVE  Kept
  <1> USE DEF CacheInv, Typed, TypeOK
  <1>1. PICK lost \in SUBSET Digests :
          /\ blob' = [d \in Digests |-> IF d \in lost THEN Empty ELSE blob[d]]
          /\ spoiled' = spoiled \cup lost
    BY ZenonT(30) DEF PowerLoss
  <1>2. UNCHANGED <<partial, pc, todo>>
    BY DEF PowerLoss, pullVars
  <1>3. \A p \in Pulls : pc'[p] \notin {"open", "stream", "rename"}
    BY <1>2 DEF PowerLoss, Active
  <1>4. Solo' /\ Received'
    BY <1>2, <1>3 DEF Solo, Received, Fetching
  <1>5. CacheIntact'
    BY <1>1 DEF CacheIntact
  <1> QED BY <1>4, <1>5 DEF Kept

\* The partial file of a pull becomes a blob only when it is complete and good.
LEMMA CacheNext == CacheInv /\ [Next]_vars => CacheInv'
  <1> SUFFICES ASSUME CacheInv, [Next]_vars PROVE CacheInv'
    OBVIOUS
  <1>1. Typed /\ Typed'
    BY TypeNext DEF CacheInv
  <1>2. ASSUME NEW p \in Pulls, Open(p) \/ Chunk(p) \/ Verify(p) \/ Rename(p) PROVE Kept
    BY <1>1, <1>2, OpenKeeps, ChunkKeeps, VerifyKeeps, RenameKeeps
  <1>3. ASSUME NEW p \in Pulls, Start(p) \/ Resolve(p) \/ Stop(p) PROVE Kept
    <2>1. /\ pc'[p] \in {"idle", "resolve", "check"}
          /\ UNCHANGED <<blob, partial, spoiled>>
          /\ \A q \in Pulls : q # p => UNCHANGED <<pc[q], todo[q], fd[q], n[q], hash[q]>>
      BY <1>1, <1>3 DEF Typed, TypeOK, Start, Resolve, Stop, Abort, Close, Goto, fileVars
    <2> QED BY <2>1, QuietStep
  <1>4. ASSUME NEW p \in Pulls, Check(p) PROVE Kept
    <2>1. CASE todo[p] # <<>> /\ Goto(p, "check", "open") /\ MeetOthers(p)
      <3>1. /\ pc[p] = "check" /\ pc' = [pc EXCEPT ![p] = "open"]
            /\ UNCHANGED <<blob, partial, todo, fd, n, hash>>
        BY <1>1, <1>4, <2>1 DEF Check, Goto, Typed, TypeOK
      <3> QED BY <2>1, <3>1, MeetKeeps, ZenonT(30)
    <2>2. CASE ~(todo[p] # <<>> /\ Goto(p, "check", "open") /\ MeetOthers(p))
      <3>1. /\ pc'[p] \in {"done", "check"}
            /\ UNCHANGED <<blob, partial, spoiled>>
            /\ \A q \in Pulls : q # p => UNCHANGED <<pc[q], todo[q], fd[q], n[q], hash[q]>>
        BY <1>1, <1>4, <2>2 DEF Typed, TypeOK, Check, Goto, TakeLayer
      <3> QED BY <3>1, QuietStep, Zenon
    <2> QED BY <2>1, <2>2
  <1>5. ASSUME CalmDown \/ UNCHANGED vars PROVE Kept
    <2>1. UNCHANGED <<blob, partial, spoiled, pc, todo, fd, n, hash>>
      BY <1>5 DEF CalmDown, vars, fileVars, pullVars
    <2> QED BY <2>1, SameAll
  <1>6. ASSUME PowerLoss PROVE Kept
    BY <1>6, PowerKeeps
  <1>7. Kept
    BY <1>2, <1>3, <1>4, <1>5, <1>6 DEF Next, PullLayers
  <1> QED BY <1>1, <1>7 DEF CacheInv, Kept

\* A blob under its final name is verified content, which try_exists
\* (registry.rs:351) relies on, under every fault and any number of pulls, as
\* long as the digest was never fetched by two pulls at once or hit by a power
\* loss.
THEOREM CacheIsVerified == Spec => []CacheIntact
  <1>1. CacheInv => CacheIntact
    BY DEF CacheInv
  <1> QED BY CacheInit, CacheNext, <1>1, PTL DEF Spec

\* Such a blob, which a daemon may serve from, is open for writing in no pull, and
\* so keeps that content even when try_exists fails and a pull fetches it again.
THEOREM CachedBlobsAreSealed == Spec => []BlobsSealed
  <1>1. CacheInv => BlobsSealed
    BY DEF CacheInv, Typed, Writing, Received, ReceivedBy, Fetching, Writes, BlobsSealed
  <1> QED BY CacheInit, CacheNext, <1>1, PTL DEF Spec

=============================================================================
