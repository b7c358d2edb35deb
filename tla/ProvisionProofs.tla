--------------------------- MODULE ProvisionProofs ---------------------------
(***************************************************************************)
(* Proofs about Provision, for any volumes, classes, repositories and      *)
(* bounds.                                                                 *)
(***************************************************************************)
EXTENDS Provision, NatRecursion, TLAPS

\* The time limits of a leaf that names no prover.
USE SMTT(30), ZenonT(30)

\* sanitize_tag keeps the names of volumes apart from each other and from those
\* of snapshots, and no volume is named like a seed's tag.
TagsApart ==
  /\ \A n \in Names, m \in Names \cup SnapNames : TagOf[n] = TagOf[m] => n = m
  /\ Names \cap SnapNames = {}
  /\ \A n \in Names, r \in Seeds : TagOf[n] # r.tag

\* A push changes one tag, to a type-correct layer list.
LEMMA PushKeepsTags ==
  ASSUME tags \in [Repos \X Tags -> Seq(Nat)],
         NEW ref, NEW layer \in Nat, PushRevision(ref, layer)
  PROVE  /\ tags' \in [Repos \X Tags -> Seq(Nat)]
         /\ \A x \in Repos \X Tags :
              tags'[x] # tags[x] => x = <<ref.repo, ref.tag>> /\ tags'[x] = <<layer>>
<1>1. <<layer>> \in Seq(Nat)
  OBVIOUS
<1> QED
  BY <1>1, ZenonT(30) DEF PushRevision

\* TypeOK holds of every step (all handlers of Provision).
LEMMA TypeStep == TypeOK /\ [Next]_vars => TypeOK'
<1> SUFFICES ASSUME TypeOK, [Next]_vars PROVE TypeOK'
  OBVIOUS
<1> USE DEF Mounted
<1>1. ASSUME NEW n \in Names, NEW class \in Classes, NEW s \in SnapNames \cup {None},
             CreateVolume(n, class, s)
      PROVE  TypeOK'
  BY <1>1 DEF CreateVolume, TypeOK
<1>2. ASSUME NEW n \in Names, DeleteVolume(n) PROVE TypeOK'
  BY <1>2 DEF DeleteVolume, TypeOK
<1>3. ASSUME NEW n \in Names, NEW readonly \in BOOLEAN, NodePublishVolume(n, readonly)
      PROVE  TypeOK'
  <2>1. UpperOf(n) \in Nat
    BY DEF UpperOf, TypeOK
  <2> QED
    BY <1>3, <2>1 DEF NodePublishVolume, TypeOK
<1>4. ASSUME NEW n \in Names, NodeUnpublishVolume(n) PROVE TypeOK'
  <2>1. upper[n] \in Nat
    BY <1>4 DEF NodeUnpublishVolume, TypeOK
  <2>2. tags' \in [Repos \X Tags -> Seq(Nat)]
    BY <1>4, <2>1, PushKeepsTags DEF NodeUnpublishVolume, TypeOK
  <2> QED
    BY <1>4, <2>2 DEF NodeUnpublishVolume, TypeOK
<1>5. ASSUME NEW n \in Names, Write(n) PROVE TypeOK'
  BY <1>5 DEF Write, TypeOK
<1>6. ASSUME NEW n \in Names, NEW s \in SnapNames, NEW class \in SnapClasses,
             CreateSnapshot(s, n, class)
      PROVE  TypeOK'
  <2>1. upper[n] \in Nat
    BY <1>6 DEF CreateSnapshot, TypeOK
  <2>2. tags' \in [Repos \X Tags -> Seq(Nat)]
    BY <1>6, <2>1, PushKeepsTags DEF CreateSnapshot, TypeOK
  <2>3. DOMAIN snaps' = SnapNames
    BY <1>6 DEF CreateSnapshot, TypeOK
  <2> QED
    BY <1>6, <2>2, <2>3 DEF CreateSnapshot, TypeOK
<1>7. ASSUME NEW s \in SnapNames, DeleteSnapshot(s) PROVE TypeOK'
  BY <1>7 DEF DeleteSnapshot, TypeOK
<1>8. ASSUME NEW r \in Seeds, MoveSeed(r) PROVE TypeOK'
  <2>1. version + 1 \in Nat
    BY DEF TypeOK
  <2>2. tags' \in [Repos \X Tags -> Seq(Nat)]
    BY <1>8, <2>1, PushKeepsTags DEF MoveSeed, TypeOK
  <2> QED
    BY <1>8, <2>1, <2>2 DEF MoveSeed, TypeOK
<1>9. ASSUME UNCHANGED vars PROVE TypeOK'
  BY <1>9 DEF vars, TypeOK
<1> QED
  BY <1>1, <1>2, <1>3, <1>4, <1>5, <1>6, <1>7, <1>8, <1>9 DEF Next

\* TypeOK is an invariant: in particular every mounted volume has an upper
\* (node_publish_volume creates it, and no call takes it away).
THEOREM TypeCorrect == Spec => []TypeOK
<1>1. Init => TypeOK
  BY DEF Init, TypeOK, Mounted
<1> QED
  BY <1>1, TypeStep, PTL DEF Spec

-----------------------------------------------------------------------------
\* What CaptureStays says of one step.
TagMovesAtUnpublish ==
  \A n \in Names, repo \in Repos :
    LET tag == <<repo, TagOf[n]>>
    IN tags'[tag] # tags[tag] =>
         n \in Mounted /\ mnt'[n] = None /\ tags'[tag] = <<upper[n]>>

\* A push to a tag that no volume has moves no volume's tag.
LEMMA ForeignPush ==
  ASSUME TypeOK, NEW ref, NEW layer \in Nat, PushRevision(ref, layer),
         \A n \in Names : TagOf[n] # ref.tag
  PROVE  TagMovesAtUnpublish
<1> SUFFICES ASSUME NEW n \in Names, NEW repo \in Repos
             PROVE  tags'[<<repo, TagOf[n]>>] = tags[<<repo, TagOf[n]>>]
  BY DEF TagMovesAtUnpublish
<1>1. <<repo, TagOf[n]>> \in Repos \X Tags
  BY DEF Tags
<1>2. <<repo, TagOf[n]>> # <<ref.repo, ref.tag>>
  OBVIOUS
<1> QED
  BY <1>1, <1>2, PushKeepsTags DEF TypeOK

\* A push to the tag of a volume that is being unmounted, of what it holds.
LEMMA OwnPush ==
  ASSUME TypeOK, TagsApart, NEW n \in Names, n \in Mounted, mnt'[n] = None,
         NEW repo, PushRevision(TagRef(repo, TagOf[n]), upper[n])
  PROVE  TagMovesAtUnpublish
<1>1. upper[n] \in Nat
  BY DEF TypeOK
<1>2. \A x \in Repos \X Tags :
        tags'[x] # tags[x] => x = <<repo, TagOf[n]>> /\ tags'[x] = <<upper[n]>>
  BY <1>1, PushKeepsTags DEF TypeOK, TagRef
<1> SUFFICES ASSUME NEW m \in Names, NEW r \in Repos,
                    tags'[<<r, TagOf[m]>>] # tags[<<r, TagOf[m]>>]
             PROVE  m = n /\ tags'[<<r, TagOf[m]>>] = <<upper[n]>>
  BY DEF TagMovesAtUnpublish
<1>3. <<r, TagOf[m]>> \in Repos \X Tags
  BY DEF Tags
<1>4. <<r, TagOf[m]>> = <<repo, TagOf[n]>> /\ tags'[<<r, TagOf[m]>>] = <<upper[n]>>
  BY <1>2, <1>3
<1> QED
  BY <1>4 DEF TagsApart

\* The step of CaptureStays, action by action: only pushes matter.
LEMMA CaptureStep ==
  ASSUME TagsApart, TypeOK, Next
  PROVE  TagMovesAtUnpublish
<1>1. ASSUME UNCHANGED tags PROVE TagMovesAtUnpublish
  BY <1>1 DEF TagMovesAtUnpublish
<1>2. ASSUME NEW n \in Names, NodeUnpublishVolume(n) PROVE TagMovesAtUnpublish
  <2>1. n \in Mounted /\ mnt'[n] = None
    BY <1>2 DEF NodeUnpublishVolume, Mounted, TypeOK
  <2>2. \/ \E repo : PushRevision(TagRef(repo, TagOf[n]), upper[n])
        \/ UNCHANGED tags
    BY <1>2 DEF NodeUnpublishVolume
  <2> QED
    BY <1>1, <2>1, <2>2, OwnPush
<1>3. ASSUME NEW n \in Names, NEW s \in SnapNames, NEW class \in SnapClasses,
             CreateSnapshot(s, n, class)
      PROVE  TagMovesAtUnpublish
  <2> DEFINE target == SnapshotTarget(class, n, s)
  <2>1. target # None /\ PushRevision(target, upper[n]) /\ n \in Mounted
    BY <1>3 DEF CreateSnapshot, Mounted
  <2>2. target.tag = TagOf[s]
    BY <2>1 DEF SnapshotTarget, TagRef
  <2>3. \A m \in Names : TagOf[m] # target.tag
    BY <2>2 DEF TagsApart
  <2>4. upper[n] \in Nat
    BY <2>1 DEF TypeOK
  <2> HIDE DEF target
  <2> QED
    BY <2>1, <2>3, <2>4, ForeignPush
<1>4. ASSUME NEW r \in Seeds, MoveSeed(r) PROVE TagMovesAtUnpublish
  <2>1. PushRevision(r, version + 1) /\ version + 1 \in Nat
    BY <1>4 DEF MoveSeed, TypeOK
  <2>2. \A m \in Names : TagOf[m] # r.tag
    BY DEF TagsApart
  <2> QED
    BY <2>1, <2>2, ForeignPush
<1> QED
  BY <1>1, <1>2, <1>3, <1>4
     DEF Next, CreateVolume, DeleteVolume, NodePublishVolume, Write, DeleteSnapshot

\* When tags do not collide, what an unpublish captured (freeze_on_unpublish)
\* stays under its tag until that volume is unpublished again.
THEOREM CapturesStay ==
  ASSUME TagsApart
  PROVE  Spec => CaptureStays
<1>1. TypeOK /\ [Next]_vars => [TagMovesAtUnpublish]_vars
  BY CaptureStep
<1>2. TypeOK /\ [Next]_vars =>
        [\A n \in Names, repo \in Repos :
           LET tag == <<repo, TagOf[n]>>
           IN tags'[tag] # tags[tag] =>
                n \in Mounted /\ mnt'[n] = None /\ tags'[tag] = <<upper[n]>>]_vars
  BY <1>1 DEF TagMovesAtUnpublish
<1> QED
  BY <1>2, TypeCorrect, PTL DEF Spec, CaptureStays

-----------------------------------------------------------------------------
(* The volume context loses nothing *)

\* What Split computes: one function, its value at every prefix.
LEMMA SplitSteps ==
  ASSUME NEW T, NEW s \in Seq(T)
  PROVE  \E f \in [0..Len(s) -> Seq(T)] :
           /\ f[0] = <<>>
           /\ \A i \in 1..Len(s) :
                f[i] = IF s[i] = Sep THEN f[i - 1] ELSE Append(f[i - 1], s[i])
           /\ Split(s) = f[Len(s)]
<1> DEFINE n == Len(s)
           V == Seq(T)
           e == <<>>
           Next1(i, x) == IF s[i] = Sep THEN x ELSE Append(x, s[i])
           step == [i \in 1..n |-> [x \in V |-> Next1(i, x)]]
           Is(f) == f = [i \in 0..n |-> IF i = 0 THEN e ELSE Next1(i, f[i - 1])]
<1>1. n \in Nat /\ e \in V
  OBVIOUS
<1>2. \A i \in 1..n, x \in V : Next1(i, x) \in V
  OBVIOUS
<1> HIDE DEF n, V, e, Next1
<1>3. step \in [1..n -> [V -> V]]
  BY <1>2
<1>4. PICK g \in [0..n -> V] : g[0] = e /\ \A i \in 1..n : g[i] = step[i][g[i - 1]]
  <2> HIDE DEF step
  <2>1. \E f : Iterates(f, n, V, e, step)
    BY <1>1, <1>3, UpToRecursion
  <2> QED BY <2>1, Zenon DEF Iterates
<1>5. ASSUME NEW i \in 1..n PROVE g[i] = Next1(i, g[i - 1])
  <2>1. i - 1 \in 0..n /\ g[i - 1] \in V
    BY <1>1
  <2>2. step[i][g[i - 1]] = Next1(i, g[i - 1])
    BY <2>1
  <2> HIDE DEF step
  <2> QED BY <1>4, <2>2
<1>6. Is(g)
  <2>1. \A i \in 0..n : g[i] = IF i = 0 THEN e ELSE Next1(i, g[i - 1])
    BY <1>1, <1>4, <1>5
  <2> QED BY <2>1
<1>7. PICK f : Is(f) /\ Split(s) = f[n]
  BY <1>6, Zenon DEF Split, n, e, Next1
<1>8. f[0] = e /\ \A i \in 1..n : f[i] = Next1(i, f[i - 1])
  BY <1>1, <1>7
<1>9. \A i \in 0..n : f[i] \in V
  <2> DEFINE S == {i \in 0..n : f[i] \in V}
  <2>1. 0 \in S
    BY <1>1, <1>8
  <2>2. \A i \in 1..n : i - 1 \in S => i \in S
    BY <1>1, <1>2, <1>8
  <2> HIDE DEF S
  <2>3. \A i \in 0..n : i \in S
    BY <1>1, <2>1, <2>2, UpToInduction
  <2> QED BY <2>3 DEF S
<1>10. f \in [0..n -> V]
  BY <1>7, <1>9
<1> QED BY <1>7, <1>8, <1>10, Zenon DEF n, V, e, Next1

\* What is split off is not a separator.
LEMMA SplitType ==
  ASSUME NEW T, NEW s \in Seq(T \cup {Sep})
  PROVE  Split(s) \in Seq(T)
<1> DEFINE n == Len(s)
<1>1. PICK f \in [0..n -> Seq(T \cup {Sep})] :
        /\ f[0] = <<>>
        /\ \A i \in 1..n : f[i] = IF s[i] = Sep THEN f[i - 1] ELSE Append(f[i - 1], s[i])
        /\ Split(s) = f[n]
  BY SplitSteps
<1> DEFINE S == {i \in 0..n : f[i] \in Seq(T)}
<1>2. n \in Nat /\ \A i \in 1..n : s[i] \in T \cup {Sep}
  OBVIOUS
<1> HIDE DEF n
<1>3. 0 \in S
  BY <1>1, <1>2
<1>4. ASSUME NEW i \in 1..n, i - 1 \in S PROVE i \in S
  <2>1. f[i - 1] \in Seq(T) /\ i \in 0..n
    BY <1>2, <1>4
  <2>2. s[i] # Sep => Append(f[i - 1], s[i]) \in Seq(T)
    BY <1>2, <2>1
  <2> QED BY <1>1, <2>1, <2>2, Zenon
<1> HIDE DEF S
<1>5. \A i \in 0..n : i \in S
  BY <1>2, <1>3, <1>4, UpToInduction, Zenon
<1> QED BY <1>1, <1>2, <1>5 DEF S

\* Splitting what was joined gives it back.
LEMMA SplitJoin ==
  ASSUME NEW T, Sep \notin T, NEW q \in Seq(T), q # <<>>
  PROVE  Split(Join(q)) = q
<1> DEFINE s == Join(q)
           k == Len(q)
           n == Len(s)
<1>1. k \in Nat /\ k > 0 /\ \A j \in 1..k : q[j] \in T
  OBVIOUS
<1>2. s \in Seq(T \cup {Sep}) /\ n = 2 * k - 1
  BY <1>1 DEF Join
<1>3. \A j \in 1..k : s[2 * j - 1] = q[j]
  BY <1>1 DEF Join
<1>4. \A j \in 1..(k - 1) : s[2 * j] = Sep
  BY <1>1 DEF Join
<1> HIDE DEF s
<1>5. PICK f \in [0..n -> Seq(T \cup {Sep})] :
        /\ f[0] = <<>>
        /\ \A i \in 1..n : f[i] = IF s[i] = Sep THEN f[i - 1] ELSE Append(f[i - 1], s[i])
        /\ Split(s) = f[n]
  BY <1>2, SplitSteps, Zenon
<1> DEFINE m == k - 1
           S == {j \in 0..m : f[2 * j + 1] = SubSeq(q, 1, j + 1)}
<1> HIDE DEF n, k
<1>6. m \in Nat /\ k = m + 1 /\ n = 2 * m + 1
  BY <1>1, <1>2
<1> HIDE DEF m
<1>7. 0 \in S
  <2>1. s[1] = q[1] /\ q[1] # Sep
    BY <1>1, <1>3, <1>6
  <2>2. f[1] = Append(f[0], s[1])
    <3>1. 1 \in 1..n /\ 1 - 1 = 0
      BY <1>6
    <3> QED BY <1>5, <2>1, <3>1, Zenon
  <2>3. SubSeq(q, 1, 1) = <<q[1]>> /\ Append(<<>>, q[1]) = <<q[1]>>
    BY <1>1, <1>6 DEF k
  <2>4. f[2 * 0 + 1] = SubSeq(q, 1, 0 + 1)
    BY <1>5, <2>1, <2>2, <2>3
  <2> QED BY <1>6, <2>4
<1>8. ASSUME NEW j \in 1..m, j - 1 \in S PROVE j \in S
  <2>1. f[2 * j - 1] = SubSeq(q, 1, j)
    <3>1. f[2 * (j - 1) + 1] = SubSeq(q, 1, (j - 1) + 1)
      BY <1>8
    <3>2. 2 * (j - 1) + 1 = 2 * j - 1 /\ (j - 1) + 1 = j
      BY <1>6
    <3> QED BY <3>1, <3>2
  <2>2. f[2 * j] = SubSeq(q, 1, j)
    <3>1. 2 * j \in 1..n /\ s[2 * j] = Sep
      BY <1>4, <1>6
    <3> QED BY <1>5, <2>1, <3>1
  <2>3. s[2 * j + 1] = q[j + 1] /\ q[j + 1] # Sep
    <3>1. j + 1 \in 1..k /\ 2 * (j + 1) - 1 = 2 * j + 1
      BY <1>6
    <3> QED BY <1>1, <1>3, <3>1
  <2>4. f[2 * j + 1] = Append(SubSeq(q, 1, j), q[j + 1])
    <3>1. 2 * j + 1 \in 1..n /\ (2 * j + 1) - 1 = 2 * j
      BY <1>6
    <3> QED BY <1>5, <2>2, <2>3, <3>1, Zenon
  <2>5. SubSeq(q, 1, j + 1) = Append(SubSeq(q, 1, j), q[j + 1])
    BY <1>1, <1>6 DEF k
  <2>6. j \in 0..m
    BY <1>6
  <2> QED BY <2>4, <2>5, <2>6, Zenon
<1> HIDE DEF S
<1>9. \A j \in 0..m : j \in S
  <2>1. \A j \in 1..m : j - 1 \in S => j \in S
    BY <1>8, Zenon
  <2> QED BY <1>6, <1>7, <2>1, UpToInduction, Zenon
<1>10. f[2 * m + 1] = SubSeq(q, 1, m + 1)
  <2>1. m \in S
    BY <1>6, <1>9
  <2> QED BY <2>1 DEF S
<1>11. SubSeq(q, 1, k) = q
  BY DEF k
<1> QED BY <1>5, <1>6, <1>10, <1>11 DEF s

\* PvcParams, as parse makes them.
IsParams(p) ==
  /\ p = [seeds |-> p.seeds, mode |-> p.mode, lifecycle |-> p.lifecycle,
          owner |-> p.owner, capture |-> p.capture, repo |-> p.repo]
  /\ p.seeds \in Seq(Refs)
  /\ p.mode \in {"empty", "ro", "rwo", "rwx", None}
  /\ p.lifecycle \in {"persistent", "ephemeral", "ephemeral-then-persistent", None}
  /\ p.capture \in BOOLEAN

\* PvcParams::parse of a class it accepts.
LEMMA ParseType ==
  ASSUME NEW c \in Classes, ParseOk(c)
  PROVE  IsParams(Parse(c))
<1>1. Get(c, "seed", <<>>) \in Seq(Refs \cup {Sep})
  BY ProvisionAssumption DEF Get
<1>2. Parse(c).seeds \in Seq(Refs)
  BY <1>1, SplitType DEF Parse
<1>3. Parse(c).mode \in {"empty", "ro", "rwo", "rwx", None}
  BY DEF ParseOk, Parse, AccessMode
<1>4. Parse(c).lifecycle \in {"persistent", "ephemeral", "ephemeral-then-persistent", None}
  BY DEF ParseOk, Parse, Lifecycle
<1>5. Parse(c).capture \in BOOLEAN
  BY DEF Parse
<1>6. Parse(c) = [seeds |-> Parse(c).seeds, mode |-> Parse(c).mode,
                  lifecycle |-> Parse(c).lifecycle, owner |-> Parse(c).owner,
                  capture |-> Parse(c).capture, repo |-> Parse(c).repo]
  BY DEF Parse
<1> QED BY <1>2, <1>3, <1>4, <1>5, <1>6 DEF IsParams

\* A snapshot to start from is one more seed.
LEMMA WithSourceType ==
  ASSUME NEW p, IsParams(p), NEW source \in Refs \cup {None}
  PROVE  IsParams(WithSource(p, source))
<1>1. CASE source = None
  BY <1>1 DEF WithSource
<1>2. CASE source # None
  <2>1. Append(p.seeds, source) \in Seq(Refs)
    BY <1>2 DEF IsParams
  <2>2. WithSource(p, source) =
          [seeds |-> Append(p.seeds, source), mode |-> p.mode, lifecycle |-> p.lifecycle,
           owner |-> p.owner, capture |-> p.capture, repo |-> p.repo]
    BY <1>2 DEF WithSource, IsParams
  <2> QED BY <2>1, <2>2 DEF IsParams
<1> QED BY <1>1, <1>2

\* parse undoes to_volume_context (params.rs:107-173): whatever parameters are
\* written, the map is accepted and gives the same parameters back.
THEOREM RoundTrip ==
  ASSUME NEW p, IsParams(p)
  PROVE  ParseOk(ToVolumeContext(p)) /\ Parse(ToVolumeContext(p)) = p
<1> DEFINE m == ToVolumeContext(p)
<1>1. /\ "seed" \in DOMAIN m <=> p.seeds # <<>>
      /\ "seed" \in DOMAIN m => m.seed = Join(p.seeds)
  BY DEF ToVolumeContext, SetKeys
<1>2. /\ "accessMode" \in DOMAIN m <=> p.mode # None
      /\ "accessMode" \in DOMAIN m => m.accessMode = p.mode
  BY DEF ToVolumeContext, SetKeys
<1>3. /\ "lifecycle" \in DOMAIN m <=> p.lifecycle # None
      /\ "lifecycle" \in DOMAIN m => m.lifecycle = p.lifecycle
  BY DEF ToVolumeContext, SetKeys
<1>4. /\ "owner" \in DOMAIN m <=> p.owner # None
      /\ "owner" \in DOMAIN m => m.owner = p.owner
  BY DEF ToVolumeContext, SetKeys
<1>5. /\ "captureOnDelete" \in DOMAIN m <=> p.capture
      /\ "captureOnDelete" \in DOMAIN m => m.captureOnDelete = "true"
  BY DEF ToVolumeContext, SetKeys, IsParams
<1>6. /\ "captureRepo" \in DOMAIN m <=> p.repo # None
      /\ "captureRepo" \in DOMAIN m => m.captureRepo = p.repo
  BY DEF ToVolumeContext, SetKeys
<1> HIDE DEF m
<1>7. Parse(m).seeds = p.seeds
  <2>1. CASE p.seeds = <<>>
    <3>1. <<>> \in Seq({}) /\ Len(<<>>) = 0
      OBVIOUS
    <3>2. \E f \in [0..Len(<<>>) -> Seq({})] : f[0] = <<>> /\ Split(<<>>) = f[Len(<<>>)]
      BY <3>1, SplitSteps, ZenonT(30)
    <3>3. Split(<<>>) = <<>>
      BY <3>1, <3>2
    <3> QED BY <1>1, <2>1, <3>3 DEF Parse, Get
  <2>2. CASE p.seeds # <<>>
    BY <1>1, <2>2, SplitJoin, ProvisionAssumption DEF Parse, Get, IsParams
  <2> QED BY <2>1, <2>2
<1>8. ParseOk(m) /\ Parse(m).mode = p.mode /\ Parse(m).lifecycle = p.lifecycle
  BY <1>2, <1>3 DEF ParseOk, Parse, IsParams, AccessMode, Lifecycle
<1>9. Parse(m).owner = p.owner /\ Parse(m).repo = p.repo
  BY <1>4, <1>6 DEF Parse, Get
<1>10. Parse(m).capture = p.capture
  BY <1>5 DEF Parse, Get, IsParams
<1>11. Parse(m) = [seeds |-> Parse(m).seeds, mode |-> Parse(m).mode,
                   lifecycle |-> Parse(m).lifecycle, owner |-> Parse(m).owner,
                   capture |-> Parse(m).capture, repo |-> Parse(m).repo]
  BY DEF Parse
<1>12. Parse(m) = p
  BY <1>7, <1>8, <1>9, <1>10, <1>11 DEF IsParams
<1> QED BY <1>8, <1>12 DEF m

-----------------------------------------------------------------------------
(* What is asked for is what is mounted, and a clone shows its source *)

\* A snapshot's id is pinned to the upper that was frozen: to all there was to
\* see, where the volume had no lowers.
Pinned(id, frozen) ==
  /\ id \in Refs /\ id.pin \in Nat
  /\ frozen.whole => frozen.view = id.pin

SnapsPinned ==
  \A s \in SnapNames : snaps[s] # None => Pinned(snaps[s].id, snaps[s].frozen)

\* The context is what class and source make it.
Asked(n) == WithSource(Parse(pv[n].class), pv[n].source)

ContextsKept ==
  \A n \in Names : pv[n] # None =>
    /\ pv[n].class \in Classes /\ ParseOk(pv[n].class)
    /\ pv[n].source # None => Pinned(pv[n].source, pv[n].frozen)
    /\ pv[n].ctx = ToVolumeContext(Asked(n))

\* A mount is made of the context of its volume, which is still there; a clone
\* without seeds has the frozen layer for its lowers.
MountsKept ==
  \A n \in Names : mnt[n] # None =>
    /\ pv[n] # None
    /\ mnt[n].publishJson = pv[n].ctx
    /\ mnt[n].spec = SpecOf(Parse(pv[n].ctx), mnt[n].readonly)
    /\ pv[n].source # None /\ Parse(pv[n].class).seeds = <<>>
         => mnt[n].lowers = <<pv[n].source.pin>>

LifeInv == TypeOK /\ SnapsPinned /\ ContextsKept /\ MountsKept

\* The layers of a single pinned reference.
LEMMA LowersOfPinned ==
  ASSUME NEW id \in Refs, id.pin \in Nat
  PROVE  Lowers(<<id>>) = <<id.pin>>
<1> DEFINE q == <<id>>
           Is(f) == f = [i \in 0..Len(q) |->
                          IF i = 0 THEN <<>> ELSE f[i - 1] \o LayersOf(q[i])]
           g == [i \in 0..1 |-> IF i = 0 THEN <<>> ELSE <<id.pin>>]
<1>1. LayersOf(id) = <<id.pin>>
  BY ProvisionAssumption DEF LayersOf
<1>2. Len(q) = 1 /\ q[1] = id /\ <<>> \o <<id.pin>> = <<id.pin>>
  OBVIOUS
<1> HIDE DEF q
<1>3. Is(g)
  BY <1>1, <1>2
<1>4. PICK f : Is(f) /\ Lowers(q) = f[Len(q)]
  BY <1>3, Zenon DEF Lowers
<1>5. f[0] = <<>> /\ f[1] = f[0] \o LayersOf(q[1])
  BY <1>2, <1>4
<1> QED BY <1>1, <1>2, <1>4, <1>5 DEF q

\* An upper without lowers is all there is to see; an empty one shows the layer
\* below it.
LEMMA Views ==
  ASSUME NEW v \in Nat
  PROVE  View(v, <<>>) = v /\ View(0, <<v>>) = v
<1>1. View(v, <<>>) = v
  <2> DEFINE all == <<v>> \o <<>>
             having == {i \in 1..Len(all) : all[i] # 0}
  <2>1. Len(all) = 1 /\ all[1] = v
    OBVIOUS
  <2> HIDE DEF all
  <2>2. having = IF v = 0 THEN {} ELSE {1}
    BY <2>1
  <2>3. v # 0 => (CHOOSE i \in having : \A j \in having : i <= j) = 1
    BY <2>2
  <2> HIDE DEF having
  <2> QED BY <2>1, <2>2, <2>3 DEF View, all, having
<1>2. View(0, <<v>>) = v
  <2> DEFINE all == <<0>> \o <<v>>
             having == {i \in 1..Len(all) : all[i] # 0}
  <2>1. Len(all) = 2 /\ all[1] = 0 /\ all[2] = v
    OBVIOUS
  <2> HIDE DEF all
  <2>2. having = IF v = 0 THEN {} ELSE {2}
    BY <2>1
  <2>3. v # 0 => (CHOOSE i \in having : \A j \in having : i <= j) = 2
    BY <2>2
  <2> HIDE DEF having
  <2> QED BY <2>1, <2>2, <2>3 DEF View, all, having
<1> QED BY <1>1, <1>2

\* The node reads from the context what the controller was asked for.
LEMMA ReadBack ==
  ASSUME ContextsKept, NEW n \in Names, pv[n] # None
  PROVE  ParseOk(pv[n].ctx) /\ Parse(pv[n].ctx) = Asked(n)
<1>1. IsParams(Parse(pv[n].class))
  BY ParseType DEF ContextsKept
<1>2. pv[n].source \in Refs \cup {None}
  BY DEF ContextsKept, Pinned
<1>3. IsParams(Asked(n))
  BY <1>1, <1>2, WithSourceType DEF Asked
<1> QED BY <1>3, RoundTrip DEF ContextsKept

\* create_volume: the context is written as it is asked for.
LEMMA LifeCreateVolume ==
  ASSUME LifeInv, NEW n \in Names, NEW class \in Classes, NEW s \in SnapNames \cup {None},
         CreateVolume(n, class, s)
  PROVE  SnapsPinned' /\ ContextsKept' /\ MountsKept'
<1> DEFINE source == IF s = None THEN None ELSE snaps[s].id
           frozen == IF s = None THEN None ELSE snaps[s].frozen
           p == WithSource(Parse(class), source)
           new == [ctx |-> ToVolumeContext(p), class |-> class, source |-> source,
                   frozen |-> frozen]
<1>1. /\ pv[n] = None /\ ParseOk(class) /\ (s # None => snaps[s] # None)
      /\ pv' = [pv EXCEPT ![n] = new]
      /\ UNCHANGED <<snaps, mnt>>
  BY DEF CreateVolume
<1>2. source # None => Pinned(source, frozen)
  BY <1>1 DEF LifeInv, SnapsPinned
<1> HIDE DEF source, frozen
<1>3. pv'[n] = new /\ \A m \in Names : m # n => pv'[m] = pv[m]
  BY <1>1 DEF LifeInv, TypeOK
<1>4. mnt[n] = None
  BY <1>1 DEF LifeInv, MountsKept
<1>5. SnapsPinned'
  BY <1>1 DEF LifeInv, SnapsPinned
<1>6. ContextsKept'
  <2> SUFFICES ASSUME NEW m \in Names, pv'[m] # None
               PROVE  /\ pv'[m].class \in Classes /\ ParseOk(pv'[m].class)
                      /\ pv'[m].source # None => Pinned(pv'[m].source, pv'[m].frozen)
                      /\ pv'[m].ctx =
                           ToVolumeContext(WithSource(Parse(pv'[m].class), pv'[m].source))
    BY DEF ContextsKept, Asked
  <2>1. CASE m = n
    BY <1>1, <1>2, <1>3, <2>1
  <2>2. CASE m # n
    BY <1>3, <2>2 DEF LifeInv, ContextsKept, Asked
  <2> QED BY <2>1, <2>2
<1>7. MountsKept'
  BY <1>1, <1>3, <1>4 DEF LifeInv, MountsKept
<1> QED BY <1>5, <1>6, <1>7

\* node_publish_volume: the mount is made from the context.
LEMMA LifePublish ==
  ASSUME LifeInv, NEW n \in Names, NEW readonly \in BOOLEAN, NodePublishVolume(n, readonly)
  PROVE  SnapsPinned' /\ ContextsKept' /\ MountsKept'
<1> DEFINE p == Parse(pv[n].ctx)
           new == [spec |-> SpecOf(p, readonly), readonly |-> readonly,
                   lowers |-> Lowers(p.seeds), publishJson |-> pv[n].ctx]
<1>1. pv[n] # None /\ mnt' = [mnt EXCEPT ![n] = new] /\ UNCHANGED <<pv, snaps>>
  BY DEF NodePublishVolume
<1>2. SnapsPinned' /\ ContextsKept'
  BY <1>1 DEF LifeInv, SnapsPinned, ContextsKept, Asked
<1>3. mnt'[n] = new /\ \A m \in Names : m # n => mnt'[m] = mnt[m]
  BY <1>1 DEF LifeInv, TypeOK
<1>4. ASSUME pv[n].source # None, Parse(pv[n].class).seeds = <<>>
      PROVE  new.lowers = <<pv[n].source.pin>>
  <2>1. p.seeds = <<pv[n].source>>
    <3>1. p = WithSource(Parse(pv[n].class), pv[n].source)
      BY <1>1, ReadBack DEF LifeInv, Asked
    <3>2. Append(<<>>, pv[n].source) = <<pv[n].source>>
      OBVIOUS
    <3>3. WithSource(Parse(pv[n].class), pv[n].source).seeds
            = Append(Parse(pv[n].class).seeds, pv[n].source)
      BY <1>4 DEF WithSource, Parse
    <3> QED BY <1>4, <3>1, <3>2, <3>3
  <2>2. pv[n].source \in Refs /\ pv[n].source.pin \in Nat
    BY <1>1, <1>4 DEF LifeInv, ContextsKept, Pinned
  <2> QED BY <2>1, <2>2, LowersOfPinned
<1>5. MountsKept'
  <2> SUFFICES ASSUME NEW m \in Names, mnt'[m] # None
               PROVE  /\ pv'[m] # None
                      /\ mnt'[m].publishJson = pv'[m].ctx
                      /\ mnt'[m].spec = SpecOf(Parse(pv'[m].ctx), mnt'[m].readonly)
                      /\ pv'[m].source # None /\ Parse(pv'[m].class).seeds = <<>>
                           => mnt'[m].lowers = <<pv'[m].source.pin>>
    BY DEF MountsKept
  <2>1. CASE m = n
    <3> HIDE DEF new
    <3>1. /\ new.publishJson = pv[n].ctx /\ new.readonly = readonly
          /\ new.spec = SpecOf(Parse(pv[n].ctx), readonly)
      BY DEF new
    <3> QED BY <1>1, <1>3, <1>4, <2>1, <3>1
  <2>2. CASE m # n
    BY <1>1, <1>3, <2>2 DEF LifeInv, MountsKept
  <2> QED BY <2>1, <2>2
<1> QED BY <1>2, <1>5

\* create_snapshot: the id is pinned to what was pushed.
LEMMA LifeCreateSnapshot ==
  ASSUME LifeInv, NEW s \in SnapNames, NEW n \in Names, NEW class \in SnapClasses,
         CreateSnapshot(s, n, class)
  PROVE  SnapsPinned' /\ ContextsKept' /\ MountsKept'
<1> DEFINE target == SnapshotTarget(class, n, s)
           frozen == [view |-> View(upper[n], mnt[n].lowers), whole |-> mnt[n].lowers = <<>>]
           new == [id |-> PushedRef(target, upper[n]), frozen |-> frozen]
<1>1. /\ mnt[n] # None /\ target # None
      /\ snaps' = [snaps EXCEPT ![s] = new] \/ UNCHANGED snaps
      /\ UNCHANGED <<pv, mnt>>
  BY DEF CreateSnapshot
<1>2. upper[n] \in Nat
  BY <1>1 DEF LifeInv, TypeOK, Mounted
<1>3. target \in [repo : Repos, tag : Tags, pin : {ByTag}]
  <2>1. TagOf[s] \in Tags /\ PvcRepo[n] \in Repos
    BY ProvisionAssumption
  <2>2. \E repo \in Repos : target = TagRef(repo, TagOf[s])
    BY <1>1, <2>1, ProvisionAssumption DEF SnapshotTarget
  <2> HIDE DEF target
  <2> QED BY <2>1, <2>2 DEF TagRef
<1> HIDE DEF target
<1>4. PushedRef(target, upper[n]) \in Refs /\ PushedRef(target, upper[n]).pin = upper[n]
  BY <1>2, <1>3 DEF PushedRef, Refs
<1>5. frozen.whole => frozen.view = upper[n]
  BY <1>2, Views, ZenonT(30)
<1> HIDE DEF frozen
<1>6. Pinned(new.id, new.frozen)
  BY <1>2, <1>4, <1>5 DEF Pinned
<1> HIDE DEF new
<1>7. SnapsPinned'
  <2> SUFFICES ASSUME NEW z \in SnapNames, snaps'[z] # None
               PROVE  Pinned(snaps'[z].id, snaps'[z].frozen)
    BY DEF SnapsPinned
  <2>1. snaps'[z] = new \/ snaps'[z] = snaps[z]
    BY <1>1 DEF LifeInv, TypeOK
  <2> QED BY <1>6, <2>1 DEF LifeInv, SnapsPinned
<1>8. ContextsKept' /\ MountsKept'
  BY <1>1 DEF LifeInv, ContextsKept, MountsKept, Asked
<1> QED BY <1>7, <1>8

\* Every step keeps the life of volumes, snapshots and clones consistent.
LEMMA LifeStep == LifeInv /\ [Next]_vars => LifeInv'
<1> SUFFICES ASSUME LifeInv, [Next]_vars PROVE LifeInv'
  OBVIOUS
<1> USE DEF SnapsPinned, ContextsKept, MountsKept, Asked
<1>1. TypeOK'
  BY TypeStep DEF LifeInv
<1>2. ASSUME UNCHANGED <<pv, snaps, mnt>> PROVE SnapsPinned' /\ ContextsKept' /\ MountsKept'
  BY <1>2, Zenon DEF LifeInv
<1>3. ASSUME NEW n \in Names, DeleteVolume(n)
      PROVE  SnapsPinned' /\ ContextsKept' /\ MountsKept'
  <2>1. /\ mnt[n] = None /\ pv' = [pv EXCEPT ![n] = None] /\ UNCHANGED <<snaps, mnt>>
    BY <1>3 DEF DeleteVolume
  <2>2. pv'[n] = None /\ \A m \in Names : m # n => pv'[m] = pv[m]
    BY <2>1 DEF LifeInv, TypeOK
  <2> QED BY <2>1, <2>2 DEF LifeInv
<1>4. ASSUME NEW n \in Names, NodeUnpublishVolume(n)
      PROVE  SnapsPinned' /\ ContextsKept' /\ MountsKept'
  <2>1. mnt' = [mnt EXCEPT ![n] = None] /\ UNCHANGED <<snaps, pv>>
    BY <1>4 DEF NodeUnpublishVolume
  <2>2. \A m \in Names : mnt'[m] # None => mnt'[m] = mnt[m]
    BY <2>1 DEF LifeInv, TypeOK
  <2> QED BY <2>1, <2>2 DEF LifeInv
<1>5. ASSUME NEW s \in SnapNames, DeleteSnapshot(s)
      PROVE  SnapsPinned' /\ ContextsKept' /\ MountsKept'
  <2>1. snaps' = [snaps EXCEPT ![s] = None] /\ UNCHANGED <<mnt, pv>>
    BY <1>5 DEF DeleteSnapshot
  <2>2. \A z \in SnapNames : snaps'[z] # None => snaps'[z] = snaps[z]
    BY <2>1 DEF LifeInv, TypeOK
  <2> QED BY <2>1, <2>2 DEF LifeInv
<1>6. SnapsPinned' /\ ContextsKept' /\ MountsKept'
  <2> HIDE DEF SnapsPinned, ContextsKept, MountsKept
  <2>1. ASSUME NEW n \in Names, Write(n) PROVE UNCHANGED <<pv, snaps, mnt>>
    BY <2>1 DEF Write
  <2>2. ASSUME NEW r \in Seeds, MoveSeed(r) PROVE UNCHANGED <<pv, snaps, mnt>>
    BY <2>2 DEF MoveSeed
  <2>3. ASSUME UNCHANGED vars PROVE UNCHANGED <<pv, snaps, mnt>>
    BY <2>3 DEF vars
  <2> QED
    BY <1>2, <1>3, <1>4, <1>5, <2>1, <2>2, <2>3,
       LifeCreateVolume, LifePublish, LifeCreateSnapshot DEF Next
<1> QED BY <1>1, <1>6, Zenon DEF LifeInv

\* LifeInv is an invariant.
LEMMA LifeInvariant == Spec => []LifeInv
<1>1. Init => LifeInv
  BY DEF Init, LifeInv, TypeOK, Mounted, SnapsPinned, ContextsKept, MountsKept
<1> QED BY <1>1, LifeStep, PTL DEF Spec

\* The volume context loses nothing on its way from CreateVolume to the mount and
\* to the capture (params.rs, controller.rs:132, node.rs:132), for every class.
THEOREM ContextFaithful == Spec => []MountedAsAsked
<1>1. LifeInv => MountedAsAsked
  <2> SUFFICES ASSUME LifeInv, NEW n \in Names
               PROVE  /\ pv[n] # None => ParseOk(pv[n].ctx)
                      /\ mnt[n] # None => /\ mnt[n].spec = SpecOf(Asked(n), mnt[n].readonly)
                                          /\ Parse(mnt[n].publishJson) = Asked(n)
    BY ZenonT(30) DEF MountedAsAsked, Asked
  <2>1. pv[n] # None => ParseOk(pv[n].ctx) /\ Parse(pv[n].ctx) = Asked(n)
    BY ReadBack DEF LifeInv
  <2> QED BY <2>1 DEF LifeInv, MountsKept
<1> QED BY <1>1, LifeInvariant, PTL

\* A clone of a volume that had no lowers shows, until it is written to, what the
\* volume showed when it was frozen (controller.rs:93-101, node.rs:144-151).
THEOREM ClonesShow == Spec => []CloneOfWholeShowsSource
<1>1. LifeInv => CloneOfWholeShowsSource
  <2> SUFFICES ASSUME LifeInv, NEW n \in Mounted, pv[n].source # None, upper[n] = 0,
                      pv[n].frozen.whole, Parse(pv[n].class).seeds = <<>>
               PROVE  View(upper[n], mnt[n].lowers) = pv[n].frozen.view
    BY DEF CloneOfWholeShowsSource
  <2>1. pv[n] # None /\ mnt[n].lowers = <<pv[n].source.pin>>
    BY DEF LifeInv, MountsKept, Mounted
  <2>2. pv[n].source.pin \in Nat /\ pv[n].frozen.view = pv[n].source.pin
    BY <2>1 DEF LifeInv, ContextsKept, Pinned, Mounted
  <2> QED BY <2>1, <2>2, Views
<1> QED BY <1>1, LifeInvariant, PTL

=============================================================================
