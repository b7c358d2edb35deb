--------------------------- MODULE FreezePushProofs ---------------------------
(***************************************************************************)
(* Proofs about FreezePush, for any number of concurrent freezes of the    *)
(* volume, any names and any number of versions.                           *)
(***************************************************************************)
EXTENDS FreezePush, TLAPS

\* The time limits of a leaf that names no prover.
USE SMTT(30), ZenonT(30)

\* The markers are none of the versions, and differ from each other.
LEMMA Markers ==
  /\ Versions \subseteq Nat
  /\ 0 \in Versions
  /\ Mixed \notin Versions /\ None \notin Versions /\ ConfigBlob \notin Versions
  /\ None # Mixed /\ None # ConfigBlob /\ Mixed # ConfigBlob
  BY FreezeAssumption DEF Versions, Mixed, None, ConfigBlob

\* The workload's write gives another version of the upper.
LEMMA NextVersion ==
  ASSUME upper \in Versions, upper < MaxWrites
  PROVE  upper + 1 \in Versions
  BY FreezeAssumption DEF Versions

\* One step keeps every type.
LEMMA TypeStep == TypeOK /\ [Next]_vars => TypeOK'
  <1> SUFFICES ASSUME TypeOK, [Next]_vars PROVE TypeOK'
    OBVIOUS
  <1> USE Markers, FreezeAssumption
      DEF TypeOK, Goto, Fail, Contents, captureVars, callVars, registryVars
  <1>1. ASSUME NEW f \in Freezes, Freeze(f) PROVE TypeOK'
    <2>1. CASE Call(f) BY <2>1 DEF Call
    <2>2. CASE Connect(f) BY <2>2 DEF Connect
    <2>3. CASE Captured(f)
      <3>1. staging' \in Contents \cup {None} /\ writing' \subseteq Freezes
        BY <2>3 DEF Captured
      <3>2. pc' \in [Freezes -> {"idle", "connect", "capture", "read", "head", "put",
                                "config", "manifest", "cleanup", "hung", "done", "failed"}]
        BY <2>3 DEF Captured
      <3> QED BY <2>3, <3>1, <3>2 DEF Captured
    <2>4. CASE ReadStaging(f) BY <2>4 DEF ReadStaging
    <2>5. CASE HeadLayer(f) BY <2>5 DEF HeadLayer
    <2>6. CASE PutLayer(f)
      <3>1. bytes[f] \in Contents \cup {None} /\ digest[f] \in Versions
        OBVIOUS
      <3>2. blobs' \in [Versions \cup {ConfigBlob} -> Contents \cup {None, ConfigBlob}]
        BY <2>6, <3>1, Zenon DEF PutLayer
      <3>3. pc' \in [Freezes -> {"idle", "connect", "capture", "read", "head", "put",
                                "config", "manifest", "cleanup", "hung", "done", "failed"}]
        BY <2>6 DEF PutLayer
      <3> QED BY <2>6, <3>2, <3>3 DEF PutLayer
    <2>7. CASE PutConfig(f) BY <2>7 DEF PutConfig
    <2>8. CASE PutManifest(f) BY <2>8 DEF PutManifest
    <2>9. CASE Cleanup(f) BY <2>9 DEF Cleanup
    <2> QED BY <1>1, <2>1, <2>2, <2>3, <2>4, <2>5, <2>6, <2>7, <2>8, <2>9 DEF Freeze
  <1>2. ASSUME NEW f \in Freezes, StepFails(f) \/ Hang(f) \/ GiveUp(f) \/ Cancel(f)
        PROVE  TypeOK'
    BY <1>2 DEF StepFails, Hang, GiveUp, Cancel
  <1>3. CASE Write BY <1>3, NextVersion DEF Write
  <1>4. CASE DaemonStops BY <1>4, Zenon DEF DaemonStops
  <1>5. CASE DaemonStarts BY <1>5 DEF DaemonStarts
  <1>6. CASE CollectGarbage BY <1>6 DEF CollectGarbage
  <1>7. CASE UNCHANGED vars BY <1>7 DEF vars
  <1> QED BY <1>1, <1>2, <1>3, <1>4, <1>5, <1>6, <1>7 DEF Next

\* Type correctness for any number of concurrent freezes.
THEOREM TypeCorrect == Spec => []TypeOK
  <1>1. Init => TypeOK
    BY Markers DEF Init, TypeOK, Contents
  <1> QED BY <1>1, TypeStep, PTL DEF Spec

-----------------------------------------------------------------------------
(* What the registry holds *)

\* The registry compares what is put with its digest.
BlobsTrue ==
  /\ \A d \in Versions : blobs[d] \in {None, d}
  /\ blobs[ConfigBlob] \in {None, ConfigBlob}

\* A call past an upload finds the blob in place, as long as no garbage
\* collection takes it away before a manifest refers to it.
UploadsDone ==
  \A f \in Freezes :
    /\ pc[f] \in {"config", "manifest"} => Stored(digest[f])
    /\ pc[f] = "manifest" => Stored(ConfigBlob)

\* Every registry met verifies digests, and refuses manifests with missing blobs
\* unless it never takes a blob away.
RegistryIsSound == \A r \in Registries : r.verifies /\ (r.checks \/ ~r.collects)

RegistryInv ==
  /\ BlobsTrue
  /\ ManifestsComplete
  /\ registry.checks \/ UploadsDone

\* Every step keeps the registry consistent (registry.rs:278-318, 363-443).
LEMMA RegistryStep ==
  ASSUME RegistryIsSound, TypeOK, RegistryInv, [Next]_vars
  PROVE  RegistryInv'
  <1>0. registry.verifies /\ (registry.checks \/ ~registry.collects)
    BY DEF RegistryIsSound, TypeOK
  <1> USE <1>0, Markers, FreezeAssumption
      DEF RegistryInv, BlobsTrue, ManifestsComplete, UploadsDone, Stored, TypeOK,
          Goto, Fail, captureVars, callVars, registryVars
  <1>1. ASSUME NEW f \in Freezes, Freeze(f) PROVE RegistryInv'
    <2>1. CASE Call(f) BY <2>1 DEF Call
    <2>2. CASE Connect(f) BY <2>2 DEF Connect
    <2>3. CASE Captured(f) BY <2>3 DEF Captured
    <2>4. CASE ReadStaging(f) BY <2>4 DEF ReadStaging
    <2>5. CASE HeadLayer(f) BY <2>5 DEF HeadLayer
    <2>6. CASE PutLayer(f)
      <3>1. CASE bytes[f] = digest[f]
        <4>1. /\ pc[f] = "put" /\ pc' = [pc EXCEPT ![f] = "config"]
              /\ blobs' = [blobs EXCEPT ![digest[f]] = digest[f]]
              /\ digest[f] \in Versions
              /\ UNCHANGED <<digest, registry, manifests>>
          BY <2>6, <3>1 DEF PutLayer
        <4>2. \A d \in Versions \cup {ConfigBlob} :
                blobs'[d] = IF d = digest[f] THEN digest[f] ELSE blobs[d]
          BY <4>1
        <4>3. BlobsTrue'
          BY <4>1, <4>2
        <4>4. ManifestsComplete'
          BY <4>1, <4>2
        <4>5. UploadsDone => UploadsDone'
          BY <4>1, <4>2
        <4> QED BY <4>1, <4>3, <4>4, <4>5
      <3>2. CASE bytes[f] # digest[f] BY <2>6, <3>2 DEF PutLayer
      <3> QED BY <3>1, <3>2
    <2>7. CASE PutConfig(f) BY <2>7 DEF PutConfig
    <2>8. CASE PutManifest(f)
      <3>1. CASE pc'[f] = "cleanup"
        <4>1. /\ pc[f] = "manifest" /\ pc' = [pc EXCEPT ![f] = "cleanup"]
              /\ registry.checks => Stored(digest[f]) /\ Stored(ConfigBlob)
              /\ manifests' = manifests \cup {<<TagOf[f], digest[f]>>}
              /\ UNCHANGED <<registry, blobs, digest>>
          BY <2>8, <3>1 DEF PutManifest
        <4>2. blobs[digest[f]] = digest[f] /\ Stored(ConfigBlob)
          BY <4>1, Zenon
        <4>3. ManifestsComplete'
          BY <4>1, <4>2
        <4> QED BY <4>1, <4>3
      <3>2. CASE pc'[f] # "cleanup" BY <2>8, <3>2 DEF PutManifest
      <3> QED BY <3>1, <3>2
    <2>9. CASE Cleanup(f) BY <2>9 DEF Cleanup
    <2> QED BY <1>1, <2>1, <2>2, <2>3, <2>4, <2>5, <2>6, <2>7, <2>8, <2>9 DEF Freeze
  <1>2. ASSUME NEW f \in Freezes, StepFails(f) \/ Hang(f) \/ GiveUp(f) \/ Cancel(f)
        PROVE  RegistryInv'
    BY <1>2 DEF StepFails, Hang, GiveUp, Cancel
  <1>3. CASE Write \/ DaemonStarts BY <1>3 DEF Write, DaemonStarts
  <1>4. CASE DaemonStops BY <1>4 DEF DaemonStops
  <1>5. CASE CollectGarbage BY <1>5 DEF CollectGarbage, Referenced
  <1>6. CASE UNCHANGED vars BY <1>6 DEF vars
  <1> QED BY <1>1, <1>2, <1>3, <1>4, <1>5, <1>6 DEF Next

\* With a registry that verifies digests, and that either refuses manifests with
\* missing blobs or collects no garbage meanwhile, every manifest push_revision
\* leaves behind is complete, whatever the freezes do to each other's staging
\* file and wherever they are cut short.
THEOREM RegistryStaysComplete ==
  ASSUME RegistryIsSound
  PROVE  Spec => []ManifestsComplete
  <1>1. Init => RegistryInv
    BY Markers DEF Init, RegistryInv, BlobsTrue, ManifestsComplete, UploadsDone
  <1>2. TypeOK /\ RegistryInv /\ [Next]_vars => RegistryInv'
    BY RegistryStep
  <1>3. RegistryInv => ManifestsComplete
    BY DEF RegistryInv
  <1> QED BY <1>1, <1>2, <1>3, TypeCorrect, PTL DEF Spec

-----------------------------------------------------------------------------
(* What the callers are told *)

\* The captured version lies between the call and now, a call past its manifest
\* has it filed, and only a call that is done has answered.
AnswerInv ==
  \A f \in Freezes :
    /\ pc[f] # "idle" => since[f] <= upper
    /\ pc[f] \in {"capture", "read", "head", "put", "config", "manifest", "cleanup"}
       => since[f] <= digest[f] /\ digest[f] <= upper
    /\ pc[f] = "cleanup" => <<TagOf[f], digest[f]>> \in manifests
    /\ answer[f] # None =>
         /\ pc[f] = "done"
         /\ <<TagOf[f], answer[f]>> \in manifests
         /\ since[f] <= answer[f] /\ answer[f] <= upper

\* Every step keeps the answers in the window of their calls.
LEMMA AnswerStep == TypeOK /\ AnswerInv /\ [Next]_vars => AnswerInv'
  <1> SUFFICES ASSUME TypeOK, AnswerInv, [Next]_vars PROVE AnswerInv'
    OBVIOUS
  <1> USE Markers, FreezeAssumption
      DEF AnswerInv, TypeOK, Goto, Fail, captureVars, callVars, registryVars
  <1>1. ASSUME NEW f \in Freezes, Freeze(f) PROVE AnswerInv'
    <2>1. CASE Call(f) BY <2>1 DEF Call
    <2>2. CASE Connect(f)
      <3>1. CASE daemon
        <4>1. /\ pc[f] = "connect" /\ pc' = [pc EXCEPT ![f] = "capture"]
              /\ digest' = [digest EXCEPT ![f] = upper]
              /\ UNCHANGED <<upper, since, manifests, answer>>
          BY <2>2, <3>1 DEF Connect
        <4>2. upper \in Nat
          OBVIOUS
        <4> QED BY <4>1, <4>2
      <3>2. CASE ~daemon BY <2>2, <3>2 DEF Connect
      <3> QED BY <3>1, <3>2
    <2>3. CASE Captured(f) BY <2>3 DEF Captured
    <2>4. CASE ReadStaging(f) BY <2>4 DEF ReadStaging
    <2>5. CASE HeadLayer(f) BY <2>5 DEF HeadLayer
    <2>6. CASE PutLayer(f) BY <2>6 DEF PutLayer
    <2>7. CASE PutConfig(f) BY <2>7 DEF PutConfig
    <2>8. CASE PutManifest(f) BY <2>8 DEF PutManifest
    <2>9. CASE Cleanup(f) BY <2>9, Zenon DEF Cleanup
    <2> QED BY <1>1, <2>1, <2>2, <2>3, <2>4, <2>5, <2>6, <2>7, <2>8, <2>9 DEF Freeze
  <1>2. ASSUME NEW f \in Freezes, StepFails(f) \/ Hang(f) \/ GiveUp(f) \/ Cancel(f)
        PROVE  AnswerInv'
    BY <1>2 DEF StepFails, Hang, GiveUp, Cancel
  <1>3. CASE Write
    <2>1. /\ upper \in Nat /\ upper' = upper + 1
          /\ UNCHANGED <<pc, since, digest, manifests, answer>>
      BY <1>3 DEF Write
    <2>2. \A f \in Freezes : since[f] \in Nat /\ digest[f] \in Nat
      BY Zenon
    <2>3. \A f \in Freezes : answer[f] # None => answer[f] \in Nat
      BY Zenon
    <2>4. \A n \in Nat : n <= upper => n <= upper'
      BY <2>1
    <2> QED BY <2>1, <2>2, <2>3, <2>4
  <1>4. CASE DaemonStops BY <1>4 DEF DaemonStops
  <1>5. CASE DaemonStarts \/ CollectGarbage BY <1>5 DEF DaemonStarts, CollectGarbage
  <1>6. CASE UNCHANGED vars BY <1>6 DEF vars
  <1> QED BY <1>1, <1>2, <1>3, <1>4, <1>5, <1>6 DEF Next

\* Under the same assumptions on the registry, a reference returned to a caller
\* gives the upper as it was at some moment of that call (freeze.rs:20-48).
THEOREM SnapshotsAreFaithful ==
  ASSUME RegistryIsSound
  PROVE  Spec => []SnapshotFaithful
  <1>1. Init => AnswerInv
    BY Zenon DEF Init, AnswerInv
  <1>2. AnswerInv /\ ManifestsComplete => SnapshotFaithful
    BY Zenon DEF AnswerInv, ManifestsComplete, SnapshotFaithful
  <1> QED BY <1>1, <1>2, AnswerStep, TypeCorrect, RegistryStaysComplete, PTL DEF Spec

-----------------------------------------------------------------------------
(* The freezes implement the abstract store of snapshots *)

\* The stage of each state of a call.
LEMMA Stages ==
  /\ Stage["idle"] = "idle" /\ Stage["connect"] = "begun"
  /\ Stage["capture"] = "taken" /\ Stage["read"] = "taken" /\ Stage["head"] = "taken"
  /\ Stage["put"] = "taken" /\ Stage["config"] = "taken" /\ Stage["manifest"] = "taken"
  /\ Stage["cleanup"] = "stored" /\ Stage["done"] = "done"
  /\ Stage["hung"] = "failed" /\ Stage["failed"] = "failed"
  BY DEF Stage

\* A call that goes from one state to another changes its own stage only.
LEMMA Moves ==
  ASSUME TypeOK, NEW f \in Freezes, NEW to, pc' = [pc EXCEPT ![f] = to]
  PROVE  Progress[f] = Stage[pc[f]] /\ Progress' = [Progress EXCEPT ![f] = Stage[to]]
  BY Zenon DEF TypeOK, Progress

\* A call in progress that ends without an answer.
LEMMA FailsAlone ==
  ASSUME TypeOK, NEW f \in Freezes, pc[f] \notin {"idle", "done", "failed", "hung"},
         NEW to \in {"failed", "hung"}, pc' = [pc EXCEPT ![f] = to],
         UNCHANGED <<upper, digest, Pullable, answer>>
  PROVE  Snapshots!Next
  <1>1. Progress' = [Progress EXCEPT ![f] = "failed"]
    <2>1. Progress' = [Progress EXCEPT ![f] = Stage[to]]
      BY Moves, Zenon
    <2> QED BY <2>1, Stages, Zenon
  <1>2. Progress[f] \notin {"idle", "done", "failed"}
    BY Stages DEF Progress, TypeOK
  <1>3. Progress' = [c \in Freezes |-> IF c \in {f} THEN "failed" ELSE Progress[c]]
    BY <1>1 DEF Progress
  <1>4. Snapshots!Fail({f})
    BY <1>2, <1>3 DEF Snapshots!Fail
  <1>5. {f} \in SUBSET Freezes
    OBVIOUS
  <1> QED BY <1>4, <1>5 DEF Snapshots!Next

\* While every manifest is complete, all of them can be pulled.
LEMMA AllPullable == ManifestsComplete => Pullable = manifests
  BY DEF ManifestsComplete, Pullable

\* Every step is one of the abstract store, or changes nothing it shows.
LEMMA SnapshotStep ==
  ASSUME TypeOK, ManifestsComplete, ManifestsComplete', [Next]_vars
  PROVE  [Snapshots!Next]_(Snapshots!vars)
  <1>0. Pullable = manifests /\ Pullable' = manifests'
    BY AllPullable DEF ManifestsComplete, Pullable, Stored
  <1> USE <1>0 DEF Goto, Fail, captureVars, callVars, registryVars
  <1> DEFINE Same == UNCHANGED <<upper, Progress, digest, Pullable, answer>>
  <1>1. ASSUME Same PROVE [Snapshots!Next]_(Snapshots!vars)
    BY <1>1 DEF Snapshots!vars
  <1>2. ASSUME NEW f \in Freezes, Call(f) PROVE Snapshots!Begin(f)
    <2>1. pc[f] = "idle" /\ pc' = [pc EXCEPT ![f] = "connect"]
      BY <1>2 DEF Call
    <2>2. Progress[f] = "idle" /\ Progress' = [Progress EXCEPT ![f] = "begun"]
      <3>1. Progress[f] = Stage["idle"] /\ Progress' = [Progress EXCEPT ![f] = Stage["connect"]]
        BY <2>1, Moves, Zenon
      <3> QED BY <3>1, Stages, Zenon
    <2> QED BY <1>2, <2>2 DEF Call, Snapshots!Begin, Snapshots!Become
  <1>3. ASSUME NEW f \in Freezes, Connect(f) PROVE Snapshots!Next
    <2>1. CASE daemon
      <3>1. Snapshots!Take(f)
        BY <1>3, <2>1, Moves, Stages DEF Connect, Snapshots!Take, Snapshots!Become
      <3> QED BY <3>1 DEF Snapshots!Next
    <2>2. CASE ~daemon
      BY <1>3, <2>2, FailsAlone DEF Connect
    <2> QED BY <2>1, <2>2
  <1>4. ASSUME NEW f \in Freezes, Captured(f) PROVE Same
    <2>1. Progress' = Progress
      BY <1>4, Stages DEF Captured, TypeOK, Progress
    <2> QED BY <1>4, <2>1 DEF Captured
  <1>5. ASSUME NEW f \in Freezes, ReadStaging(f) PROVE Same \/ Snapshots!Next
    <2>1. CASE Goto(f, "read", "head")
      <3>1. Progress' = Progress
        BY <2>1, Stages DEF TypeOK, Progress
      <3> QED BY <1>5, <3>1 DEF ReadStaging
    <2>2. CASE pc[f] = "read" /\ Fail(f)
      BY <1>5, <2>2, FailsAlone, Zenon DEF ReadStaging
    <2> QED BY <1>5, <2>1, <2>2 DEF ReadStaging
  <1>6. ASSUME NEW f \in Freezes, HeadLayer(f) \/ PutConfig(f) PROVE Same
    <2>1. Progress' = Progress
      BY <1>6, Stages DEF HeadLayer, PutConfig, TypeOK, Progress
    <2> QED BY <1>6, <2>1 DEF HeadLayer, PutConfig
  <1>7. ASSUME NEW f \in Freezes, PutLayer(f) PROVE Same \/ Snapshots!Next
    <2>1. CASE Goto(f, "put", "config")
      <3>1. Progress' = Progress
        BY <2>1, Stages DEF TypeOK, Progress
      <3> QED BY <1>7, <3>1 DEF PutLayer
    <2>2. CASE pc[f] = "put" /\ Fail(f)
      BY <1>7, <2>2, FailsAlone, Zenon DEF PutLayer
    <2> QED BY <1>7, <2>1, <2>2 DEF PutLayer
  <1>8. ASSUME NEW f \in Freezes, PutManifest(f) PROVE Snapshots!Next
    <2>1. CASE Goto(f, "manifest", "cleanup")
      <3>1. manifests' = manifests \cup {<<TagOf[f], digest[f]>>}
        BY <1>8, <2>1 DEF PutManifest, TypeOK
      <3>2. Progress[f] = "taken" /\ Progress' = [Progress EXCEPT ![f] = "stored"]
        <4>1. /\ Progress[f] = Stage["manifest"]
              /\ Progress' = [Progress EXCEPT ![f] = Stage["cleanup"]]
          BY <2>1, Moves, Zenon
        <4> QED BY <4>1, Stages, Zenon
      <3>3. Snapshots!Store(f)
        BY <1>8, <3>1, <3>2 DEF PutManifest, Snapshots!Store, Snapshots!Become
      <3> QED BY <3>3 DEF Snapshots!Next
    <2>2. CASE pc[f] = "manifest" /\ Fail(f) /\ UNCHANGED manifests
      BY <1>8, <2>2, FailsAlone, Zenon DEF PutManifest
    <2> QED BY <1>8, <2>1, <2>2 DEF PutManifest
  <1>9. ASSUME NEW f \in Freezes, Cleanup(f) PROVE Snapshots!Answer(f)
    <2>1. pc[f] = "cleanup" /\ pc' = [pc EXCEPT ![f] = "done"]
      BY <1>9 DEF Cleanup
    <2>2. Progress[f] = "stored" /\ Progress' = [Progress EXCEPT ![f] = "done"]
      <3>1. Progress[f] = Stage["cleanup"] /\ Progress' = [Progress EXCEPT ![f] = Stage["done"]]
        BY <2>1, Moves, Zenon
      <3> QED BY <3>1, Stages, Zenon
    <2> QED BY <1>9, <2>2 DEF Cleanup, Snapshots!Answer, Snapshots!Become
  <1>10. ASSUME NEW f \in Freezes, StepFails(f) \/ Hang(f) PROVE Snapshots!Next
    BY <1>10, FailsAlone DEF StepFails, Hang
  <1>11. ASSUME NEW f \in Freezes, GiveUp(f) \/ Cancel(f) PROVE Same \/ Snapshots!Next
    <2>1. CASE pc[f] = "hung"
      <3>1. Progress' = Progress
        BY <1>11, <2>1, Stages DEF GiveUp, Cancel, TypeOK, Progress
      <3> QED BY <1>11, <3>1 DEF GiveUp, Cancel
    <2>2. CASE pc[f] # "hung"
      BY <1>11, <2>2, FailsAlone DEF GiveUp, Cancel
    <2> QED BY <2>1, <2>2
  <1>12. ASSUME Write PROVE Snapshots!Write
    BY <1>12 DEF Write, Snapshots!Write, Progress
  <1>13. ASSUME DaemonStops PROVE Snapshots!Next
    <2> DEFINE gone == {f \in Freezes : pc[f] = "capture"}
    <2>1. \A f \in gone : Progress[f] = "taken"
      BY Stages DEF Progress
    <2>2. Progress' = [f \in Freezes |-> IF f \in gone THEN "failed" ELSE Progress[f]]
      BY <1>13, Stages DEF DaemonStops, Progress
    <2>3. UNCHANGED <<upper, digest, manifests, answer>>
      BY <1>13 DEF DaemonStops
    <2> HIDE DEF gone
    <2>4. Snapshots!Fail(gone)
      BY <2>1, <2>2, <2>3 DEF Snapshots!Fail
    <2> QED BY <2>4 DEF Snapshots!Next, gone
  <1>14. ASSUME DaemonStarts \/ CollectGarbage \/ UNCHANGED vars PROVE Same
    BY <1>14 DEF DaemonStarts, CollectGarbage, vars, Progress
  <1> HIDE DEF Same
  <1>15. ASSUME NEW f \in Freezes, Freeze(f) PROVE Same \/ Snapshots!Next
    BY <1>15, <1>2, <1>3, <1>4, <1>5, <1>6, <1>7, <1>8, <1>9 DEF Freeze, Snapshots!Next
  <1>16. Same \/ Snapshots!Next
    BY <1>10, <1>11, <1>12, <1>13, <1>14, <1>15 DEF Next, Snapshots!Next
  <1> QED BY <1>1, <1>16

\* With a registry whose blobs can be relied on, freeze_and_push implements the
\* abstract store (freeze.rs:20-48, registry.rs:363-443), for any number of
\* concurrent calls, cut short wherever they are.
THEOREM FreezesImplementSnapshots ==
  ASSUME RegistryIsSound
  PROVE  Spec => ImplementsSnapshots
  <1>1. Init => Snapshots!Init
    BY Stages DEF Init, Snapshots!Init, Progress, Pullable
  <1>2. TypeOK /\ ManifestsComplete /\ ManifestsComplete' /\ [Next]_vars
          => [Snapshots!Next]_(Snapshots!vars)
    BY SnapshotStep
  <1> QED BY <1>1, <1>2, TypeCorrect, RegistryStaysComplete, PTL
          DEF Spec, ImplementsSnapshots, Snapshots!Spec

=============================================================================
